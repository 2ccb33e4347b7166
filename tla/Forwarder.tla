----------------------------- MODULE Forwarder -----------------------------
(***************************************************************************)
(* internal/engine/forwarder.go: guests dial the bridge, the forwarder     *)
(* dials the broker for each of them and copies both ways until one side   *)
(* hangs up or the forwarder is closed.                                    *)
(*                                                                         *)
(* The goroutines are accept, one relay per accepted guest, two copies per *)
(* relay and the callers of Close.  A section under f.mu that touches only *)
(* the forwarder's fields is one step; Close holds f.mu over several, and  *)
(* the goroutines that take no lock run between them.  Of what is relayed  *)
(* only this is kept: a copy is in a read or in a write, no deadline ends  *)
(* either, and a write waits for its peer to read.                         *)
(***************************************************************************)
EXTENDS Naturals

CONSTANTS
  Guests,   \* connections guests make to the bridge
  Closers,  \* callers of Close
  NoOne

ASSUME ForwarderAssumption == NoOne \notin Closers /\ "accept" \notin Guests

VARIABLES
  listening,  \* f.ln is open
  backlog,    \* guests connected to the listener and not accepted yet
  socket,     \* the forwarder's end of each connection
  hungUp,     \* connections the peer has ended
  conns,      \* f.conns
  closed,     \* f.closed
  mu,         \* the caller of Close that holds f.mu
  wg,         \* goroutines f.wg counts: Add puts one in, Done takes it out
  acceptor, relay, copier, closer,  \* where each goroutine is
  done        \* values in a relay's done channel

vars == <<listening, backlog, socket, hungUp, conns, closed, mu, wg,
          acceptor, relay, copier, closer, done>>

Sides == {"guest", "broker"}
Conns == Sides \X Guests

Other(c) == <<IF c[1] = "guest" THEN "broker" ELSE "guest", c[2]>>
Both(g) == Sides \X {g}

\* the capacity of done: one value for each copy
DoneCap == 2

RelayPoints == {"none", "trackGuest", "dial", "trackBroker", "copying", "dropBroker",
                "closeBroker", "dropGuest", "closeGuest", "returning", "gone"}

TypeOK ==
  /\ listening \in BOOLEAN /\ closed \in BOOLEAN
  /\ backlog \subseteq Guests
  /\ socket \in [Conns -> {"none", "open", "closed"}]
  /\ hungUp \subseteq Conns /\ conns \subseteq Conns
  /\ mu \in Closers \cup {NoOne}
  /\ wg \subseteq Guests \cup {"accept"}
  /\ acceptor \in {"accepting", "failed", "returned"}
  /\ relay \in [Guests -> RelayPoints]
  /\ copier \in [Conns -> {"none", "reading", "writing", "sending", "gone"}]
  /\ closer \in [Closers -> {"idle", "listener", "conns", "waiting", "waited", "early"}]
  /\ done \in [Guests -> 0..DoneCap]

-----------------------------------------------------------------------------
(* The accept goroutine.                                                   *)

\* Mutant of Accept: the relay is started without wg.Add.
AcceptUncounted(g) ==
  /\ acceptor = "accepting" /\ listening /\ g \in backlog
  /\ backlog' = backlog \ {g}
  /\ socket' = [socket EXCEPT ![<<"guest", g>>] = "open"]
  /\ relay' = [relay EXCEPT ![g] = "trackGuest"]
  /\ UNCHANGED <<listening, hungUp, conns, closed, mu, wg, acceptor, copier, closer, done>>

\* Accept returns a connection; wg.Add(1) comes before the relay is started.
Accept(g) ==
  /\ acceptor = "accepting" /\ listening /\ g \in backlog
  /\ backlog' = backlog \ {g}
  /\ socket' = [socket EXCEPT ![<<"guest", g>>] = "open"]
  /\ wg' = wg \cup {g}
  /\ relay' = [relay EXCEPT ![g] = "trackGuest"]
  /\ UNCHANGED <<listening, hungUp, conns, closed, mu, acceptor, copier, closer, done>>

\* Accept fails: for good once the listener is closed, now and then before, with
\* or without taking a connection off the backlog.
AcceptFails ==
  /\ acceptor = "accepting"
  /\ acceptor' = "failed"
  /\ \E lost \in SUBSET backlog : backlog' = backlog \ lost
  /\ UNCHANGED <<listening, socket, hungUp, conns, closed, mu, wg, relay, copier, closer, done>>

\* Mutant of AfterFailure: any failed Accept ends the loop.
AfterFailureReturns ==
  /\ acceptor = "failed" /\ mu = NoOne
  /\ acceptor' = "returned" /\ wg' = wg \ {"accept"}
  /\ UNCHANGED <<listening, backlog, socket, hungUp, conns, closed, mu, relay, copier, closer, done>>

\* Mutant of AfterFailure: wg.Done is called in the loop, not deferred.
AfterFailureDone ==
  /\ acceptor = "failed" /\ mu = NoOne
  /\ wg' = wg \ {"accept"}
  /\ acceptor' = IF closed THEN "returned" ELSE "accepting"
  /\ UNCHANGED <<listening, backlog, socket, hungUp, conns, closed, mu, relay, copier, closer, done>>

AfterFailure ==
  /\ acceptor = "failed" /\ mu = NoOne
  /\ IF closed THEN acceptor' = "returned" /\ wg' = wg \ {"accept"}
               ELSE acceptor' = "accepting" /\ UNCHANGED wg
  /\ UNCHANGED <<listening, backlog, socket, hungUp, conns, closed, mu, relay, copier, closer, done>>

-----------------------------------------------------------------------------
(* relay, for one guest.                                                   *)

RelayTo(g, point) == relay' = [relay EXCEPT ![g] = point]

CloseSocket(c) == socket' = [socket EXCEPT ![c] = "closed"]

\* Mutant of TrackGuest: track does not look at f.closed.
TrackGuestAnyway(g) ==
  /\ relay[g] = "trackGuest" /\ mu = NoOne
  /\ conns' = conns \cup {<<"guest", g>>} /\ RelayTo(g, "dial")
  /\ UNCHANGED <<listening, backlog, socket, hungUp, closed, mu, wg, acceptor, copier, closer, done>>

\* track(guest), and guest.Close() when the forwarder is closing
TrackGuest(g) ==
  /\ relay[g] = "trackGuest" /\ mu = NoOne
  /\ IF closed THEN CloseSocket(<<"guest", g>>) /\ RelayTo(g, "returning") /\ UNCHANGED conns
               ELSE conns' = conns \cup {<<"guest", g>>} /\ RelayTo(g, "dial") /\ UNCHANGED socket
  /\ UNCHANGED <<listening, backlog, hungUp, closed, mu, wg, acceptor, copier, closer, done>>

\* Mutant of Dial: a failed dial returns without releasing the guest.
DialForgetsGuest(g) ==
  /\ relay[g] = "dial"
  /\ \/ RelayTo(g, "trackBroker") /\ socket' = [socket EXCEPT ![<<"broker", g>>] = "open"]
     \/ RelayTo(g, "returning") /\ UNCHANGED socket
  /\ UNCHANGED <<listening, backlog, hungUp, conns, closed, mu, wg, acceptor, copier, closer, done>>

\* net.DialTimeout; the guest is released by the deferred call when it fails
Dial(g) ==
  /\ relay[g] = "dial"
  /\ \/ RelayTo(g, "trackBroker") /\ socket' = [socket EXCEPT ![<<"broker", g>>] = "open"]
     \/ RelayTo(g, "dropGuest") /\ UNCHANGED socket
  /\ UNCHANGED <<listening, backlog, hungUp, conns, closed, mu, wg, acceptor, copier, closer, done>>

\* track(broker), then the two copies start
TrackBroker(g) ==
  /\ relay[g] = "trackBroker" /\ mu = NoOne
  /\ IF closed
       THEN /\ CloseSocket(<<"broker", g>>) /\ RelayTo(g, "dropGuest")
            /\ UNCHANGED <<conns, copier>>
       ELSE /\ conns' = conns \cup {<<"broker", g>>} /\ RelayTo(g, "copying")
            /\ copier' = [c \in Conns |-> IF c \in Both(g) THEN "reading" ELSE copier[c]]
            /\ UNCHANGED socket
  /\ UNCHANGED <<listening, backlog, hungUp, closed, mu, wg, acceptor, closer, done>>

\* Mutant of FirstDone: the broker's release is not deferred.
FirstDoneKeepsBroker(g) ==
  /\ relay[g] = "copying" /\ done[g] > 0
  /\ done' = [done EXCEPT ![g] = @ - 1]
  /\ RelayTo(g, "dropGuest")
  /\ UNCHANGED <<listening, backlog, socket, hungUp, conns, closed, mu, wg, acceptor, copier, closer>>

\* <-done
FirstDone(g) ==
  /\ relay[g] = "copying" /\ done[g] > 0
  /\ done' = [done EXCEPT ![g] = @ - 1]
  /\ RelayTo(g, "dropBroker")
  /\ UNCHANGED <<listening, backlog, socket, hungUp, conns, closed, mu, wg, acceptor, copier, closer>>

\* release, once for the broker and once for the guest: out of the map under
\* f.mu, then closed without it
Drop(g, side, from, to) ==
  /\ relay[g] = from /\ mu = NoOne
  /\ conns' = conns \ {<<side, g>>}
  /\ RelayTo(g, to)
  /\ UNCHANGED <<listening, backlog, socket, hungUp, closed, mu, wg, acceptor, copier, closer, done>>

\* Mutant of Shut: release forgets the connection and does not close it.
ShutForgets(g, side, from, to) ==
  /\ relay[g] = from
  /\ RelayTo(g, to)
  /\ UNCHANGED <<listening, backlog, socket, hungUp, conns, closed, mu, wg, acceptor, copier, closer, done>>

Shut(g, side, from, to) ==
  /\ relay[g] = from
  /\ CloseSocket(<<side, g>>)
  /\ RelayTo(g, to)
  /\ UNCHANGED <<listening, backlog, hungUp, conns, closed, mu, wg, acceptor, copier, closer, done>>

Release(g) ==
  \/ Drop(g, "broker", "dropBroker", "closeBroker") \/ Shut(g, "broker", "closeBroker", "dropGuest")
  \/ Drop(g, "guest", "dropGuest", "closeGuest") \/ Shut(g, "guest", "closeGuest", "returning")

\* the deferred wg.Done, last of all
RelayReturns(g) ==
  /\ relay[g] = "returning"
  /\ wg' = wg \ {g}
  /\ RelayTo(g, "gone")
  /\ UNCHANGED <<listening, backlog, socket, hungUp, conns, closed, mu, acceptor, copier, closer, done>>

Relay(g) == TrackGuest(g) \/ Dial(g) \/ TrackBroker(g) \/ FirstDone(g) \/ Release(g) \/ RelayReturns(g)

-----------------------------------------------------------------------------
(* io.Copy from c to the other side, and the send that reports its end.    *)

CopyTo(c, point) == copier' = [copier EXCEPT ![c] = point]

\* The read returns what the peer sent, some of it before it hung up.
CopyReads(c) ==
  /\ copier[c] = "reading" /\ socket[c] = "open"
  /\ CopyTo(c, "writing")
  /\ UNCHANGED <<listening, backlog, socket, hungUp, conns, closed, mu, wg, acceptor, relay, closer, done>>

\* The write returns: the other peer has taken what was read.
CopyWrites(c) ==
  /\ copier[c] = "writing" /\ socket[Other(c)] = "open"
  /\ CopyTo(c, "reading")
  /\ UNCHANGED <<listening, backlog, socket, hungUp, conns, closed, mu, wg, acceptor, relay, closer, done>>

\* The read ends the copy: the peer hung up, or the forwarder closed c.
CopyEnds(c) ==
  /\ copier[c] = "reading" /\ (c \in hungUp \/ socket[c] = "closed")
  /\ CopyTo(c, "sending")
  /\ UNCHANGED <<listening, backlog, socket, hungUp, conns, closed, mu, wg, acceptor, relay, closer, done>>

\* The write ends it.
CopyFails(c) ==
  /\ copier[c] = "writing" /\ (Other(c) \in hungUp \/ socket[Other(c)] = "closed")
  /\ CopyTo(c, "sending")
  /\ UNCHANGED <<listening, backlog, socket, hungUp, conns, closed, mu, wg, acceptor, relay, closer, done>>

Copy(c) == CopyReads(c) \/ CopyWrites(c) \/ CopyEnds(c) \/ CopyFails(c)

SendDone(c) ==
  /\ copier[c] = "sending" /\ done[c[2]] < DoneCap
  /\ done' = [done EXCEPT ![c[2]] = @ + 1]
  /\ CopyTo(c, "gone")
  /\ UNCHANGED <<listening, backlog, socket, hungUp, conns, closed, mu, wg, acceptor, relay, closer>>

-----------------------------------------------------------------------------
(* Close.                                                                  *)

\* Only the first caller goes on; the others are told nil at once.
CloseBegins(x) ==
  /\ closer[x] = "idle" /\ mu = NoOne
  /\ closed' = TRUE
  /\ IF closed THEN closer' = [closer EXCEPT ![x] = "early"] /\ UNCHANGED mu
               ELSE closer' = [closer EXCEPT ![x] = "listener"] /\ mu' = x
  /\ UNCHANGED <<listening, backlog, socket, hungUp, conns, wg, acceptor, relay, copier, done>>

\* f.ln.Close(): whoever is still in the backlog is reset
CloseListener(x) ==
  /\ closer[x] = "listener"
  /\ listening' = FALSE /\ backlog' = {}
  /\ closer' = [closer EXCEPT ![x] = "conns"]
  /\ UNCHANGED <<socket, hungUp, conns, closed, mu, wg, acceptor, relay, copier, done>>

\* c.Close() for each of f.conns, some of them closed already
CloseConn(x) ==
  /\ closer[x] = "conns"
  /\ \E c \in conns : socket[c] = "open" /\ CloseSocket(c)
  /\ UNCHANGED <<listening, backlog, hungUp, conns, closed, mu, wg, acceptor, relay, copier, closer, done>>

\* Mutant of CloseUnlocks: Close waits for the peers to disconnect.
CloseUnlocksSoon(x) ==
  /\ closer[x] = "conns"
  /\ mu' = NoOne
  /\ closer' = [closer EXCEPT ![x] = "waiting"]
  /\ UNCHANGED <<listening, backlog, socket, hungUp, conns, closed, wg, acceptor, relay, copier, done>>

CloseUnlocks(x) ==
  /\ closer[x] = "conns" /\ \A c \in conns : socket[c] = "closed"
  /\ mu' = NoOne
  /\ closer' = [closer EXCEPT ![x] = "waiting"]
  /\ UNCHANGED <<listening, backlog, socket, hungUp, conns, closed, wg, acceptor, relay, copier, done>>

\* Mutant of CloseWaited: Close returns without f.wg.Wait().
CloseWaitedNot(x) ==
  /\ closer[x] = "waiting"
  /\ closer' = [closer EXCEPT ![x] = "waited"]
  /\ UNCHANGED <<listening, backlog, socket, hungUp, conns, closed, mu, wg, acceptor, relay, copier, done>>

\* f.wg.Wait()
CloseWaited(x) ==
  /\ closer[x] = "waiting" /\ wg = {}
  /\ closer' = [closer EXCEPT ![x] = "waited"]
  /\ UNCHANGED <<listening, backlog, socket, hungUp, conns, closed, mu, wg, acceptor, relay, copier, done>>

CloseGoesOn(x) == CloseListener(x) \/ CloseConn(x) \/ CloseUnlocks(x) \/ CloseWaited(x)

-----------------------------------------------------------------------------
(* The two peers.                                                          *)

GuestDials(g) ==
  /\ listening /\ relay[g] = "none" /\ g \notin backlog
  /\ backlog' = backlog \cup {g}
  /\ UNCHANGED <<listening, socket, hungUp, conns, closed, mu, wg, acceptor, relay, copier, closer, done>>

HangUp(c) ==
  /\ socket[c] = "open" /\ c \notin hungUp
  /\ hungUp' = hungUp \cup {c}
  /\ UNCHANGED <<listening, backlog, socket, conns, closed, mu, wg, acceptor, relay, copier, closer, done>>

-----------------------------------------------------------------------------
\* StartForwarder: the listener is bound, wg.Add(1) is done, accept started.
Init ==
  /\ listening = TRUE /\ backlog = {}
  /\ socket = [c \in Conns |-> "none"]
  /\ hungUp = {} /\ conns = {} /\ closed = FALSE /\ mu = NoOne
  /\ wg = {"accept"} /\ acceptor = "accepting"
  /\ relay = [g \in Guests |-> "none"]
  /\ copier = [c \in Conns |-> "none"]
  /\ closer = [x \in Closers |-> "idle"]
  /\ done = [g \in Guests |-> 0]

Next ==
  \/ AcceptFails \/ AfterFailure
  \/ \E g \in Guests : Accept(g) \/ Relay(g) \/ GuestDials(g)
  \/ \E c \in Conns : Copy(c) \/ SendDone(c) \/ HangUp(c)
  \/ \E x \in Closers : CloseBegins(x) \/ CloseGoesOn(x)

Spec == Init /\ [][Next]_vars

-----------------------------------------------------------------------------
(* Properties.                                                             *)

Live(g) == relay[g] \notin {"none", "gone"}

\* Once Close has let go of f.mu there is no connection in f.conns it has not
\* closed, and none is added: a relay that was dialling the broker meanwhile
\* finds out from track.  A miss would block wg.Wait for as long as the layer
\* lives (Close, forwarder.go:139).
ShutdownMissesNone ==
  closed /\ mu = NoOne => \A c \in conns : socket[c] = "closed"

\* The caller of Close that waited returns to a forwarder with nothing going on:
\* no listener, no goroutine of the wait group, no open socket, an empty map
\* (Close: "stops accepting and tears down connections in flight").
NothingLeft ==
  \A x \in Closers : closer[x] = "waited" =>
    /\ ~listening /\ acceptor = "returned" /\ conns = {}
    /\ \A g \in Guests : ~Live(g)
    /\ \A c \in Conns : socket[c] # "open"

\* A relay that is over leaks nothing, by whichever return it left: both its
\* sockets are closed and out of f.conns (relay, release).
NoLeak ==
  \A g \in Guests : relay[g] = "gone" =>
    \A c \in Both(g) : c \notin conns /\ socket[c] # "open"

\* wg.Add is never called on a wait group that has already come down to zero,
\* while Close may be in wg.Wait (sync.WaitGroup forbids it).
NeverRevived == [][wg = {} => wg' = {}]_vars

-----------------------------------------------------------------------------
(* Why they hold: where a relay is says what it has open and tracked, the  *)
(* wait group counts who is under way, and Close goes forward only.        *)

GuestTracked == {"dial", "trackBroker", "copying", "dropBroker", "closeBroker", "dropGuest"}
BrokerTracked == {"copying", "dropBroker"}

\* points at which the relay answers for an open socket to the guest, the broker
GuestHeld == GuestTracked \cup {"trackGuest", "closeGuest"}
BrokerHeld == BrokerTracked \cup {"trackBroker", "closeBroker"}

RelayHolds(g) ==
  /\ g \in backlog => relay[g] = "none"
  /\ <<"guest", g>> \in conns <=> relay[g] \in GuestTracked
  /\ <<"broker", g>> \in conns <=> relay[g] \in BrokerTracked
  /\ socket[<<"guest", g>>] = "open" => relay[g] \in GuestHeld
  /\ socket[<<"broker", g>>] = "open" => relay[g] \in BrokerHeld
  /\ socket[<<"guest", g>>] = "none" => relay[g] = "none"
  /\ socket[<<"broker", g>>] = "none" => relay[g] \notin BrokerHeld
  /\ g \in wg <=> Live(g)

CloserHolds(x) ==
  /\ mu = x <=> closer[x] \in {"listener", "conns"}
  /\ closer[x] # "idle" => closed
  /\ closer[x] \in {"conns", "waiting", "waited"} => ~listening
  /\ closer[x] = "waited" => wg = {}

IInv ==
  /\ TypeOK
  /\ \A g \in Guests : RelayHolds(g)
  /\ \A x \in Closers : CloserHolds(x)
  /\ "accept" \in wg <=> acceptor # "returned"
  /\ ShutdownMissesNone

-----------------------------------------------------------------------------
(* Liveness.  Goroutines that can run do, a dial ends because of           *)
(* brokerDialTimeout, and Accept does not fail for ever on an open         *)
(* listener.  No peer has to hang up, and nobody has to call Close.  A     *)
(* peer that hung up sent only so much before, so its copy, back in a read *)
(* time and again, comes to the end (SF).  No peer has to read, so a write *)
(* need not return: only a socket the forwarder itself closed ends it.     *)

Fairness ==
  /\ WF_vars(AfterFailure)
  /\ WF_vars(AcceptFails /\ ~listening)
  /\ \A g \in Guests : SF_vars(Accept(g)) /\ WF_vars(Relay(g))
  /\ \A c \in Conns :
       /\ SF_vars(CopyEnds(c))
       /\ WF_vars(CopyFails(c) /\ socket[Other(c)] = "closed")
       /\ WF_vars(SendDone(c))
  /\ \A x \in Closers : WF_vars(CloseGoesOn(x))

FairSpec == Spec /\ Fairness

\* Nobody waits in the backlog for ever: a failing Accept ends accept only when
\* the forwarder is closed (accept: "any other error belongs to that one
\* connection, so keep serving").
GuestsAnswered == \A g \in Guests : g \in backlog ~> g \notin backlog

\* Close returns although no guest and no broker ever hangs up (forwarder.go:140:
\* "waiting for clients to disconnect on their own is not an option").
CloseReturns == \A x \in Closers : closer[x] = "listener" ~> closer[x] = "waited"

\* No write of the copy from c waits for ever: the other peer reads.
WritesReturn(c) == []<>(copier[c] # "writing")

\* When one side hangs up, the other is cut too (relay: "wait for whichever side
\* hangs up first; closing both then unblocks the copy still running") - unless
\* the copy is in a write the other peer never takes: it has no deadline and
\* hears nothing of the hang-up, and both connections stay (forwarder.go:97, 102).
HangUpEndsBoth ==
  \A c \in Conns :
    WritesReturn(c) =>
      (c \in hungUp /\ copier[c] \in {"reading", "writing"}
         ~> \A d \in Both(c[2]) : socket[d] = "closed")

\* No copy outlives its relay for good, blocked in a read, a write or its send.
CopiesEnd == \A g \in Guests : relay[g] = "gone" ~> \A c \in Both(g) : copier[c] \in {"none", "gone"}
=============================================================================
