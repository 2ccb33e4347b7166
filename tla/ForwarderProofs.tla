-------------------------- MODULE ForwarderProofs --------------------------
(***************************************************************************)
(* Forwarder for every set of guests and of callers of Close: the          *)
(* invariant IInv, and from it that a finished Close leaves nothing behind *)
(* and that no relay leaks.                                                *)
(***************************************************************************)
EXTENDS Forwarder, TLAPS

\* The connections, one by one.
LEMMA Pairs ==
  /\ \A g \in Guests : <<"guest", g>> \in Conns /\ <<"broker", g>> \in Conns
  /\ \A c \in Conns : \E g \in Guests : c = <<"guest", g>> \/ c = <<"broker", g>>
  /\ \A c \in Conns : c[2] \in Guests
BY DEF Conns, Sides

\* StartForwarder leaves a well-typed forwarder.
LEMMA InitType == Init => TypeOK
<1> SUFFICES ASSUME Init PROVE TypeOK
  OBVIOUS
<1>1. listening \in BOOLEAN /\ closed \in BOOLEAN
  BY DEF Init
<1>2. /\ backlog \subseteq Guests /\ hungUp \subseteq Conns /\ conns \subseteq Conns
      /\ mu \in Closers \cup {NoOne} /\ wg \subseteq Guests \cup {"accept"}
      /\ acceptor \in {"accepting", "failed", "returned"}
  BY DEF Init
<1>3. /\ socket \in [Conns -> {"none", "open", "closed"}]
      /\ relay \in [Guests -> RelayPoints]
      /\ copier \in [Conns -> {"none", "reading", "writing", "sending", "gone"}]
      /\ closer \in [Closers -> {"idle", "listener", "conns", "waiting", "waited", "early"}]
      /\ done \in [Guests -> 0..DoneCap]
  BY DEF Init, RelayPoints, DoneCap
<1> QED
  BY <1>1, <1>2, <1>3 DEF TypeOK

\* Closing a connection keeps the socket table's type (c.Close).
LEMMA CloseSocketType ==
  ASSUME TypeOK, NEW c \in Conns, CloseSocket(c)
  PROVE  socket' \in [Conns -> {"none", "open", "closed"}]
BY DEF TypeOK, CloseSocket

\* A relay moves between its own control points.
LEMMA RelayToType ==
  ASSUME TypeOK, NEW g \in Guests, NEW point \in RelayPoints, RelayTo(g, point)
  PROVE  relay' \in [Guests -> RelayPoints]
BY DEF TypeOK, RelayTo

\* Every step of every goroutine keeps the types.
LEMMA TypeStep == TypeOK /\ [Next]_vars => TypeOK'
<1> SUFFICES ASSUME TypeOK, [Next]_vars PROVE TypeOK'
  OBVIOUS
<1> USE Pairs DEF TypeOK, RelayPoints, DoneCap
<1>1. CASE AcceptFails \/ AfterFailure
  BY <1>1 DEF AcceptFails, AfterFailure
<1>2. ASSUME NEW g \in Guests, Accept(g) \/ GuestDials(g) PROVE TypeOK'
  BY <1>2 DEF Accept, GuestDials
<1>3. ASSUME NEW g \in Guests, Relay(g) PROVE TypeOK'
  <2>1. CASE TrackGuest(g)
    <3>1. CASE closed
      <4>1. socket' \in [Conns -> {"none", "open", "closed"}] /\ relay' \in [Guests -> RelayPoints]
        BY <2>1, <3>1, CloseSocketType, RelayToType DEF TrackGuest
      <4> QED
        BY <2>1, <3>1, <4>1 DEF TrackGuest
    <3>2. CASE ~closed
      <4>1. conns' \subseteq Conns
        BY <2>1, <3>2 DEF TrackGuest
      <4>2. relay' \in [Guests -> RelayPoints]
        BY <2>1, <3>2, RelayToType DEF TrackGuest
      <4> QED
        BY <2>1, <3>2, <4>1, <4>2 DEF TrackGuest
    <3> QED
      BY <3>1, <3>2
  <2>2. CASE Dial(g)
    BY <2>2 DEF Dial, RelayTo
  <2>3. CASE TrackBroker(g)
    <3>1. CASE closed
      <4>1. socket' \in [Conns -> {"none", "open", "closed"}] /\ relay' \in [Guests -> RelayPoints]
        BY <2>3, <3>1, CloseSocketType, RelayToType DEF TrackBroker
      <4> QED
        BY <2>3, <3>1, <4>1 DEF TrackBroker
    <3>2. CASE ~closed
      <4>1. conns' \subseteq Conns
        BY <2>3, <3>2 DEF TrackBroker
      <4>2. relay' \in [Guests -> RelayPoints]
        BY <2>3, <3>2, RelayToType DEF TrackBroker
      <4>3. copier' \in [Conns -> {"none", "reading", "writing", "sending", "gone"}]
        BY <2>3, <3>2 DEF TrackBroker
      <4> QED
        BY <2>3, <3>2, <4>1, <4>2, <4>3 DEF TrackBroker
    <3> QED
      BY <3>1, <3>2
  <2>4. CASE FirstDone(g)
    BY <2>4 DEF FirstDone, RelayTo
  <2>5. ASSUME NEW side \in Sides, NEW from, NEW to \in RelayPoints,
               Drop(g, side, from, to) \/ Shut(g, side, from, to)
        PROVE  TypeOK'
    <3>1. <<side, g>> \in Conns
      BY DEF Conns
    <3>2. conns' \subseteq Conns
      BY <2>5 DEF Drop, Shut
    <3>3. socket' \in [Conns -> {"none", "open", "closed"}]
      BY <2>5 DEF Drop, Shut, CloseSocket
    <3>4. relay' \in [Guests -> RelayPoints]
      BY <2>5 DEF Drop, Shut, RelayTo
    <3> QED
      BY <2>5, <3>2, <3>3, <3>4 DEF Drop, Shut
  <2>6. CASE Release(g)
    BY <2>5, <2>6 DEF Release, Sides
  <2>7. CASE RelayReturns(g)
    BY <2>7 DEF RelayReturns, RelayTo
  <2> QED
    BY <1>3, <2>7, <2>1, <2>2, <2>3, <2>4, <2>5, <2>6 DEF Relay
<1>4. ASSUME NEW c \in Conns, Copy(c) \/ SendDone(c) \/ HangUp(c) PROVE TypeOK'
  <2>1. CASE Copy(c)
    <3>1. copier' \in [Conns -> {"none", "reading", "writing", "sending", "gone"}]
      BY <2>1 DEF Copy, CopyReads, CopyWrites, CopyEnds, CopyFails, CopyTo
    <3>2. UNCHANGED <<listening, backlog, socket, hungUp, conns, closed, mu, wg, acceptor, relay,
                      closer, done>>
      BY <2>1 DEF Copy, CopyReads, CopyWrites, CopyEnds, CopyFails
    <3> QED
      BY <3>1, <3>2
  <2>2. CASE SendDone(c)
    <3>1. copier' \in [Conns -> {"none", "reading", "writing", "sending", "gone"}]
      BY <2>2 DEF SendDone, CopyTo
    <3>2. done' \in [Guests -> 0..DoneCap]
      BY <2>2 DEF SendDone
    <3> QED
      BY <2>2, <3>1, <3>2 DEF SendDone
  <2>3. CASE HangUp(c)
    BY <2>3 DEF HangUp
  <2> QED
    BY <1>4, <2>1, <2>2, <2>3
<1>5. ASSUME NEW x \in Closers, CloseBegins(x) \/ CloseGoesOn(x) PROVE TypeOK'
  BY <1>5 DEF CloseBegins, CloseGoesOn, CloseListener, CloseConn, CloseUnlocks, CloseWaited, CloseSocket
<1>6. CASE UNCHANGED vars
  BY <1>6 DEF vars
<1> QED
  BY <1>1, <1>2, <1>3, <1>4, <1>5, <1>6 DEF Next

\* The forwarder's state keeps its types in every behaviour.
THEOREM ForwarderTypes == Spec => []TypeOK
BY InitType, TypeStep, PTL DEF Spec

-----------------------------------------------------------------------------
(* The inductive invariant.                                                *)

\* What a relay holds is its own: a step of one relay leaves the others'.
LEMMA RelayStep ==
  ASSUME IInv, NEW g \in Guests, Relay(g) \/ Accept(g)
  PROVE  /\ \A h \in Guests : RelayHolds(h)'
         /\ UNCHANGED <<mu, closed, closer, listening>>
         /\ wg' \cup {g} = wg \cup {g}
<1>0. TypeOK /\ \A h \in Guests : RelayHolds(h)
  BY DEF IInv
<1>1. UNCHANGED <<mu, closed, closer, listening>>
  BY DEF Relay, TrackGuest, Dial, TrackBroker, FirstDone, Release, Drop, Shut, RelayReturns, Accept
<1>2. wg' \cup {g} = wg \cup {g}
  BY DEF Relay, TrackGuest, Dial, TrackBroker, FirstDone, Release, Drop, Shut, RelayReturns, Accept
<1>3. ASSUME NEW h \in Guests, h # g PROVE RelayHolds(h)'
  <2>1. relay'[h] = relay[h] /\ (h \in wg' <=> h \in wg)
    BY <1>0, <1>3 DEF Relay, TrackGuest, Dial, TrackBroker, FirstDone, Release, Drop, Shut, RelayReturns,
       Accept, RelayTo, TypeOK
  <2>2. ASSUME NEW c \in {<<"guest", h>>, <<"broker", h>>}
        PROVE  socket'[c] = socket[c] /\ (c \in conns' <=> c \in conns)
    <3>1. \A side \in Sides : c # <<side, g>>
      BY <1>3
    <3>2. c \in Conns /\ socket \in [Conns -> {"none", "open", "closed"}]
      BY <1>0, Pairs DEF TypeOK
    <3>3. CASE Relay(g) /\ ~Release(g)
      BY <3>1, <3>2, <3>3 DEF Relay, TrackGuest, Dial, TrackBroker, FirstDone, RelayReturns,
         CloseSocket, Sides
    <3>4. CASE Release(g)
      BY <3>1, <3>2, <3>4 DEF Release, Drop, Shut, CloseSocket, Sides
    <3>5. CASE Accept(g)
      BY <3>1, <3>2, <3>5 DEF Accept, Sides
    <3> QED
      BY <3>3, <3>4, <3>5
  <2>3. backlog' \subseteq backlog
    BY DEF Relay, TrackGuest, Dial, TrackBroker, FirstDone, Release, Drop, Shut, RelayReturns, Accept
  <2> QED
    BY <1>0, <2>1, <2>2, <2>3 DEF RelayHolds, Live
<1>4. RelayHolds(g)'
  <2> USE <1>0, Pairs DEF RelayHolds, Live, TypeOK, GuestTracked, BrokerTracked, GuestHeld, BrokerHeld
  <2>1. CASE Accept(g)
    BY <2>1 DEF Accept
  <2>2. CASE TrackGuest(g)
    <3>1. CASE closed
      BY <2>2, <3>1 DEF TrackGuest, CloseSocket, RelayTo
    <3>2. CASE ~closed
      BY <2>2, <3>2 DEF TrackGuest, RelayTo
    <3> QED
      BY <3>1, <3>2
  <2>3. CASE Dial(g)
    BY <2>3 DEF Dial, RelayTo
  <2>4. CASE TrackBroker(g)
    BY <2>4 DEF TrackBroker, CloseSocket, RelayTo
  <2>5. CASE FirstDone(g)
    BY <2>5 DEF FirstDone, RelayTo
  <2>6. CASE Release(g)
    <3>1. CASE \/ Drop(g, "broker", "dropBroker", "closeBroker")
               \/ Drop(g, "guest", "dropGuest", "closeGuest")
      BY <3>1 DEF Drop, RelayTo
    <3>2. CASE Shut(g, "broker", "closeBroker", "dropGuest")
      BY <3>2 DEF Shut, CloseSocket, RelayTo
    <3>3. CASE Shut(g, "guest", "closeGuest", "returning")
      BY <3>3 DEF Shut, CloseSocket, RelayTo
    <3> QED
      BY <2>6, <3>1, <3>2, <3>3 DEF Release
  <2>7. CASE RelayReturns(g)
    BY <2>7 DEF RelayReturns, RelayTo
  <2> QED
    BY <2>1, <2>2, <2>3, <2>4, <2>5, <2>6, <2>7 DEF Relay
<1> QED
  BY <1>1, <1>2, <1>3, <1>4

\* f.closed and the map: what was closed stays closed, and nothing is added to
\* f.conns once f.closed is set (track).
LEMMA MapStep ==
  ASSUME IInv, NEW g \in Guests, Relay(g) \/ Accept(g)
  PROVE  ShutdownMissesNone'
<1>0. TypeOK /\ RelayHolds(g) /\ UNCHANGED <<mu, closed>>
  BY RelayStep DEF IInv
<1> SUFFICES ASSUME closed, mu = NoOne, NEW c \in conns' PROVE socket'[c] = "closed"
  BY <1>0 DEF ShutdownMissesNone
<1>1. c \in conns
  BY <1>0, Pairs DEF Relay, TrackGuest, Dial, TrackBroker, FirstDone, Release, Drop, Shut, RelayReturns,
    Accept
<1>2. c \in Conns /\ socket[c] = "closed"
  BY <1>1 DEF IInv, ShutdownMissesNone, TypeOK
<1>3. CASE Accept(g)
  <2>1. <<"guest", g>> \in Conns /\ <<"guest", g>> \notin conns
    BY <1>0, <1>3, Pairs DEF Accept, RelayHolds, GuestTracked
  <2> QED
    BY <1>0, <1>1, <1>2, <1>3, <2>1 DEF Accept, TypeOK
<1>4. CASE Dial(g)
  <2>1. <<"broker", g>> \in Conns /\ <<"broker", g>> \notin conns
    BY <1>0, <1>4, Pairs DEF Dial, RelayHolds, BrokerTracked
  <2> QED
    BY <1>0, <1>1, <1>2, <1>4, <2>1 DEF Dial, TypeOK
<1>5. CASE Relay(g) /\ ~Dial(g)
  BY <1>0, <1>2, <1>5, Pairs DEF Relay, TrackGuest, TrackBroker, FirstDone, Release, Drop, Shut,
    RelayReturns, CloseSocket, TypeOK
<1> QED
  BY <1>3, <1>4, <1>5

\* accept and the guests that dial: they touch neither sockets nor the map.
LEMMA AcceptorStep ==
  ASSUME IInv,
         \/ AcceptFails
         \/ AfterFailure
         \/ \E g \in Guests : GuestDials(g)
  PROVE  /\ \A h \in Guests : RelayHolds(h)'
         /\ UNCHANGED <<mu, closed, closer, listening, socket, conns>>
         /\ wg' \subseteq wg
         /\ "accept" \in wg' <=> acceptor' # "returned"
<1>1. UNCHANGED <<mu, closed, closer, listening, socket, conns, relay>> /\ wg' \subseteq wg
  BY DEF AcceptFails, AfterFailure, GuestDials
<1>2. \A h \in Guests : (h \in wg' <=> h \in wg) /\ (h \in backlog' => h \in backlog \/ relay[h] = "none")
  BY ForwarderAssumption DEF AcceptFails, AfterFailure, GuestDials
<1>3. "accept" \in wg' <=> acceptor' # "returned"
  BY DEF AcceptFails, AfterFailure, GuestDials, IInv
<1>4. \A h \in Guests : RelayHolds(h)'
  BY <1>1, <1>2 DEF IInv, RelayHolds, Live
<1> QED
  BY <1>1, <1>3, <1>4

\* The copies and the peers that hang up change nothing IInv speaks of.
LEMMA CopyStep ==
  ASSUME IInv, NEW c \in Conns, Copy(c) \/ SendDone(c) \/ HangUp(c)
  PROVE  UNCHANGED <<listening, backlog, socket, conns, closed, mu, wg, acceptor, relay, closer>>
BY DEF Copy, CopyReads, CopyWrites, CopyEnds, CopyFails, CopyTo, SendDone, HangUp

\* Close moves one caller on; f.mu keeps the others out until it has closed
\* every connection of the map.
LEMMA CloserStep ==
  ASSUME IInv, NEW x \in Closers, CloseBegins(x) \/ CloseGoesOn(x)
  PROVE  /\ \A h \in Guests : RelayHolds(h)'
         /\ \A y \in Closers : CloserHolds(y)'
         /\ ShutdownMissesNone'
         /\ UNCHANGED <<wg, acceptor>>
<1> DEFINE Steps == CloseBegins(x) \/ CloseListener(x) \/ CloseConn(x) \/ CloseUnlocks(x) \/ CloseWaited(x)
<1>0. /\ Steps /\ TypeOK /\ ShutdownMissesNone
      /\ \A h \in Guests : RelayHolds(h)
      /\ \A y \in Closers : CloserHolds(y)
  BY DEF IInv, CloseGoesOn
<1>1. UNCHANGED <<wg, acceptor, relay, conns>> /\ backlog' \subseteq backlog
  BY <1>0 DEF CloseBegins, CloseListener, CloseConn, CloseUnlocks, CloseWaited
<1>2. /\ \A c \in Conns : socket'[c] = "open" => socket[c] = "open"
      /\ \A c \in Conns : socket'[c] = "none" => socket[c] = "none"
  <2>1. CASE CloseConn(x)
    BY <1>0, <2>1 DEF CloseConn, CloseSocket, TypeOK
  <2>2. CASE UNCHANGED socket
    BY <2>2
  <2> QED
    BY <1>0, <2>1, <2>2 DEF CloseBegins, CloseListener, CloseUnlocks, CloseWaited
<1>3. \A h \in Guests : RelayHolds(h)'
  <2> TAKE h \in Guests
  <2>1. RelayHolds(h) /\ <<"guest", h>> \in Conns /\ <<"broker", h>> \in Conns
    BY <1>0, Pairs
  <2> QED
    BY <1>1, <1>2, <2>1 DEF RelayHolds, Live
<1>4. ASSUME NEW y \in Closers PROVE CloserHolds(y)'
  <2> USE <1>0, <1>1, ForwarderAssumption DEF CloserHolds, TypeOK
  <2>1. CASE CloseBegins(x)
    BY <2>1 DEF CloseBegins
  <2>2. CASE CloseListener(x)
    BY <2>2 DEF CloseListener
  <2>3. CASE CloseConn(x)
    BY <2>3 DEF CloseConn
  <2>4. CASE CloseUnlocks(x)
    BY <2>4 DEF CloseUnlocks
  <2>5. CASE CloseWaited(x)
    BY <2>5 DEF CloseWaited
  <2> QED
    BY <2>1, <2>2, <2>3, <2>4, <2>5
<1>5. ShutdownMissesNone'
  <2> USE <1>0, <1>1, ForwarderAssumption DEF CloserHolds, TypeOK, ShutdownMissesNone
  <2>1. CASE CloseBegins(x)
    BY <2>1 DEF CloseBegins
  <2>2. CASE CloseListener(x)
    BY <2>2 DEF CloseListener
  <2>3. CASE CloseConn(x)
    BY <2>3 DEF CloseConn
  <2>4. CASE CloseUnlocks(x)
    BY <2>4 DEF CloseUnlocks
  <2>5. CASE CloseWaited(x)
    BY <2>5 DEF CloseWaited
  <2> QED
    BY <1>0, <2>1, <2>2, <2>3, <2>4, <2>5
<1> QED
  BY <1>1, <1>3, <1>4, <1>5

\* A step of accept or of a relay leaves the callers of Close where they are, and
\* one that waited had seen the wait group empty.
LEMMA CloserKept ==
  ASSUME IInv, UNCHANGED <<mu, closed, closer, listening>>, wg = {} => wg' = {}
  PROVE  \A x \in Closers : CloserHolds(x)'
BY DEF IInv, CloserHolds

\* StartForwarder: one goroutine counted, nothing open.
LEMMA InitInv == Init => IInv
<1> SUFFICES ASSUME Init PROVE IInv
  OBVIOUS
<1>1. TypeOK
  BY InitType
<1>2. \A g \in Guests : RelayHolds(g)
  BY Pairs, ForwarderAssumption DEF Init, RelayHolds, Live, GuestTracked, BrokerTracked, GuestHeld, BrokerHeld
<1>3. \A x \in Closers : CloserHolds(x)
  BY ForwarderAssumption DEF Init, CloserHolds
<1>4. ("accept" \in wg <=> acceptor # "returned") /\ ShutdownMissesNone
  BY DEF Init, ShutdownMissesNone
<1> QED
  BY <1>1, <1>2, <1>3, <1>4 DEF IInv

\* A relay is counted by whoever is counted already: while accept runs, it is in
\* the wait group itself.
LEMMA NoRevival == IInv /\ [Next]_vars => (wg = {} => wg' = {})
<1> SUFFICES ASSUME IInv, [Next]_vars, wg = {} PROVE wg' = {}
  OBVIOUS
<1>1. ASSUME NEW g \in Guests, Relay(g) PROVE wg' = {}
  BY <1>1 DEF Relay, TrackGuest, Dial, TrackBroker, FirstDone, Release, Drop, Shut, RelayReturns
<1>2. ASSUME NEW g \in Guests, Accept(g) PROVE FALSE
  BY <1>2 DEF Accept, IInv
<1>3. CASE AcceptFails \/ AfterFailure \/ \E g \in Guests : GuestDials(g)
  BY <1>3, AcceptorStep
<1>4. ASSUME NEW c \in Conns, Copy(c) \/ SendDone(c) \/ HangUp(c) PROVE wg' = {}
  BY <1>4, CopyStep
<1>5. ASSUME NEW x \in Closers, CloseBegins(x) \/ CloseGoesOn(x) PROVE wg' = {}
  BY <1>5, CloserStep
<1>6. CASE UNCHANGED vars
  BY <1>6 DEF vars
<1> QED
  BY <1>1, <1>2, <1>3, <1>4, <1>5, <1>6 DEF Next

\* Every step of every goroutine keeps the invariant.
LEMMA InvStep == IInv /\ [Next]_vars => IInv'
<1> SUFFICES ASSUME IInv, [Next]_vars PROVE IInv'
  OBVIOUS
<1>0. TypeOK'
  BY TypeStep DEF IInv
<1>1. ASSUME NEW g \in Guests, Relay(g) \/ Accept(g) PROVE IInv'
  <2>1. /\ \A h \in Guests : RelayHolds(h)'
        /\ UNCHANGED <<mu, closed, closer, listening>>
        /\ wg' \cup {g} = wg \cup {g}
    BY <1>1, RelayStep
  <2>2. \A x \in Closers : CloserHolds(x)'
    BY <2>1, NoRevival, CloserKept
  <2>3. ShutdownMissesNone'
    BY <1>1, MapStep
  <2>4. UNCHANGED acceptor
    BY <1>1 DEF Relay, TrackGuest, Dial, TrackBroker, FirstDone, Release, Drop, Shut, RelayReturns, Accept
  <2>5. "accept" \in wg' <=> "accept" \in wg
    BY <2>1, ForwarderAssumption
  <2> QED
    BY <1>0, <2>1, <2>2, <2>3, <2>4, <2>5 DEF IInv
<1>2. CASE AcceptFails \/ AfterFailure \/ \E g \in Guests : GuestDials(g)
  <2>1. /\ \A h \in Guests : RelayHolds(h)'
        /\ UNCHANGED <<mu, closed, closer, listening, socket, conns>>
        /\ "accept" \in wg' <=> acceptor' # "returned"
    BY <1>2, AcceptorStep
  <2>2. \A x \in Closers : CloserHolds(x)'
    BY <2>1, NoRevival, CloserKept
  <2>3. ShutdownMissesNone'
    BY <2>1 DEF IInv, ShutdownMissesNone
  <2> QED
    BY <1>0, <2>1, <2>2, <2>3 DEF IInv
<1>3. ASSUME UNCHANGED <<listening, backlog, socket, conns, closed, mu, wg, acceptor, relay, closer>>
      PROVE  IInv'
  BY <1>0, <1>3 DEF IInv, RelayHolds, CloserHolds, ShutdownMissesNone, Live
<1>4. ASSUME NEW x \in Closers, CloseBegins(x) \/ CloseGoesOn(x) PROVE IInv'
  <2>1. /\ \A h \in Guests : RelayHolds(h)'
        /\ \A y \in Closers : CloserHolds(y)'
        /\ ShutdownMissesNone'
        /\ UNCHANGED <<wg, acceptor>>
    BY <1>4, CloserStep
  <2> QED
    BY <1>0, <2>1 DEF IInv
<1>5. CASE UNCHANGED vars
  BY <1>3, <1>5 DEF vars
<1> QED
  BY <1>1, <1>2, <1>3, <1>4, <1>5, CopyStep DEF Next

\* IInv, the inductive invariant, holds in every behaviour of the forwarder,
\* for any number of guests and of callers of Close (accept, relay, Close).
THEOREM ForwarderInvariance == Spec => []IInv
BY InitInv, InvStep, PTL DEF Spec

\* When Close has released f.mu it has missed no connection: track refuses what
\* comes later (Close, track).
THEOREM ShutdownComplete == Spec => []ShutdownMissesNone
<1>1. IInv => ShutdownMissesNone
  BY DEF IInv
<1> QED
  BY <1>1, ForwarderInvariance, PTL

\* A Close that waited leaves no listener, goroutine of the wait group, open
\* socket or entry of f.conns behind (Close).
THEOREM CloseLeavesNothing == Spec => []NothingLeft
<1>1. IInv => NothingLeft
  <2> SUFFICES ASSUME IInv, NEW x \in Closers, closer[x] = "waited"
               PROVE  /\ ~listening /\ acceptor = "returned" /\ conns = {}
                      /\ \A g \in Guests : ~Live(g)
                      /\ \A c \in Conns : socket[c] # "open"
    BY DEF NothingLeft
  <2>1. wg = {} /\ ~listening
    BY DEF IInv, CloserHolds
  <2>2. acceptor = "returned"
    BY <2>1 DEF IInv
  <2>3. \A g \in Guests : relay[g] \in {"none", "gone"}
    BY <2>1 DEF IInv, RelayHolds, Live
  <2>4. \A c \in Conns : c \notin conns /\ socket[c] # "open"
    BY <2>3, Pairs DEF IInv, RelayHolds, GuestTracked, BrokerTracked, GuestHeld, BrokerHeld
  <2>5. conns = {}
    BY <2>4 DEF IInv, TypeOK
  <2> QED
    BY <2>1, <2>2, <2>3, <2>4, <2>5 DEF Live
<1> QED
  BY <1>1, ForwarderInvariance, PTL

\* A relay that is over has closed and forgotten both its connections, by
\* whichever of its returns it left (relay, release).
THEOREM RelaysDoNotLeak == Spec => []NoLeak
<1>1. IInv => NoLeak
  <2> SUFFICES ASSUME IInv, NEW g \in Guests, relay[g] = "gone", NEW side \in Sides
               PROVE  <<side, g>> \notin conns /\ socket[<<side, g>>] # "open"
    BY DEF NoLeak, Both
  <2> QED
    BY DEF Sides, IInv, RelayHolds, GuestTracked, BrokerTracked, GuestHeld, BrokerHeld
<1> QED
  BY <1>1, ForwarderInvariance, PTL

\* The wait group is never added to once it is down to zero (accept calls
\* wg.Add while it is counted itself).
THEOREM WaitGroupSound == Spec => NeverRevived
<1>1. IInv /\ [Next]_vars => [wg = {} => wg' = {}]_vars
  BY NoRevival
<1> QED
  BY <1>1, ForwarderInvariance, PTL DEF Spec, NeverRevived
=============================================================================
