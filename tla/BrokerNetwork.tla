--------------------------- MODULE BrokerNetwork ---------------------------
(***************************************************************************)
(* internal/resolver/networks.go: EnsureBrokerNetwork makes the bridge the *)
(* guests reach the broker through, or adopts the one that is there.  The  *)
(* kernel says what exists; kraft, which creates it, keeps a record of its *)
(* own that survives a reboot.                                             *)
(*                                                                         *)
(* An IPv4 address is a natural number and a mask the size of the blocks   *)
(* it cuts the addresses into.  A runner starts, stops and dies any number *)
(* of times, with another subnet configured each time.                     *)
(***************************************************************************)
EXTENDS Naturals, FiniteSets

CONSTANTS
  Addresses,
  Sizes,      \* of the blocks that masks cut
  MaxLinks,   \* how many other interfaces there may be
  Absent,     \* no bridge, no record
  Bare        \* a bridge without an IPv4 address

\* A shorter prefix never separates what a longer one keeps together.
ASSUME NetworkAssumption ==
  /\ Addresses \subseteq Nat
  /\ Sizes \subseteq Nat \ {0}
  /\ \A s, t \in Sizes : s <= t =>
       \A a, b \in Addresses : a \div s = b \div s => a \div t = b \div t
  /\ \A s \in Sizes, a \in Addresses : (a \div s) * s \in Addresses

\* an address with its mask: *net.IPNet, as configured or as an interface has it
Cidrs == [ip : Addresses, size : Sizes]

ASSUME NamesAssumption == Absent \notin Cidrs /\ Bare \notin Cidrs /\ Absent # Bare

VARIABLES
  bridge,   \* what gprunner0 holds, in the kernel
  record,   \* what kraft has on file for gprunner0
  links,    \* what the other interfaces of the host hold
  config,   \* Config.BrokerSubnet of the runner that starts or runs
  at,       \* how far New is
  healthy   \* from here on commands work and nothing interrupts a start

vars == <<bridge, record, links, config, at, healthy>>

Points == {"off", "parse", "look", "free", "create", "rm", "recreate", "confirm", "up"}

TypeOK ==
  /\ bridge \in Cidrs \cup {Absent, Bare}
  /\ record \in Cidrs \cup {Absent}
  /\ links \subseteq Cidrs
  /\ config \in Cidrs
  /\ at \in Points
  /\ healthy \in BOOLEAN

-----------------------------------------------------------------------------
(* Addresses and blocks.                                                   *)

\* net.IPNet.Contains
Contains(n, a) == a \div n.size = n.ip \div n.size

\* the IP of the subnet net.ParseCIDR returns
NetworkOf(n) == (n.ip \div n.size) * n.size

\* broadcastOf
BroadcastOf(n) == NetworkOf(n) + n.size - 1

\* parseGateway: neither end of the block can be dialled by guests.
Assignable(n) == n.ip # NetworkOf(n) /\ n.ip # BroadcastOf(n)

\* Mutant of InUse: a wider block around the subnet is not noticed.
InUseInside(n, l) == Contains(n, l.ip)

\* checkSubnetFree, for the subnet of n and one address of another interface
InUse(n, l) == Contains(n, l.ip) \/ Contains(l, NetworkOf(n))

-----------------------------------------------------------------------------
(* EnsureBrokerNetwork.                                                    *)

GoTo(point) == at' = point /\ UNCHANGED <<links, config, healthy>>

\* A failed step ends New.
Fail == GoTo("off")

\* New is called, with any subnet.
Start ==
  /\ at = "off"
  /\ config' \in Cidrs
  /\ at' = "parse"
  /\ UNCHANGED <<bridge, record, links, healthy>>

Parse ==
  /\ at = "parse"
  /\ GoTo(IF Assignable(config) THEN "look" ELSE "off")
  /\ UNCHANGED <<bridge, record>>

\* Mutant of Look: only the address is compared.
LookAtAddress ==
  /\ at = "look"
  /\ UNCHANGED <<bridge, record>>
  /\ \/ bridge = Absent /\ GoTo("free")
     \/ bridge \in Cidrs /\ bridge.ip = config.ip /\ GoTo("up")
     \/ bridge \in Cidrs /\ bridge.ip # config.ip /\ Fail
     \/ (bridge = Bare \/ ~healthy) /\ Fail

\* A bridge that is there is adopted when it holds what is configured, address
\* and mask; kraft is not asked.
Look ==
  /\ at = "look"
  /\ UNCHANGED <<bridge, record>>
  /\ \/ bridge = Absent /\ GoTo("free")
     \/ bridge = config /\ GoTo("up")
     \/ bridge \notin {Absent, config} /\ Fail
     \/ ~healthy /\ Fail

Free ==
  /\ at = "free"
  /\ UNCHANGED <<bridge, record>>
  /\ \/ (\A l \in links : ~InUse(config, l)) /\ GoTo("create")
     \/ (\E l \in links : InUse(config, l)) /\ Fail
     \/ ~healthy /\ Fail

\* `kraft network create' works: bridge and record are there.  Without a fault
\* exit code 0 means just that.
Created ==
  /\ record = Absent
  /\ record' = config
  /\ bridge' = config \/ (~healthy /\ UNCHANGED bridge)
  /\ GoTo("confirm")

\* It fails, or is cut off by its timeout, wherever it was.
CreateFailed ==
  /\ ~healthy
  /\ record' = config \/ UNCHANGED record
  /\ bridge' \in {config, Bare} \/ UNCHANGED bridge
  /\ Fail

\* Mutant of Create: kraft's record is believed.
CreateOnce ==
  /\ at = "create"
  /\ \/ Created
     \/ CreateFailed
     \/ record # Absent /\ Fail /\ UNCHANGED <<bridge, record>>

\* "already exists" comes from the record: Look saw no bridge.
Create ==
  /\ at = "create"
  /\ \/ Created
     \/ CreateFailed
     \/ record # Absent /\ GoTo("rm") /\ UNCHANGED <<bridge, record>>

RmRecord ==
  /\ at = "rm"
  /\ UNCHANGED bridge
  /\ \/ record' = Absent /\ GoTo("recreate")
     \/ ~healthy /\ (record' = Absent \/ UNCHANGED record) /\ Fail

Recreate ==
  /\ at = "recreate"
  /\ \/ Created
     \/ CreateFailed
     \/ record # Absent /\ Fail /\ UNCHANGED <<bridge, record>>

\* Mutant of Confirm: kraft's exit code is believed.
ConfirmBlindly ==
  /\ at = "confirm"
  /\ UNCHANGED <<bridge, record>>
  /\ GoTo("up")

Confirm ==
  /\ at = "confirm"
  /\ UNCHANGED <<bridge, record>>
  /\ \/ bridge \in Cidrs /\ GoTo("up")
     \/ bridge \notin Cidrs /\ Fail
     \/ ~healthy /\ Fail

Ensure == Parse \/ Look \/ Free \/ Create \/ RmRecord \/ Recreate \/ Confirm

-----------------------------------------------------------------------------
(* The host.                                                               *)

\* The runner ends, or is killed during its start.
Stop ==
  /\ at = "up" \/ (at # "off" /\ ~healthy)
  /\ Fail /\ UNCHANGED <<bridge, record>>

\* Interfaces are gone after a reboot, kraft's files are not.
Reboot ==
  /\ at \in {"off", "up"} \/ ~healthy
  /\ bridge' = Absent
  /\ Fail /\ UNCHANGED record

\* `kraft network rm gprunner0', what the error of a mismatch asks for
OperatorRemoves ==
  /\ at = "off"
  /\ bridge' = Absent /\ record' = Absent
  /\ UNCHANGED <<links, config, at, healthy>>

\* Another interface comes or goes, not while a runner starts.
LinksChange ==
  /\ at = "off"
  /\ \/ \E n \in Cidrs : Cardinality(links) < MaxLinks /\ links' = links \cup {n}
     \/ \E n \in links : links' = links \ {n}
  /\ UNCHANGED <<bridge, record, config, at, healthy>>

Heal ==
  /\ ~healthy /\ healthy' = TRUE
  /\ UNCHANGED <<bridge, record, links, config, at>>

-----------------------------------------------------------------------------
Init ==
  /\ bridge = Absent /\ record = Absent
  /\ links = {}
  /\ config \in Cidrs
  /\ at = "off"
  /\ healthy = FALSE

Next == Start \/ Ensure \/ Stop \/ Reboot \/ OperatorRemoves \/ LinksChange \/ Heal

Spec == Init /\ [][Next]_vars

-----------------------------------------------------------------------------
(* Properties.                                                             *)

\* the addresses in n, and when two ranges have none in common
BlockOf(n) == {a \in Addresses : Contains(n, a)}
Disjoint(m, n) == BlockOf(m) \cap BlockOf(n) = {}

\* The address layers are handed as MQ_ADDR is one the bridge holds, with the
\* configured mask, and one a guest can dial, whatever bridges and records
\* earlier runners, failed commands and reboots have left (EnsureBrokerNetwork).
GatewayHeld ==
  at = "up" =>
    /\ bridge = config
    /\ NetworkOf(config) < config.ip /\ config.ip < BroadcastOf(config)

\* A bridge is only created over addresses no other interface has, though the
\* code looks at one address of each side (checkSubnetFree: "rejects a CIDR that
\* overlaps another interface network range").
CreatedApart ==
  [][bridge' = config /\ at \in {"create", "recreate"}
       => \A l \in links : Disjoint(config, l)]_vars

\* New goes on: every command ends, by its timeout if need be.
FairSpec == Spec /\ WF_vars(Ensure)

\* A record of kraft's that says otherwise does not keep a host from starting
\* after a reboot (createBrokerNetwork, networks.go:170).
StartsAfterReboot ==
  (healthy /\ at = "look" /\ bridge = Absent /\ \A l \in links : Disjoint(config, l)) ~> at = "up"

-----------------------------------------------------------------------------
\* What EnsureBrokerNetwork knows at each point of its way.
Creating == {"create", "rm", "recreate", "confirm"}

IInv ==
  /\ TypeOK
  /\ at \notin {"off", "parse"} => Assignable(config)
  /\ at \in Creating => \A l \in links : ~InUse(config, l)
  /\ at \in {"free", "create", "rm", "recreate"} => bridge = Absent
  /\ at = "confirm" => bridge \in {Absent, config}
  /\ at = "up" => bridge = config
=============================================================================
