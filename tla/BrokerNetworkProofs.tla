------------------------ MODULE BrokerNetworkProofs ------------------------
(***************************************************************************)
(* BrokerNetwork for every set of addresses and masks that nest: the check *)
(* of one address per side decides whether two ranges overlap, and the     *)
(* bridge a runner goes on with is the one it was configured for.          *)
(***************************************************************************)
EXTENDS BrokerNetwork, TLAPS

\* A block starts with the largest multiple of its size that is not above any
\* of its addresses (net.ParseCIDR masks the address).
LEMMA Block ==
  ASSUME NEW a \in Nat, NEW s \in Nat \ {0}
  PROVE  /\ a \div s \in Nat
         /\ (a \div s) * s \in Nat
         /\ (a \div s) * s <= a
         /\ a <= (a \div s) * s + s - 1
         /\ ((a \div s) * s) \div s = a \div s
<1>1. a \div s \in Nat
  BY SMT
<1>2. (a \div s) * s <= a /\ a <= (a \div s) * s + s - 1 /\ (a \div s) * s \in Nat
  BY <1>1, SMT
<1>3. ((a \div s) * s) \div s = a \div s
  BY <1>1, SMT
<1> QED BY <1>1, <1>2, <1>3

\* The constants' assumptions, in the shape the proofs use them.
LEMMA Constants ==
  /\ \A n \in Cidrs : n.ip \in Addresses /\ n.size \in Sizes
  /\ \A a \in Addresses : a \in Nat
  /\ \A s \in Sizes : s \in Nat \ {0}
  /\ \A n \in Cidrs : NetworkOf(n) \in Addresses /\ Contains(n, NetworkOf(n))
<1>1. \A n \in Cidrs : n.ip \in Addresses /\ n.size \in Sizes
  BY DEF Cidrs
<1>2. (\A a \in Addresses : a \in Nat) /\ \A s \in Sizes : s \in Nat \ {0}
  BY NetworkAssumption
<1>3. ASSUME NEW n \in Cidrs PROVE NetworkOf(n) \in Addresses /\ Contains(n, NetworkOf(n))
  <2>1. n.ip \in Addresses /\ n.size \in Sizes
    BY <1>1
  <2>2. NetworkOf(n) \in Addresses
    BY <2>1, NetworkAssumption DEF NetworkOf
  <2>3. ((n.ip \div n.size) * n.size) \div n.size = n.ip \div n.size
    BY <2>1, <1>2, Block
  <2> QED BY <2>2, <2>3 DEF NetworkOf, Contains
<1> QED BY <1>1, <1>2, <1>3

\* Masks nest.
LEMMA Nested ==
  ASSUME NEW s \in Sizes, NEW t \in Sizes, s <= t,
         NEW a \in Addresses, NEW b \in Addresses, a \div s = b \div s
  PROVE  a \div t = b \div t
<1>1. \A u, v \in Sizes : u <= v =>
        \A c, d \in Addresses : c \div u = d \div u => c \div v = d \div v
  BY NetworkAssumption, Zenon
<1> QED BY <1>1, Zenon

\* Looking at one address of each side finds every overlap, and nothing else
\* (checkSubnetFree).
THEOREM InUseIsOverlap == \A n, l \in Cidrs : InUse(n, l) <=> ~Disjoint(n, l)
<1> SUFFICES ASSUME NEW n \in Cidrs, NEW l \in Cidrs PROVE InUse(n, l) <=> ~Disjoint(n, l)
  OBVIOUS
<1>0. PICK a0 \in Addresses : a0 = NetworkOf(n)
  BY Constants
<1>1. /\ n.ip \in Addresses /\ n.size \in Sizes /\ l.ip \in Addresses /\ l.size \in Sizes
      /\ a0 \in Addresses /\ Contains(n, a0)
      /\ n.size \in Nat /\ l.size \in Nat
  BY <1>0, Constants
<1>2. ASSUME Contains(n, l.ip) PROVE ~Disjoint(n, l)
  <2>1. l.ip \in BlockOf(n) /\ l.ip \in BlockOf(l)
    BY <1>1, <1>2 DEF BlockOf, Contains
  <2> QED BY <2>1 DEF Disjoint
<1>3. ASSUME Contains(l, a0) PROVE ~Disjoint(n, l)
  <2>1. a0 \in BlockOf(n) /\ a0 \in BlockOf(l)
    BY <1>1, <1>3 DEF BlockOf
  <2> QED BY <2>1 DEF Disjoint
<1>4. ASSUME NEW a \in BlockOf(n) \cap BlockOf(l) PROVE InUse(n, l)
  <2>1. a \in Addresses /\ Contains(n, a) /\ Contains(l, a)
    BY <1>4 DEF BlockOf
  <2>2. CASE l.size <= n.size
    <3>1. a \div n.size = l.ip \div n.size
      BY <1>1, <2>1, <2>2, Nested DEF Contains
    <3> QED BY <2>1, <3>1 DEF Contains, InUse
  <2>3. CASE n.size <= l.size
    <3>1. a \div n.size = a0 \div n.size
      BY <1>1, <2>1 DEF Contains
    <3>2. a \div l.size = a0 \div l.size
      BY <1>1, <2>1, <2>3, <3>1, Nested
    <3> QED BY <1>0, <2>1, <3>2 DEF Contains, InUse
  <2> QED BY <1>1, <2>2, <2>3
<1>5. ASSUME ~Disjoint(n, l) PROVE InUse(n, l)
  BY <1>4, <1>5 DEF Disjoint
<1> QED BY <1>0, <1>2, <1>3, <1>5 DEF InUse

-----------------------------------------------------------------------------
\* New starts for the first time knowing nothing.
LEMMA InitInv == Init => IInv
<1> SUFFICES ASSUME Init PROVE IInv
  OBVIOUS
<1> USE DEF Init
<1>1. TypeOK
  BY DEF TypeOK, Points
<1> QED BY <1>1 DEF IInv, Creating

\* One step keeps the types and what New knows (EnsureBrokerNetwork).
LEMMA InvStep == IInv /\ [Next]_vars => IInv'
<1> SUFFICES ASSUME IInv, [Next]_vars PROVE IInv'
  OBVIOUS
<1> USE DEF IInv, TypeOK, Points, Creating, Fail, GoTo
<1>a. Absent \notin Cidrs /\ Bare \notin Cidrs /\ Absent # Bare
  BY NamesAssumption
<1>0. CASE UNCHANGED vars
  BY <1>0 DEF vars, Assignable, InUse, Contains, NetworkOf, BroadcastOf
<1>1. CASE Start
  BY <1>1 DEF Start
<1>2. CASE Parse
  BY <1>2 DEF Parse, Assignable, NetworkOf, BroadcastOf
<1>3. CASE Look
  BY <1>3, <1>a DEF Look, Assignable, NetworkOf, BroadcastOf
<1>4. CASE Free
  BY <1>4 DEF Free, Assignable, NetworkOf, BroadcastOf, InUse, Contains
<1>5. ASSUME Created, at \in {"create", "recreate"} PROVE IInv'
  BY <1>5 DEF Created, Assignable, NetworkOf, BroadcastOf, InUse, Contains
<1>6. ASSUME CreateFailed PROVE IInv'
  BY <1>6 DEF CreateFailed
<1>7. CASE Create
  <2>1. CASE record # Absent /\ GoTo("rm") /\ UNCHANGED <<bridge, record>> /\ at = "create"
    BY <2>1 DEF Assignable, NetworkOf, BroadcastOf, InUse, Contains
  <2> QED BY <1>5, <1>6, <1>7, <2>1 DEF Create
<1>8. CASE RmRecord
  BY <1>8 DEF RmRecord, Assignable, NetworkOf, BroadcastOf, InUse, Contains
<1>9. CASE Recreate
  <2>1. CASE record # Absent /\ Fail /\ UNCHANGED <<bridge, record>>
    BY <2>1
  <2> QED BY <1>5, <1>6, <1>9, <2>1 DEF Recreate
<1>10. CASE Confirm
  BY <1>10, <1>a DEF Confirm, Assignable, NetworkOf, BroadcastOf
<1>11. CASE Stop
  BY <1>11 DEF Stop
<1>12. CASE Reboot
  BY <1>12 DEF Reboot
<1>13. CASE OperatorRemoves
  BY <1>13 DEF OperatorRemoves
<1>14. CASE LinksChange
  BY <1>14 DEF LinksChange
<1>15. CASE Heal
  BY <1>15 DEF Heal, Assignable, NetworkOf, BroadcastOf, InUse, Contains
<1> QED
  BY <1>0, <1>1, <1>2, <1>3, <1>4, <1>7, <1>8, <1>9, <1>10, <1>11, <1>12, <1>13, <1>14, <1>15
  DEF Next, Ensure

\* What EnsureBrokerNetwork knows at each of its points is true.
THEOREM NetworkInvariance == Spec => []IInv
<1> QED BY InitInv, InvStep, PTL DEF Spec

\* The bridge, kraft's record of it and the other interfaces keep their types
\* (internal/resolver/networks.go).
THEOREM NetworkTypes == Spec => []TypeOK
<1>1. IInv => TypeOK
  BY DEF IInv
<1> QED BY <1>1, NetworkInvariance, PTL

\* Every runner that goes on past EnsureBrokerNetwork has the bridge it was
\* configured for, with an address a guest can dial.
THEOREM GatewayIsHeld == Spec => []GatewayHeld
<1>1. IInv => GatewayHeld
  <2> SUFFICES ASSUME IInv, at = "up" PROVE GatewayHeld
    BY DEF GatewayHeld
  <2>1. config \in Cidrs /\ bridge = config /\ Assignable(config)
    BY DEF IInv, TypeOK
  <2>2. config.ip \in Nat /\ config.size \in Nat \ {0}
    BY <2>1, Constants
  <2>3. /\ NetworkOf(config) \in Nat
        /\ NetworkOf(config) <= config.ip
        /\ config.ip <= NetworkOf(config) + config.size - 1
    BY <2>2, Block DEF NetworkOf
  <2>4. config.ip # NetworkOf(config) /\ config.ip # NetworkOf(config) + config.size - 1
    BY <2>1 DEF Assignable, BroadcastOf
  <2>5. NetworkOf(config) < config.ip /\ config.ip < NetworkOf(config) + config.size - 1
    BY <2>2, <2>3, <2>4
  <2> QED BY <2>1, <2>5 DEF GatewayHeld, BroadcastOf
<1> QED BY <1>1, NetworkInvariance, PTL

\* No bridge is created over addresses another interface has.
THEOREM CreatedBridgesApart == Spec => CreatedApart
<1>1. IInv => (bridge' = config /\ at \in {"create", "recreate"}
                 => \A l \in links : Disjoint(config, l))
  <2> SUFFICES ASSUME IInv, at \in {"create", "recreate"}, NEW l \in links
               PROVE  Disjoint(config, l)
    OBVIOUS
  <2>1. config \in Cidrs /\ l \in Cidrs /\ ~InUse(config, l)
    BY DEF IInv, TypeOK, Creating
  <2> QED BY <2>1, InUseIsOverlap
<1> QED BY <1>1, NetworkInvariance, PTL DEF CreatedApart
=============================================================================
