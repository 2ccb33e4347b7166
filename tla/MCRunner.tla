------------------------------ MODULE MCRunner ------------------------------
(***************************************************************************)
(* An instance of RunnerLifecycle for TLC.  Chart i1 has two copies: v2    *)
(* drops a layer of v1 and adds one with a soft link it does not declare.  *)
(* Chart i2, with the copy u, has a hard link it does not declare.  v1 and *)
(* u bear one reference, without a version, v2 another.  Starmap may       *)
(* answer for n, x with any of them.  Call k1 starts charts, k2 pulls and  *)
(* kills meanwhile.                                                        *)
(***************************************************************************)
EXTENDS RunnerLifecycle, TLC

CONSTANTS k1, k2, i1, i2, n, l, x, a, b, c, d, v1, v2, u,
          data, undeclared, path, event

MCCopies == {v1, v2, u}
\* k1 starts the charts, k2 only pulls and kills them
MCStarts == k1 :> {i1, i2} @@ k2 :> {}
MCOwner == a :> i1 @@ b :> i1 @@ c :> i1 @@ d :> i2
MCIdOf == v1 :> i1 @@ v2 :> i1 @@ u :> i2

RefTo(name, version) == [name |-> name, version |-> version]
MCRefOf ==
  v1 :> RefTo(n, Unversioned) @@ v2 :> RefTo(l, x) @@ u :> RefTo(n, Unversioned)
MCServes == [ref \in Refs |-> IF ref = RefTo(n, x) THEN MCCopies ELSE {}]

Sources == data :> [type |-> "file", path |-> path]

LayerOf(stage, hard, soft, events) ==
  [stage |-> stage, hard |-> hard, soft |-> soft, events |-> events, volumes |-> {path}]

Of(layers) == [sources |-> Sources, topics |-> {event}, layers |-> layers]

MCBody ==
  v1 :> Of(a :> LayerOf(1, {data}, {}, {}) @@ b :> LayerOf(2, {}, {data}, {event}))
  @@ v2 :> Of(b :> LayerOf(2, {}, {}, {event}) @@ c :> LayerOf(3, {}, {undeclared}, {}))
  @@ u :> Of(d :> LayerOf(2, {undeclared}, {}, {}))
=============================================================================
