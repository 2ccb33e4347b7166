---------------------------- MODULE MCImageCache ----------------------------
(***************************************************************************)
(* Instances of ImageCache for TLC.  One call resolves j1 and j2, another  *)
(* j3.  j1 is built from s, which shows one of two versions, j3 from f, a  *)
(* fork (or a second tag) that stays at the first of them, j2 from t.  The *)
(* version of t gives the same image as v1, v2 one without a kernel.       *)
(* Each run says which of the sources is pulled and which is built; s and  *)
(* f are of one kind, as the kind is part of the build key.                *)
(***************************************************************************)
EXTENDS ImageCache

CONSTANTS j1, j2, j3, g1, g2, s, f, t, v1, v2, w, A, B

MCGroup == [j \in {j1, j2, j3} |-> IF j = j3 THEN g2 ELSE g1]
MCSourceOf == [j \in {j1, j2, j3} |-> CASE j = j1 -> s [] j = j2 -> t [] j = j3 -> f]
MCOffers == [r \in {s, f, t} |-> CASE r = s -> {v1, v2} [] r = f -> {v1} [] r = t -> {w}]
MCBuilt == [v \in {v1, v2, w} |-> IF v = v2 THEN B ELSE A]
=============================================================================
