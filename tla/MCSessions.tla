----------------------------- MODULE MCSessions -----------------------------
(***************************************************************************)
(* Small instances of Sessions; the requests are interchangeable.          *)
(***************************************************************************)
EXTENDS Sessions, TLC

Symmetry == Permutations(Reqs)
=============================================================================
