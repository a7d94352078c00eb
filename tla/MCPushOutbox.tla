---------------------------- MODULE MCPushOutbox ----------------------------
(***************************************************************************)
(* Small instances of PushOutbox: every job is for one user, whose devices *)
(* come and go.                                                            *)
(***************************************************************************)
EXTENDS PushOutbox, TLC

CONSTANTS u1

MCRecipient == [j \in Jobs |-> u1]

\* Jobs, tokens and workers are interchangeable when no payload is bad.
Symmetry == Permutations(Workers) \cup Permutations(Tokens)
=============================================================================
