---------------------------- MODULE MCMediaStore ----------------------------
(***************************************************************************)
(* Small instances of MediaStore: all uploads have the same content, or    *)
(* the last one another.                                                   *)
(***************************************************************************)
EXTENDS MediaStore, TLC

CONSTANTS u1, u2, u3, h1, h2

SameContent == [u \in Uploads |-> h1]
=============================================================================
