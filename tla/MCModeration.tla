---------------------------- MODULE MCModeration ----------------------------
(***************************************************************************)
(* Small instances of Moderation: all the attachments in one message, or   *)
(* each in a message of its own.                                           *)
(***************************************************************************)
EXTENDS Moderation

OneMessage == [a \in Attachments |-> "m1"]
=============================================================================
