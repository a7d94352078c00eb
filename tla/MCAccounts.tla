----------------------------- MODULE MCAccounts -----------------------------
(* An owner, a user and two requests: the accounts of the server by        *)
(* themselves.                                                             *)
EXTENDS Accounts
=============================================================================
