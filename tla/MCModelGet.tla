----------------------------- MODULE MCModelGet -----------------------------
(***************************************************************************)
(* A shell for every command and one that runs resume, over one store.     *)
(***************************************************************************)
EXTENDS ModelGet
=============================================================================
