---------------------------- MODULE MCHelperSession ----------------------------
(* Instance of HelperSession: enough lines for a lock, a batch of two with an  *)
(* option in it, and one more command.                                         *)
EXTENDS HelperSession
=============================================================================
