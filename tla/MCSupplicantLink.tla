-------------------------- MODULE MCSupplicantLink --------------------------
(* SupplicantLink: its bounds are numbers, given in the configurations. *)
EXTENDS SupplicantLink
=============================================================================
