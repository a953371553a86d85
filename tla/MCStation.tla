------------------------------ MODULE MCStation ------------------------------
(* Station with one network. *)
EXTENDS Station

CONSTANT n1
OneNetwork == {n1}
=============================================================================
