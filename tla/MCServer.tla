------------------------------ MODULE MCServer ------------------------------
(* The two halves of main.go together, as an instance for TLC: the server  *)
(* hands the requests it takes to the router.                              *)
EXTENDS Server, Gateway

=============================================================================
