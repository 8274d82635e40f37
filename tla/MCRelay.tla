------------------------------ MODULE MCRelay ------------------------------
(***************************************************************************)
(* One call of Relay: two kinds of request, one of which the backend's     *)
(* stream refuses, and two responses that can be told apart.               *)
(***************************************************************************)
EXTENDS Relay
CONSTANTS create, malformed, r1, r2
=============================================================================
