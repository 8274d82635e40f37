--------------------------- MODULE MCLegacyLease ---------------------------
(***************************************************************************)
(* LegacyLease for TLC: two handlers of one replica.                       *)
(***************************************************************************)
EXTENDS LegacyLease, TLC

MCHost == [p \in Procs |-> CHOOSE r \in Replicas : TRUE]

HandlerSymmetry == Permutations(Procs)

Req(op, id) == [op |-> op, id |-> id, ttl |-> MaxTTL]

MCRequests == {Req("grant", NoID), Req("grant", 1), Req("revoke", 1), Req("ttl", 1),
               Req("list", 1)}
=============================================================================
