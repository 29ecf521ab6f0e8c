--------------------------- MODULE MCConnections ----------------------------
(* Connections on small instances.                                         *)
EXTENDS Connections, TLC

SameRequests == Permutations(Requests)
SameTurns == Permutations(Turns)
SameClaims == SameRequests \cup Permutations(Users)
=============================================================================
