---------------------------- MODULE MCOAuthFlow -----------------------------
(* OAuthFlow on a small instance: a server of one of two users.            *)
EXTENDS OAuthFlow, TLC

CONSTANT ann

AnnOwns == [v \in Servers |-> ann]

SameFlows == Permutations(Flows) \cup Permutations(Logins) \cup Permutations(Requests)
=============================================================================
