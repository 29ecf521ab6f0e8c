-------------------------- MODULE MCConversations --------------------------
(* Conversations on a small instance; messages are alike.                  *)
EXTENDS Conversations

SameMessages == Permutations(Messages)
=============================================================================
