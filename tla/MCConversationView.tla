------------------------- MODULE MCConversationView -------------------------
(* ConversationView for TLC: a workspace with two conversations.             *)
EXTENDS ConversationView, TLC

CONSTANTS w1, a, b

WorkspaceOfOne == a :> w1 @@ b :> w1
=============================================================================
