--------------------------- MODULE MCConversation ---------------------------
(* The runs of Conversation. *)
EXTENDS Conversation
=============================================================================
