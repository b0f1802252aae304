--------------------------- MODULE MCConversation ---------------------------
(* Instances of Conversation for TLC.                                      *)
EXTENDS Conversation, TLC

\* Worker processes differ in nothing.
WorkersAlike == Permutations(Workers)
=============================================================================
