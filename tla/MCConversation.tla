--------------------------- MODULE MCConversation ---------------------------
EXTENDS Conversation, TLC

MCSymmetry == Permutations(Call) \cup Permutations(Wish)
=============================================================================
