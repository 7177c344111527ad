------------------------------ MODULE MCChatRoom ------------------------------
\* ChatRoom on a small instance; the requests are alike.
EXTENDS ChatRoom, TLC

RequestsAreAlike == Permutations(Requests)
=============================================================================
