------------------------ MODULE MCConversationManager ------------------------
(***************************************************************************)
(* ConversationManager on a small instance. The language changes once,     *)
(* when no meeting runs, before the one with the last session number: what *)
(* is left over from the meetings before is in the other language.         *)
(***************************************************************************)
EXTENDS ConversationManager

First == CHOOSE l \in Langs : TRUE

MCInit == Init /\ source = First
MCSpec == MCInit /\ [][Next]_vars /\ Fairness

LanguageChangesOnce ==
  /\ source' # source => source = First /\ ~running /\ session = MaxSession - 1
  /\ running' /\ session' = MaxSession => source # First
=============================================================================
