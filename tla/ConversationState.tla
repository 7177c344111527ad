------------------------- MODULE ConversationState -------------------------
(***************************************************************************)
(* The part of a meeting that the speech side and the translation side of  *)
(* ConversationManager share: is a meeting running, is it paused, and the  *)
(* session number that every asynchronous continuation is checked against. *)
(* The actions below are what start(), stop(), pause(), resume(), destroy()*)
(* and _fail() do to those three fields; SpeechSession and                 *)
(* TranslationQueue add what the same calls do to theirs.                  *)
(***************************************************************************)
EXTENDS Naturals

CONSTANT MaxSession   \* bound of the model on the session counter

ASSUME MaxSessionAssumption == MaxSession \in Nat

VARIABLES
  running,   \* this.running
  paused,    \* this.paused
  session,   \* this._session
  mounted    \* the screen that owns the manager has not unmounted

sessionVars == <<running, paused, session, mounted>>

SessionTypeOK ==
  /\ running \in BOOLEAN
  /\ paused \in BOOLEAN
  /\ session \in Nat
  /\ mounted \in BOOLEAN

SessionInit ==
  /\ running = FALSE
  /\ paused = FALSE
  /\ session = 0
  /\ mounted = TRUE

\* start(): a second call while a meeting runs returns at once.
BeginSession ==
  /\ mounted /\ ~running
  /\ session < MaxSession
  /\ running' = TRUE
  /\ paused' = FALSE
  /\ session' = session + 1
  /\ UNCHANGED mounted

\* stop(): the Stop button, or the app leaving the foreground.
EndSession ==
  /\ mounted
  /\ session < MaxSession
  /\ running' = FALSE
  /\ paused' = FALSE
  /\ session' = session + 1
  /\ UNCHANGED mounted

\* pause() and resume() return at once when there is nothing to do.
PauseSession ==
  /\ mounted /\ running /\ ~paused
  /\ paused' = TRUE
  /\ UNCHANGED <<running, session, mounted>>

ResumeSession ==
  /\ mounted /\ running /\ paused
  /\ paused' = FALSE
  /\ UNCHANGED <<running, session, mounted>>

\* destroy(): the screen unmounts. The owner makes no call after it.
DestroySession ==
  /\ mounted
  /\ running' = FALSE
  /\ paused' = FALSE
  /\ session' = session + 1
  /\ mounted' = FALSE

\* Mutant of FailSession: the error is shown, the meeting goes on.
FailSessionKeepsRunning == UNCHANGED sessionVars

\* _fail(): the meeting ends with an error. The session number is kept.
FailSession ==
  /\ running' = FALSE
  /\ UNCHANGED <<paused, session, mounted>>
=============================================================================
