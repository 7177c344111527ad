------------------------- MODULE ConversationManager -------------------------
(***************************************************************************)
(* The whole ConversationManager: the speech side and the translation side *)
(* take their steps together, and both write "state", the field the screen *)
(* shows and chooses its buttons by.                                       *)
(***************************************************************************)
EXTENDS SpeechSession, TranslationQueue

VARIABLE state   \* this.state

vars == <<sessionVars, speechVars, queueVars, state>>

\* The members of CONV_STATE that the manager ever sets.
ConvState == {"idle", "connecting", "listening", "translating", "paused", "error"}

TypeOK == SpeechTypeOK /\ QueueTypeOK /\ state \in ConvState

Init == SpeechInit /\ QueueInit /\ state = "idle"

-----------------------------------------------------------------------------
(***************************************************************************)
(* The operations of the manager.                                          *)
(***************************************************************************)

Show(s) == state' = s

\* A state written when the awaited Voice.stop() has answered; at once when
\* there was nothing to stop.
ShowAfterStop(s) == IF started THEN UNCHANGED state ELSE Show(s)

\* The screen chooses its buttons by the state: Start, or Pause and Stop. Pause
\* and resume are also called around the speaking of a translation, and stop
\* when the app leaves the foreground.
StartOffered == state \in {"idle", "error"}
PauseOffered == state \notin {"idle", "error", "paused"}

Start   == StartOffered /\ SpeechStart /\ QueueStart /\ Show("connecting")
Stop    == SpeechStop /\ QueueStop /\ ShowAfterStop("idle")
Pause   == PauseOffered /\ SpeechPause /\ QueuePause /\ ShowAfterStop("paused")
Resume  == SpeechResume /\ QueueResume /\ Show("listening")
Destroy == SpeechDestroy /\ QueueDestroy /\ UNCHANGED state

\* The language is read by the next Voice.start() and the next message.
ChooseLanguage(l) == SelectLanguage(l) /\ UNCHANGED <<queueVars, state>>

\* Mutant of StartGranted: the answer is shown whatever became of the meeting.
StartGrantedAnyway(s) == Granted(s) /\ Show("listening") /\ UNCHANGED queueVars

StartGranted(s) ==
  /\ Granted(s)
  /\ IF s = session /\ running THEN Show("listening") ELSE UNCHANGED state
  /\ UNCHANGED queueVars

StartRefused(s) == Refused(s) /\ QueueFail /\ Show("error")

RestartTimer ==
  /\ TimerFires
  /\ IF timer = session /\ running /\ ~paused
     THEN Show("listening")
     ELSE UNCHANGED state
  /\ UNCHANGED queueVars

\* Mutant of ShowAfter: every continuation writes a state.
ShowAfterAny(then) == Show(then)

\* An awaited stop() or pause() goes on to write its state, whatever has
\* happened to the meeting since.
ShowAfter(then) ==
  CASE then = "idle"   -> Show("idle")
    [] then = "paused" -> Show("paused")
    [] OTHER           -> UNCHANGED state

StopAnswered == VoiceStopped /\ ShowAfter(Head(calls).then) /\ UNCHANGED queueVars

StartAnswered == VoiceStarted /\ UNCHANGED <<queueVars, state>>

StartRejected ==
  /\ VoiceStartRejected
  /\ IF running /\ ~paused
     THEN QueueFail /\ Show("error")
     ELSE UNCHANGED <<queueVars, state>>

DestroyAnswered == VoiceDestroyed /\ UNCHANGED <<queueVars, state>>

MicCloses == RecogniserEnds /\ UNCHANGED <<queueVars, state>>

HearPartial == PartialResult /\ UNCHANGED <<queueVars, state>>

\* A final result with text becomes up to MaxChunks messages: none when it
\* repeats the previous text. A drainer that starts shows "translating".
HearFinal(chunks) ==
  /\ FinalResult(TRUE)
  /\ IF chunks = 0
     THEN UNCHANGED <<queueVars, state>>
     ELSE /\ Enqueue(chunks)
          /\ IF queueRunning THEN UNCHANGED state ELSE Show("translating")

HearNothing == FinalResult(FALSE) /\ UNCHANGED <<queueVars, state>>

HearIgnored == FinalResultIgnored /\ UNCHANGED <<queueVars, state>>

HearError(silent) ==
  /\ ErrorResult(silent)
  /\ IF ErrorIsFatal(silent)
     THEN QueueFail /\ Show("error")
     ELSE UNCHANGED <<queueVars, state>>

\* Mutant of TranslationAnswered: no finally block.
TranslationAnsweredSilently(item, ok) ==
  /\ Answer(item, ok)
  /\ IF LiveAt(queue) # {} THEN Show("translating") ELSE UNCHANGED state
  /\ UNCHANGED speechVars

\* The loop of _drainQueue() shows "translating" for its next item; when it
\* ends, its finally block shows "listening" unless the meeting is paused.
TranslationAnswered(item, ok) ==
  /\ Answer(item, ok)
  /\ IF LiveAt(queue) # {} THEN Show("translating")
     ELSE IF running /\ ~paused THEN Show("listening")
     ELSE UNCHANGED state
  /\ UNCHANGED speechVars

RetryMessage(id) ==
  /\ Retry(id)
  /\ IF queueRunning THEN UNCHANGED state ELSE Show("translating")
  /\ UNCHANGED speechVars

-----------------------------------------------------------------------------
Next ==
  \/ Start
  \/ Stop
  \/ Pause
  \/ Resume
  \/ Destroy
  \/ \E l \in Langs : ChooseLanguage(l)
  \/ \E s \in asking : StartGranted(s) \/ StartRefused(s)
  \/ RestartTimer
  \/ StopAnswered
  \/ StartAnswered
  \/ StartRejected
  \/ DestroyAnswered
  \/ MicCloses
  \/ HearPartial
  \/ \E chunks \in 0 .. MaxChunks : HearFinal(chunks)
  \/ HearNothing
  \/ HearIgnored
  \/ \E silent \in BOOLEAN : HearError(silent)
  \/ \E item \in inflight, ok \in BOOLEAN : TranslationAnswered(item, ok)
  \/ \E id \in 1 .. msgSeq : RetryMessage(id)

Spec == Init /\ [][Next]_vars

\* As SpeechFairness and QueueFairness: the event loop and the services answer (a
\* message is awaited by one drainer, NoDoubleTranslation), the people in the
\* meeting owe nothing.
Fairness ==
  /\ WF_vars(\E s \in asking : StartGranted(s) \/ StartRefused(s))
  /\ WF_vars(RestartTimer)
  /\ WF_vars(StopAnswered \/ StartAnswered \/ StartRejected \/ DestroyAnswered)
  /\ WF_vars(\/ \E chunks \in 0 .. MaxChunks : HearFinal(chunks)
             \/ HearNothing \/ HearIgnored
             \/ \E silent \in BOOLEAN : HearError(silent))
  /\ \A n \in 1 .. MaxSeq :
       WF_vars(\E item \in inflight, ok \in BOOLEAN :
                 item.id = n /\ TranslationAnswered(item, ok))

FairSpec == Spec /\ Fairness

-----------------------------------------------------------------------------
(***************************************************************************)
(* Safety.                                                                 *)
(***************************************************************************)

\* An error is shown only when no meeting runs, so the Start button that comes
\* with it works (_fail() and start()).
ErrorEndsMeeting == state = "error" => ~running

\* The state follows the work: "translating" is not shown while a meeting runs
\* with nobody translating (the finally block of _drainQueue()).
TranslatingIsTrue == running /\ ~paused /\ state = "translating" => inflight # {}

Shutdown == \E i \in DOMAIN calls : calls[i].then = "idle"

\* A meeting that has ended is not shown as running, but for the time stop() awaits
\* the recogniser: no late permission answer, restart timer, translation or retry
\* brings "listening" back. (That a late answer to the Voice.stop() of a pause may
\* show it as "paused" is what the code does, and not excluded.)
EndIsShown ==
  mounted /\ ~running /\ state \in {"connecting", "listening", "translating"}
    => Shutdown

-----------------------------------------------------------------------------
(***************************************************************************)
(* Liveness.                                                               *)
(***************************************************************************)

\* The user does not press Retry for ever.
RetriesEnd == <>[][\A id \in 1 .. MaxSeq : ~Retry(id)]_vars

\* "connecting" and "translating" promise the user that something is coming; a
\* paused meeting shows what it was doing, and a screen that is left shows nothing.
Waiting == mounted /\ \/ state = "connecting"
                      \/ state = "translating" /\ ~paused

\* The screen does not wait for ever: permission questions, translations and loops
\* that end, in whatever session, bring back a state in which the user can act. But
\* a user who retries one failed message while another is translated can keep
\* "translating" up, so this is promised once the retries end.
WaitingEnds == RetriesEnd => (Waiting ~> ~Waiting)

-----------------------------------------------------------------------------
(***************************************************************************)
(* The abstract meeting that the screen is built on.                       *)
(***************************************************************************)

\* The calls of "c" that show a state once they are answered, in their order.
ShowingIn(c) == {i \in DOMAIN c : c[i].then \in {"idle", "paused"}}

Place(S, i) == Cardinality({j \in S : j =< i})

AwaitedIn(c) ==
  LET S == ShowingIn(c)
      at(k) == CHOOSE i \in S : Place(S, i) = k
  IN [k \in 1 .. Cardinality(S) |-> [show |-> c[at(k)].then, speaker |-> 0]]

\* What the screen makes of the state.
ShownAs ==
  CASE state \in {"idle", "error"} -> "idle"
    [] state = "paused"            -> "paused"
    [] OTHER                       -> "live"

Abstract == INSTANCE Meeting WITH shown <- ShownAs, endings <- AwaitedIn(calls)

\* Recogniser, timer and translations never do to the meeting what Meeting does
\* not allow: none of them starts or resumes it, moves its session or shows it as
\* going on once it has ended; and states are shown in the order of the awaits.
ImplementsMeeting == Abstract!MeetingSpec

=============================================================================
