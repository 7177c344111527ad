---------------------------- MODULE SpeechSession ----------------------------
(***************************************************************************)
(* The speech side of the Meeting Interpreter: ConversationManager keeps   *)
(* one recogniser listening for as long as a meeting runs, restarting it   *)
(* after every utterance.                                                  *)
(*                                                                         *)
(* Three actors interleave: the owner (start, stop, pause, resume, destroy,*)
(* choosing a language), the JavaScript event loop (permission answers, the*)
(* restart timer, results of native calls) and the native recogniser,      *)
(* which is external and reached through a first-in first-out bridge.      *)
(*                                                                         *)
(* The manager believes what "listening" and "started" say; "mic" is what  *)
(* the device really does.                                                 *)
(***************************************************************************)
EXTENDS ConversationState, Sequences

CONSTANTS
  Langs,      \* the languages a meeting may be held in
  Off,        \* the microphone is not open
  MaxCalls,   \* bound of the model on outstanding native calls
  MaxEvents   \* bound of the model on undelivered recogniser events

ASSUME SpeechAssumption ==
  /\ Langs # {}
  /\ Off \notin Langs
  /\ MaxCalls \in Nat
  /\ MaxEvents \in Nat

VARIABLES
  asking,        \* sessions whose start() awaits availability and permission
  listening,     \* this._listening
  started,       \* this.speech.started
  timer,         \* the session captured by this._restartTimer, 0 when unset
  silentErrors,  \* this._silentErrors
  partial,       \* this.segmenter.currentText is not empty
  source,        \* this.langRef.current.source
  mic,           \* the language the native recogniser hears, or Off
  calls,         \* native calls not yet answered, oldest first
  events         \* results or errors on their way from the recogniser

speechVars == <<asking, listening, started, timer, silentErrors, partial,
                source, mic, calls, events>>
svars == <<sessionVars, speechVars>>

MaxSilentErrors == 3

\* What the caller of _stopListening() does once Voice.stop() has answered.
Continuations == {"none", "idle", "paused", "destroy"}

VoiceCall == [op : {"start", "stop", "destroy"},
              lang : Langs \cup {Off},
              then : Continuations]

StartCall(l) == [op |-> "start", lang |-> l, then |-> "none"]
StopCall(t)  == [op |-> "stop", lang |-> Off, then |-> t]
DestroyCall  == [op |-> "destroy", lang |-> Off, then |-> "none"]

SpeechTypeOK ==
  /\ SessionTypeOK
  /\ asking \in SUBSET Nat
  /\ listening \in BOOLEAN
  /\ started \in BOOLEAN
  /\ timer \in Nat
  /\ silentErrors \in 0 .. MaxSilentErrors
  /\ partial \in BOOLEAN
  /\ source \in Langs
  /\ mic \in Langs \cup {Off}
  /\ calls \in Seq(VoiceCall)
  /\ events \in Nat

SpeechInit ==
  /\ SessionInit
  /\ asking = {}
  /\ listening = FALSE
  /\ started = FALSE
  /\ timer = 0
  /\ silentErrors = 0
  /\ partial = FALSE
  /\ source \in Langs
  /\ mic = Off
  /\ calls = <<>>
  /\ events = 0

-----------------------------------------------------------------------------
(***************************************************************************)
(* Steps shared by several operations.                                     *)
(***************************************************************************)

\* The owner's calls stop at the bound; the event loop's are never held back.
CanCall == Len(calls) < MaxCalls

\* Mutant of StartListening: looks at "started" before it sets "listening".
StartListeningUnlessStarted(live) ==
  IF live /\ ~listening /\ ~started
  THEN listening' = TRUE /\ calls' = Append(calls, StartCall(source))
  ELSE UNCHANGED <<listening, calls>>

\* _startListening(): speech.start() returns at once when it believes the
\* recogniser is already started. "live" says that a meeting runs unpaused.
StartListening(live) ==
  IF live /\ ~listening
  THEN /\ listening' = TRUE
       /\ calls' = IF started THEN calls ELSE Append(calls, StartCall(source))
  ELSE UNCHANGED <<listening, calls>>

\* Mutant of StopListening: "listening" is not reset.
StopListeningForgets(pending, then) ==
  /\ started' = FALSE
  /\ calls' = IF started THEN Append(pending, StopCall(then)) ELSE pending
  /\ UNCHANGED listening

\* _stopListening(): speech.stop() calls Voice.stop() only when it believes
\* the recogniser is started. "pending" are the calls outstanding before it.
StopListening(pending, then) ==
  /\ listening' = FALSE
  /\ started' = FALSE
  /\ calls' = IF started THEN Append(pending, StopCall(then)) ELSE pending

\* Mutants of ScheduleRestart: no look at the meeting; no restart.
ScheduleRestartAlways == timer' = IF timer = 0 THEN session ELSE timer
ScheduleNothing == UNCHANGED timer

\* _scheduleRestart(): one timer at a time, only for a live meeting.
ScheduleRestart ==
  timer' = IF running /\ ~paused /\ timer = 0 THEN session ELSE timer

\* _fail(): ends the meeting; the Voice.stop() it issues is not awaited.
FailSpeech(pending) ==
  /\ FailSession
  /\ timer' = 0
  /\ StopListening(pending, "none")

-----------------------------------------------------------------------------
(***************************************************************************)
(* The owner.                                                              *)
(***************************************************************************)

SpeechStart ==
  /\ BeginSession
  /\ asking' = asking \cup {session + 1}
  /\ silentErrors' = 0
  /\ partial' = FALSE
  /\ UNCHANGED <<listening, started, timer, source, mic, calls, events>>

SpeechStop ==
  /\ CanCall
  /\ EndSession
  /\ timer' = 0
  /\ StopListening(calls, "idle")
  /\ UNCHANGED <<asking, silentErrors, partial, source, mic, events>>

SpeechPause ==
  /\ CanCall
  /\ PauseSession
  /\ timer' = 0
  /\ StopListening(calls, "paused")
  /\ UNCHANGED <<asking, silentErrors, partial, source, mic, events>>

SpeechResume ==
  /\ CanCall
  /\ ResumeSession
  /\ StartListening(TRUE)
  /\ UNCHANGED <<asking, started, timer, silentErrors, partial, source, mic,
                 events>>

\* Mutant of SpeechDestroy: the recogniser is stopped but not destroyed.
SpeechDestroyOnlyStops ==
  /\ CanCall
  /\ DestroySession
  /\ timer' = 0
  /\ StopListening(calls, "none")
  /\ UNCHANGED <<asking, silentErrors, partial, source, mic, events>>

\* speech.destroy() follows the awaited stop.
SpeechDestroy ==
  /\ CanCall
  /\ DestroySession
  /\ timer' = 0
  /\ listening' = FALSE
  /\ started' = FALSE
  /\ calls' = Append(calls, IF started THEN StopCall("destroy") ELSE DestroyCall)
  /\ UNCHANGED <<asking, silentErrors, partial, source, mic, events>>

\* The screen writes the shared langRef and then calls updateLangs(), which
\* compares the new pair with langRef and so never sees a difference: the
\* recogniser is not restarted.
SelectLanguage(l) ==
  /\ mounted
  /\ l # source
  /\ source' = l
  /\ UNCHANGED <<sessionVars, asking, listening, started, timer, silentErrors,
                 partial, mic, calls, events>>

-----------------------------------------------------------------------------
(***************************************************************************)
(* The event loop: answers to start(), the restart timer.                  *)
(***************************************************************************)

\* start() goes on listening only if its session is still the current one.
Granted(s) ==
  /\ s \in asking
  /\ asking' = asking \ {s}
  /\ StartListening(s = session /\ running /\ ~paused)
  /\ UNCHANGED <<sessionVars, started, timer, silentErrors, partial, source,
                 mic, events>>

\* ... but it fails the meeting, whichever one runs by then, when speech is
\* unavailable or the microphone is refused.
Refused(s) ==
  /\ s \in asking
  /\ asking' = asking \ {s}
  /\ FailSpeech(calls)
  /\ UNCHANGED <<silentErrors, partial, source, mic, events>>

\* Mutant of TimerFires: a restart begins a new count of silence.
TimerFiresAfresh ==
  /\ timer # 0
  /\ timer' = 0
  /\ StartListening(timer = session /\ running /\ ~paused)
  /\ silentErrors' = 0
  /\ UNCHANGED <<sessionVars, asking, started, partial, source, mic, events>>

TimerFires ==
  /\ timer # 0
  /\ timer' = 0
  /\ StartListening(timer = session /\ running /\ ~paused)
  /\ UNCHANGED <<sessionVars, asking, started, silentErrors, partial, source,
                 mic, events>>

-----------------------------------------------------------------------------
(***************************************************************************)
(* The native recogniser: answers to calls, and events.                    *)
(***************************************************************************)

VoiceStarted ==
  /\ calls # <<>> /\ Head(calls).op = "start"
  /\ calls' = Tail(calls)
  /\ mic' = Head(calls).lang
  /\ started' = TRUE
  /\ UNCHANGED <<sessionVars, asking, listening, timer, silentErrors, partial,
                 source, events>>

VoiceStartRejected ==
  /\ calls # <<>> /\ Head(calls).op = "start"
  /\ IF running /\ ~paused
     THEN FailSpeech(Tail(calls))
     ELSE /\ calls' = Tail(calls)
          /\ listening' = FALSE
          /\ UNCHANGED <<sessionVars, started, timer>>
  /\ UNCHANGED <<asking, silentErrors, partial, source, mic, events>>

\* Stopping an open microphone makes the recogniser report what it heard,
\* after the answer to the call; it may also have nothing to report.
VoiceStopped ==
  /\ calls # <<>> /\ Head(calls).op = "stop"
  /\ calls' = IF Head(calls).then = "destroy"
              THEN Append(Tail(calls), DestroyCall)
              ELSE Tail(calls)
  /\ mic' = Off
  /\ events' \in {n \in {events, events + 1} : mic = Off => n = events}
  /\ events' =< MaxEvents
  /\ UNCHANGED <<sessionVars, asking, listening, started, timer, silentErrors,
                 partial, source>>

\* Voice.destroy() also removes the listeners: nothing is delivered after it.
VoiceDestroyed ==
  /\ calls # <<>> /\ Head(calls).op = "destroy"
  /\ calls' = Tail(calls)
  /\ mic' = Off
  /\ events' = 0
  /\ UNCHANGED <<sessionVars, asking, listening, started, timer, silentErrors,
                 partial, source>>

\* A pause in the speech, or an error: the microphone closes and one event is
\* on its way.
RecogniserEnds ==
  /\ mic # Off
  /\ events < MaxEvents
  /\ mic' = Off
  /\ events' = events + 1
  /\ UNCHANGED <<sessionVars, asking, listening, started, timer, silentErrors,
                 partial, source, calls>>

\* _onPartial() has no guard: it is heard in every state of the manager.
PartialResult ==
  /\ mic # Off
  /\ partial' = TRUE
  /\ silentErrors' = 0
  /\ UNCHANGED <<sessionVars, asking, listening, started, timer, source, mic,
                 calls, events>>

\* _onFinal() of an utterance the manager waits for. An empty final result
\* stands for the last partial one.
FinalResult(heard) ==
  /\ events > 0
  /\ running /\ ~paused /\ listening
  /\ partial => heard
  /\ events' = events - 1
  /\ started' = FALSE
  /\ listening' = FALSE
  /\ partial' = FALSE
  /\ silentErrors' = IF heard THEN 0 ELSE silentErrors
  /\ ScheduleRestart
  /\ UNCHANGED <<sessionVars, asking, source, mic, calls>>

\* _onFinal() otherwise: an early return, before markEnded().
FinalResultIgnored ==
  /\ events > 0
  /\ ~running \/ paused \/ ~listening
  /\ events' = events - 1
  /\ UNCHANGED <<sessionVars, asking, listening, started, timer, silentErrors,
                 partial, source, mic, calls>>

\* Mutants of ErrorIsFatal: one error late; no limit at all.
ErrorIsFatalLate(silent) ==
  running /\ ~paused /\ (silent => silentErrors + 1 > MaxSilentErrors)
ErrorIsFatalNever(silent) == running /\ ~paused /\ ~silent

\* _onError(): "silent" errors (nothing heard, no match, client busy) restart
\* the recogniser until there have been three in a row.
ErrorIsFatal(silent) ==
  running /\ ~paused /\ (silent => silentErrors + 1 >= MaxSilentErrors)

ErrorResult(silent) ==
  /\ events > 0
  /\ events' = events - 1
  /\ started' = FALSE
  /\ listening' = FALSE
  /\ silentErrors' = IF running /\ ~paused /\ silent THEN silentErrors + 1
                                                      ELSE silentErrors
  /\ IF ErrorIsFatal(silent)
     THEN FailSession /\ timer' = 0
     ELSE ScheduleRestart /\ UNCHANGED sessionVars
  /\ UNCHANGED <<asking, partial, source, mic, calls>>

-----------------------------------------------------------------------------
SpeechNext ==
  \/ SpeechStart
  \/ SpeechStop
  \/ SpeechPause
  \/ SpeechResume
  \/ SpeechDestroy
  \/ \E l \in Langs : SelectLanguage(l)
  \/ \E s \in asking : Granted(s)
  \/ \E s \in asking : Refused(s)
  \/ TimerFires
  \/ VoiceStarted
  \/ VoiceStartRejected
  \/ VoiceStopped
  \/ VoiceDestroyed
  \/ RecogniserEnds
  \/ PartialResult
  \/ \E heard \in BOOLEAN : FinalResult(heard)
  \/ FinalResultIgnored
  \/ \E silent \in BOOLEAN : ErrorResult(silent)

SpeechSpec == SpeechInit /\ [][SpeechNext]_svars

\* The event loop runs every timer and delivers every event; the native module
\* answers every call; start()'s questions are answered. The owner and the
\* speaker owe nothing.
SpeechFairness ==
  /\ WF_svars(\E s \in asking : Granted(s) \/ Refused(s))
  /\ WF_svars(TimerFires)
  /\ WF_svars(VoiceStarted \/ VoiceStartRejected \/ VoiceStopped \/ VoiceDestroyed)
  /\ WF_svars(\/ FinalResultIgnored
              \/ \E b \in BOOLEAN : FinalResult(b) \/ ErrorResult(b))

FairSpeechSpec == SpeechSpec /\ SpeechFairness

-----------------------------------------------------------------------------
(***************************************************************************)
(* Safety.                                                                 *)
(***************************************************************************)

\* A pending restart belongs to the current, unpaused meeting: stop, pause,
\* destroy and every failure cancel it (conversationManager.js:261-289).
TimerBelongsToLiveSession ==
  timer # 0 => running /\ ~paused /\ timer = session

\* No lost wakeup: a meeting that should be heard is being heard, or has a
\* restart pending, or start() still has to be answered. Every early return,
\* error and timer path of the manager has to leave one of the three.
LiveSessionKeepsListening ==
  running /\ ~paused => listening \/ timer # 0 \/ session \in asking

StartOutstanding(c) == \E i \in DOMAIN c : c[i].op = "start"

\* While the manager thinks it listens, it has asked the recogniser to start
\* and has not been told since that it stopped.
ListeningWasRequested == listening => started \/ StartOutstanding(calls)

\* A meeting ends at its third silent recognition in a row, not later.
SilentErrorsBounded == running => silentErrors < MaxSilentErrors

\* Silence that has been counted is taken back only by words, in a partial result
\* of an open microphone or a final one of a meeting that listens, and by a new
\* meeting. Restarts, pauses and their ends, late answers and other errors keep it,
\* so a meeting nobody speaks in cannot put off its third silence by them
\* (start(), _onFinal(), _onPartialText(), conversationManager.js:108,304,341).
SilenceIsCounted ==
  [][silentErrors' < silentErrors =>
       \/ session' # session
       \/ mic # Off /\ partial'
       \/ running /\ ~paused /\ listening /\ events' < events /\ ~partial']_svars

\* Leaving the screen closes the microphone whatever was in flight: once the
\* native calls are answered nothing can open it again (destroy(), 173-186).
NothingHeardAfterDestroy == ~mounted /\ calls = <<>> => mic = Off

-----------------------------------------------------------------------------
(***************************************************************************)
(* Liveness.                                                               *)
(***************************************************************************)

\* A meeting that goes on is asked to be heard again after every utterance.
ListensAgain == running /\ ~paused ~> listening \/ ~running \/ paused

\* The microphone closes after the screen is left.
DestroyClosesMic == ~mounted ~> [](mic = Off)

-----------------------------------------------------------------------------
(***************************************************************************)
(* What the documentation says and the code does not do.                   *)
(***************************************************************************)

\* "stop cleans native resources" (TRANSLATOR_REDESIGN.md:98): with every
\* native call answered, the microphone of a stopped meeting is closed.
MicClosedWhenNotRunning == ~running /\ calls = <<>> => mic = Off

\* "Native session has ended -> start() may be called again" (comment of
\* markEnded, speechRecognition.js:127): a manager that listens is eventually
\* heard by an open microphone, or is told otherwise.
ListeningIsHeard == listening ~> mic # Off \/ ~listening

==============================================================================
