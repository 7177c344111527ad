----------------------------- MODULE TextToSpeech -----------------------------
(***************************************************************************)
(* TextToSpeechService: the screen's calls of speak() are spoken one after *)
(* the other by a native engine, which is external. A caller awaits        *)
(* speak() and then waitForIdle() (handleSpeak() of the screen does), so a *)
(* call is followed from its first await to its last.                      *)
(*                                                                         *)
(* One callback runs until nothing is left to do without waiting: when an  *)
(* utterance is settled, the loop of _drainQueue() and the caller of       *)
(* speak() both go on in the same step, the loop first. Setting the voice  *)
(* and setting the rate are two awaits with nothing in between that        *)
(* anybody else reads: one answer, "preparing".                            *)
(***************************************************************************)
EXTENDS Naturals, Sequences

CONSTANTS
  MaxUtterances,  \* bound of the model on the calls of speak()
  MaxTtsEvents    \* bound of the model on undelivered events of the engine

ASSUME TtsAssumption == MaxUtterances \in Nat /\ MaxTtsEvents \in Nat

VARIABLES
  ready,      \* init() has been answered
  listeners,  \* this._listeners are attached
  left,       \* destroy() has been called
  said,       \* number of calls of speak(), which names them
  caller,     \* what the caller of each utterance awaits
  ttsQueue,   \* this._queue
  step,       \* where the loop of _drainQueue() is; "idle": not this._draining
  item,       \* the utterance the loop handles, 0 for none
  active,     \* the utterance of this._active, 0 for null
  timers,     \* utterances whose timeout is pending
  speaking,   \* this.speaking
  lined,      \* utterances the engine has accepted and not begun
  audible,    \* the utterance that is heard, 0 for none
  ttsEvents   \* events on their way from the engine

serviceVars == <<ready, listeners, left, said, caller, ttsQueue, step, item,
                 active, timers, speaking>>
engineVars == <<lined, audible, ttsEvents>>
ttsVars == <<serviceVars, engineVars>>

Utterances == 1 .. MaxUtterances

\* What a caller awaits: init(), the end of its speech, then waitForIdle().
Awaits == {"nothing", "init", "speech", "idle", "done"}

TtsTypeOK ==
  /\ ready \in BOOLEAN /\ listeners \in BOOLEAN /\ left \in BOOLEAN
  /\ said \in 0 .. MaxUtterances
  /\ caller \in [Utterances -> Awaits]
  /\ ttsQueue \in Seq(Utterances)
  /\ step \in {"idle", "preparing", "playing"}
  /\ item \in 0 .. MaxUtterances
  /\ active \in 0 .. MaxUtterances
  /\ timers \in SUBSET Utterances
  /\ speaking \in BOOLEAN
  /\ lined \in Seq(Utterances)
  /\ audible \in 0 .. MaxUtterances
  /\ ttsEvents \in Seq({"start", "end"})

TtsInit ==
  /\ ready = FALSE
  /\ listeners = FALSE
  /\ left = FALSE
  /\ said = 0
  /\ caller = [u \in Utterances |-> "nothing"]
  /\ ttsQueue = <<>>
  /\ step = "idle"
  /\ item = 0
  /\ active = 0
  /\ timers = {}
  /\ speaking = FALSE
  /\ lined = <<>>
  /\ audible = 0
  /\ ttsEvents = <<>>

-----------------------------------------------------------------------------
(***************************************************************************)
(* The loop of _drainQueue().                                              *)
(***************************************************************************)

\* Mutant of LoopFrom: the waiters are not called.
LoopForgetsWaiters(q, c, sp) ==
  IF q = <<>>
  THEN /\ step' = "idle" /\ item' = 0 /\ ttsQueue' = <<>>
       /\ speaking' = FALSE
       /\ caller' = c
  ELSE /\ step' = "preparing" /\ item' = Head(q) /\ ttsQueue' = Tail(q)
       /\ speaking' = sp
       /\ caller' = c

\* Mutant of LoopFrom: pop() in place of shift().
LoopFromNewest(q, c, sp) ==
  IF q = <<>>
  THEN /\ step' = "idle" /\ item' = 0 /\ ttsQueue' = <<>>
       /\ speaking' = FALSE
       /\ caller' = [u \in Utterances |-> IF c[u] = "idle" THEN "done" ELSE c[u]]
  ELSE /\ step' = "preparing"
       /\ item' = q[Len(q)] /\ ttsQueue' = SubSeq(q, 1, Len(q) - 1)
       /\ speaking' = sp
       /\ caller' = c

\* The loop from its top, with the queue "q" and the callers in the states "c":
\* it takes the next utterance, or ends and answers everybody in waitForIdle().
LoopFrom(q, c, sp) ==
  IF q = <<>>
  THEN /\ step' = "idle" /\ item' = 0 /\ ttsQueue' = <<>>
       /\ speaking' = FALSE
       /\ caller' = [u \in Utterances |-> IF c[u] = "idle" THEN "done" ELSE c[u]]
  ELSE /\ step' = "preparing" /\ item' = Head(q) /\ ttsQueue' = Tail(q)
       /\ speaking' = sp
       /\ caller' = c

\* speak() appends and calls _drainQueue(), which does nothing while it runs.
Push(us, c) ==
  IF step = "idle"
  THEN LoopFrom(ttsQueue \o us, c, speaking)
  ELSE /\ ttsQueue' = ttsQueue \o us
       /\ caller' = c
       /\ UNCHANGED <<step, item, speaking>>

\* The promise of utterance "u" is resolved while the queue is "q": if it is the
\* one the loop awaits, the loop goes on, and so does the caller.
Resolve(u, q, c) ==
  IF step = "playing" /\ item = u
  THEN LoopFrom(q, [c EXCEPT ![u] = "idle"], FALSE)
  ELSE /\ ttsQueue' = q
       /\ caller' = c
       /\ speaking' = FALSE
       /\ UNCHANGED <<step, item>>

\* Mutant of CloseActive: the timeout of the utterance is not cleared.
CloseActiveOnly(q, c) ==
  /\ active' = 0
  /\ Resolve(active, q, c)
  /\ UNCHANGED timers

\* An event or stop() ends the active utterance, if there is one.
CloseActive(q, c) ==
  /\ active' = 0
  /\ timers' = timers \ {active}
  /\ Resolve(active, q, c)

-----------------------------------------------------------------------------
(***************************************************************************)
(* The calls of the screen.                                                *)
(***************************************************************************)

\* speak(), also after destroy(): handleSpeak() may have awaited pause() while
\* the screen was left. Before init() is answered the call waits for it.
Speak ==
  /\ said < MaxUtterances
  /\ said' = said + 1
  /\ IF ready
     THEN Push(<<said + 1>>, [caller EXCEPT ![said + 1] = "speech"])
     ELSE /\ caller' = [caller EXCEPT ![said + 1] = "init"]
          /\ UNCHANGED <<ttsQueue, step, item, speaking>>
  /\ UNCHANGED <<ready, listeners, left, active, timers, engineVars>>

\* What Tts.stop() does to the engine: it may report the end of what was heard, or
\* of what it has dropped.
EngineStops ==
  /\ lined' = <<>>
  /\ audible' = 0
  /\ \/ UNCHANGED ttsEvents
     \/ /\ audible # 0 \/ lined # <<>>
        /\ Len(ttsEvents) < MaxTtsEvents
        /\ ttsEvents' = Append(ttsEvents, "end")

\* stop() answers the calls in the queue and the active one; it does not reach
\* the utterance that is being prepared, nor a call that awaits init().
StopAll ==
  /\ CloseActive(<<>>, [u \in Utterances |->
                          IF \E i \in DOMAIN ttsQueue : ttsQueue[i] = u
                          THEN "idle" ELSE caller[u]])
  /\ EngineStops

StopSpeaking ==
  /\ ~left
  /\ StopAll
  /\ UNCHANGED <<ready, listeners, left, said>>

DestroySpeaking ==
  /\ ~left
  /\ left' = TRUE
  /\ listeners' = FALSE
  /\ StopAll
  /\ UNCHANGED <<ready, said>>

-----------------------------------------------------------------------------
(***************************************************************************)
(* The event loop.                                                         *)
(***************************************************************************)

\* init() attaches the listeners, after destroy() too, and the calls that have
\* waited for it are queued in their order.
InitAnswered ==
  /\ ~ready
  /\ ready' = TRUE
  /\ listeners' = TRUE
  /\ Push([i \in 1 .. said |-> i],
          [u \in Utterances |-> IF caller[u] = "init" THEN "speech" ELSE caller[u]])
  /\ UNCHANGED <<left, said, active, timers, engineVars>>

\* Mutant of Prepared: the timeout is armed for the utterance's successor.
PreparedLateTimer(ok) ==
  /\ step = "preparing"
  /\ IF ok
     THEN /\ step' = "playing"
          /\ active' = item
          /\ timers' = timers \cup {item + 1}
          /\ speaking' = TRUE
          /\ lined' = Append(lined, item)
          /\ UNCHANGED <<ttsQueue, item, caller>>
     ELSE /\ LoopFrom(ttsQueue, [caller EXCEPT ![item] = "done"], speaking)
          /\ UNCHANGED <<active, timers, lined>>
  /\ UNCHANGED <<ready, listeners, left, said, audible, ttsEvents>>

\* Voice and rate are set, and the utterance is handed to the engine; or there is
\* no voice for the language and the caller gets an error.
Prepared(ok) ==
  /\ step = "preparing"
  /\ IF ok
     THEN /\ step' = "playing"
          /\ active' = item
          /\ timers' = timers \cup {item}
          /\ speaking' = TRUE
          /\ lined' = Append(lined, item)
          /\ UNCHANGED <<ttsQueue, item, caller>>
     ELSE /\ LoopFrom(ttsQueue, [caller EXCEPT ![item] = "done"], speaking)
          /\ UNCHANGED <<active, timers, lined>>
  /\ UNCHANGED <<ready, listeners, left, said, audible, ttsEvents>>

\* Mutant of TtsTimeout: the caller is left waiting.
TtsTimeoutOnlyForgets(u) ==
  /\ u \in timers
  /\ timers' = timers \ {u}
  /\ active' = 0
  /\ speaking' = FALSE
  /\ UNCHANGED <<ready, listeners, left, said, caller, ttsQueue, step, item,
                 engineVars>>

\* No event has come for SPEAK_TIMEOUT_MS: the utterance counts as spoken. The
\* engine is not told.
TtsTimeout(u) ==
  /\ u \in timers
  /\ timers' = timers \ {u}
  /\ IF active # 0
     THEN active' = 0 /\ Resolve(u, ttsQueue, caller)
     ELSE UNCHANGED <<active, ttsQueue, step, item, caller, speaking>>
  /\ UNCHANGED <<ready, listeners, left, said, engineVars>>

\* _handleEvent(): an end closes whichever utterance is active.
TtsEvent ==
  /\ ttsEvents # <<>>
  /\ ttsEvents' = Tail(ttsEvents)
  /\ \/ /\ ~listeners
        /\ UNCHANGED <<caller, ttsQueue, step, item, active, timers, speaking>>
     \/ /\ listeners /\ Head(ttsEvents) = "start"
        /\ speaking' = TRUE
        /\ UNCHANGED <<caller, ttsQueue, step, item, active, timers>>
     \/ /\ listeners /\ Head(ttsEvents) = "end"
        /\ CloseActive(ttsQueue, caller)
  /\ UNCHANGED <<ready, listeners, left, said, lined, audible>>

-----------------------------------------------------------------------------
(***************************************************************************)
(* The engine. It may fail to report the end of an utterance, for which    *)
(* the service has its timeout.                                            *)
(***************************************************************************)

Reports(event) ==
  /\ Len(ttsEvents) < MaxTtsEvents
  /\ ttsEvents' = Append(ttsEvents, event)

EngineStarts ==
  /\ audible = 0 /\ lined # <<>>
  /\ audible' = Head(lined)
  /\ lined' = Tail(lined)
  /\ Reports("start")
  /\ UNCHANGED serviceVars

EngineEnds ==
  /\ audible # 0
  /\ audible' = 0
  /\ Reports("end") \/ UNCHANGED ttsEvents
  /\ UNCHANGED <<lined, serviceVars>>

EngineFails ==
  /\ audible = 0 /\ lined # <<>>
  /\ lined' = Tail(lined)
  /\ Reports("end") \/ UNCHANGED ttsEvents
  /\ UNCHANGED <<audible, serviceVars>>

-----------------------------------------------------------------------------
TtsNext ==
  \/ Speak
  \/ StopSpeaking
  \/ DestroySpeaking
  \/ InitAnswered
  \/ \E ok \in BOOLEAN : Prepared(ok)
  \/ \E u \in timers : TtsTimeout(u)
  \/ TtsEvent
  \/ EngineStarts
  \/ EngineEnds
  \/ EngineFails

TtsSpec == TtsInit /\ [][TtsNext]_ttsVars

-----------------------------------------------------------------------------
(***************************************************************************)
(* Safety.                                                                 *)
(***************************************************************************)

Settled(u) == caller[u] \in {"idle", "done"}

\* The loop awaits exactly the active utterance, and the only timeout that is
\* pending is that one's: a timeout looks at whichever utterance is active, so
\* one that outlived its own would cut off another and leave its caller waiting.
OnlyTheActiveTimesOut ==
  /\ step = "playing" <=> active # 0
  /\ active # 0 => active = item
  /\ timers = {active} \ {0}

\* Every call that awaits its speech is queued or being handled, and everybody in
\* waitForIdle() has a loop that will answer at its end: waitForIdle() is never
\* entered with the service idle, whatever a late event makes of "speaking".
NobodyIsForgotten ==
  /\ \A u \in Utterances :
       caller[u] = "speech" <=> u = item \/ \E i \in DOMAIN ttsQueue : ttsQueue[i] = u
  /\ \A u \in Utterances : caller[u] = "idle" => step # "idle"

\* Calls are settled in the order they were made, but for one: the utterance
\* whose voice was being set when stop() answered those behind it is spoken all
\* the same. It is the one the loop handles, so it is never followed by another.
SettledInOrder ==
  \A u, v \in Utterances : u < v /\ Settled(v) /\ ~Settled(u) => u = item

=============================================================================
