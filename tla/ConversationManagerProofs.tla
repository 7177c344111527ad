---------------------- MODULE ConversationManagerProofs ----------------------
(***************************************************************************)
(* Composed, the two sides of the manager behave as each does alone: what  *)
(* is proved of SpeechSession and of TranslationQueue holds of the whole.  *)
(* The state the screen shows is related to both by ShownInv, inductive    *)
(* given theirs; "Typed" tells the calls of stop() and pause(), which go   *)
(* on to write a state once answered, from the others. With it the manager *)
(* is shown to implement Meeting, whose "endings" are those calls in their *)
(* order: an answer takes the first of them, and nothing else does.        *)
(***************************************************************************)
EXTENDS ConversationManager, SpeechSessionProofs, TranslationQueueProofs,
        FunctionTheorems, TLAPS

-----------------------------------------------------------------------------
(***************************************************************************)
(* A step of the manager is a step of each side, or none.                  *)
(***************************************************************************)

\* The speech side sees its own operations and nothing of the translations.
LEMMA SpeechSideSteps == [Next]_vars => [SpeechNext]_svars
<1> SUFFICES ASSUME [Next]_vars PROVE [SpeechNext]_svars
  OBVIOUS
<1>1. CASE Start \/ Stop \/ Pause \/ Resume \/ Destroy
  BY <1>1 DEF Start, Stop, Pause, Resume, Destroy, SpeechNext
<1>2. CASE \E l \in Langs : ChooseLanguage(l)
  BY <1>2 DEF ChooseLanguage, SpeechNext
<1>3. CASE \E s \in asking : StartGranted(s) \/ StartRefused(s)
  BY <1>3 DEF StartGranted, StartRefused, SpeechNext
<1>4. CASE RestartTimer \/ StopAnswered \/ StartAnswered \/ StartRejected
           \/ DestroyAnswered \/ MicCloses \/ HearPartial
  BY <1>4 DEF RestartTimer, StopAnswered, StartAnswered, StartRejected,
              DestroyAnswered, MicCloses, HearPartial, SpeechNext
<1>5. CASE (\E chunks \in 0 .. MaxChunks : HearFinal(chunks)) \/ HearNothing
           \/ HearIgnored \/ \E silent \in BOOLEAN : HearError(silent)
  BY <1>5 DEF HearFinal, HearNothing, HearIgnored, HearError, SpeechNext
<1>6. CASE \E item \in inflight, ok \in BOOLEAN : TranslationAnswered(item, ok)
  BY <1>6 DEF TranslationAnswered, Answer, svars
<1>7. CASE \E id \in 1 .. msgSeq : RetryMessage(id)
  BY <1>7 DEF RetryMessage, Retry, svars
<1>8. CASE UNCHANGED vars
  BY <1>8 DEF vars, svars
<1> QED
  BY <1>1, <1>2, <1>3, <1>4, <1>5, <1>6, <1>7, <1>8 DEF Next

\* The queue sees the ends of meetings and the final results.
LEMMA QueueSideSteps == [Next]_vars => [QueueNext]_qvars
<1> SUFFICES ASSUME [Next]_vars PROVE [QueueNext]_qvars
  OBVIOUS
<1>1. CASE Start \/ Stop \/ Pause \/ Resume \/ Destroy
  BY <1>1 DEF Start, Stop, Pause, Resume, Destroy, QueueNext
<1>2. CASE \E l \in Langs : ChooseLanguage(l)
  BY <1>2 DEF ChooseLanguage, SelectLanguage, qvars
<1>3. CASE \E s \in asking : StartGranted(s)
  BY <1>3 DEF StartGranted, Granted, qvars
<1>4. CASE \E s \in asking : StartRefused(s)
  BY <1>4 DEF StartRefused, QueueNext
<1>5. CASE RestartTimer \/ StopAnswered \/ StartAnswered
           \/ DestroyAnswered \/ MicCloses \/ HearPartial
  BY <1>5 DEF RestartTimer, TimerFires, StopAnswered, VoiceStopped, StartAnswered,
              VoiceStarted, DestroyAnswered, VoiceDestroyed, MicCloses,
              RecogniserEnds, HearPartial, PartialResult, qvars
<1>6. CASE StartRejected
  <2>1. CASE running /\ ~paused
    BY <1>6, <2>1 DEF StartRejected, QueueNext
  <2>2. CASE ~(running /\ ~paused)
    BY <1>6, <2>2 DEF StartRejected, VoiceStartRejected, qvars
  <2> QED
    BY <2>1, <2>2
<1>7. ASSUME NEW chunks \in 0 .. MaxChunks, HearFinal(chunks) PROVE [QueueNext]_qvars
  <2>1. CASE chunks = 0
    BY <1>7, <2>1 DEF HearFinal, FinalResult, qvars
  <2>2. CASE chunks # 0
    <3>1. Enqueue(chunks) /\ chunks \in 1 .. MaxChunks
      BY <1>7, <2>2, QueueAssumption DEF HearFinal
    <3> QED
      BY <3>1 DEF QueueNext
  <2> QED
    BY <2>1, <2>2
<1>8. CASE HearNothing \/ HearIgnored
  BY <1>8 DEF HearNothing, FinalResult, HearIgnored, FinalResultIgnored, qvars
<1>9. ASSUME NEW silent \in BOOLEAN, HearError(silent) PROVE [QueueNext]_qvars
  <2>1. CASE ErrorIsFatal(silent)
    BY <1>9, <2>1 DEF HearError, QueueNext
  <2>2. CASE ~ErrorIsFatal(silent)
    BY <1>9, <2>2 DEF HearError, ErrorResult, qvars
  <2> QED
    BY <2>1, <2>2
<1>10. CASE \E item \in inflight, ok \in BOOLEAN : TranslationAnswered(item, ok)
  BY <1>10 DEF TranslationAnswered, QueueNext
<1>11. CASE \E id \in 1 .. msgSeq : RetryMessage(id)
  BY <1>11 DEF RetryMessage, QueueNext
<1>12. CASE UNCHANGED vars
  BY <1>12 DEF vars, qvars
<1> QED
  BY <1>1, <1>2, <1>3, <1>4, <1>5, <1>6, <1>7, <1>8, <1>9, <1>10, <1>11, <1>12
     DEF Next

\* The speech side of the manager is a SpeechSession.
THEOREM SpeechOfMeeting == Spec => SpeechSpec
<1>1. Init => SpeechInit
  BY DEF Init
<1> QED
  BY <1>1, SpeechSideSteps, PTL DEF Spec, SpeechSpec

\* The translation side of the manager is a TranslationQueue.
THEOREM QueueOfMeeting == Spec => QueueSpec
<1>1. Init => QueueInit
  BY DEF Init
<1> QED
  BY <1>1, QueueSideSteps, PTL DEF Spec, QueueSpec

-----------------------------------------------------------------------------
(***************************************************************************)
(* The state the screen shows.                                             *)
(***************************************************************************)

\* Only an answer of Voice.stop() goes on to write a state.
Typed(c) ==
  /\ c \in Seq(VoiceCall)
  /\ \A i \in DOMAIN c : c[i].op # "stop" => c[i].then \notin {"idle", "paused"}

Ends(c) == \E i \in DOMAIN c : c[i].then = "idle"

ShownInv ==
  /\ state \in ConvState
  /\ Typed(calls)
  /\ ErrorEndsMeeting
  /\ TranslatingIsTrue
  /\ EndIsShown

\* The initial states satisfy it.
LEMMA ShownInvInit == Init => ShownInv
BY DEF Init, SpeechInit, QueueInit, SessionInit, ShownInv, ConvState, Typed,
       ErrorEndsMeeting, TranslatingIsTrue, EndIsShown

\* A call that is added keeps a shutdown under way.
LEMMA CallAppended ==
  ASSUME NEW c, Typed(c), NEW e \in VoiceCall,
         e.op # "stop" => e.then \notin {"idle", "paused"}
  PROVE  /\ Typed(Append(c, e))
         /\ Ends(c) => Ends(Append(c, e))
         /\ e.then = "idle" => Ends(Append(c, e))
<1>1. c \in Seq(VoiceCall)
  BY DEF Typed
<1>2. Append(c, e) \in Seq(VoiceCall)
  BY <1>1
<1>3. \A i \in DOMAIN c : i \in DOMAIN Append(c, e) /\ Append(c, e)[i] = c[i]
  BY <1>1
<1>4. \A i \in DOMAIN Append(c, e) : i \in DOMAIN c \/ i = Len(c) + 1
  BY <1>1
<1>5. Append(c, e)[Len(c) + 1] = e /\ Len(c) + 1 \in DOMAIN Append(c, e)
  BY <1>1
<1> QED
  BY <1>2, <1>3, <1>4, <1>5 DEF Typed, Ends

\* An answered call that does not show "idle" keeps a shutdown under way.
LEMMA CallTaken ==
  ASSUME NEW c, Typed(c), c # <<>>
  PROVE  /\ Typed(Tail(c))
         /\ Head(c).op # "stop" => Head(c).then \notin {"idle", "paused"}
         /\ Ends(c) /\ Head(c).then # "idle" => Ends(Tail(c))
<1>1. c \in Seq(VoiceCall)
  BY DEF Typed
<1>2. Tail(c) \in Seq(VoiceCall) /\ Head(c) = c[1] /\ 1 \in DOMAIN c
  BY <1>1
<1>3. \A i \in DOMAIN Tail(c) : i + 1 \in DOMAIN c /\ Tail(c)[i] = c[i + 1]
  BY <1>1
<1>4. \A i \in DOMAIN c : i # 1 => i - 1 \in DOMAIN Tail(c) /\ Tail(c)[i - 1] = c[i]
  BY <1>1
<1>5. Typed(Tail(c))
  BY <1>2, <1>3 DEF Typed
<1>6. Head(c).op # "stop" => Head(c).then \notin {"idle", "paused"}
  BY <1>2 DEF Typed
<1>7. ASSUME NEW i \in DOMAIN c, c[i].then = "idle", Head(c).then # "idle"
      PROVE  Ends(Tail(c))
  <2>1. i # 1
    BY <1>2, <1>7
  <2> QED
    BY <1>4, <1>7, <2>1 DEF Ends
<1> QED
  BY <1>5, <1>6, <1>7 DEF Ends

\* The calls the manager makes.
LEMMA CallKinds ==
  ASSUME source \in Langs
  PROVE  /\ StartCall(source) \in VoiceCall /\ StartCall(source).then = "none"
         /\ \A t \in Continuations : /\ StopCall(t) \in VoiceCall
                                     /\ StopCall(t).op = "stop"
                                     /\ StopCall(t).then = t
         /\ DestroyCall \in VoiceCall /\ DestroyCall.then = "none"
BY SpeechAssumption DEF StartCall, StopCall, DestroyCall, VoiceCall, Continuations

\* The listening that start(), resume() and the timer may begin.
LEMMA StartListeningKeeps ==
  ASSUME NEW live, Typed(calls), source \in Langs, StartListening(live)
  PROVE  Typed(calls') /\ (Ends(calls) => Ends(calls'))
<1>1. \/ calls' = calls
      \/ calls' = Append(calls, StartCall(source))
  BY DEF StartListening
<1>2. CASE calls' = calls
  BY <1>2
<1>3. CASE calls' = Append(calls, StartCall(source))
  BY <1>3, CallAppended, CallKinds
<1> QED
  BY <1>1, <1>2, <1>3

\* The call that ends it, after the calls "pending".
LEMMA StopListeningKeeps ==
  ASSUME NEW pending, Typed(pending), NEW t \in Continuations, source \in Langs,
         StopListening(pending, t)
  PROVE  /\ Typed(calls')
         /\ Ends(pending) => Ends(calls')
         /\ started /\ t = "idle" => Ends(calls')
<1>1. CASE started
  <2>1. calls' = Append(pending, StopCall(t))
    BY <1>1 DEF StopListening
  <2> QED
    BY <2>1, CallAppended, CallKinds
<1>2. CASE ~started
  BY <1>2 DEF StopListening
<1> QED
  BY <1>1, <1>2

\* The buttons.
LEMMA OwnerKeepsShown ==
  ASSUME ShownInv, source \in Langs,
         Start \/ Stop \/ Pause \/ Resume \/ Destroy
  PROVE  ShownInv'
<1> USE DEF ShownInv, ErrorEndsMeeting, TranslatingIsTrue, EndIsShown, Show,
            ShowAfterStop, ConvState
<1>1. CASE Start
  <2>1. state' = "connecting" /\ running' /\ calls' = calls
    BY <1>1 DEF Start, SpeechStart, BeginSession
  <2> QED
    BY <2>1
<1>2. CASE Stop
  <2>1. StopListening(calls, "idle") /\ ~running'
        /\ IF started THEN state' = state ELSE state' = "idle"
    BY <1>2 DEF Stop, SpeechStop, EndSession
  <2>2. Typed(calls') /\ (started => Ends(calls'))
    BY <2>1, StopListeningKeeps DEF Continuations
  <2>3. EndIsShown'
    BY <2>1, <2>2 DEF Ends, Shutdown
  <2> QED
    BY <2>1, <2>2, <2>3
<1>3. CASE Pause
  <2>1. StopListening(calls, "paused") /\ running /\ running' /\ paused'
        /\ (state' = state \/ state' = "paused")
    BY <1>3 DEF Pause, SpeechPause, PauseSession
  <2>2. Typed(calls')
    BY <2>1, StopListeningKeeps DEF Continuations
  <2> QED
    BY <2>1, <2>2
<1>4. CASE Resume
  <2>1. StartListening(TRUE) /\ running' = running /\ running /\ state' = "listening"
    BY <1>4 DEF Resume, SpeechResume, ResumeSession
  <2>2. Typed(calls')
    BY <2>1, StartListeningKeeps
  <2> QED
    BY <2>1, <2>2
<1>5. CASE Destroy
  <2>1. /\ calls' = Append(calls, IF started THEN StopCall("destroy") ELSE DestroyCall)
        /\ ~running' /\ ~mounted' /\ state' = state
    BY <1>5 DEF Destroy, SpeechDestroy, DestroySession
  <2>2. Typed(calls')
    <3>1. CASE started
      BY <2>1, <3>1, CallAppended, CallKinds DEF Continuations
    <3>2. CASE ~started
      BY <2>1, <3>2, CallAppended, CallKinds
    <3> QED
      BY <3>1, <3>2
  <2> QED
    BY <2>1, <2>2
<1> QED
  BY <1>1, <1>2, <1>3, <1>4, <1>5

\* The answers to start(), and the restart timer.
LEMMA LoopKeepsShown ==
  ASSUME ShownInv, source \in Langs,
         \/ \E s \in asking : StartGranted(s) \/ StartRefused(s)
         \/ RestartTimer
  PROVE  ShownInv'
<1> USE DEF ShownInv, ErrorEndsMeeting, TranslatingIsTrue, EndIsShown, Show, ConvState
<1>1. ASSUME NEW live, StartListening(live), UNCHANGED <<sessionVars, inflight>>,
             state' = state \/ (running /\ state' = "listening")
      PROVE  ShownInv'
  <2>1. Typed(calls') /\ (Ends(calls) => Ends(calls'))
    BY <1>1, StartListeningKeeps
  <2>2. EndIsShown'
    BY <1>1, <2>1 DEF Ends, Shutdown, sessionVars
  <2> QED
    BY <1>1, <2>1, <2>2 DEF sessionVars
<1>2. CASE \E s \in asking : StartGranted(s)
  BY <1>1, <1>2 DEF StartGranted, Granted, queueVars
<1>3. CASE RestartTimer
  BY <1>1, <1>3 DEF RestartTimer, TimerFires, queueVars
<1>4. CASE \E s \in asking : StartRefused(s)
  <2>1. StopListening(calls, "none") /\ ~running' /\ state' = "error"
    BY <1>4 DEF StartRefused, Refused, FailSpeech, FailSession
  <2>2. Typed(calls')
    BY <2>1, StopListeningKeeps DEF Continuations
  <2> QED
    BY <2>1, <2>2
<1> QED
  BY <1>2, <1>3, <1>4

\* The answers to native calls.
LEMMA VoiceKeepsShown ==
  ASSUME ShownInv, source \in Langs,
         StopAnswered \/ StartAnswered \/ StartRejected \/ DestroyAnswered
  PROVE  ShownInv'
<1> USE DEF ShownInv, ErrorEndsMeeting, TranslatingIsTrue, EndIsShown, Show, ConvState
<1>1. calls # <<>>
  BY DEF StopAnswered, VoiceStopped, StartAnswered, VoiceStarted, StartRejected,
         VoiceStartRejected, DestroyAnswered, VoiceDestroyed
<1>2. /\ Typed(Tail(calls))
      /\ Head(calls).op # "stop" => Head(calls).then \notin {"idle", "paused"}
      /\ Ends(calls) /\ Head(calls).then # "idle" => Ends(Tail(calls))
  BY <1>1, CallTaken
<1>3. CASE StopAnswered
  <2>1. /\ UNCHANGED <<running, paused, mounted, inflight>>
        /\ calls' = Tail(calls) \/ calls' = Append(Tail(calls), DestroyCall)
        /\ ShowAfter(Head(calls).then)
    BY <1>3 DEF StopAnswered, VoiceStopped, sessionVars, queueVars
  <2>2. Typed(calls') /\ (Ends(Tail(calls)) => Ends(calls'))
    <3>1. CASE calls' = Tail(calls)
      BY <1>2, <3>1
    <3>2. CASE calls' = Append(Tail(calls), DestroyCall)
      BY <1>2, <3>2, CallAppended, CallKinds
    <3> QED
      BY <2>1, <3>1, <3>2
  <2>3. CASE Head(calls).then = "idle"
    BY <2>1, <2>2, <2>3 DEF ShowAfter
  <2>4. CASE Head(calls).then = "paused"
    BY <2>1, <2>2, <2>4 DEF ShowAfter
  <2>5. CASE Head(calls).then \notin {"idle", "paused"}
    <3>1. state' = state
      BY <2>1, <2>5 DEF ShowAfter
    <3>2. EndIsShown'
      BY <1>2, <2>1, <2>2, <2>5, <3>1 DEF Ends, Shutdown
    <3> QED
      BY <2>1, <2>2, <3>1, <3>2
  <2> QED
    BY <2>3, <2>4, <2>5
<1>4. CASE StartAnswered \/ DestroyAnswered
  <2>1. /\ UNCHANGED <<running, paused, mounted, inflight, state>>
        /\ calls' = Tail(calls) /\ Head(calls).op # "stop"
    BY <1>4 DEF StartAnswered, VoiceStarted, DestroyAnswered, VoiceDestroyed,
                sessionVars, queueVars
  <2>2. EndIsShown'
    BY <1>2, <2>1 DEF Ends, Shutdown
  <2> QED
    BY <1>2, <2>1, <2>2
<1>5. CASE StartRejected
  <2>1. Head(calls).op # "stop"
    BY <1>5 DEF StartRejected, VoiceStartRejected
  <2>2. CASE running /\ ~paused
    <3>1. StopListening(Tail(calls), "none") /\ ~running' /\ state' = "error"
      BY <1>5, <2>2 DEF StartRejected, VoiceStartRejected, FailSpeech, FailSession
    <3>2. Typed(calls')
      BY <1>2, <3>1, StopListeningKeeps DEF Continuations
    <3> QED
      BY <3>1, <3>2
  <2>3. CASE ~(running /\ ~paused)
    <3>1. /\ UNCHANGED <<running, paused, mounted, inflight, state>>
          /\ calls' = Tail(calls)
      BY <1>5, <2>3 DEF StartRejected, VoiceStartRejected, sessionVars, queueVars
    <3>2. EndIsShown'
      BY <1>2, <2>1, <3>1 DEF Ends, Shutdown
    <3> QED
      BY <1>2, <3>1, <3>2
  <2> QED
    BY <2>2, <2>3
<1> QED
  BY <1>3, <1>4, <1>5

\* Starting the loop, or going on with it, awaits a message of this meeting.
LEMMA DrainingIsBusy ==
  ASSUME NEW q, NEW others, DrainFrom(q, others), LiveAt(q) # {}
  PROVE  inflight' # {}
BY DEF DrainFrom

\* Results, errors, translations and retries.
LEMMA WorkKeepsShown ==
  ASSUME ShownInv, QueueItems,
         \/ \E chunks \in 0 .. MaxChunks : HearFinal(chunks)
         \/ HearNothing \/ HearIgnored
         \/ \E silent \in BOOLEAN : HearError(silent)
         \/ \E item \in inflight, ok \in BOOLEAN : TranslationAnswered(item, ok)
         \/ \E id \in 1 .. msgSeq : RetryMessage(id)
         \/ MicCloses \/ HearPartial \/ \E l \in Langs : ChooseLanguage(l)
         \/ UNCHANGED vars
  PROVE  ShownInv'
<1> USE DEF ShownInv, ErrorEndsMeeting, TranslatingIsTrue, EndIsShown, Show, ConvState,
            Shutdown
\* What a step that leaves the shown state, or shows work, has to keep.
<1>1. ASSUME calls' = calls, UNCHANGED <<running, paused, mounted>>,
             \/ state' = state /\ (inflight # {} => inflight' # {})
             \/ running /\ state' = "translating" /\ inflight' # {}
             \/ running /\ state' = "listening"
      PROVE  ShownInv'
  BY <1>1
<1>2. CASE HearNothing \/ HearIgnored \/ MicCloses \/ HearPartial
           \/ (\E l \in Langs : ChooseLanguage(l)) \/ UNCHANGED vars
  <2>1. UNCHANGED <<calls, running, paused, mounted, state, inflight>>
    BY <1>2 DEF HearNothing, FinalResult, HearIgnored, FinalResultIgnored, MicCloses,
                RecogniserEnds, HearPartial, PartialResult, ChooseLanguage,
                SelectLanguage, sessionVars, speechVars, queueVars, vars
  <2> QED
    BY <1>1, <2>1
<1>3. ASSUME NEW q, DrainQueue(q), running, calls' = calls,
             UNCHANGED <<running, paused, mounted>>,
             IF queueRunning THEN UNCHANGED state ELSE state' = "translating",
             LiveAt(q) # {}
      PROVE  ShownInv'
  <2>1. CASE queueRunning
    <3>1. UNCHANGED <<inflight, state>>
      BY <1>3, <2>1 DEF DrainQueue
    <3> QED
      BY <1>1, <1>3, <3>1
  <2>2. CASE ~queueRunning
    <3>1. inflight' # {} /\ state' = "translating"
      BY <1>3, <2>2, DrainingIsBusy DEF DrainQueue
    <3> QED
      BY <1>1, <1>3, <3>1
  <2> QED
    BY <2>1, <2>2
<1>4. ASSUME NEW chunks \in 0 .. MaxChunks, HearFinal(chunks) PROVE ShownInv'
  <2>1. CASE chunks = 0
    <3>1. UNCHANGED <<calls, running, paused, mounted, state, inflight>>
      BY <1>4, <2>1 DEF HearFinal, FinalResult, sessionVars, queueVars
    <3> QED
      BY <1>1, <3>1
  <2>2. CASE chunks # 0
    <3> DEFINE new == [i \in 1 .. chunks |-> [id |-> msgSeq + i, session |-> session]]
               q == queue \o new
    <3>1. /\ running /\ calls' = calls /\ UNCHANGED <<running, paused, mounted>>
          /\ IF queueRunning THEN UNCHANGED state ELSE state' = "translating"
          /\ DrainQueue(q)
      BY <1>4, <2>2 DEF HearFinal, FinalResult, Enqueue, sessionVars
    <3>2. LiveAt(q) # {}
      <4>1. chunks \in Nat /\ chunks >= 1
        BY <2>2, QueueAssumption
      <4>2. Len(new) = chunks /\ new[1].session = session /\ new \in Seq({new[i] : i \in 1 .. chunks})
        BY <4>1
      <4> HIDE DEF new
      <4>3. q[Len(queue) + 1] = new[1] /\ Len(queue) + 1 \in DOMAIN q
        BY <4>1, <4>2 DEF QueueItems
      <4> QED
        BY <3>1, <4>2, <4>3 DEF LiveAt, Live
    <3> HIDE DEF q
    <3> QED
      BY <1>3, <3>1, <3>2
  <2> QED
    BY <2>1, <2>2
<1>5. ASSUME NEW silent \in BOOLEAN, HearError(silent) PROVE ShownInv'
  <2>1. CASE ErrorIsFatal(silent)
    <3>1. calls' = calls /\ state' = "error" /\ ~running'
      BY <1>5, <2>1 DEF HearError, ErrorResult, FailSession
    <3> QED
      BY <3>1
  <2>2. CASE ~ErrorIsFatal(silent)
    <3>1. UNCHANGED <<calls, running, paused, mounted, state, inflight>>
      BY <1>5, <2>2 DEF HearError, ErrorResult, sessionVars, queueVars
    <3> QED
      BY <1>1, <3>1
  <2> QED
    BY <2>1, <2>2
<1>6. ASSUME NEW item \in inflight, NEW ok \in BOOLEAN, TranslationAnswered(item, ok)
      PROVE  ShownInv'
  <2>1. /\ calls' = calls /\ UNCHANGED <<running, paused, mounted>>
        /\ DrainFrom(queue, inflight \ {item})
        /\ IF LiveAt(queue) # {} THEN state' = "translating"
           ELSE IF running /\ ~paused THEN state' = "listening"
           ELSE state' = state
    BY <1>6 DEF TranslationAnswered, Answer, sessionVars, speechVars
  <2>2. CASE LiveAt(queue) # {}
    <3>1. running
      BY <2>2 DEF LiveAt, Live
    <3> QED
      BY <1>1, <2>1, <2>2, <3>1, DrainingIsBusy
  <2>3. CASE LiveAt(queue) = {} /\ running /\ ~paused
    BY <1>1, <2>1, <2>3
  <2>4. CASE LiveAt(queue) = {} /\ ~(running /\ ~paused)
    BY <2>1, <2>4
  <2> QED
    BY <2>2, <2>3, <2>4
<1>7. ASSUME NEW id \in 1 .. msgSeq, RetryMessage(id) PROVE ShownInv'
  <2> DEFINE item == [id |-> id, session |-> session]
             q == Append(queue, item)
  <2>1. /\ running /\ calls' = calls /\ UNCHANGED <<running, paused, mounted>>
        /\ IF queueRunning THEN UNCHANGED state ELSE state' = "translating"
        /\ DrainQueue(q)
    BY <1>7 DEF RetryMessage, Retry, sessionVars, speechVars
  <2>2. LiveAt(q) # {}
    <3>1. item.session = session
      OBVIOUS
    <3> HIDE DEF item
    <3>2. q[Len(queue) + 1] = item /\ Len(queue) + 1 \in DOMAIN q
      BY DEF QueueItems
    <3> QED
      BY <2>1, <3>1, <3>2 DEF LiveAt, Live
  <2> HIDE DEF q
  <2> QED
    BY <1>3, <2>1, <2>2
<1> QED
  BY <1>2, <1>4, <1>5, <1>6, <1>7

\* Every step of the manager keeps it, given what each side keeps.
LEMMA ShownInvStep ==
  ShownInv /\ SpeechInv /\ QueueInv /\ [Next]_vars => ShownInv'
<1> SUFFICES ASSUME ShownInv, SpeechInv, QueueInv, [Next]_vars
             PROVE  ShownInv'
  OBVIOUS
<1>1. source \in Langs
  BY DEF SpeechInv, Counters
<1>2. QueueItems
  BY DEF QueueInv
<1>3. CASE Start \/ Stop \/ Pause \/ Resume \/ Destroy
  BY <1>1, <1>3, OwnerKeepsShown
<1>4. CASE (\E s \in asking : StartGranted(s) \/ StartRefused(s)) \/ RestartTimer
  BY <1>1, <1>4, LoopKeepsShown
<1>5. CASE StopAnswered \/ StartAnswered \/ StartRejected \/ DestroyAnswered
  BY <1>1, <1>5, VoiceKeepsShown
<1>6. CASE \/ \E chunks \in 0 .. MaxChunks : HearFinal(chunks)
           \/ HearNothing \/ HearIgnored
           \/ \E silent \in BOOLEAN : HearError(silent)
           \/ \E item \in inflight, ok \in BOOLEAN : TranslationAnswered(item, ok)
           \/ \E id \in 1 .. msgSeq : RetryMessage(id)
           \/ MicCloses \/ HearPartial \/ \E l \in Langs : ChooseLanguage(l)
           \/ UNCHANGED vars
  BY <1>2, <1>6, WorkKeepsShown
<1> QED
  BY <1>3, <1>4, <1>5, <1>6 DEF Next

\* The invariant of the shown state, for every value of the constants.
THEOREM ShownInvariant == Spec => []ShownInv
BY SpeechOfMeeting, QueueOfMeeting, SpeechInvariant, QueueInvariant, ShownInvInit,
   ShownInvStep, PTL DEF Spec

\* Type correctness of the whole manager.
THEOREM MeetingTyped == Spec => []TypeOK
<1>1. ShownInv /\ SpeechTypeOK /\ QueueTypeOK => TypeOK
  BY DEF ShownInv, TypeOK
<1> QED
  BY <1>1, ShownInvariant, SpeechOfMeeting, QueueOfMeeting, SpeechTyped, QueueTyped, PTL

\* The error that _fail() shows always comes with a Start button that works.
THEOREM ErrorsEndMeetings == Spec => []ErrorEndsMeeting
<1>1. ShownInv => ErrorEndsMeeting
  BY DEF ShownInv
<1> QED
  BY <1>1, ShownInvariant, PTL

\* _drainQueue() never leaves "translating" behind in a meeting that goes on.
THEOREM TranslatingMeansWork == Spec => []TranslatingIsTrue
<1>1. ShownInv => TranslatingIsTrue
  BY DEF ShownInv
<1> QED
  BY <1>1, ShownInvariant, PTL

\* No late answer shows a meeting that has ended as going on.
THEOREM EndsAreShown == Spec => []EndIsShown
<1>1. ShownInv => EndIsShown
  BY DEF ShownInv
<1> QED
  BY <1>1, ShownInvariant, PTL

-----------------------------------------------------------------------------
(***************************************************************************)
(* The calls whose answer shows a state, in their order.                   *)
(***************************************************************************)

\* The members of a finite set have the places from 1 to its size, in their order.
LEMMA Places ==
  ASSUME NEW S \in SUBSET Nat, IsFiniteSet(S)
  PROVE  /\ Cardinality(S) \in Nat
         /\ \A m \in S : Place(S, m) \in 1 .. Cardinality(S)
         /\ \A m, n \in S : m < n => Place(S, m) < Place(S, n)
         /\ \A i \in 1 .. Cardinality(S) : \E m \in S : Place(S, m) = i
<1> DEFINE below(m) == {n \in S : n =< m}
           f == [m \in S |-> Place(S, m)]
<1>1. Cardinality(S) \in Nat
  BY FS_CardinalityType
<1>2. ASSUME NEW m \in S
      PROVE  Place(S, m) \in 1 .. Cardinality(S)
  <2>1. below(m) \in SUBSET S /\ m \in below(m)
    OBVIOUS
  <2> HIDE DEF below
  <2>2. IsFiniteSet(below(m)) /\ Cardinality(below(m)) =< Cardinality(S)
    BY <2>1, FS_Subset
  <2>3. Cardinality(below(m)) \in Nat /\ Cardinality(below(m)) # 0
    BY <2>1, <2>2, FS_CardinalityType, FS_EmptySet
  <2>4. Place(S, m) = Cardinality(below(m))
    BY DEF Place, below
  <2> QED
    BY <1>1, <2>2, <2>3, <2>4
<1>3. ASSUME NEW m \in S, NEW n \in S, m < n
      PROVE  Place(S, m) < Place(S, n)
  <2>1. /\ below(n) \in SUBSET S /\ n \in below(n) /\ n \notin below(m)
        /\ \A k \in below(m) : k \in below(n)
    BY <1>3
  <2> HIDE DEF below
  <2>2. IsFiniteSet(below(n))
    BY <2>1, FS_Subset
  <2>3. Cardinality(below(m)) =< Cardinality(below(n))
        /\ Cardinality(below(m)) # Cardinality(below(n))
    <3>1. below(m) \in SUBSET below(n) /\ below(m) # below(n)
      BY <2>1
    <3> QED
      BY <2>2, <3>1, FS_Subset
  <2>4. Place(S, m) = Cardinality(below(m)) /\ Place(S, n) = Cardinality(below(n))
    BY DEF Place, below
  <2> QED
    BY <1>1, <1>2, <2>3, <2>4
<1>4. f \in Injection(S, 1 .. Cardinality(S))
  <2>1. f \in [S -> 1 .. Cardinality(S)]
    BY <1>2
  <2>2. ASSUME NEW m \in S, NEW n \in S, f[m] = f[n] PROVE m = n
    <3>1. Place(S, m) = Place(S, n) /\ Place(S, m) \in Nat
      BY <1>1, <1>2, <2>2
    <3>2. ~(m < n) /\ ~(n < m)
      BY <1>3, <3>1
    <3> QED
      BY <3>2
  <2> QED
    BY <2>1, <2>2, Fun_IsInj
<1>5. IsFiniteSet(1 .. Cardinality(S)) /\ Cardinality(1 .. Cardinality(S)) = Cardinality(S)
  BY <1>1, FS_Interval
<1>6. f \in Surjection(S, 1 .. Cardinality(S))
  <2> HIDE DEF f
  <2> QED
    BY <1>4, <1>5, FS_Injection
<1>7. ASSUME NEW i \in 1 .. Cardinality(S) PROVE \E m \in S : Place(S, m) = i
  <2>1. PICK m \in S : f[m] = i
    <3> HIDE DEF f
    <3> QED
      BY <1>6 DEF Surjection
  <2> QED
    BY <2>1
<1> QED
  BY <1>1, <1>2, <1>3, <1>7

\* What a call shows when it is answered.
EndingOf(call) == [show |-> call.then, speaker |-> 0]

\* AwaitedIn() is the order of the calls that show a state: each has its place.
LEMMA AwaitedInOrder ==
  ASSUME NEW c \in Seq(VoiceCall)
  PROVE  LET S == ShowingIn(c) IN
         /\ S \in SUBSET (1 .. Len(c)) /\ IsFiniteSet(S) /\ Cardinality(S) \in Nat
         /\ DOMAIN AwaitedIn(c) = 1 .. Cardinality(S)
         /\ AwaitedIn(c) \in Seq({EndingOf(c[i]) : i \in S})
         /\ \A i \in S : /\ Place(S, i) \in 1 .. Cardinality(S)
                         /\ AwaitedIn(c)[Place(S, i)] = EndingOf(c[i])
         /\ \A k \in 1 .. Cardinality(S) : \E i \in S : Place(S, i) = k
<1> DEFINE S == ShowingIn(c)
           n == Cardinality(S)
           at(k) == CHOOSE i \in S : Place(S, i) = k
           list == [k \in 1 .. n |-> [show |-> c[at(k)].then, speaker |-> 0]]
<1>1. S \in SUBSET (1 .. Len(c)) /\ IsFiniteSet(S) /\ S \in SUBSET Nat
  <2>1. S \in SUBSET (1 .. Len(c)) /\ Len(c) \in Nat
    BY DEF ShowingIn
  <2>2. IsFiniteSet(1 .. Len(c))
    BY <2>1, FS_Interval
  <2> QED
    BY <2>1, <2>2, FS_Subset
<1>2. AwaitedIn(c) = list
  BY DEF AwaitedIn
<1> HIDE DEF S
<1>3. /\ n \in Nat
      /\ \A i \in S : Place(S, i) \in 1 .. n
      /\ \A i, j \in S : i < j => Place(S, i) < Place(S, j)
      /\ \A k \in 1 .. n : \E i \in S : Place(S, i) = k
  BY <1>1, Places
<1> HIDE DEF n
<1>4. ASSUME NEW k \in 1 .. n PROVE at(k) \in S /\ Place(S, at(k)) = k
  BY <1>3
<1> HIDE DEF at
<1>5. ASSUME NEW i \in S PROVE at(Place(S, i)) = i
  <2>1. PICK j : j = at(Place(S, i))
    OBVIOUS
  <2>2. j \in S /\ Place(S, j) = Place(S, i) /\ Place(S, i) \in Nat
    BY <1>3, <1>4, <2>1
  <2>3. ~(i < j) /\ ~(j < i)
    BY <1>3, <2>2
  <2> QED
    BY <1>1, <2>1, <2>2, <2>3
<1>6. list \in Seq({EndingOf(c[i]) : i \in S}) /\ DOMAIN list = 1 .. n
  BY <1>3, <1>4 DEF EndingOf
<1>7. \A i \in S : list[Place(S, i)] = EndingOf(c[i])
  BY <1>3, <1>5 DEF EndingOf
<1> QED
  BY <1>1, <1>2, <1>3, <1>6, <1>7 DEF S, n

\* A call that shows nothing leaves the order as it is; one that does comes last.
LEMMA AwaitedAppended ==
  ASSUME NEW c \in Seq(VoiceCall), NEW e \in VoiceCall
  PROVE  AwaitedIn(Append(c, e)) = IF e.then \in {"idle", "paused"}
                                   THEN Append(AwaitedIn(c), EndingOf(e))
                                   ELSE AwaitedIn(c)
<1> DEFINE d == Append(c, e)
           S == ShowingIn(c)
           T == ShowingIn(d)
           n == Cardinality(S)
           old == AwaitedIn(c)
           new == AwaitedIn(d)
           last == Len(c) + 1
<1>1. /\ d \in Seq(VoiceCall) /\ Len(d) = last /\ Len(c) \in Nat
      /\ \A i \in 1 .. Len(c) : d[i] = c[i]
      /\ d[last] = e
  OBVIOUS
<1>2. T = IF e.then \in {"idle", "paused"} THEN S \cup {last} ELSE S
  BY <1>1 DEF ShowingIn
<1> HIDE DEF d
<1>3. /\ S \in SUBSET (1 .. Len(c)) /\ IsFiniteSet(S) /\ n \in Nat
      /\ DOMAIN old = 1 .. n /\ \E R : old \in Seq(R)
      /\ \A i \in S : Place(S, i) \in 1 .. n /\ old[Place(S, i)] = EndingOf(c[i])
  BY AwaitedInOrder
<1>4. /\ DOMAIN new = 1 .. Cardinality(T) /\ \E R : new \in Seq(R)
      /\ \A i \in T : new[Place(T, i)] = EndingOf(d[i])
      /\ \A k \in 1 .. Cardinality(T) : \E i \in T : Place(T, i) = k
  BY <1>1, AwaitedInOrder
<1> HIDE DEF S, T, old, new
<1>5. ASSUME NEW i \in S PROVE Place(T, i) = Place(S, i)
  <2>1. {j \in T : j =< i} = {j \in S : j =< i}
    BY <1>1, <1>2, <1>3
  <2> QED
    BY <2>1 DEF Place
<1>6. CASE e.then \notin {"idle", "paused"}
  <2>1. T = S
    BY <1>2, <1>6
  <2>2. ASSUME NEW k \in 1 .. n PROVE new[k] = old[k]
    <3>1. PICK i \in S : Place(S, i) = k
      BY <1>4, <2>1
    <3> QED
      BY <1>1, <1>3, <1>4, <2>1, <3>1
  <2>3. new = old
    BY <1>3, <1>4, <2>1, <2>2
  <2> QED
    BY <1>6, <2>3 DEF new, old, d
<1>7. CASE e.then \in {"idle", "paused"}
  <2>1. T = S \cup {last} /\ last \notin S
    BY <1>1, <1>2, <1>3, <1>7
  <2>2. Cardinality(T) = n + 1
    BY <1>3, <2>1, FS_AddElement
  <2>3. Place(T, last) = n + 1
    <3>1. \A j \in T : j =< last
      <4>1. \A j \in S : j \in 1 .. Len(c)
        BY <1>3
      <4>2. \A j \in S : j =< last
        BY <1>1, <4>1
      <4> QED
        BY <1>1, <2>1, <4>2
    <3>2. {j \in T : j =< last} = T
      BY <3>1
    <3> QED
      BY <2>2, <3>2 DEF Place
  <2> HIDE DEF last
  <2>4. new[n + 1] = EndingOf(e)
    BY <1>1, <1>4, <2>1, <2>3
  <2>5. ASSUME NEW k \in 1 .. n PROVE new[k] = old[k]
    <3>1. PICK i \in T : Place(T, i) = k
      BY <1>3, <1>4, <2>2
    <3>2. i \in S
      BY <1>3, <2>1, <2>3, <3>1
    <3> QED
      BY <1>1, <1>3, <1>4, <1>5, <3>1, <3>2
  <2>6. new = Append(old, EndingOf(e))
    BY <1>3, <1>4, <2>2, <2>4, <2>5
  <2> QED
    BY <1>7, <2>6 DEF new, old, d
<1> QED
  BY <1>6, <1>7

\* As many members, each one higher.
LEMMA Moved ==
  ASSUME NEW A \in SUBSET Nat, IsFiniteSet(A)
  PROVE  LET B == {j + 1 : j \in A} IN IsFiniteSet(B) /\ Cardinality(B) = Cardinality(A)
<1> DEFINE B == {j + 1 : j \in A}
           f == [j \in A |-> j + 1]
<1>1. f \in [A -> B] /\ \A j, k \in A : f[j] = f[k] => j = k
  OBVIOUS
<1>2. \A b \in B : \E j \in A : f[j] = b
  OBVIOUS
<1> HIDE DEF f, B
<1>3. f \in Bijection(A, B)
  BY <1>1, <1>2, Fun_IsBij
<1>4. ExistsBijection(A, B)
  BY <1>3 DEF ExistsBijection
<1> QED
  BY <1>4, FS_Bijection DEF B

\* Without 1, and with the rest moved one down, each place is one less if 1 had one.
LEMMA PlacesBehindFirst ==
  ASSUME NEW S \in SUBSET (Nat \ {0}), IsFiniteSet(S),
         NEW T \in SUBSET (Nat \ {0}), IsFiniteSet(T),
         \A i \in Nat \ {0} : i \in T <=> i + 1 \in S
  PROVE  LET first == IF 1 \in S THEN 1 ELSE 0 IN
         /\ Cardinality(S) = Cardinality(T) + first
         /\ \A i \in T : i + 1 \in S /\ Place(S, i + 1) = Place(T, i) + first
<1> DEFINE first == IF 1 \in S THEN 1 ELSE 0
           up(A) == {j + 1 : j \in A}
           ones == IF 1 \in S THEN {1} ELSE {}
<1>1. ASSUME NEW A \in SUBSET T
      PROVE  Cardinality(up(A) \cup ones) = Cardinality(A) + first
  <2>1. IsFiniteSet(A) /\ Cardinality(A) \in Nat
    BY FS_Subset, FS_CardinalityType
  <2>2. IsFiniteSet(up(A)) /\ Cardinality(up(A)) = Cardinality(A)
    BY <2>1, Moved
  <2>3. 1 \notin up(A)
    OBVIOUS
  <2> HIDE DEF up
  <2>4. CASE 1 \in S
    BY <2>1, <2>2, <2>3, <2>4, FS_AddElement
  <2>5. CASE 1 \notin S
    <3>1. up(A) \cup ones = up(A) /\ first = 0
      BY <2>5
    <3> HIDE DEF ones, first
    <3> QED
      BY <2>1, <2>2, <3>1
  <2> QED
    BY <2>4, <2>5
<1>2. \A j \in S : j = 1 \/ (j - 1 \in T /\ j = (j - 1) + 1)
  OBVIOUS
<1>3. S = up(T) \cup ones
  BY <1>2
<1>4. ASSUME NEW i \in T PROVE i + 1 \in S /\ Place(S, i + 1) = Place(T, i) + first
  <2> DEFINE A == {j \in T : j =< i}
  <2>1. \A j \in S : j =< i + 1 <=> j \in up(A) \cup ones
    <3>1. ASSUME NEW j \in S, j # 1 PROVE j =< i + 1 <=> j \in up(A)
      <4>1. j - 1 \in T /\ j = (j - 1) + 1
        BY <1>2, <3>1
      <4> QED
        BY <4>1
    <3>2. 1 \in S => 1 =< i + 1 /\ 1 \in ones
      OBVIOUS
    <3>3. \A j \in S : j # 1 => j \notin ones
      OBVIOUS
    <3> HIDE DEF up, ones
    <3> QED
      BY <3>1, <3>2, <3>3
  <2>2. \A j \in up(A) \cup ones : j \in S
    OBVIOUS
  <2>3. {j \in S : j =< i + 1} = up(A) \cup ones
    <3> HIDE DEF up, ones, A
    <3> QED
      BY <2>1, <2>2
  <2>4. Place(S, i + 1) = Cardinality(up(A) \cup ones) /\ Place(T, i) = Cardinality(A)
    BY <2>3 DEF Place
  <2>5. A \in SUBSET T
    OBVIOUS
  <2> HIDE DEF A, up, ones, first
  <2>6. i + 1 \in S
    OBVIOUS
  <2> QED
    BY <1>1, <2>4, <2>5, <2>6
<1> HIDE DEF up, ones
<1> QED
  BY <1>1, <1>3, <1>4

\* An answered call that shows a state is the first that had one to show.
LEMMA AwaitedTaken ==
  ASSUME NEW c \in Seq(VoiceCall), c # <<>>
  PROVE  IF Head(c).then \in {"idle", "paused"}
         THEN /\ AwaitedIn(c) # <<>>
              /\ Head(AwaitedIn(c)) = EndingOf(Head(c))
              /\ AwaitedIn(Tail(c)) = Tail(AwaitedIn(c))
         ELSE AwaitedIn(Tail(c)) = AwaitedIn(c)
<1> DEFINE d == Tail(c)
           S == ShowingIn(c)
           T == ShowingIn(d)
           n == Cardinality(T)
           old == AwaitedIn(c)
           new == AwaitedIn(d)
           first == IF 1 \in S THEN 1 ELSE 0
<1>1. /\ d \in Seq(VoiceCall) /\ Len(d) = Len(c) - 1 /\ Len(c) \in Nat \ {0}
      /\ \A i \in 1 .. Len(d) : d[i] = c[i + 1]
      /\ Head(c) = c[1] /\ 1 \in 1 .. Len(c)
  OBVIOUS
<1>2. 1 \in S <=> Head(c).then \in {"idle", "paused"}
  BY <1>1 DEF ShowingIn
<1>3. \A i \in Nat \ {0} : i \in T <=> i + 1 \in S
  BY <1>1 DEF ShowingIn
<1> HIDE DEF d
<1>4. /\ S \in SUBSET (1 .. Len(c)) /\ IsFiniteSet(S)
      /\ DOMAIN old = 1 .. Cardinality(S)
      /\ \A i \in S : Place(S, i) \in 1 .. Cardinality(S) /\ old[Place(S, i)] = EndingOf(c[i])
      /\ \E R : old \in Seq(R)
  BY AwaitedInOrder
<1>5. /\ T \in SUBSET (1 .. Len(d)) /\ IsFiniteSet(T) /\ n \in Nat
      /\ DOMAIN new = 1 .. n
      /\ \A i \in T : Place(T, i) \in 1 .. n /\ new[Place(T, i)] = EndingOf(d[i])
      /\ \A k \in 1 .. n : \E i \in T : Place(T, i) = k
      /\ \E R : new \in Seq(R)
  BY <1>1, AwaitedInOrder
<1> HIDE DEF S, T, old, new
<1>6. S \in SUBSET (Nat \ {0}) /\ T \in SUBSET (Nat \ {0})
  BY <1>1, <1>4, <1>5
<1>7. /\ Cardinality(S) = n + first
      /\ \A i \in T : i + 1 \in S /\ Place(S, i + 1) = Place(T, i) + first
  BY <1>3, <1>4, <1>5, <1>6, PlacesBehindFirst
<1>8. ASSUME NEW k \in 1 .. n PROVE new[k] = old[k + first]
  <2>1. PICK i \in T : Place(T, i) = k
    BY <1>5
  <2>2. new[k] = EndingOf(d[i]) /\ d[i] = c[i + 1]
    BY <1>1, <1>5, <2>1
  <2>3. i + 1 \in S /\ Place(S, i + 1) = k + first
    BY <1>7, <2>1
  <2>4. old[k + first] = EndingOf(c[i + 1])
    <3> HIDE DEF first
    <3> QED
      BY <1>4, <2>3
  <2> QED
    BY <2>2, <2>4
<1>9. CASE 1 \notin S
  <2>1. Cardinality(S) = n
    BY <1>5, <1>7, <1>9
  <2>2. \A k \in 1 .. n : new[k] = old[k]
    BY <1>5, <1>8, <1>9
  <2>3. new = old
    BY <1>4, <1>5, <2>1, <2>2
  <2> QED
    BY <1>2, <1>9, <2>3 DEF new, old, d
<1>10. CASE 1 \in S
  <2>1. Place(S, 1) = 1
    <3> DEFINE upToOne == {j \in S : j =< 1}
    <3>1. Place(S, 1) = Cardinality(upToOne)
      BY DEF Place
    <3>2. \A j \in S : j =< 1 <=> j = 1
      BY <1>6
    <3>3. upToOne = {1}
      BY <1>10, <3>2
    <3> HIDE DEF upToOne
    <3> QED
      BY <3>1, <3>3, FS_Singleton
  <2>2. old[1] = EndingOf(Head(c)) /\ Len(old) = n + 1
    BY <1>1, <1>4, <1>5, <1>7, <1>10, <2>1
  <2>3. old # <<>> /\ Head(old) = EndingOf(Head(c)) /\ new = Tail(old)
    BY <1>4, <1>5, <1>8, <1>10, <2>2
  <2> QED
    BY <1>2, <1>10, <2>3 DEF new, old, d
<1> QED
  BY <1>9, <1>10

-----------------------------------------------------------------------------
(***************************************************************************)
(* The manager implements the Meeting the screen is built on.              *)
(***************************************************************************)

\* What starts the recogniser shows nothing when it is answered.
LEMMA ListeningShowsNothing ==
  ASSUME Typed(calls), source \in Langs, NEW live, StartListening(live)
  PROVE  AwaitedIn(calls') = AwaitedIn(calls)
<1>1. CASE calls' = calls
  BY <1>1
<1>2. CASE calls' = Append(calls, StartCall(source))
  BY <1>2, CallKinds, AwaitedAppended DEF Typed
<1> QED
  BY <1>1, <1>2 DEF StartListening

\* What stops it shows what the caller goes on to show, if it awaits an answer.
LEMMA StoppingShows ==
  ASSUME NEW pending \in Seq(VoiceCall), NEW t \in Continuations, source \in Langs,
         StopListening(pending, t)
  PROVE  AwaitedIn(calls') = IF started /\ t \in {"idle", "paused"}
                             THEN Append(AwaitedIn(pending), [show |-> t, speaker |-> 0])
                             ELSE AwaitedIn(pending)
<1>1. CASE started
  <2>1. calls' = Append(pending, StopCall(t))
    BY <1>1 DEF StopListening
  <2>2. StopCall(t) \in VoiceCall /\ StopCall(t).then = t
    BY CallKinds
  <2> QED
    BY <1>1, <2>1, <2>2, AwaitedAppended DEF EndingOf
<1>2. CASE ~started
  BY <1>2 DEF StopListening
<1> QED
  BY <1>1, <1>2

\* Each of the owner's operations is the one of the meeting.
LEMMA OwnerFollowsMeeting ==
  ASSUME Typed(calls), source \in Langs, Start \/ Stop \/ Pause \/ Resume \/ Destroy
  PROVE  Abstract!MeetingNext
<1> USE DEF Abstract!MeetingNext, Show, ShowAfterStop
<1>1. calls \in Seq(VoiceCall)
  BY DEF Typed
<1>2. CASE Start
  <2>1. Abstract!BeginSession /\ calls' = calls
    BY <1>2 DEF Start, SpeechStart, BeginSession, Abstract!BeginSession
  <2>2. ShownAs = "idle" /\ ShownAs' = "live"
    BY <1>2 DEF Start, StartOffered, ShownAs
  <2>3. Abstract!MeetingStart
    BY <2>1, <2>2 DEF Abstract!MeetingStart
  <2> QED
    BY <2>3
<1>3. CASE Stop
  <2>1. Abstract!EndSession /\ StopListening(calls, "idle")
    BY <1>3 DEF Stop, SpeechStop, EndSession, Abstract!EndSession
  <2>2. AwaitedIn(calls') = IF started
                            THEN Append(AwaitedIn(calls), [show |-> "idle", speaker |-> 0])
                            ELSE AwaitedIn(calls)
    BY <1>1, <2>1, StoppingShows DEF Continuations
  <2>3. IF started THEN ShownAs' = ShownAs ELSE ShownAs' = "idle"
    BY <1>3 DEF Stop, ShownAs
  <2>4. Abstract!MeetingStop(started)
    BY <2>1, <2>2, <2>3 DEF Abstract!MeetingStop, Abstract!ShowNow, Abstract!ShowLater
  <2>5. CASE started
    BY <2>4, <2>5 DEF Abstract!MeetingStop
  <2>6. CASE ~started
    BY <2>4, <2>6 DEF Abstract!MeetingStop
  <2> QED
    BY <2>5, <2>6
<1>4. CASE Pause
  <2>1. Abstract!PauseSession /\ StopListening(calls, "paused")
    BY <1>4 DEF Pause, SpeechPause, PauseSession, Abstract!PauseSession
  <2>2. AwaitedIn(calls') = IF started
                            THEN Append(AwaitedIn(calls), [show |-> "paused", speaker |-> 0])
                            ELSE AwaitedIn(calls)
    BY <1>1, <2>1, StoppingShows DEF Continuations
  <2>3. /\ ShownAs = "live"
        /\ IF started THEN ShownAs' = ShownAs ELSE ShownAs' = "paused"
    BY <1>4 DEF Pause, PauseOffered, ShownAs
  <2>4. CASE started
    BY <2>1, <2>2, <2>3, <2>4
       DEF Abstract!MeetingPause, Abstract!ShowNow, Abstract!ShowLater
  <2>5. CASE ~started
    BY <2>1, <2>2, <2>3, <2>5
       DEF Abstract!MeetingPause, Abstract!ShowNow, Abstract!ShowLater
  <2> QED
    BY <2>4, <2>5
<1>5. CASE Resume
  <2>1. Abstract!ResumeSession /\ StartListening(TRUE)
    BY <1>5 DEF Resume, SpeechResume, ResumeSession, Abstract!ResumeSession
  <2>2. AwaitedIn(calls') = AwaitedIn(calls)
    BY <2>1, ListeningShowsNothing
  <2>3. ShownAs' = "live"
    BY <1>5 DEF Resume, ShownAs
  <2> QED
    BY <2>1, <2>2, <2>3 DEF Abstract!MeetingResume
<1>6. CASE Destroy
  <2>1. /\ Abstract!DestroySession /\ state' = state
        /\ calls' = Append(calls, IF started THEN StopCall("destroy") ELSE DestroyCall)
    BY <1>6 DEF Destroy, SpeechDestroy, DestroySession, Abstract!DestroySession
  <2>2. /\ StopCall("destroy") \in VoiceCall /\ StopCall("destroy").then = "destroy"
        /\ DestroyCall \in VoiceCall /\ DestroyCall.then = "none"
    BY CallKinds DEF Continuations
  <2>3. AwaitedIn(calls') = AwaitedIn(calls)
    <3>1. CASE started
      BY <1>1, <2>1, <2>2, <3>1, AwaitedAppended
    <3>2. CASE ~started
      BY <1>1, <2>1, <2>2, <3>2, AwaitedAppended
    <3> QED
      BY <3>1, <3>2
  <2>4. ShownAs' = ShownAs
    BY <2>1 DEF ShownAs
  <2> QED
    BY <2>1, <2>3, <2>4 DEF Abstract!MeetingDestroy
<1> QED
  BY <1>2, <1>3, <1>4, <1>5, <1>6

\* A step that the screen takes as nothing new, or as work going on.
LEMMA MeetingGoesOnOrStays ==
  ASSUME UNCHANGED sessionVars, AwaitedIn(calls') = AwaitedIn(calls),
         \/ state' = state
         \/ running /\ state' \in {"listening", "translating"}
  PROVE  [Abstract!MeetingNext]_(Abstract!meetingVars)
<1>1. CASE state' = state
  BY <1>1 DEF ShownAs, sessionVars, Abstract!meetingVars, Abstract!sessionVars
<1>2. CASE running /\ state' \in {"listening", "translating"}
  BY <1>2 DEF ShownAs, sessionVars, Abstract!sessionVars, Abstract!MeetingGoesOn,
              Abstract!MeetingNext
<1> QED
  BY <1>1, <1>2

\* A failure is the meeting's, whatever stop it issues without waiting for it.
LEMMA MeetingFailsToo ==
  ASSUME FailSession, state' = "error", AwaitedIn(calls') = AwaitedIn(calls)
  PROVE  Abstract!MeetingNext
BY DEF ShownAs, FailSession, Abstract!FailSession, Abstract!MeetingFails,
       Abstract!MeetingNext

\* The answers to start(), and the restart timer.
LEMMA LoopFollowsMeeting ==
  ASSUME Typed(calls), source \in Langs,
         \/ \E s \in asking : StartGranted(s) \/ StartRefused(s)
         \/ RestartTimer
  PROVE  [Abstract!MeetingNext]_(Abstract!meetingVars)
<1>1. CASE (\E s \in asking : StartGranted(s)) \/ RestartTimer
  <2>1. PICK live : StartListening(live)
    BY <1>1 DEF StartGranted, Granted, RestartTimer, TimerFires
  <2>2. AwaitedIn(calls') = AwaitedIn(calls)
    BY <2>1, ListeningShowsNothing
  <2>3. /\ UNCHANGED sessionVars
        /\ state' = state \/ (running /\ state' = "listening")
    BY <1>1 DEF StartGranted, Granted, RestartTimer, TimerFires, Show
  <2> QED
    BY <2>2, <2>3, MeetingGoesOnOrStays
<1>2. CASE \E s \in asking : StartRefused(s)
  <2>1. FailSession /\ StopListening(calls, "none") /\ state' = "error"
    BY <1>2 DEF StartRefused, Refused, FailSpeech, Show
  <2>2. AwaitedIn(calls') = AwaitedIn(calls)
    BY <2>1, StoppingShows DEF Typed, Continuations
  <2> QED
    BY <2>1, <2>2, MeetingFailsToo
<1> QED
  BY <1>1, <1>2

\* The answers to native calls.
LEMMA VoiceFollowsMeeting ==
  ASSUME Typed(calls), source \in Langs,
         StopAnswered \/ StartAnswered \/ StartRejected \/ DestroyAnswered
  PROVE  [Abstract!MeetingNext]_(Abstract!meetingVars)
<1> DEFINE then == Head(calls).then
           endings == AwaitedIn(calls)
<1>1. calls # <<>> /\ calls \in Seq(VoiceCall) /\ Tail(calls) \in Seq(VoiceCall)
  BY DEF StopAnswered, VoiceStopped, StartAnswered, VoiceStarted, StartRejected,
         VoiceStartRejected, DestroyAnswered, VoiceDestroyed, Typed
<1>2. Head(calls).op # "stop" => then \notin {"idle", "paused"}
  BY <1>1, CallTaken
<1>3. IF then \in {"idle", "paused"}
      THEN /\ endings # <<>> /\ Head(endings) = [show |-> then, speaker |-> 0]
           /\ AwaitedIn(Tail(calls)) = Tail(endings)
      ELSE AwaitedIn(Tail(calls)) = endings
  BY <1>1, AwaitedTaken DEF EndingOf
<1>4. CASE StopAnswered
  <2>1. /\ UNCHANGED sessionVars /\ ShowAfter(then)
        /\ calls' = IF then = "destroy" THEN Append(Tail(calls), DestroyCall)
                    ELSE Tail(calls)
    BY <1>4 DEF StopAnswered, VoiceStopped
  <2> HIDE DEF then
  <2>2. CASE then \in {"idle", "paused"}
    <3>1. state' = then /\ calls' = Tail(calls)
      BY <2>1, <2>2 DEF ShowAfter, Show
    <3>2. ShownAs' = then
      BY <2>2, <3>1 DEF ShownAs
    <3>3. endings # <<>> /\ AwaitedIn(calls') = Tail(endings) /\ ShownAs' = Head(endings).show
      BY <1>3, <2>2, <3>1, <3>2
    <3> HIDE DEF endings
    <3>4. Abstract!MeetingAnswered
      BY <2>1, <3>3 DEF Abstract!MeetingAnswered, Abstract!sessionVars, sessionVars, endings
    <3> QED
      BY <3>4 DEF Abstract!MeetingNext
  <2>3. CASE then \notin {"idle", "paused"}
    <3>1. state' = state
      BY <2>1, <2>3 DEF ShowAfter
    <3>2. AwaitedIn(calls') = endings
      <4>1. CASE then = "destroy"
        <5>1. DestroyCall \in VoiceCall /\ DestroyCall.then = "none"
          BY CallKinds
        <5>2. AwaitedIn(Append(Tail(calls), DestroyCall)) = AwaitedIn(Tail(calls))
          BY <1>1, <5>1, AwaitedAppended
        <5> QED
          BY <1>3, <2>1, <2>3, <4>1, <5>2
      <4>2. CASE then # "destroy"
        BY <1>3, <2>1, <2>3, <4>2
      <4> QED
        BY <4>1, <4>2
    <3> QED
      BY <2>1, <3>1, <3>2, MeetingGoesOnOrStays
  <2> QED
    BY <2>2, <2>3
<1>5. CASE StartAnswered \/ DestroyAnswered
  <2>1. /\ UNCHANGED <<sessionVars, state>> /\ calls' = Tail(calls)
        /\ Head(calls).op # "stop"
    BY <1>5 DEF StartAnswered, VoiceStarted, DestroyAnswered, VoiceDestroyed
  <2>2. AwaitedIn(calls') = endings
    BY <1>2, <1>3, <2>1
  <2> QED
    BY <2>1, <2>2, MeetingGoesOnOrStays
<1>6. CASE StartRejected
  <2>1. Head(calls).op # "stop"
    BY <1>6 DEF StartRejected, VoiceStartRejected
  <2>2. AwaitedIn(Tail(calls)) = endings
    BY <1>2, <1>3, <2>1
  <2>3. CASE running /\ ~paused
    <3>1. FailSession /\ StopListening(Tail(calls), "none") /\ state' = "error"
      BY <1>6, <2>3 DEF StartRejected, VoiceStartRejected, FailSpeech, Show
    <3>2. AwaitedIn(calls') = endings
      BY <1>1, <2>2, <3>1, StoppingShows DEF Continuations
    <3> QED
      BY <3>1, <3>2, MeetingFailsToo
  <2>4. CASE ~(running /\ ~paused)
    <3>1. UNCHANGED <<sessionVars, state>> /\ calls' = Tail(calls)
      BY <1>6, <2>4 DEF StartRejected, VoiceStartRejected
    <3> QED
      BY <2>2, <3>1, MeetingGoesOnOrStays
  <2> QED
    BY <2>3, <2>4
<1> QED
  BY <1>4, <1>5, <1>6

\* Results, errors, translations and retries: they add no call, and show work only
\* while the meeting runs.
LEMMA WorkFollowsMeeting ==
  ASSUME \/ \E chunks \in 0 .. MaxChunks : HearFinal(chunks)
         \/ HearNothing \/ HearIgnored
         \/ \E silent \in BOOLEAN : HearError(silent)
         \/ \E item \in inflight, ok \in BOOLEAN : TranslationAnswered(item, ok)
         \/ \E id \in 1 .. msgSeq : RetryMessage(id)
         \/ MicCloses \/ HearPartial \/ \E l \in Langs : ChooseLanguage(l)
         \/ UNCHANGED vars
  PROVE  [Abstract!MeetingNext]_(Abstract!meetingVars)
<1>1. ASSUME UNCHANGED <<sessionVars, calls>>,
             \/ state' = state
             \/ running /\ state' \in {"listening", "translating"}
      PROVE  [Abstract!MeetingNext]_(Abstract!meetingVars)
  BY <1>1, MeetingGoesOnOrStays
<1>2. CASE HearNothing \/ HearIgnored \/ MicCloses \/ HearPartial
           \/ (\E l \in Langs : ChooseLanguage(l)) \/ UNCHANGED vars
  <2>1. UNCHANGED <<sessionVars, calls, state>>
    BY <1>2 DEF HearNothing, FinalResult, HearIgnored, FinalResultIgnored, MicCloses,
                RecogniserEnds, HearPartial, PartialResult, ChooseLanguage,
                SelectLanguage, speechVars, vars
  <2> QED
    BY <1>1, <2>1
<1>3. CASE \/ \E chunks \in 0 .. MaxChunks : HearFinal(chunks)
           \/ \E id \in 1 .. msgSeq : RetryMessage(id)
  <2>1. /\ UNCHANGED <<sessionVars, calls>>
        /\ state' = state \/ (running /\ state' = "translating")
    BY <1>3 DEF HearFinal, FinalResult, RetryMessage, Retry, Show, speechVars
  <2> QED
    BY <1>1, <2>1
<1>4. CASE \E item \in inflight, ok \in BOOLEAN : TranslationAnswered(item, ok)
  <2>1. /\ UNCHANGED <<sessionVars, calls>>
        /\ IF LiveAt(queue) # {} THEN state' = "translating"
           ELSE IF running /\ ~paused THEN state' = "listening"
           ELSE state' = state
    BY <1>4 DEF TranslationAnswered, Answer, Show, speechVars
  <2>2. LiveAt(queue) # {} => running
    BY DEF LiveAt, Live
  <2> QED
    BY <1>1, <2>1, <2>2
<1>5. ASSUME NEW silent \in BOOLEAN, HearError(silent)
      PROVE  [Abstract!MeetingNext]_(Abstract!meetingVars)
  <2>1. CASE ErrorIsFatal(silent)
    <3>1. FailSession /\ calls' = calls /\ state' = "error"
      BY <1>5, <2>1 DEF HearError, ErrorResult, Show
    <3> QED
      BY <3>1, MeetingFailsToo
  <2>2. CASE ~ErrorIsFatal(silent)
    <3>1. UNCHANGED <<sessionVars, calls, state>>
      BY <1>5, <2>2 DEF HearError, ErrorResult
    <3> QED
      BY <1>1, <3>1
  <2> QED
    BY <2>1, <2>2
<1> QED
  BY <1>2, <1>3, <1>4, <1>5

\* A step of the manager is a step of the meeting, or none.
LEMMA ManagerStepsAreMeetingSteps ==
  ShownInv /\ SpeechInv /\ [Next]_vars
    => [Abstract!MeetingNext]_(Abstract!meetingVars)
<1> SUFFICES ASSUME ShownInv, SpeechInv, [Next]_vars
             PROVE  [Abstract!MeetingNext]_(Abstract!meetingVars)
  OBVIOUS
<1>1. Typed(calls) /\ source \in Langs
  BY DEF ShownInv, SpeechInv, Counters
<1>2. CASE Start \/ Stop \/ Pause \/ Resume \/ Destroy
  BY <1>1, <1>2, OwnerFollowsMeeting
<1>3. CASE (\E s \in asking : StartGranted(s) \/ StartRefused(s)) \/ RestartTimer
  BY <1>1, <1>3, LoopFollowsMeeting
<1>4. CASE StopAnswered \/ StartAnswered \/ StartRejected \/ DestroyAnswered
  BY <1>1, <1>4, VoiceFollowsMeeting
<1>5. CASE \/ \E chunks \in 0 .. MaxChunks : HearFinal(chunks)
           \/ HearNothing \/ HearIgnored
           \/ \E silent \in BOOLEAN : HearError(silent)
           \/ \E item \in inflight, ok \in BOOLEAN : TranslationAnswered(item, ok)
           \/ \E id \in 1 .. msgSeq : RetryMessage(id)
           \/ MicCloses \/ HearPartial \/ \E l \in Langs : ChooseLanguage(l)
           \/ UNCHANGED vars
  BY <1>5, WorkFollowsMeeting
<1> QED
  BY <1>2, <1>3, <1>4, <1>5 DEF Next

\* No call is awaited at the start.
LEMMA InitiallyTheMeeting == Init => Abstract!MeetingInit
<1> SUFFICES ASSUME Init PROVE Abstract!MeetingInit
  OBVIOUS
<1>1. calls = <<>> /\ state = "idle" /\ SessionInit
  BY DEF Init, SpeechInit
<1>2. <<>> \in Seq(VoiceCall) /\ ShowingIn(<<>>) = {}
  BY DEF ShowingIn
<1>3. DOMAIN AwaitedIn(<<>>) = 1 .. 0 /\ \E R : AwaitedIn(<<>>) \in Seq(R)
  BY <1>2, AwaitedInOrder, FS_EmptySet
<1>4. AwaitedIn(calls) = <<>>
  BY <1>1, <1>3
<1> QED
  BY <1>1, <1>4 DEF Abstract!MeetingInit, Abstract!SessionInit, SessionInit, ShownAs

\* Recogniser, timer, permission answers and translations do nothing to the
\* meeting that the owner did not ask for, except to end it; and its states are
\* shown in the order in which they were awaited: ConversationManager is a Meeting.
THEOREM ManagerImplementsMeeting == Spec => ImplementsMeeting
BY SpeechOfMeeting, SpeechInvariant, ShownInvariant, InitiallyTheMeeting,
   ManagerStepsAreMeetingSteps, PTL DEF Spec, ImplementsMeeting, Abstract!MeetingSpec

-----------------------------------------------------------------------------
(***************************************************************************)
(* What is proved of the two sides holds of the whole manager.             *)
(***************************************************************************)

\* Composed, each side keeps its promises: the restart timer is of this meeting, a
\* live meeting is heard or about to be, it ends by its third silence, nothing is
\* heard once the screen is left; and what is queued is of this meeting, drained,
\* translated once at a time and written to a message that waits for it.
THEOREM MeetingKeepsBothSides ==
  Spec => /\ []TimerBelongsToLiveSession
          /\ []LiveSessionKeepsListening
          /\ []SilentErrorsBounded
          /\ []NothingHeardAfterDestroy
          /\ []QueueIsCurrent
          /\ []QueueIsDrained
          /\ []NoDoubleTranslation
          /\ []PendingIsProcessing
BY SpeechOfMeeting, QueueOfMeeting, RestartsAreCurrent, NoLostWakeup, SilenceEndsMeeting,
   DestroyClosesTheMicrophone, QueueCurrent, QueueDrained, NeverTranslatedTwice,
   AnswersLandOnProcessing, PTL

\* The reader of a whole meeting sees a MeetingTimeline, whatever the recogniser,
\* its restarts and failures do to the meeting meanwhile: no chunk of a running
\* meeting goes missing and no translation that is shown is taken back.
THEOREM MeetingKeepsItsTimeline ==
  Spec => ImplementsTimeline /\ NoMessageLost /\ TranslatedIsFinal
BY QueueOfMeeting, QueueImplementsTimeline, MessagesAreNotLost, TranslationsAreFinal, PTL

==============================================================================
