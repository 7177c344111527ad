-------------------------- MODULE MeetingScreenProofs --------------------------
(***************************************************************************)
(* The screen uses the speech service as TextToSpeech says and the meeting *)
(* as Meeting says, so that what is proved of the service holds on the     *)
(* screen; and a meeting paused for a speech is always about to be         *)
(* resumed, for any number of meetings and translations.                   *)
(***************************************************************************)
EXTENDS MeetingScreen, TextToSpeechProofs

-----------------------------------------------------------------------------
(***************************************************************************)
(* The parts of the screen.                                                *)
(***************************************************************************)

LEMMA SpeechServiceSteps == [ScreenNext]_screenVars => [TtsNext]_ttsVars
<1> SUFFICES ASSUME [ScreenNext]_screenVars PROVE [TtsNext]_ttsVars
  OBVIOUS
<1>1. CASE HandleSpeak
  BY <1>1 DEF HandleSpeak, SpeakFor, TtsNext
<1>2. CASE PressStart \/ PressResume \/ ManagerActs
  BY <1>2 DEF PressStart, PressResume, ManagerActs
<1>3. CASE \E later \in BOOLEAN : PressPause(later)
  BY <1>3 DEF PressPause
<1>4. CASE \E later \in BOOLEAN : StopEverything(later)
  BY <1>4 DEF StopEverything, TtsNext
<1>5. CASE LeaveScreen
  BY <1>5 DEF LeaveScreen, TtsNext
<1>6. CASE StopSpeech
  BY <1>6 DEF StopSpeech, TtsNext
<1>7. CASE ManagerAnswers
  BY <1>7 DEF ManagerAnswers, SpeakFor, TtsNext
<1>8. CASE VoiceAnswers
  BY <1>8 DEF VoiceAnswers, TtsNext
<1>9. CASE TimeoutFires
  BY <1>9 DEF TimeoutFires, TtsNext
<1>10. CASE SpeechEvent
  BY <1>10 DEF SpeechEvent, TtsNext
<1>11. CASE EngineActs
  BY <1>11 DEF EngineActs, TtsNext
<1>12. CASE UNCHANGED screenVars
  BY <1>12 DEF screenVars
<1> QED
  BY <1>1, <1>2, <1>3, <1>4, <1>5, <1>6, <1>7, <1>8, <1>9, <1>10, <1>11, <1>12
     DEF ScreenNext

\* The service behind the screen is a TextToSpeech: what is proved of the service
\* alone holds under handleSpeak() and the buttons (Translator.js:130-178).
THEOREM ServiceOfScreen == ScreenSpec => TtsSpec
<1>1. ScreenInit => TtsInit
  BY DEF ScreenInit
<1> QED
  BY <1>1, SpeechServiceSteps, PTL DEF ScreenSpec, TtsSpec

LEMMA MeetingSteps == [ScreenNext]_screenVars => [MeetingNext]_meetingVars
<1> SUFFICES ASSUME [ScreenNext]_screenVars PROVE [MeetingNext]_meetingVars
  OBVIOUS
<1>1. CASE HandleSpeak
  BY <1>1 DEF HandleSpeak, MeetingNext
<1>2. CASE PressStart \/ PressResume
  BY <1>2 DEF PressStart, PressResume, MeetingNext
<1>3. CASE \E later \in BOOLEAN : PressPause(later)
  BY <1>3 DEF PressPause, MeetingNext
<1>4. CASE \E later \in BOOLEAN : StopEverything(later)
  BY <1>4 DEF StopEverything, MeetingNext
<1>5. CASE LeaveScreen
  BY <1>5 DEF LeaveScreen, MeetingNext
<1>6. CASE StopSpeech \/ VoiceAnswers \/ TimeoutFires \/ SpeechEvent
  BY <1>6 DEF StopSpeech, VoiceAnswers, TimeoutFires, SpeechEvent, Finally,
              MeetingNext
<1>7. CASE ManagerAnswers
  BY <1>7 DEF ManagerAnswers, MeetingNext
<1>8. CASE ManagerActs
  BY <1>8 DEF ManagerActs, MeetingNext
<1>9. CASE EngineActs
  BY <1>9 DEF EngineActs
<1>10. CASE UNCHANGED screenVars
  BY <1>10 DEF screenVars
<1> QED
  BY <1>1, <1>2, <1>3, <1>4, <1>5, <1>6, <1>7, <1>8, <1>9, <1>10 DEF ScreenNext

\* The meeting behind the screen is a Meeting, which a ConversationManager
\* implements (Translator.js:130-178, conversationManager.js:85-171).
THEOREM MeetingOfScreen == ScreenSpec => MeetingSpec
<1>1. ScreenInit => MeetingInit
  BY DEF ScreenInit
<1> QED
  BY <1>1, MeetingSteps, PTL DEF ScreenSpec, MeetingSpec

-----------------------------------------------------------------------------
(***************************************************************************)
(* Types. A meeting that runs has a session number, by which a speech is   *)
(* known to resume it: 0 stands for none.                                  *)
(***************************************************************************)

MeetingInv == MeetingTypeOK /\ (running => session # 0)

LEMMA MeetingInvariant == MeetingSpec => []MeetingInv
<1>1. MeetingInit => MeetingInv
  <2> SUFFICES ASSUME MeetingInit PROVE MeetingInv
    OBVIOUS
  <2>1. SessionTypeOK
    BY DEF MeetingInit, SessionInit, SessionTypeOK
  <2>2. endings \in Seq(Ending)
    BY DEF MeetingInit
  <2> QED
    BY <2>1, <2>2 DEF MeetingInit, SessionInit, MeetingInv, MeetingTypeOK
<1>2. MeetingInv /\ [MeetingNext]_meetingVars => MeetingInv'
  <2> SUFFICES ASSUME MeetingInv, [MeetingNext]_meetingVars PROVE MeetingInv'
    OBVIOUS
  <2>0. /\ SessionTypeOK /\ session \in Nat /\ (running => session # 0)
        /\ shown \in {"idle", "live", "paused"} /\ endings \in Seq(Ending)
    BY DEF MeetingInv, MeetingTypeOK, SessionTypeOK
  <2>1. SessionTypeOK' /\ (running => session # 0)'
    <3>1. CASE BeginSession \/ EndSession \/ DestroySession
      <4>1. session' = session + 1
        BY <3>1 DEF BeginSession, EndSession, DestroySession
      <4>2. session' \in Nat /\ session' # 0
        BY <2>0, <4>1
      <4>3. running' \in BOOLEAN /\ paused' \in BOOLEAN /\ mounted' \in BOOLEAN
        BY <2>0, <3>1 DEF BeginSession, EndSession, DestroySession, SessionTypeOK
      <4> QED
        BY <4>2, <4>3 DEF SessionTypeOK
    <3>2. CASE PauseSession \/ ResumeSession \/ FailSession \/ UNCHANGED sessionVars
      <4>1. session' = session /\ (running' => running)
        BY <3>2 DEF PauseSession, ResumeSession, FailSession, sessionVars
      <4>2. running' \in BOOLEAN /\ paused' \in BOOLEAN /\ mounted' \in BOOLEAN
        BY <2>0, <3>2, Zenon DEF PauseSession, ResumeSession, FailSession, sessionVars,
                          SessionTypeOK
      <4> QED
        BY <2>0, <4>1, <4>2 DEF SessionTypeOK
    <3> QED
      BY <3>1, <3>2 DEF MeetingNext, MeetingStart, MeetingStop, MeetingPause,
           MeetingResume, MeetingDestroy, MeetingFails, MeetingGoesOn,
           MeetingAnswered, meetingVars
  <2>2. CASE endings' = endings /\ shown' \in {"idle", "live", "paused"}
    BY <2>0, <2>1, <2>2 DEF MeetingInv, MeetingTypeOK
  <2>3. ASSUME NEW ending \in Ending, ShowLater(ending) \/ ShowNow(ending)
        PROVE  MeetingInv'
    <3>1. ending.show \in {"idle", "paused"}
      BY DEF Ending
    <3>2. endings' \in Seq(Ending) /\ shown' \in {"idle", "live", "paused"}
      BY <2>0, <2>3, <3>1 DEF ShowLater, ShowNow
    <3> QED
      BY <2>1, <3>2 DEF MeetingInv, MeetingTypeOK
  <2>4. CASE \E later \in BOOLEAN : MeetingStop(later)
    <3>1. [show |-> "idle", speaker |-> 0] \in Ending
      BY DEF Ending
    <3> QED
      BY <2>3, <2>4, <3>1 DEF MeetingStop
  <2>5. CASE \E speaker \in {0, session}, later \in BOOLEAN : MeetingPause(speaker, later)
    <3>1. PICK speaker \in {0, session}, later \in BOOLEAN : MeetingPause(speaker, later)
      BY <2>5
    <3>2. [show |-> "paused", speaker |-> speaker] \in Ending
      BY <2>0 DEF Ending
    <3> QED
      BY <2>3, <3>1, <3>2 DEF MeetingPause
  <2>6. CASE MeetingAnswered
    <3>1. Head(endings) \in Ending /\ endings' \in Seq(Ending)
      BY <2>0, <2>6 DEF MeetingAnswered
    <3>2. shown' \in {"idle", "live", "paused"}
      BY <2>6, <3>1 DEF MeetingAnswered, Ending
    <3> QED
      BY <2>1, <3>1, <3>2 DEF MeetingInv, MeetingTypeOK
  <2> QED
    BY <2>0, <2>2, <2>4, <2>5, <2>6 DEF MeetingNext, MeetingStart, MeetingResume,
         MeetingDestroy, MeetingFails, MeetingGoesOn, meetingVars
<1> QED
  BY <1>1, <1>2, PTL DEF MeetingSpec

HandlersTyped ==
  /\ resumeAfter \in [Utterances -> Nat]
  /\ userPaused \in BOOLEAN

LEMMA HandlersTypedKept ==
  ASSUME TtsInv, MeetingInv, HandlersTyped, [ScreenNext]_screenVars
  PROVE  HandlersTyped'
<1>1. session \in Nat /\ resumeAfter \in [Utterances -> Nat] /\ userPaused \in BOOLEAN
  BY DEF MeetingInv, MeetingTypeOK, SessionTypeOK, HandlersTyped
<1>2. ASSUME NEW s \in Nat, SpeakFor(s)
      PROVE  resumeAfter' \in [Utterances -> Nat]
  BY <1>1, <1>2 DEF SpeakFor
<1>3. CASE HandleSpeak
  <2>1. userPaused' \in BOOLEAN
    BY <1>1, <1>3 DEF HandleSpeak
  <2>2. resumeAfter' = resumeAfter \/ SpeakFor(session) \/ SpeakFor(0)
    BY <1>3 DEF HandleSpeak
  <2> QED
    BY <1>1, <1>2, <2>1, <2>2 DEF HandlersTyped
<1>4. CASE ManagerAnswers
  <2>1. CASE Head(endings).speaker = 0
    BY <1>1, <1>4, <2>1 DEF ManagerAnswers, HandlersTyped
  <2>2. CASE Head(endings).speaker # 0
    <3>1. Head(endings) \in Ending
      BY <1>4 DEF ManagerAnswers, MeetingAnswered, MeetingInv, MeetingTypeOK
    <3> QED
      BY <1>1, <1>2, <1>4, <2>2, <3>1 DEF ManagerAnswers, HandlersTyped, Ending
  <2> QED
    BY <2>1, <2>2
<1>5. CASE \E later \in BOOLEAN : PressPause(later)
  BY <1>1, <1>5 DEF PressPause, HandlersTyped
<1> QED
  BY <1>1, <1>3, <1>4, <1>5 DEF ScreenNext, PressStart, PressResume, StopEverything,
       LeaveScreen, StopSpeech, ManagerActs, VoiceAnswers, TimeoutFires,
       SpeechEvent, EngineActs, HandlersTyped, screenVars

-----------------------------------------------------------------------------
(***************************************************************************)
(* No lost resume. A step settles callers, and then its finally blocks     *)
(* resume; or it settles none, and the calls under way stay under way.     *)
(***************************************************************************)

\* speak() settles nobody, and its own call is under way.
LEMMA SpeakSettlesNobody ==
  ASSUME TtsInv, Speak
  PROVE  /\ said' = said + 1 /\ said + 1 \in Utterances
         /\ \A u \in 1 .. said : caller'[u] = caller[u]
         /\ caller'[said + 1] # "done"
<1>1. /\ said \in Nat /\ said < MaxUtterances /\ said' = said + 1
      /\ said + 1 \in Utterances
  BY TtsAssumption DEF Speak, TtsInv, NumbersTyped, Utterances
<1>2. caller \in [Utterances -> Awaits] /\ ttsQueue \in Seq(Utterances)
  BY DEF TtsInv, LoopInv, Accounted, Ordered
<1>3. ASSUME NEW a \in {"init", "speech"}, caller' = [caller EXCEPT ![said + 1] = a]
      PROVE  /\ \A u \in 1 .. said : caller'[u] = caller[u]
             /\ caller'[said + 1] # "done"
  <2>1. ASSUME NEW u \in 1 .. said PROVE caller'[u] = caller[u]
    <3>1. u # said + 1 /\ u \in Utterances
      BY <1>1, TtsAssumption DEF Utterances
    <3> QED
      BY <1>2, <1>3, <3>1
  <2>2. caller'[said + 1] = a
    BY <1>1, <1>2, <1>3
  <2> QED
    BY <1>3, <2>1, <2>2
<1>4. caller' = [caller EXCEPT ![said + 1] = IF ready THEN "speech" ELSE "init"]
  <2>1. ttsQueue \o <<said + 1>> # <<>>
    BY <1>1, <1>2
  <2> QED
    BY <2>1 DEF Speak, Push, LoopFrom
<1> QED
  BY <1>1, <1>3, <1>4

LEMMA SpeakKeepsDue ==
  ASSUME TtsInv, HandlersTyped, NEW s \in Nat, SpeakFor(s)
  PROVE  /\ s # 0 => \E u \in 1 .. said' : resumeAfter'[u] # 0 /\ caller'[u] # "done"
         /\ (\E u \in 1 .. said : resumeAfter[u] # 0 /\ caller[u] # "done")
              => \E u \in 1 .. said' : resumeAfter'[u] # 0 /\ caller'[u] # "done"
<1>1. /\ said' = said + 1 /\ said + 1 \in Utterances /\ said \in Nat
      /\ \A u \in 1 .. said : caller'[u] = caller[u]
      /\ caller'[said + 1] # "done"
  BY SpeakSettlesNobody DEF SpeakFor, TtsInv, NumbersTyped
<1>2. /\ resumeAfter' = [resumeAfter EXCEPT ![said + 1] = s]
      /\ resumeAfter \in [Utterances -> Nat]
  BY DEF SpeakFor, HandlersTyped
<1>3. s # 0 => \E u \in 1 .. said' : resumeAfter'[u] # 0 /\ caller'[u] # "done"
  <2>1. resumeAfter'[said + 1] = s
    BY <1>1, <1>2
  <2>2. said + 1 \in 1 .. said'
    BY <1>1
  <2> QED
    BY <1>1, <2>1, <2>2
<1>4. ASSUME NEW u \in 1 .. said, resumeAfter[u] # 0, caller[u] # "done"
      PROVE  u \in 1 .. said' /\ resumeAfter'[u] # 0 /\ caller'[u] # "done"
  <2>1. u \in Utterances /\ u # said + 1 /\ u \in 1 .. said'
    BY <1>1, TtsAssumption DEF Utterances
  <2>2. resumeAfter'[u] = resumeAfter[u]
    BY <1>2, <2>1
  <2> QED
    BY <1>1, <1>4, <2>1, <2>2
<1> QED
  BY <1>3, <1>4

\* Whoever is settled in a step with its finally blocks has resumed the meeting,
\* or somebody else will.
LEMMA FinallyKeeps ==
  ASSUME TtsInv, PauseIsResumed, Finally,
         UNCHANGED <<said, resumeAfter, userPaused>>
  PROVE  PauseIsResumed'
<1>1. CASE MeetingResume
  BY <1>1 DEF MeetingResume, ResumeSession, PauseIsResumed
<1>2. CASE /\ UNCHANGED meetingVars
           /\ ~((\E u \in Finished : resumeAfter[u] # 0) /\ running /\ paused)
  <2>1. SUFFICES ASSUME running, paused, ~userPaused PROVE ResumeIsDue'
    BY <1>2 DEF PauseIsResumed, meetingVars, sessionVars
  <2>2. ResumeIsDue
    BY <2>1 DEF PauseIsResumed
  <2>3. CASE Pausing # {}
    BY <1>2, <2>3 DEF ResumeIsDue, Pausing, meetingVars
  <2>4. CASE \E u \in 1 .. said : resumeAfter[u] # 0 /\ caller[u] # "done"
    <3>1. PICK u \in 1 .. said : resumeAfter[u] # 0 /\ caller[u] # "done"
      BY <2>4
    <3>2. u \in Utterances
      BY TtsAssumption DEF TtsInv, NumbersTyped, Utterances
    <3>3. caller'[u] # "done"
      BY <1>2, <2>1, <3>1, <3>2 DEF Finished
    <3> QED
      BY <3>1, <3>3 DEF ResumeIsDue
  <2> QED
    BY <2>2, <2>3, <2>4 DEF ResumeIsDue
<1> QED
  BY <1>1, <1>2 DEF Finally

\* The steps that leave the speech alone.
LEMMA MeetingKeepsResume ==
  ASSUME PauseIsResumed, UNCHANGED <<ttsVars, resumeAfter, userPaused>>,
         endings' = endings, running' /\ paused' => running /\ paused
  PROVE  PauseIsResumed'
BY DEF PauseIsResumed, ResumeIsDue, Pausing, ttsVars, serviceVars

LEMMA PauseIsResumedKept ==
  ASSUME TtsInv, MeetingInv, HandlersTyped, PauseIsResumed, [ScreenNext]_screenVars
  PROVE  PauseIsResumed'
<1>0. endings \in Seq(Ending) /\ session \in Nat /\ (running => session # 0)
  BY DEF MeetingInv, MeetingTypeOK, SessionTypeOK
<1>1. CASE HandleSpeak
  <2>1. CASE shown = "live" /\ running /\ ~paused
    <3>1. session # 0
      BY <1>0, <2>1
    <3>2. CASE MeetingPause(session, TRUE)
      <4>1. endings' = Append(endings, [show |-> "paused", speaker |-> session])
        BY <3>2 DEF MeetingPause, ShowLater
      <4>2. Len(endings') = Len(endings) + 1 /\ endings'[Len(endings')].speaker = session
        BY <1>0, <4>1
      <4>3. Len(endings') \in Pausing'
        BY <1>0, <3>1, <4>2 DEF Pausing
      <4> QED
        BY <4>3 DEF PauseIsResumed, ResumeIsDue
    <3>3. CASE SpeakFor(session)
      BY <1>0, <3>1, <3>3, SpeakKeepsDue DEF PauseIsResumed, ResumeIsDue
    <3> QED
      BY <1>1, <2>1, <3>2, <3>3 DEF HandleSpeak
  <2>2. CASE ~(shown = "live" /\ running /\ ~paused)
    <3>1. UNCHANGED <<meetingVars, userPaused>> /\ (SpeakFor(session) \/ SpeakFor(0))
      BY <1>1, <2>2 DEF HandleSpeak
    <3>2. (\E u \in 1 .. said : resumeAfter[u] # 0 /\ caller[u] # "done")
            => \E u \in 1 .. said' : resumeAfter'[u] # 0 /\ caller'[u] # "done"
      BY <1>0, <3>1, SpeakKeepsDue
    <3> QED
      BY <3>1, <3>2 DEF PauseIsResumed, ResumeIsDue, Pausing, meetingVars, sessionVars
  <2> QED
    BY <2>1, <2>2
<1>2. CASE PressStart
  BY <1>2 DEF PressStart, MeetingStart, BeginSession, PauseIsResumed
<1>3. CASE \E later \in BOOLEAN : PressPause(later)
  BY <1>3 DEF PressPause, PauseIsResumed
<1>4. CASE PressResume
  BY <1>4 DEF PressResume, MeetingResume, ResumeSession, PauseIsResumed
<1>5. CASE \E later \in BOOLEAN : StopEverything(later)
  BY <1>5 DEF StopEverything, MeetingStop, EndSession, PauseIsResumed
<1>6. CASE LeaveScreen
  BY <1>6 DEF LeaveScreen, MeetingDestroy, DestroySession, PauseIsResumed
<1>7. CASE StopSpeech
  BY <1>7, FinallyKeeps DEF StopSpeech, StopSpeaking
<1>8. CASE ManagerActs
  <2>1. endings' = endings /\ (running' /\ paused' => running /\ paused)
    BY <1>8 DEF ManagerActs, MeetingFails, FailSession, MeetingGoesOn, sessionVars
  <2> QED
    BY <1>8, <2>1, MeetingKeepsResume DEF ManagerActs
<1>9. CASE ManagerAnswers
  <2>1. /\ endings # <<>> /\ endings' = Tail(endings)
        /\ UNCHANGED <<running, paused, userPaused>>
    BY <1>9 DEF ManagerAnswers, MeetingAnswered, sessionVars
  <2>2. CASE Head(endings).speaker = 0
    <3>1. ASSUME NEW i \in Pausing PROVE i - 1 \in Pausing'
      <4>1. i \in 1 .. Len(endings) /\ i # 1
        BY <1>0, <2>1, <2>2 DEF Pausing
      <4>2. i - 1 \in 1 .. Len(endings') /\ endings'[i - 1] = endings[i]
        BY <1>0, <2>1, <4>1
      <4> QED
        BY <4>2 DEF Pausing
    <3>2. UNCHANGED <<said, caller, resumeAfter>>
      BY <1>9, <2>2 DEF ManagerAnswers, ttsVars, serviceVars
    <3> QED
      BY <2>1, <3>1, <3>2 DEF PauseIsResumed, ResumeIsDue
  <2>3. CASE Head(endings).speaker # 0
    <3>1. Head(endings) \in Ending
      BY <1>0, <2>1
    <3>3. Head(endings).speaker \in Nat
      BY <3>1 DEF Ending
    <3>2. SpeakFor(Head(endings).speaker)
      BY <1>9, <2>3 DEF ManagerAnswers
    <3> QED
      BY <2>3, <3>3, <3>2, SpeakKeepsDue DEF PauseIsResumed, ResumeIsDue
  <2> QED
    BY <2>2, <2>3
<1>10. CASE VoiceAnswers
  <2>1. UNCHANGED said
    BY <1>10 DEF VoiceAnswers, InitAnswered, Prepared
  <2> QED
    BY <1>10, <2>1, FinallyKeeps DEF VoiceAnswers
<1>11. CASE TimeoutFires
  <2>1. UNCHANGED said
    BY <1>11 DEF TimeoutFires, TtsTimeout
  <2> QED
    BY <1>11, <2>1, FinallyKeeps DEF TimeoutFires
<1>12. CASE SpeechEvent
  <2>1. UNCHANGED said
    BY <1>12 DEF SpeechEvent, TtsEvent
  <2> QED
    BY <1>12, <2>1, FinallyKeeps DEF SpeechEvent
<1>13. CASE EngineActs \/ UNCHANGED screenVars
  BY <1>13 DEF EngineActs, EngineStarts, EngineEnds, EngineFails, serviceVars, ttsVars,
       screenVars, meetingVars, sessionVars, PauseIsResumed, ResumeIsDue, Pausing
<1> QED
  BY <1>1, <1>2, <1>3, <1>4, <1>5, <1>6, <1>7, <1>8, <1>9, <1>10, <1>11, <1>12, <1>13
     DEF ScreenNext

-----------------------------------------------------------------------------
(***************************************************************************)
(* The results.                                                            *)
(***************************************************************************)

LEMMA HandlersInvariant == ScreenSpec => [](HandlersTyped /\ PauseIsResumed)
<1>1. ScreenInit => HandlersTyped /\ PauseIsResumed
  <2> SUFFICES ASSUME ScreenInit PROVE HandlersTyped /\ PauseIsResumed
    OBVIOUS
  <2>1. resumeAfter \in [Utterances -> Nat]
    BY DEF ScreenInit
  <2>2. userPaused \in BOOLEAN /\ ~running
    BY DEF ScreenInit, MeetingInit, SessionInit
  <2> QED
    BY <2>1, <2>2 DEF HandlersTyped, PauseIsResumed
<1>2. /\ TtsInv /\ MeetingInv /\ HandlersTyped /\ PauseIsResumed
      /\ [ScreenNext]_screenVars
      => (HandlersTyped /\ PauseIsResumed)'
  BY HandlersTypedKept, PauseIsResumedKept
<1> QED
  BY <1>1, <1>2, ServiceOfScreen, TtsInvariant, MeetingOfScreen, MeetingInvariant, PTL
     DEF ScreenSpec

\* Type correctness of the screen with its service and its meeting
\* (Translator.js:50-58, 130-178).
THEOREM ScreenTyped == ScreenSpec => []ScreenTypeOK
<1>1. TtsTypeOK /\ MeetingInv /\ HandlersTyped => ScreenTypeOK
  BY DEF MeetingInv, HandlersTyped, ScreenTypeOK
<1> QED
  BY <1>1, HandlersInvariant, ServiceOfScreen, TtsTyped, MeetingOfScreen,
     MeetingInvariant, PTL

\* A meeting paused for a speech never waits for a resume() nobody will call: the
\* try, catch and finally of handleSpeak() (Translator.js:137-158) leave one behind
\* whatever stops, fails, times out or overlaps.
THEOREM SpeechResumesMeeting == ScreenSpec => []PauseIsResumed
BY HandlersInvariant, PTL
=============================================================================
