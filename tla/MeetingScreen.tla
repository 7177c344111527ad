----------------------------- MODULE MeetingScreen -----------------------------
(***************************************************************************)
(* The screen of the Meeting Interpreter joins a meeting and the spoken    *)
(* translations: handleSpeak() pauses the meeting, awaits the speech and   *)
(* resumes the meeting, by a decision taken before the first await.        *)
(*                                                                         *)
(* A call of handleSpeak() awaits pause() as an ending of the meeting with *)
(* its session as "speaker", and from then on is the caller of an          *)
(* utterance of TextToSpeech; its finally block runs in the step in which  *)
(* that caller is done.                                                    *)
(***************************************************************************)
EXTENDS Meeting, TextToSpeech, FiniteSets

VARIABLES
  resumeAfter,  \* per utterance: the session handleSpeak() will resume, 0 for none
  userPaused    \* history: the pause of the meeting is the user's

screenVars == <<meetingVars, ttsVars, resumeAfter, userPaused>>

ScreenTypeOK ==
  /\ MeetingTypeOK
  /\ TtsTypeOK
  /\ resumeAfter \in [Utterances -> Nat]
  /\ userPaused \in BOOLEAN

ScreenInit ==
  /\ MeetingInit
  /\ TtsInit
  /\ resumeAfter = [u \in Utterances |-> 0]
  /\ userPaused = FALSE

-----------------------------------------------------------------------------
(***************************************************************************)
(* handleSpeak().                                                          *)
(***************************************************************************)

\* Its finally block has run for an utterance whose caller became done.
Finished == {u \in Utterances : caller[u] # "done" /\ caller'[u] = "done"}

\* Mutant of Finally: resume() is called in the try block, after the awaits.
FinallyInTry ==
  LET failed == IF step = "preparing" THEN {item} ELSE {} IN
  IF (\E u \in Finished \ failed : resumeAfter[u] # 0) /\ running /\ paused
  THEN MeetingResume
  ELSE UNCHANGED meetingVars

\* resume() does nothing unless the meeting of that moment is paused.
Finally ==
  IF (\E u \in Finished : resumeAfter[u] # 0) /\ running /\ paused
  THEN MeetingResume
  ELSE UNCHANGED meetingVars

\* The call goes on with speak(), and will resume session "s", if not 0.
SpeakFor(s) ==
  /\ Speak
  /\ resumeAfter' = [resumeAfter EXCEPT ![said + 1] = s]

\* The calls that await pause() will be utterances too.
Pausing == {i \in 1 .. Len(endings) : endings[i].speaker # 0}
CanSpeak == \E u \in Utterances : u = said + Cardinality(Pausing) + 1

\* A translation is tapped, or auto mode finds a new one. What is shown decides
\* whether the meeting will be resumed; pause() returns at once when it is not
\* running or is paused.
HandleSpeak ==
  /\ mounted /\ CanSpeak
  /\ IF shown = "live" /\ running /\ ~paused
     THEN /\ userPaused' = FALSE
          /\ \/ /\ MeetingPause(session, TRUE)
                /\ UNCHANGED <<ttsVars, resumeAfter>>
             \/ /\ MeetingPause(session, FALSE)
                /\ SpeakFor(session)
     ELSE /\ SpeakFor(IF shown = "live" THEN session ELSE 0)
          /\ UNCHANGED <<meetingVars, userPaused>>

-----------------------------------------------------------------------------
(***************************************************************************)
(* The buttons, the background, and leaving the screen.                    *)
(***************************************************************************)

PressStart == MeetingStart /\ UNCHANGED <<ttsVars, resumeAfter, userPaused>>

\* One button pauses and resumes.
PressPause(later) ==
  /\ MeetingPause(0, later)
  /\ userPaused' = TRUE
  /\ UNCHANGED <<ttsVars, resumeAfter>>

PressResume ==
  /\ shown = "paused"
  /\ MeetingResume
  /\ UNCHANGED <<ttsVars, resumeAfter, userPaused>>

\* The Stop button, or the app leaves the foreground: the meeting ends first, and
\* the speech that ends with it finds nothing to resume.
StopEverything(later) ==
  /\ MeetingStop(later)
  /\ StopSpeaking
  /\ UNCHANGED <<resumeAfter, userPaused>>

LeaveScreen ==
  /\ MeetingDestroy
  /\ DestroySpeaking
  /\ UNCHANGED <<resumeAfter, userPaused>>

\* The translation that is spoken is tapped.
StopSpeech ==
  /\ StopSpeaking
  /\ Finally
  /\ UNCHANGED <<resumeAfter, userPaused>>

-----------------------------------------------------------------------------
(***************************************************************************)
(* The event loop.                                                         *)
(***************************************************************************)

\* The manager's own steps.
ManagerActs ==
  /\ MeetingFails \/ MeetingGoesOn
  /\ UNCHANGED <<ttsVars, resumeAfter, userPaused>>

\* An awaited stop() or pause() is answered; handleSpeak() goes on to speak().
ManagerAnswers ==
  /\ MeetingAnswered
  /\ IF Head(endings).speaker = 0
     THEN UNCHANGED <<ttsVars, resumeAfter>>
     ELSE SpeakFor(Head(endings).speaker)
  /\ UNCHANGED userPaused

VoiceAnswers ==
  /\ InitAnswered \/ \E ok \in BOOLEAN : Prepared(ok)
  /\ Finally
  /\ UNCHANGED <<resumeAfter, userPaused>>

TimeoutFires ==
  /\ \E u \in timers : TtsTimeout(u)
  /\ Finally
  /\ UNCHANGED <<resumeAfter, userPaused>>

SpeechEvent ==
  /\ TtsEvent
  /\ Finally
  /\ UNCHANGED <<resumeAfter, userPaused>>

EngineActs ==
  /\ EngineStarts \/ EngineEnds \/ EngineFails
  /\ UNCHANGED <<meetingVars, resumeAfter, userPaused>>

-----------------------------------------------------------------------------
ScreenNext ==
  \/ HandleSpeak
  \/ PressStart
  \/ \E later \in BOOLEAN : PressPause(later)
  \/ PressResume
  \/ \E later \in BOOLEAN : StopEverything(later)
  \/ LeaveScreen
  \/ StopSpeech
  \/ ManagerActs
  \/ ManagerAnswers
  \/ VoiceAnswers
  \/ TimeoutFires
  \/ SpeechEvent
  \/ EngineActs

ScreenSpec == ScreenInit /\ [][ScreenNext]_screenVars

\* The native modules answer the awaited stops, init(), the voice and the rate, and
\* timers fire. Neither the engine nor the user owes anything.
ScreenFairness ==
  /\ WF_screenVars(ManagerAnswers)
  /\ WF_screenVars(VoiceAnswers)
  /\ WF_screenVars(TimeoutFires)

FairScreenSpec == ScreenSpec /\ ScreenFairness

-----------------------------------------------------------------------------
(***************************************************************************)
(* Safety.                                                                 *)
(***************************************************************************)

\* A call of handleSpeak() that will resume the meeting is under way.
ResumeIsDue ==
  \/ Pausing # {}
  \/ \E u \in 1 .. said : resumeAfter[u] # 0 /\ caller[u] # "done"

\* A meeting that a speech has paused is always about to be resumed by one: no
\* failed voice, timeout, stop() of the speech or overlap of two calls ends the
\* last of them without resume(), which would leave the meeting silent for ever.
PauseIsResumed == running /\ paused => userPaused \/ ResumeIsDue

-----------------------------------------------------------------------------
(***************************************************************************)
(* Liveness.                                                               *)
(***************************************************************************)

SpeechUnderWay ==
  \/ Pausing # {}
  \/ \E u \in Utterances : caller[u] \in {"init", "speech", "idle"}

\* Every handleSpeak() ends, and the meeting it paused is back by then: also when
\* the engine never reports, a voice is missing, or the screen has been left with
\* the listeners removed. The screen stops asking for more, as the bound on the
\* calls makes it do.
MeetingComesBack ==
  SpeechUnderWay ~> ~SpeechUnderWay /\ (running /\ paused => userPaused)

-----------------------------------------------------------------------------
(***************************************************************************)
(* What the documentation says and the code does not do.                   *)
(***************************************************************************)

\* "The session temporarily pauses native STT while device TTS is audible, then
\* resumes the same session" (TRANSLATOR_REDESIGN.md:143-144): a speech that ends
\* resumes no pause but its own session's.
ResumesSameSession ==
  [][Finished # {} /\ paused /\ ~paused' /\ running'
       => \E u \in Finished : resumeAfter[u] = session]_screenVars
=============================================================================
