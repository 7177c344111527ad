-------------------------- MODULE SpeechSessionProofs --------------------------
(***************************************************************************)
(* The speech side keeps its safety properties for every set of languages  *)
(* and every value of the bounds. The invariants are proved one after the  *)
(* other, each from the typed part and from those before it.               *)
(***************************************************************************)
EXTENDS SpeechSession, TLAPS

USE SpeechAssumption

\* The type invariant in three parts: the Boolean fields, the numbers and the
\* languages, and the native calls.
Flags ==
  /\ running \in BOOLEAN
  /\ paused \in BOOLEAN
  /\ mounted \in BOOLEAN
  /\ listening \in BOOLEAN
  /\ started \in BOOLEAN
  /\ partial \in BOOLEAN

Counters ==
  /\ session \in Nat
  /\ asking \in SUBSET Nat
  /\ timer \in Nat
  /\ silentErrors \in 0 .. 3
  /\ source \in Langs
  /\ mic \in Langs \cup {Off}
  /\ events \in Nat

Calls == calls \in Seq(VoiceCall)

\* The timer value 0 stands for "no timer", so it must not be a session.
SessionNumbered == running => session > 0

\* A call that destroys the recogniser, now or once it is answered.
Closing(call) == call.op = "destroy" \/ (call.op = "stop" /\ call.then = "destroy")

\* A closing call is on its way and no start will be answered after it.
ClosingPending(c) ==
  \E i \in DOMAIN c : /\ Closing(c[i])
                      /\ \A j \in DOMAIN c : j > i => c[j].op # "start"

\* What NothingHeardAfterDestroy needs to be inductive: after the unmount the
\* microphone is still going to be closed, or is closed with no start pending.
MicWillClose ==
  ~mounted => /\ ~running
              /\ \/ ClosingPending(calls)
                 \/ mic = Off /\ ~StartOutstanding(calls)

\* The inductive invariant.
SpeechInv ==
  /\ Flags
  /\ Counters
  /\ Calls
  /\ SilentErrorsBounded
  /\ SessionNumbered
  /\ TimerBelongsToLiveSession
  /\ LiveSessionKeepsListening
  /\ ListeningWasRequested
  /\ MicWillClose

-----------------------------------------------------------------------------
(***************************************************************************)
(* Native calls and their queue.                                           *)
(***************************************************************************)

\* The calls the manager makes are native calls.
LEMMA CallTypes ==
  /\ \A l \in Langs : StartCall(l) \in VoiceCall
  /\ \A t \in Continuations : StopCall(t) \in VoiceCall
  /\ DestroyCall \in VoiceCall
BY DEF StartCall, StopCall, DestroyCall, VoiceCall, Continuations

\* The queue of calls keeps its type when one is made or answered.
LEMMA CallSeq ==
  ASSUME NEW c \in Seq(VoiceCall), NEW x \in VoiceCall
  PROVE  /\ Append(c, x) \in Seq(VoiceCall)
         /\ c # <<>> => Tail(c) \in Seq(VoiceCall)
OBVIOUS

\* An outstanding start stays outstanding until it is answered itself.
LEMMA StartIsKept ==
  ASSUME NEW c \in Seq(VoiceCall), NEW x \in VoiceCall
  PROVE  /\ StartOutstanding(c) \/ x.op = "start" => StartOutstanding(Append(c, x))
         /\ c # <<>> /\ Head(c).op # "start" /\ StartOutstanding(c)
              => StartOutstanding(Tail(c))
<1>1. ASSUME StartOutstanding(c) \/ x.op = "start"
      PROVE  StartOutstanding(Append(c, x))
  <2>1. CASE x.op = "start"
    <3>1. Append(c, x)[Len(c) + 1] = x /\ Len(c) + 1 \in DOMAIN Append(c, x)
      OBVIOUS
    <3>2. QED BY <2>1, <3>1 DEF StartOutstanding
  <2>2. CASE StartOutstanding(c)
    <3>1. PICK i \in DOMAIN c : c[i].op = "start"
      BY <2>2 DEF StartOutstanding
    <3>2. Append(c, x)[i] = c[i] /\ i \in DOMAIN Append(c, x)
      OBVIOUS
    <3>3. QED BY <3>1, <3>2 DEF StartOutstanding
  <2>3. QED BY <1>1, <2>1, <2>2
<1>2. ASSUME c # <<>>, Head(c).op # "start", StartOutstanding(c)
      PROVE  StartOutstanding(Tail(c))
  <2>1. PICK i \in DOMAIN c : c[i].op = "start"
    BY <1>2 DEF StartOutstanding
  <2>2. i # 1
    BY <1>2, <2>1
  <2>3. i - 1 \in DOMAIN Tail(c) /\ Tail(c)[i - 1] = c[i]
    BY <1>2, <2>2
  <2>4. QED BY <2>1, <2>3 DEF StartOutstanding
<1>3. QED BY <1>1, <1>2

\* Appending a call other than a start keeps the closing call pending, and so
\* does answering a call that is not a closing one.
LEMMA ClosingIsKept ==
  ASSUME NEW c \in Seq(VoiceCall), NEW x \in VoiceCall
  PROVE  /\ ClosingPending(c) /\ x.op # "start" => ClosingPending(Append(c, x))
         /\ Closing(x) => ClosingPending(Append(c, x))
         /\ c # <<>> /\ ~Closing(Head(c)) /\ ClosingPending(c)
              => ClosingPending(Tail(c))
<1>1. ASSUME ClosingPending(c), x.op # "start" PROVE ClosingPending(Append(c, x))
  <2>1. PICK i \in DOMAIN c : /\ Closing(c[i])
                              /\ \A j \in DOMAIN c : j > i => c[j].op # "start"
    BY <1>1 DEF ClosingPending
  <2>2. i \in DOMAIN Append(c, x) /\ Append(c, x)[i] = c[i]
    OBVIOUS
  <2>3. \A j \in DOMAIN Append(c, x) : j > i => Append(c, x)[j].op # "start"
    BY <1>1, <2>1
  <2> QED
    BY <2>1, <2>2, <2>3 DEF ClosingPending
<1>2. ASSUME Closing(x) PROVE ClosingPending(Append(c, x))
  <2>1. /\ Len(c) + 1 \in DOMAIN Append(c, x)
        /\ Append(c, x)[Len(c) + 1] = x
        /\ \A j \in DOMAIN Append(c, x) : ~(j > Len(c) + 1)
    OBVIOUS
  <2> QED
    BY <1>2, <2>1 DEF ClosingPending
<1>3. ASSUME c # <<>>, ~Closing(Head(c)), ClosingPending(c)
      PROVE  ClosingPending(Tail(c))
  <2>1. PICK i \in DOMAIN c : /\ Closing(c[i])
                              /\ \A j \in DOMAIN c : j > i => c[j].op # "start"
    BY <1>3 DEF ClosingPending
  <2>2. i # 1
    BY <1>3, <2>1
  <2>3. i - 1 \in DOMAIN Tail(c) /\ Tail(c)[i - 1] = c[i]
    BY <1>3, <2>2
  <2>4. \A j \in DOMAIN Tail(c) : j + 1 \in DOMAIN c /\ Tail(c)[j] = c[j + 1]
    BY <1>3
  <2>5. \A j \in DOMAIN Tail(c) : j > i - 1 => Tail(c)[j].op # "start"
    BY <2>1, <2>4
  <2> QED
    BY <2>1, <2>3, <2>5 DEF ClosingPending
<1> QED
  BY <1>1, <1>2, <1>3

\* The converse for starts: none is outstanding after other calls come and go,
\* nor behind a closing call that is at the head.
LEMMA NoStartIsKept ==
  ASSUME NEW c \in Seq(VoiceCall), NEW x \in VoiceCall
  PROVE  /\ ~StartOutstanding(c) /\ x.op # "start" => ~StartOutstanding(Append(c, x))
         /\ c # <<>> /\ ~StartOutstanding(c) => ~StartOutstanding(Tail(c))
<1>1. ASSUME ~StartOutstanding(c), x.op # "start"
      PROVE  ~StartOutstanding(Append(c, x))
  BY <1>1 DEF StartOutstanding
<1>2. ASSUME c # <<>>, ~StartOutstanding(c) PROVE ~StartOutstanding(Tail(c))
  <2>1. \A j \in DOMAIN Tail(c) : j + 1 \in DOMAIN c /\ Tail(c)[j] = c[j + 1]
    BY <1>2
  <2> QED
    BY <1>2, <2>1 DEF StartOutstanding
<1> QED
  BY <1>1, <1>2

\* Answering the head of a queue with a closing call leaves a closing call, or
\* was the closing call, with no start behind it.
LEMMA ClosingHead ==
  ASSUME NEW c \in Seq(VoiceCall), c # <<>>, ClosingPending(c)
  PROVE  ClosingPending(Tail(c)) \/ (Closing(Head(c)) /\ ~StartOutstanding(Tail(c)))
<1>1. PICK i \in DOMAIN c : /\ Closing(c[i])
                            /\ \A j \in DOMAIN c : j > i => c[j].op # "start"
  BY DEF ClosingPending
<1>2. \A j \in DOMAIN Tail(c) : j + 1 \in DOMAIN c /\ Tail(c)[j] = c[j + 1]
  OBVIOUS
<1>3. CASE i = 1
  BY <1>1, <1>2, <1>3 DEF StartOutstanding
<1>4. CASE i # 1
  <2>1. i - 1 \in DOMAIN Tail(c) /\ Tail(c)[i - 1] = c[i]
    BY <1>4
  <2>2. \A j \in DOMAIN Tail(c) : j > i - 1 => Tail(c)[j].op # "start"
    BY <1>1, <1>2
  <2> QED
    BY <1>1, <2>1, <2>2 DEF ClosingPending
<1> QED
  BY <1>3, <1>4

-----------------------------------------------------------------------------
(***************************************************************************)
(* Each part of the invariant is preserved by every step.                  *)
(***************************************************************************)

\* Boolean fields stay Boolean.
LEMMA FlagsStep ==
  Flags /\ [SpeechNext]_svars
    => Flags'
<1> SUFFICES ASSUME Flags, [SpeechNext]_svars
             PROVE  Flags'
  OBVIOUS
<1> USE DEF Flags, sessionVars
<1>1. CASE SpeechStart
  BY <1>1 DEF SpeechStart, BeginSession
<1>2. CASE SpeechStop
  BY <1>2 DEF SpeechStop, EndSession, StopListening
<1>3. CASE SpeechPause
  BY <1>3 DEF SpeechPause, PauseSession, StopListening
<1>4. CASE SpeechResume
  BY <1>4 DEF SpeechResume, ResumeSession, StartListening
<1>5. CASE SpeechDestroy
  BY <1>5 DEF SpeechDestroy, DestroySession
<1>6. ASSUME NEW l \in Langs, SelectLanguage(l) PROVE Flags'
  BY <1>6 DEF SelectLanguage
<1>7. ASSUME NEW s \in asking, Granted(s) PROVE Flags'
  BY <1>7 DEF Granted, StartListening
<1>8. ASSUME NEW s \in asking, Refused(s) PROVE Flags'
  BY <1>8 DEF Refused, FailSpeech, FailSession, StopListening
<1>9. CASE TimerFires
  BY <1>9 DEF TimerFires, StartListening
<1>10. CASE VoiceStarted
  BY <1>10 DEF VoiceStarted
<1>11. CASE VoiceStartRejected
  BY <1>11 DEF VoiceStartRejected, FailSpeech, FailSession, StopListening
<1>12. CASE VoiceStopped
  BY <1>12 DEF VoiceStopped
<1>13. CASE VoiceDestroyed
  BY <1>13 DEF VoiceDestroyed
<1>14. CASE RecogniserEnds
  BY <1>14 DEF RecogniserEnds
<1>15. CASE PartialResult
  BY <1>15 DEF PartialResult
<1>16. ASSUME NEW heard \in BOOLEAN, FinalResult(heard)
       PROVE  Flags'
  BY <1>16 DEF FinalResult, ScheduleRestart
<1>17. CASE FinalResultIgnored
  BY <1>17 DEF FinalResultIgnored
<1>18. ASSUME NEW silent \in BOOLEAN, ErrorResult(silent)
       PROVE  Flags'
  BY <1>18 DEF ErrorResult, ErrorIsFatal, ScheduleRestart, FailSession
<1>19. CASE UNCHANGED svars
  BY <1>19 DEF svars, speechVars
<1> QED
  BY <1>1, <1>2, <1>3, <1>4, <1>5, <1>6, <1>7, <1>8, <1>9, <1>10, <1>11,
     <1>12, <1>13, <1>14, <1>15, <1>16, <1>17, <1>18, <1>19
     DEF SpeechNext

\* Numbers and languages keep their types, and the third silent error in a row
\* ends the meeting.
LEMMA CountersStep ==
  Counters /\ Calls /\ SilentErrorsBounded /\ [SpeechNext]_svars
    => (Counters /\ SilentErrorsBounded)'
<1> SUFFICES ASSUME Counters /\ Calls /\ SilentErrorsBounded, [SpeechNext]_svars
             PROVE  (Counters /\ SilentErrorsBounded)'
  OBVIOUS
<1> USE DEF Counters, sessionVars, SilentErrorsBounded, MaxSilentErrors
<1>1. CASE SpeechStart
  BY <1>1 DEF SpeechStart, BeginSession
<1>2. CASE SpeechStop
  BY <1>2 DEF SpeechStop, EndSession, StopListening
<1>3. CASE SpeechPause
  BY <1>3 DEF SpeechPause, PauseSession, StopListening
<1>4. CASE SpeechResume
  BY <1>4 DEF SpeechResume, ResumeSession, StartListening
<1>5. CASE SpeechDestroy
  BY <1>5 DEF SpeechDestroy, DestroySession
<1>6. ASSUME NEW l \in Langs, SelectLanguage(l)
      PROVE  (Counters /\ SilentErrorsBounded)'
  BY <1>6 DEF SelectLanguage
<1>7. ASSUME NEW s \in asking, Granted(s) PROVE (Counters /\ SilentErrorsBounded)'
  BY <1>7 DEF Granted, StartListening
<1>8. ASSUME NEW s \in asking, Refused(s) PROVE (Counters /\ SilentErrorsBounded)'
  BY <1>8 DEF Refused, FailSpeech, FailSession, StopListening
<1>9. CASE TimerFires
  BY <1>9 DEF TimerFires, StartListening
<1>10. CASE VoiceStarted
  <2>1. Head(calls) \in VoiceCall
    BY <1>10 DEF VoiceStarted, Calls
  <2>2. Head(calls).lang \in Langs \cup {Off}
    BY <2>1 DEF VoiceCall
  <2> QED
    BY <1>10, <2>2 DEF VoiceStarted
<1>11. CASE VoiceStartRejected
  BY <1>11 DEF VoiceStartRejected, FailSpeech, FailSession, StopListening
<1>12. CASE VoiceStopped
  BY <1>12 DEF VoiceStopped
<1>13. CASE VoiceDestroyed
  BY <1>13 DEF VoiceDestroyed
<1>14. CASE RecogniserEnds
  BY <1>14 DEF RecogniserEnds
<1>15. CASE PartialResult
  BY <1>15 DEF PartialResult
<1>16. ASSUME NEW heard \in BOOLEAN, FinalResult(heard)
       PROVE  (Counters /\ SilentErrorsBounded)'
  BY <1>16 DEF FinalResult, ScheduleRestart
<1>17. CASE FinalResultIgnored
  BY <1>17 DEF FinalResultIgnored
<1>18. ASSUME NEW silent \in BOOLEAN, ErrorResult(silent)
       PROVE  (Counters /\ SilentErrorsBounded)'
  BY <1>18 DEF ErrorResult, ErrorIsFatal, ScheduleRestart, FailSession
<1>19. CASE UNCHANGED svars
  BY <1>19 DEF svars, speechVars
<1> QED
  BY <1>1, <1>2, <1>3, <1>4, <1>5, <1>6, <1>7, <1>8, <1>9, <1>10, <1>11,
     <1>12, <1>13, <1>14, <1>15, <1>16, <1>17, <1>18, <1>19
     DEF SpeechNext

\* Only native calls are queued.
LEMMA CallsStep ==
  Calls /\ source \in Langs /\ [SpeechNext]_svars
    => Calls'
<1> SUFFICES ASSUME Calls /\ source \in Langs, [SpeechNext]_svars
             PROVE  Calls'
  OBVIOUS
<1> USE DEF Calls, sessionVars
<1>1. CASE SpeechStart
  BY <1>1 DEF SpeechStart, BeginSession
<1>2. CASE SpeechStop
  BY <1>2, CallTypes, CallSeq
     DEF SpeechStop, EndSession, StopListening, Continuations
<1>3. CASE SpeechPause
  BY <1>3, CallTypes, CallSeq
     DEF SpeechPause, PauseSession, StopListening, Continuations
<1>4. CASE SpeechResume
  BY <1>4, CallTypes, CallSeq DEF SpeechResume, ResumeSession, StartListening
<1>5. CASE SpeechDestroy
  BY <1>5, CallTypes, CallSeq DEF SpeechDestroy, DestroySession, Continuations
<1>6. ASSUME NEW l \in Langs, SelectLanguage(l) PROVE Calls'
  BY <1>6 DEF SelectLanguage
<1>7. ASSUME NEW s \in asking, Granted(s) PROVE Calls'
  BY <1>7, CallTypes, CallSeq DEF Granted, StartListening
<1>8. ASSUME NEW s \in asking, Refused(s) PROVE Calls'
  BY <1>8, CallTypes, CallSeq
     DEF Refused, FailSpeech, FailSession, StopListening, Continuations
<1>9. CASE TimerFires
  BY <1>9, CallTypes, CallSeq DEF TimerFires, StartListening
<1>10. CASE VoiceStarted
  BY <1>10 DEF VoiceStarted
<1>11. CASE VoiceStartRejected
  BY <1>11, CallTypes, CallSeq
     DEF VoiceStartRejected, FailSpeech, FailSession, StopListening,
         Continuations
<1>12. CASE VoiceStopped
  BY <1>12, CallTypes, CallSeq DEF VoiceStopped
<1>13. CASE VoiceDestroyed
  BY <1>13 DEF VoiceDestroyed
<1>14. CASE RecogniserEnds
  BY <1>14 DEF RecogniserEnds
<1>15. CASE PartialResult
  BY <1>15 DEF PartialResult
<1>16. ASSUME NEW heard \in BOOLEAN, FinalResult(heard)
       PROVE  Calls'
  BY <1>16 DEF FinalResult, ScheduleRestart
<1>17. CASE FinalResultIgnored
  BY <1>17 DEF FinalResultIgnored
<1>18. ASSUME NEW silent \in BOOLEAN, ErrorResult(silent)
       PROVE  Calls'
  BY <1>18 DEF ErrorResult, ErrorIsFatal, ScheduleRestart, FailSession
<1>19. CASE UNCHANGED svars
  BY <1>19 DEF svars, speechVars
<1> QED
  BY <1>1, <1>2, <1>3, <1>4, <1>5, <1>6, <1>7, <1>8, <1>9, <1>10, <1>11,
     <1>12, <1>13, <1>14, <1>15, <1>16, <1>17, <1>18, <1>19
     DEF SpeechNext

\* A running meeting has a number.
LEMMA NumberedStep ==
  Counters /\ SessionNumbered /\ [SpeechNext]_svars
    => SessionNumbered'
<1> SUFFICES ASSUME Counters /\ SessionNumbered, [SpeechNext]_svars
             PROVE  SessionNumbered'
  OBVIOUS
<1> USE DEF Counters, SessionNumbered, sessionVars
<1>1. CASE SpeechStart
  BY <1>1 DEF SpeechStart, BeginSession
<1>2. CASE SpeechStop
  BY <1>2 DEF SpeechStop, EndSession, StopListening
<1>3. CASE SpeechPause
  BY <1>3 DEF SpeechPause, PauseSession, StopListening
<1>4. CASE SpeechResume
  BY <1>4 DEF SpeechResume, ResumeSession, StartListening
<1>5. CASE SpeechDestroy
  BY <1>5 DEF SpeechDestroy, DestroySession
<1>6. ASSUME NEW l \in Langs, SelectLanguage(l) PROVE SessionNumbered'
  BY <1>6 DEF SelectLanguage
<1>7. ASSUME NEW s \in asking, Granted(s) PROVE SessionNumbered'
  BY <1>7 DEF Granted, StartListening
<1>8. ASSUME NEW s \in asking, Refused(s) PROVE SessionNumbered'
  BY <1>8 DEF Refused, FailSpeech, FailSession, StopListening
<1>9. CASE TimerFires
  BY <1>9 DEF TimerFires, StartListening
<1>10. CASE VoiceStarted
  BY <1>10 DEF VoiceStarted
<1>11. CASE VoiceStartRejected
  BY <1>11 DEF VoiceStartRejected, FailSpeech, FailSession, StopListening
<1>12. CASE VoiceStopped
  BY <1>12 DEF VoiceStopped
<1>13. CASE VoiceDestroyed
  BY <1>13 DEF VoiceDestroyed
<1>14. CASE RecogniserEnds
  BY <1>14 DEF RecogniserEnds
<1>15. CASE PartialResult
  BY <1>15 DEF PartialResult
<1>16. ASSUME NEW heard \in BOOLEAN, FinalResult(heard)
       PROVE  SessionNumbered'
  BY <1>16 DEF FinalResult, ScheduleRestart
<1>17. CASE FinalResultIgnored
  BY <1>17 DEF FinalResultIgnored
<1>18. ASSUME NEW silent \in BOOLEAN, ErrorResult(silent)
       PROVE  SessionNumbered'
  BY <1>18 DEF ErrorResult, ErrorIsFatal, ScheduleRestart, FailSession
<1>19. CASE UNCHANGED svars
  BY <1>19 DEF svars, speechVars
<1> QED
  BY <1>1, <1>2, <1>3, <1>4, <1>5, <1>6, <1>7, <1>8, <1>9, <1>10, <1>11,
     <1>12, <1>13, <1>14, <1>15, <1>16, <1>17, <1>18, <1>19
     DEF SpeechNext

\* Whatever ends, pauses or replaces a meeting cancels its restart.
LEMMA TimerStep ==
  Counters /\ TimerBelongsToLiveSession /\ [SpeechNext]_svars
    => TimerBelongsToLiveSession'
<1> SUFFICES ASSUME Counters /\ TimerBelongsToLiveSession, [SpeechNext]_svars
             PROVE  TimerBelongsToLiveSession'
  OBVIOUS
<1> USE DEF Counters, sessionVars, TimerBelongsToLiveSession
<1>1. CASE SpeechStart
  BY <1>1 DEF SpeechStart, BeginSession
<1>2. CASE SpeechStop
  BY <1>2 DEF SpeechStop, EndSession, StopListening
<1>3. CASE SpeechPause
  BY <1>3 DEF SpeechPause, PauseSession, StopListening
<1>4. CASE SpeechResume
  BY <1>4 DEF SpeechResume, ResumeSession, StartListening
<1>5. CASE SpeechDestroy
  BY <1>5 DEF SpeechDestroy, DestroySession
<1>6. ASSUME NEW l \in Langs, SelectLanguage(l) PROVE TimerBelongsToLiveSession'
  BY <1>6 DEF SelectLanguage
<1>7. ASSUME NEW s \in asking, Granted(s) PROVE TimerBelongsToLiveSession'
  BY <1>7 DEF Granted, StartListening
<1>8. ASSUME NEW s \in asking, Refused(s) PROVE TimerBelongsToLiveSession'
  BY <1>8 DEF Refused, FailSpeech, FailSession, StopListening
<1>9. CASE TimerFires
  BY <1>9 DEF TimerFires, StartListening
<1>10. CASE VoiceStarted
  BY <1>10 DEF VoiceStarted
<1>11. CASE VoiceStartRejected
  BY <1>11 DEF VoiceStartRejected, FailSpeech, FailSession, StopListening
<1>12. CASE VoiceStopped
  BY <1>12 DEF VoiceStopped
<1>13. CASE VoiceDestroyed
  BY <1>13 DEF VoiceDestroyed
<1>14. CASE RecogniserEnds
  BY <1>14 DEF RecogniserEnds
<1>15. CASE PartialResult
  BY <1>15 DEF PartialResult
<1>16. ASSUME NEW heard \in BOOLEAN, FinalResult(heard)
       PROVE  TimerBelongsToLiveSession'
  BY <1>16 DEF FinalResult, ScheduleRestart
<1>17. CASE FinalResultIgnored
  BY <1>17 DEF FinalResultIgnored
<1>18. ASSUME NEW silent \in BOOLEAN, ErrorResult(silent)
       PROVE  TimerBelongsToLiveSession'
  BY <1>18 DEF ErrorResult, ErrorIsFatal, ScheduleRestart, FailSession
<1>19. CASE UNCHANGED svars
  BY <1>19 DEF svars, speechVars
<1> QED
  BY <1>1, <1>2, <1>3, <1>4, <1>5, <1>6, <1>7, <1>8, <1>9, <1>10, <1>11,
     <1>12, <1>13, <1>14, <1>15, <1>16, <1>17, <1>18, <1>19
     DEF SpeechNext

\* No step leaves a meeting that should be heard with nothing to wake it.
LEMMA WakeupStep ==
  Counters /\ SessionNumbered /\ TimerBelongsToLiveSession
    /\ LiveSessionKeepsListening /\ [SpeechNext]_svars
    => LiveSessionKeepsListening'
<1> SUFFICES ASSUME Counters /\ SessionNumbered /\ TimerBelongsToLiveSession,
                    LiveSessionKeepsListening, [SpeechNext]_svars
             PROVE  LiveSessionKeepsListening'
  OBVIOUS
<1> USE DEF Counters, SessionNumbered, sessionVars, TimerBelongsToLiveSession,
            LiveSessionKeepsListening
<1>1. CASE SpeechStart
  BY <1>1 DEF SpeechStart, BeginSession
<1>2. CASE SpeechStop
  BY <1>2 DEF SpeechStop, EndSession, StopListening
<1>3. CASE SpeechPause
  BY <1>3 DEF SpeechPause, PauseSession, StopListening
<1>4. CASE SpeechResume
  BY <1>4 DEF SpeechResume, ResumeSession, StartListening
<1>5. CASE SpeechDestroy
  BY <1>5 DEF SpeechDestroy, DestroySession
<1>6. ASSUME NEW l \in Langs, SelectLanguage(l) PROVE LiveSessionKeepsListening'
  BY <1>6 DEF SelectLanguage
<1>7. ASSUME NEW s \in asking, Granted(s) PROVE LiveSessionKeepsListening'
  BY <1>7 DEF Granted, StartListening
<1>8. ASSUME NEW s \in asking, Refused(s) PROVE LiveSessionKeepsListening'
  BY <1>8 DEF Refused, FailSpeech, FailSession, StopListening
<1>9. CASE TimerFires
  BY <1>9 DEF TimerFires, StartListening
<1>10. CASE VoiceStarted
  BY <1>10 DEF VoiceStarted
<1>11. CASE VoiceStartRejected
  <2>1. CASE running /\ ~paused
    BY <1>11, <2>1 DEF VoiceStartRejected, FailSpeech, FailSession
  <2>2. CASE ~(running /\ ~paused)
    BY <1>11, <2>2 DEF VoiceStartRejected
  <2> QED
    BY <2>1, <2>2
<1>12. CASE VoiceStopped
  BY <1>12 DEF VoiceStopped
<1>13. CASE VoiceDestroyed
  BY <1>13 DEF VoiceDestroyed
<1>14. CASE RecogniserEnds
  BY <1>14 DEF RecogniserEnds
<1>15. CASE PartialResult
  BY <1>15 DEF PartialResult
<1>16. ASSUME NEW heard \in BOOLEAN, FinalResult(heard)
       PROVE  LiveSessionKeepsListening'
  BY <1>16 DEF FinalResult, ScheduleRestart
<1>17. CASE FinalResultIgnored
  BY <1>17 DEF FinalResultIgnored
<1>18. ASSUME NEW silent \in BOOLEAN, ErrorResult(silent)
       PROVE  LiveSessionKeepsListening'
  <2>1. CASE ErrorIsFatal(silent)
    BY <1>18, <2>1 DEF ErrorResult, FailSession
  <2>2. CASE ~ErrorIsFatal(silent)
    <3>1. UNCHANGED <<running, paused, session, asking>>
      BY <1>18, <2>2 DEF ErrorResult
    <3>2. running /\ ~paused => timer' # 0
      BY <1>18, <2>2 DEF ErrorResult, ScheduleRestart
    <3> QED
      BY <3>1, <3>2
  <2> QED
    BY <2>1, <2>2
<1>19. CASE UNCHANGED svars
  BY <1>19 DEF svars, speechVars
<1> QED
  BY <1>1, <1>2, <1>3, <1>4, <1>5, <1>6, <1>7, <1>8, <1>9, <1>10, <1>11,
     <1>12, <1>13, <1>14, <1>15, <1>16, <1>17, <1>18, <1>19
     DEF SpeechNext

\* No step makes the manager listen without having asked the recogniser.
LEMMA RequestedStep ==
  Calls /\ source \in Langs /\ ListeningWasRequested /\ [SpeechNext]_svars
    => ListeningWasRequested'
<1> SUFFICES ASSUME Calls, source \in Langs, ListeningWasRequested,
                    [SpeechNext]_svars
             PROVE  ListeningWasRequested'
  OBVIOUS
<1> USE DEF Calls, sessionVars, ListeningWasRequested
<1>1. CASE SpeechStart
  BY <1>1 DEF SpeechStart, BeginSession
<1>2. CASE SpeechStop
  BY <1>2 DEF SpeechStop, EndSession, StopListening
<1>3. CASE SpeechPause
  BY <1>3 DEF SpeechPause, PauseSession, StopListening
<1>4. CASE SpeechResume
  BY <1>4, CallTypes, StartIsKept
     DEF SpeechResume, ResumeSession, StartListening, StartCall
<1>5. CASE SpeechDestroy
  BY <1>5 DEF SpeechDestroy, DestroySession
<1>6. ASSUME NEW l \in Langs, SelectLanguage(l) PROVE ListeningWasRequested'
  BY <1>6 DEF SelectLanguage
<1>7. ASSUME NEW s \in asking, Granted(s) PROVE ListeningWasRequested'
  BY <1>7, CallTypes, StartIsKept DEF Granted, StartListening, StartCall
<1>8. ASSUME NEW s \in asking, Refused(s) PROVE ListeningWasRequested'
  BY <1>8 DEF Refused, FailSpeech, FailSession, StopListening
<1>9. CASE TimerFires
  BY <1>9, CallTypes, StartIsKept DEF TimerFires, StartListening, StartCall
<1>10. CASE VoiceStarted
  BY <1>10 DEF VoiceStarted
<1>11. CASE VoiceStartRejected
  BY <1>11 DEF VoiceStartRejected, FailSpeech, FailSession, StopListening
<1>12. CASE VoiceStopped
  <2>1. /\ Tail(calls) \in Seq(VoiceCall)
        /\ calls' \in {Tail(calls), Append(Tail(calls), DestroyCall)}
    BY <1>12, CallTypes, CallSeq DEF VoiceStopped
  <2>2. StartOutstanding(calls) => StartOutstanding(Tail(calls))
    BY <1>12, CallTypes, StartIsKept DEF VoiceStopped
  <2>3. StartOutstanding(calls) => StartOutstanding(calls')
    BY <2>1, <2>2, CallTypes, StartIsKept
  <2> QED
    BY <1>12, <2>3 DEF VoiceStopped
<1>13. CASE VoiceDestroyed
  BY <1>13, CallTypes, StartIsKept DEF VoiceDestroyed
<1>14. CASE RecogniserEnds
  BY <1>14 DEF RecogniserEnds
<1>15. CASE PartialResult
  BY <1>15 DEF PartialResult
<1>16. ASSUME NEW heard \in BOOLEAN, FinalResult(heard)
       PROVE  ListeningWasRequested'
  BY <1>16 DEF FinalResult, ScheduleRestart
<1>17. CASE FinalResultIgnored
  BY <1>17 DEF FinalResultIgnored
<1>18. ASSUME NEW silent \in BOOLEAN, ErrorResult(silent)
       PROVE  ListeningWasRequested'
  BY <1>18 DEF ErrorResult, ErrorIsFatal, ScheduleRestart, FailSession
<1>19. CASE UNCHANGED svars
  BY <1>19 DEF svars, speechVars
<1> QED
  BY <1>1, <1>2, <1>3, <1>4, <1>5, <1>6, <1>7, <1>8, <1>9, <1>10, <1>11,
     <1>12, <1>13, <1>14, <1>15, <1>16, <1>17, <1>18, <1>19
     DEF SpeechNext

\* After the screen is left no step queues a start behind the closing call.
LEMMA DestroyStep ==
  Flags /\ Calls /\ source \in Langs /\ MicWillClose /\ [SpeechNext]_svars
    => MicWillClose'
<1> SUFFICES ASSUME Flags, Calls, source \in Langs, MicWillClose, [SpeechNext]_svars
             PROVE  MicWillClose'
  OBVIOUS
<1> USE DEF Calls, MicWillClose, sessionVars
<1>1. CASE SpeechStart
  BY <1>1 DEF SpeechStart, BeginSession
<1>2. CASE SpeechStop
  BY <1>2 DEF SpeechStop, EndSession
<1>3. CASE SpeechPause
  BY <1>3 DEF SpeechPause, PauseSession
<1>4. CASE SpeechResume
  BY <1>4 DEF SpeechResume, ResumeSession
<1>5. CASE SpeechDestroy
  <2>1. PICK x \in VoiceCall : Closing(x) /\ calls' = Append(calls, x)
    BY <1>5, CallTypes
       DEF SpeechDestroy, Closing, StopCall, DestroyCall, Continuations
  <2> QED
    BY <1>5, <2>1, ClosingIsKept DEF SpeechDestroy, DestroySession
<1>6. ASSUME NEW l \in Langs, SelectLanguage(l) PROVE MicWillClose'
  BY <1>6 DEF SelectLanguage
<1>7. ASSUME NEW s \in asking, Granted(s) PROVE MicWillClose'
  BY <1>7 DEF Granted, StartListening
<1>8. ASSUME NEW s \in asking, Refused(s) PROVE MicWillClose'
  <2>1. StopCall("none") \in VoiceCall /\ StopCall("none").op # "start"
    BY CallTypes DEF StopCall, Continuations
  <2> QED
    BY <1>8, <2>1, ClosingIsKept, NoStartIsKept
       DEF Refused, FailSpeech, FailSession, StopListening
<1>9. CASE TimerFires
  BY <1>9 DEF TimerFires, StartListening
<1>10. CASE VoiceStarted
  <2>1. StartOutstanding(calls) /\ ~Closing(Head(calls))
    BY <1>10 DEF VoiceStarted, StartOutstanding, Closing
  <2> QED
    BY <1>10, <2>1, CallTypes, ClosingIsKept DEF VoiceStarted
<1>11. CASE VoiceStartRejected
  <2>1. StartOutstanding(calls) /\ ~Closing(Head(calls))
    BY <1>11 DEF VoiceStartRejected, StartOutstanding, Closing
  <2>2. CASE mounted
    BY <1>11, <2>2 DEF VoiceStartRejected, FailSpeech, FailSession
  <2>3. CASE ~mounted
    BY <1>11, <2>1, <2>3, CallTypes, ClosingIsKept DEF VoiceStartRejected
  <2> QED
    BY <2>2, <2>3
<1>12. CASE VoiceStopped
  <2>1. /\ mic' = Off
        /\ Tail(calls) \in Seq(VoiceCall)
        /\ calls # <<>>
        /\ UNCHANGED <<mounted, running>>
    BY <1>12, CallTypes, CallSeq DEF VoiceStopped
  <2>2. CASE Head(calls).then = "destroy"
    <3>1. Closing(DestroyCall) /\ calls' = Append(Tail(calls), DestroyCall)
      BY <1>12, <2>2 DEF VoiceStopped, Closing, DestroyCall
    <3> QED
      BY <2>1, <3>1, CallTypes, ClosingIsKept
  <2>3. CASE Head(calls).then # "destroy"
    <3>1. calls' = Tail(calls) /\ ~Closing(Head(calls))
      BY <1>12, <2>3 DEF VoiceStopped, Closing
    <3> QED
      BY <2>1, <3>1, CallTypes, ClosingIsKept, NoStartIsKept
  <2> QED
    BY <2>2, <2>3
<1>13. CASE VoiceDestroyed
  BY <1>13, CallTypes, ClosingHead, NoStartIsKept DEF VoiceDestroyed
<1>14. CASE RecogniserEnds
  BY <1>14 DEF RecogniserEnds
<1>15. CASE PartialResult
  BY <1>15 DEF PartialResult
<1>16. ASSUME NEW heard \in BOOLEAN, FinalResult(heard)
       PROVE  MicWillClose'
  BY <1>16 DEF FinalResult
<1>17. CASE FinalResultIgnored
  BY <1>17 DEF FinalResultIgnored
<1>18. ASSUME NEW silent \in BOOLEAN, ErrorResult(silent)
       PROVE  MicWillClose'
  BY <1>18 DEF ErrorResult, FailSession
<1>19. CASE UNCHANGED svars
  BY <1>19 DEF svars, speechVars
<1> QED
  BY <1>1, <1>2, <1>3, <1>4, <1>5, <1>6, <1>7, <1>8, <1>9, <1>10, <1>11, <1>12,
     <1>13, <1>14, <1>15, <1>16, <1>17, <1>18, <1>19 DEF SpeechNext

-----------------------------------------------------------------------------
(***************************************************************************)
(* Theorems.                                                               *)
(***************************************************************************)

\* The initial states satisfy the inductive invariant.
LEMMA SpeechInvInit == SpeechInit => SpeechInv
<1> SUFFICES ASSUME SpeechInit PROVE SpeechInv
  OBVIOUS
<1>1. Flags
  BY DEF SpeechInit, SessionInit, Flags
<1>2. Counters /\ SilentErrorsBounded
  BY DEF SpeechInit, SessionInit, Counters, SilentErrorsBounded, MaxSilentErrors
<1>3. Calls /\ ListeningWasRequested
  BY DEF SpeechInit, Calls, ListeningWasRequested
<1>4. /\ SessionNumbered /\ TimerBelongsToLiveSession
      /\ LiveSessionKeepsListening /\ MicWillClose
  BY DEF SpeechInit, SessionInit, SessionNumbered, TimerBelongsToLiveSession,
         LiveSessionKeepsListening, MicWillClose
<1> QED
  BY <1>1, <1>2, <1>3, <1>4 DEF SpeechInv

\* Every step keeps the inductive invariant, part by part.
LEMMA SpeechInvStep == SpeechInv /\ [SpeechNext]_svars => SpeechInv'
<1> SUFFICES ASSUME SpeechInv, [SpeechNext]_svars
             PROVE  SpeechInv'
  OBVIOUS
<1>1. source \in Langs
  BY DEF SpeechInv, Counters
<1> QED
  BY <1>1, FlagsStep, CountersStep, CallsStep, NumberedStep, TimerStep,
     WakeupStep, RequestedStep, DestroyStep
     DEF SpeechInv

\* The inductive invariant of the speech side.
THEOREM SpeechInvariant == SpeechSpec => []SpeechInv
BY SpeechInvInit, SpeechInvStep, PTL DEF SpeechSpec

\* Type correctness (fields of conversationManager.js:24-54).
THEOREM SpeechTyped == SpeechSpec => []SpeechTypeOK
<1>1. SpeechInv => SpeechTypeOK
  BY DEF SpeechInv, Flags, Counters, Calls, SpeechTypeOK, SessionTypeOK,
         MaxSilentErrors
<1> QED
  BY <1>1, SpeechInvariant, PTL

\* A restart never fires for a meeting that was stopped, paused or replaced.
THEOREM RestartsAreCurrent == SpeechSpec => []TimerBelongsToLiveSession
<1>1. SpeechInv => TimerBelongsToLiveSession
  BY DEF SpeechInv
<1> QED
  BY <1>1, SpeechInvariant, PTL

\* A meeting that should be heard always has something that will make it listen.
THEOREM NoLostWakeup == SpeechSpec => []LiveSessionKeepsListening
<1>1. SpeechInv => LiveSessionKeepsListening
  BY DEF SpeechInv
<1> QED
  BY <1>1, SpeechInvariant, PTL

\* The manager never believes it listens without having asked the recogniser.
THEOREM ListeningIsRequested == SpeechSpec => []ListeningWasRequested
<1>1. SpeechInv => ListeningWasRequested
  BY DEF SpeechInv
<1> QED
  BY <1>1, SpeechInvariant, PTL

\* A meeting ends at its third silent recognition in a row.
THEOREM SilenceEndsMeeting == SpeechSpec => []SilentErrorsBounded
<1>1. SpeechInv => SilentErrorsBounded
  BY DEF SpeechInv
<1> QED
  BY <1>1, SpeechInvariant, PTL

\* A step that takes back the counted silence starts a meeting or has heard words:
\* the other steps leave the count alone or add to it.
LEMMA SilenceKeeps ==
  ASSUME SpeechInv, [SpeechNext]_svars, silentErrors' < silentErrors
  PROVE  \/ session' # session
         \/ mic # Off /\ partial'
         \/ running /\ ~paused /\ listening /\ events' < events /\ ~partial'
<1> USE DEF SpeechInv, Counters
<1>1. ASSUME UNCHANGED silentErrors PROVE FALSE
  BY <1>1
<1>2. CASE SpeechStart
  BY <1>2 DEF SpeechStart, BeginSession
<1>3. CASE SpeechStop \/ SpeechPause \/ SpeechResume \/ SpeechDestroy
  BY <1>1, <1>3 DEF SpeechStop, SpeechPause, SpeechResume, SpeechDestroy
<1>4. CASE \/ \E l \in Langs : SelectLanguage(l)
           \/ \E s \in asking : Granted(s) \/ Refused(s)
           \/ TimerFires
  BY <1>1, <1>4 DEF SelectLanguage, Granted, Refused, TimerFires
<1>5. CASE \/ VoiceStarted \/ VoiceStartRejected \/ VoiceStopped
           \/ VoiceDestroyed \/ RecogniserEnds \/ FinalResultIgnored
  BY <1>1, <1>5 DEF VoiceStarted, VoiceStartRejected, VoiceStopped,
                    VoiceDestroyed, RecogniserEnds, FinalResultIgnored
<1>6. CASE PartialResult
  BY <1>6 DEF PartialResult
<1>7. ASSUME NEW heard \in BOOLEAN, FinalResult(heard)
      PROVE  running /\ ~paused /\ listening /\ events' < events /\ ~partial'
  BY <1>7 DEF FinalResult
<1>8. ASSUME NEW silent \in BOOLEAN, ErrorResult(silent) PROVE FALSE
  BY <1>8 DEF ErrorResult
<1>9. CASE UNCHANGED svars
  BY <1>1, <1>9 DEF svars, speechVars
<1> QED
  BY <1>2, <1>3, <1>4, <1>5, <1>6, <1>7, <1>8, <1>9 DEF SpeechNext

\* No restart, pause, resumption or late answer puts off the third silence: the
\* count starts again only with words or a new meeting (lines 108, 304 and 341).
THEOREM SilenceIsNotForgotten == SpeechSpec => SilenceIsCounted
<1>1. SpeechInv /\ [SpeechNext]_svars =>
        (silentErrors' < silentErrors =>
           \/ session' # session
           \/ mic # Off /\ partial'
           \/ running /\ ~paused /\ listening /\ events' < events /\ ~partial')
  BY SilenceKeeps
<1> QED
  BY <1>1, SpeechInvariant, PTL DEF SpeechSpec, SilenceIsCounted

\* Once the native calls made before and by destroy() are answered, the
\* microphone is closed, for good.
THEOREM DestroyClosesTheMicrophone == SpeechSpec => []NothingHeardAfterDestroy
<1>1. SpeechInv => NothingHeardAfterDestroy
  BY DEF SpeechInv, MicWillClose, ClosingPending, NothingHeardAfterDestroy
<1> QED
  BY <1>1, SpeechInvariant, PTL

=============================================================================
