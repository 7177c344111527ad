-------------------------------- MODULE Meeting --------------------------------
(***************************************************************************)
(* What the screen may rely on of a ConversationManager, without the       *)
(* recogniser and the translations: a meeting runs or not, is paused or    *)
(* not, and the manager shows one of the states the screen distinguishes.  *)
(* ConversationManager implements this module; MeetingScreen is built on   *)
(* it.                                                                     *)
(***************************************************************************)
EXTENDS ConversationState, Sequences

VARIABLES
  shown,    \* this.state: "live" is connecting, listening or translating,
            \* "idle" is idle or error
  endings   \* the awaited stop() and pause() that have a state to show

meetingVars == <<sessionVars, shown, endings>>

\* "speaker" is the session of the speech that awaits pause(), 0 for the button.
Ending == [show : {"idle", "paused"}, speaker : Nat]

MeetingTypeOK ==
  /\ SessionTypeOK
  /\ shown \in {"idle", "live", "paused"}
  /\ endings \in Seq(Ending)

MeetingInit == SessionInit /\ shown = "idle" /\ endings = <<>>

\* A state is shown at once, when there is no recogniser to stop, or when its
\* stop has been answered.
ShowNow(ending) == shown' = ending.show /\ UNCHANGED endings
ShowLater(ending) == endings' = Append(endings, ending) /\ UNCHANGED shown

MeetingStart ==
  /\ shown = "idle"
  /\ BeginSession
  /\ shown' = "live"
  /\ UNCHANGED endings

MeetingStop(later) ==
  LET ending == [show |-> "idle", speaker |-> 0] IN
  /\ EndSession
  /\ IF later THEN ShowLater(ending) ELSE ShowNow(ending)

MeetingPause(speaker, later) ==
  LET ending == [show |-> "paused", speaker |-> speaker] IN
  /\ shown = "live"
  /\ PauseSession
  /\ IF later THEN ShowLater(ending) ELSE ShowNow(ending)

MeetingResume ==
  /\ ResumeSession
  /\ shown' = "live"
  /\ UNCHANGED endings

MeetingDestroy == DestroySession /\ UNCHANGED <<shown, endings>>

\* The recogniser is refused, does not start or fails.
MeetingFails ==
  /\ FailSession
  /\ shown' = "idle"
  /\ UNCHANGED endings

\* Permission, the restart timer, a result or a translation: the meeting is shown
\* to go on, even while it is paused.
MeetingGoesOn ==
  /\ running
  /\ shown' = "live"
  /\ UNCHANGED <<sessionVars, endings>>

MeetingAnswered ==
  /\ endings # <<>>
  /\ endings' = Tail(endings)
  /\ shown' = Head(endings).show
  /\ UNCHANGED sessionVars

MeetingNext ==
  \/ MeetingStart
  \/ \E later \in BOOLEAN : MeetingStop(later)
  \/ \E speaker \in {0, session}, later \in BOOLEAN : MeetingPause(speaker, later)
  \/ MeetingResume
  \/ MeetingDestroy
  \/ MeetingFails
  \/ MeetingGoesOn
  \/ MeetingAnswered

MeetingSpec == MeetingInit /\ [][MeetingNext]_meetingVars
=============================================================================
