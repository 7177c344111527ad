# A verification project for hrm_app

`hrm_app` is a React Native application for the employees of a company: log-in,
check-in, meal orders, chat, leave and overtime, salary, notifications, and a
*Meeting Interpreter* that listens to a meeting, translates what is said and
speaks the translation. The interpreter is where the program has a concurrent core
of its own: a native speech recogniser, a native speech synthesiser, a translation
service with slow and failing answers, timers, and a user who presses buttons (or
puts the app in the background) at any moment in between. Around it, three
screens keep state of their own that several asynchronous answers write: the
session (log-in, log-out, expiry), the chat room and the meal orders. The project
models these four; most other screens are forms over a remote service.

JavaScript runs one callback at a time, so a step of every model is one callback
run to its next `await` or to its end; what interleaves is the order in which
the callbacks, the native answers, the events and the user's calls come.

## 1. The system

| component | source (`src/src/...`) | state it keeps | status |
|---|---|---|---|
| Meeting Interpreter, speech side | `services/conversation/conversationManager.js`, `speechRecognition.js`, `speechSegmenter.js` | `running`, `paused`, `_session`, `_listening`, `_restartTimer`, `_silentErrors`, `speech.started`, the native microphone, calls and events in flight | modelled, checked, proved |
| Meeting Interpreter, translation side | `conversationManager.js` | `_queue`, `_queueRunning`, the awaited translations, `messages`, `_msgSeq` | modelled, checked, proved |
| Meeting Interpreter, manager | `conversationManager.js`, `components/ConversationPanel.js` | both, and `state`, which chooses the buttons | modelled, checked, proved |
| Meeting screen | `screens/Translator.js` | who is being spoken, what `handleSpeak()` will do after its awaits; language and audio settings | modelled, checked, proved |
| Text to speech | `services/conversation/tts.js` | `_queue`, `_draining`, `_active` and its timer, `_idleWaiters`, `speaking`, `_listeners`; the native engine's line and what is heard | modelled, checked, proved |
| Translation service | `services/translator.js` | none between calls: splitting, chunks, retries, timeout | not modelled: an answer that always comes |
| Language detection and voices | `services/conversation/languageDetection.js`, `languageConfig.js` | none: tables and text heuristics | not modelled |
| Session and API client | `services/apiClient.js`, `redux/`, `screens/Login.js`, `Splash.js`, `components/Control.js` | token, user and flag in storage, user in the store, the stack of screens, the expiry latch and its timer | modelled, checked, proved |
| Chat room | `screens/ChatScreen.js`, `socket.io/` | list of messages, room membership, history requests and translations under way | the list of a visit modelled, checked, proved |
| Meal orders | `screens/Order.js`, `components/OrderModal.js` | orders, picked days, requests under way | modelled, checked, proved |
| User profile cache | `hooks/useUserProfile.js` | cached value and cached promise | not modelled |
| Check-in scanner | `screens/Checkin.js` | scan lock, timers | not modelled |
| Notification list | `screens/Notifications.js`, `Main.js` | list, unread marks | not modelled |
| Everything else | see `PROJECT.json` | forms, lists and settings over a remote service, or local sample data | not modelled: no behaviour of their own beyond one request and its answer |

How they interact. The meeting screen owns one manager and one text-to-speech
service. The manager calls the recogniser (a native module reached through an
asynchronous bridge) and is called back with partial results, final results and
errors; it calls `translateText()` and continues when that answers; it notifies
the screen with its state and its messages. The screen chooses its buttons by
that state, and pauses and resumes the manager around the speaking of a
translation. Every screen sends its requests through the API client, which reads
the token from the storage and, at an answer 401, removes the session from storage
and store and resets the stack of screens, whatever the log-in screen is doing.
The chat screen has two sources for one list, history requests and the socket; the
order screen has three requests (list, order, cancel) whose answers rewrite one
list.

What makes it hard:

* *stale continuations*: permission answers, restart timers, translations and
  native results that come after a stop, a pause, an error, a new start or the
  unmounting of the screen. The code guards them with a session number and a few
  flags, not everywhere in the same way;
* *beliefs about the native side*: `started` and `_listening` are set and reset
  by answers and events of a recogniser that has its own life;
* *one loop, several runs*: `_drainQueue()` may still be awaiting an answer when
  the flag that says so is reset;
* *early returns and failure paths*: each must leave the meeting listening, with
  a restart scheduled, or ended;
* *a decision taken before an await and carried out after it*: `handleSpeak()`
  resumes the meeting of that later moment;
* *several awaits that belong together*: a log-in writes user, flag, token and
  store one after the other, and a removal or the end of the process comes between;
* *whole-list answers*: a history answer, or the list a cancellation has kept, is
  older than what the events have added since.

What makes each component correct:

* speech side: a meeting that goes on is always being listened to or about to be;
  restarts belong to the meeting that is on; silence ends it at the third time,
  and no restart or pause puts the third time off;
  when the screen is left the microphone closes whatever was in flight;
* translation side: every message submitted is answered once or given up with its
  meeting; nothing is translated twice at a time or in another meeting; a
  translation shown is not taken back; the timeline is ordered and bounded;
* manager: the state shown follows what the meeting does, and no state the user
  has to wait in lasts;
* text to speech: every call is answered, in order, although the engine may say
  nothing, say it late, or have no voice for the language;
* meeting screen: a meeting that a speech has paused comes back, whatever becomes
  of the speech; a pause of the user stays;
* session: store and storage agree on who is logged in, no Main screen is left
  without a session, and an expiry always ends at the log-in screen;
* chat room: what the list does not show is on its way, or is something the screen
  could not know;
* meal orders: a day has one order, and the list is the server's.

## 2. Modules

| module | models | 
|---|---|
| `ConversationState` | the fields both sides share (`running`, `paused`, `_session`, and whether the screen is mounted) and what `start`, `stop`, `pause`, `resume`, `destroy` and `_fail` do to them |
| `SpeechSession` | the speech side with the native recogniser and the bridge |
| `TranslationQueue` | the translation side, the history and the loop `_drainQueue()` |
| `MeetingTimeline` | the abstract specification of the translation side: a bounded timeline whose messages are submitted, answered once, resubmitted after a failure, or abandoned |
| `ConversationManager` | the composition: every operation of the manager is a step of both sides, and writes `state` |
| `Meeting` | the abstract specification of the manager: what the screen may rely on, without recogniser and translations. `ConversationManager` implements it (`ImplementsMeeting`) |
| `TextToSpeech` | the speech synthesis with the native engine |
| `MeetingScreen` | the composition of `Meeting` and `TextToSpeech` by the screen |
| `AuthSession` | log-in, log-out and expiry over storage, store and screens, with kills and restarts of the process |
| `ChatRoom` | the list of one visit of a conversation, with the server, its socket channel and the network |
| `MealOrder` | the order screen with the server |
| `MCSpeechSession`, `MCTranslationQueue`, `MCConversationManager`, `MCMeetingScreen`, `MCAuthSession`, `MCChatRoom`, `MCMealOrder` | instances for TLC |
| `SpeechSessionProofs`, `TranslationQueueProofs`, `ConversationManagerProofs`, `TextToSpeechProofs`, `MeetingScreenProofs`, `AuthSessionProofs`, `ChatRoomProofs`, `MealOrderProofs` | theorems |

### SpeechSession

| variable | code |
|---|---|
| `asking` | the calls of `start()` that await availability and permission, by their captured session |
| `listening`, `started`, `silentErrors` | `_listening`, `speech.started`, `_silentErrors` |
| `timer` | the session `_restartTimer` captured; 0: no timer |
| `partial` | the segmenter holds text |
| `source` | `langRef.current.source`, the language the next `Voice.start()` gets |
| `mic` | external: the language the device really hears, or `Off` |
| `calls` | the native calls not yet answered, with what the caller does afterwards |
| `events` | results and errors on their way to JavaScript |

The owner's actions are `SpeechStart`, `SpeechStop`, `SpeechPause`,
`SpeechResume`, `SpeechDestroy`, `SelectLanguage`; the event loop's `Granted`,
`Refused`, `TimerFires`; the native module's `VoiceStarted`,
`VoiceStartRejected`, `VoiceStopped`, `VoiceDestroyed`, `RecogniserEnds`,
`PartialResult`, `FinalResult`, `FinalResultIgnored`, `ErrorResult`. Each is the
whole handler: `_onError()`, for instance, marks the end, counts the silence,
and restarts or fails in one action.

Abstractions. The recogniser is external: a call takes effect on the device when
its answer is delivered (bridge and native queue are one first-in first-out
queue); an event carries no text, and whether a result is final text, empty, or
an error, silent or not, is chosen when it is delivered. A final result with
text may still yield no message, as `_enqueue()` drops one that repeats the
previous text: `HearFinal(0)`. Availability and permission are two awaited
questions with one continuation and no guard between them: one answer. The
branch of `_enqueue()` for an equal pair of languages is unreachable from the
screen (`selectLanguage` and `swap` never make the pair equal) and is left out,
as are the language detection and the target language, which only choose the
arguments of `translateText()`. `clearHistory()`, `toggleVoice()` and
`toggleAutoDetect()` have no caller.

`SelectLanguage` only changes the language: the screen writes the shared
reference before it calls `updateLangs()`, which compares with that reference
and sees no difference (`Translator.js:101`, `conversationManager.js:198`).

### TranslationQueue

A run of the loop of `_drainQueue()` yields only while it awaits
`translateText()`, so it is identified with the item it awaits: `inflight` is the
set of those items, and `Answer` is the answer with everything the loop does up
to its next await or its end. `DrainFrom` is the loop from its top (skip what is
not of the running session, await the first that is, or end and reset
`_queueRunning`), `DrainQueue` a call of `_drainQueue()`. `stop()` resets
`_queueRunning` while an answer may be awaited, so several items can be in
`inflight`, which is what the run `queue_not_serial` is about. A message is its
number and its status. `strays` is a history variable: how many items were awaited
when the session began.

In `QueueSpec` taken alone `QueueFail` may come at any time, as the speech side,
which causes it, is not there; the composition restricts it to the calls of
`_fail()`.

### ConversationManager

`Start`, `Stop`, `Pause`, `Resume` and `Destroy` are conjunctions of what they do
to each side; `state` is written in the order of the code: an awaited
`Voice.stop()` writes `idle` or `paused` only when it is answered
(`ShowAfterStop`, `ShowAfter`). `StartOffered` and `PauseOffered` are the buttons
of `ConversationPanel.js`; `Resume` needs no offer, since `handleSpeak()` of the
screen calls it after speaking whatever is shown.

`Abstract` is `Meeting` with the states `connecting`, `listening` and
`translating` shown as `live`, `error` as `idle`, and the awaited stops in the
order of their answers (`AwaitedIn`: the calls that show a state, each at the place
it has among them; written without recursion, so that it can be reasoned about). `Meeting` has only this left of the two sides:
`MeetingGoesOn` (a running meeting is shown to go on) and `MeetingFails`.

### TextToSpeech

| variable | code |
|---|---|
| `ready`, `listeners` | `_initPromise` is answered; `_listeners` are attached |
| `said`, `caller` | the calls of `speak()`, by number, and what each caller awaits: `init()`, its speech, `waitForIdle()` |
| `ttsQueue`, `step`, `item` | `_queue`; where the loop of `_drainQueue()` is (`idle`: not `_draining`) and with which utterance |
| `active`, `timers` | `_active`, and the utterances whose `setTimeout` is pending |
| `speaking` | `speaking`; never true with no loop when `waitForIdle()` is called |
| `lined`, `audible`, `ttsEvents` | external: what the engine has accepted, what is heard, events on their way |

`LoopFrom` is the loop from its top, `Push` what `speak()` adds to it, `Resolve`
the resolution of one utterance's promise, and `CloseActive` what an event and
`stop()` share. When an utterance is settled the loop and then the caller go on
in the same step, as microtasks do.

Abstractions. Setting the voice and the rate are two awaits with nothing in
between: one answer, which fails when the language has no voice. A call takes
effect on the engine at once; its events come later, or not at all. Each caller
does what `handleSpeak()` of the screen does: await `speak()`, then
`waitForIdle()`. `speak()` may be called after `destroy()`, as `handleSpeak()` may
have awaited `pause()` while the screen was left; `init()`, when it is answered
after `destroy()`, attaches the listeners all the same. Times are not modelled:
a timeout may come at any moment. `setSpeed()` only chooses the rate.

### MeetingScreen

`HandleSpeak` is `handleSpeak()` up to its first await that waits: `pause()`, when
the meeting is live and a recogniser has to be stopped, else `speak()`. The
call is then an entry of `endings` with its session as `speaker`
(`ManagerAnswers` carries it on to `speak()`), and from there a caller of
`TextToSpeech`. `Finally` is its `finally` block, which runs in the step that makes
the caller done. `resumeAfter` is the local `shouldResume`, with the session it was
computed in; `userPaused` is a history variable. The Stop button and the background
are `StopEverything`, the tap on what is being spoken is `StopSpeech`, auto mode is
a `HandleSpeak` without a tap, leaving the screen is `LeaveScreen`.

### AuthSession

| variable | code |
|---|---|
| `token`, `savedUser`, `firstLogin` | storage: the token, `userInfor`, `FIRST_LOGIN_REQUIRED`, by the number of the log-in they belong to |
| `ops` | the operations of the storage not yet answered |
| `store` | `state.auth.data` |
| `top`, `below` | the navigation stack: the screen on top and how many Main screens are below |
| `tried`, `posting`, `here` | attempts to log in, those whose POST is not answered, and those of the log-in screen on top |
| `tokenless` | external: log-ins whose answer had no token |
| `sent` | requests are with the server |
| `clearing` | `clearSession()` has emptied the store and not yet reset the screens |
| `loggingOut`, `latchTimer`, `up` | the latch of `apiClient.js` and its timer; the process runs |

`AsyncStorage` is a native module with one queue. An operation takes effect when
it is answered, and the function that awaits it goes on in the same step: so
`handleLogin()` and `clearSession()` are where their next operation is in `ops`.
`clearSession()` is the one callback that takes two steps: `SessionRemoved` empties
the store, which renders the mounted screens once more (`apiClient.js:18`), and
`ScreensReset` resets the stack and sets the timer of the latch (`:22-27`). No other
callback runs in between. When the process is killed the oldest operations may
still be executed (`StorageActs`), the rest is lost at the next start. An action
that an unmounted screen dispatches finds no route and changes nothing; a session
that is reset puts one log-in screen on an empty stack.

The log-in button is disabled while an attempt is under way and the Enter key of
the password field is not (`Login.js:365`), so a log-in screen may have several
attempts. A successful answer with a token writes user, flag and token before the
store; one without skips the token (`Login.js:191-194`, `FlagSaved`) and is a
log-in all the same. A request of a Main screen reads whichever token the storage
has by then, and the server may refuse any request, so requests with the server
are not told apart. The screens of the language are folded into Splash, and the
screen that asks for a new first password only goes back to the log-in (its request
does not exist yet). `components/Notifications.js` has a second log-out, which
clears the store, but nothing ever shows it (`HomeTab.js` only ever sets
`is_notification` to false).

### ChatRoom

A message is its number and its mark. What there is to know of the conversation is a
set of facts, "made" and "un-sent", and the history variable `lost` holds those
only a further history request can tell: the socket was not in the room, the
connection broke with the event on its way, an older history answer replaced the
list, or a translation that had begun before wrote the message back unmarked. The
properties say that nothing *else* is missing: they cannot catch these four, which
`PROJECT.json` lists as hazards without a property. What they do check is the cut
of a long list, the order of events and answers, and that an un-send marks every
copy of a message. Requests to un-send answer with a reload
(`reloads`); `optimizeMemory()`, which runs in an effect after the list has been
rendered (`ChatScreen.js:441-450`), is part of every change of the list
(`Optimised`): the longer list is rendered for a moment. The server orders messages and events; text, images, typing marks
and calls are left out.

### MealOrder

`ordered` is the list, `selected` the days of `selectedMap`; a POST or DELETE is
under way with whether the server has acted, and a DELETE with the list of the
render in which the button was pressed, which `handleOrderDeleted()` will filter.
`mishaps` is a history variable: the five things the screen does not keep from
happening (a tap before the list has come, a second tap on a day, a cancellation
beside another request, a lost answer, a full list). The properties hold short of
them, with any number of orders for different days answered in any order; they
cannot catch the mishaps themselves, which `PROJECT.json` lists as hazards without
a property. A successful answer bears the number of its order: the fallback
`Date.now()` of `Order.js:225`, whose order could not be cancelled, is left out. The
two shifts of a day are alike to the screen, and the list's order decides only
which orders are cut off, so the list is a set.

## 3. What TLC checks

No run checks deadlock, because the system really may stop: after the screen has
unmounted nothing is left to do.

| run | module, configuration | question |
|---|---|---|
| `speech` | `MCSpeechSession.cfg` | is the recogniser restarted, cancelled and closed correctly in every interleaving; does a meeting that goes on listen again; does the microphone close for good |
| `queue` | `MCTranslationQueue.cfg` | is every message translated once and in its meeting; does the queue implement `MeetingTimeline`; is every message of a meeting that goes on answered |
| `conversation` | `MCConversationManager.cfg` | does the shown state follow the meeting; does the manager implement `Meeting`; does no waiting state last |
| `meeting_screen` | `MCMeetingScreen.cfg` | is every utterance settled once and in order; is a meeting paused by a speech always about to be resumed, and does it come back |
| `session` | `MCAuthSession.cfg` | do overlapping log-ins, expiries, failures of the storage and kills leave store, storage and screens in agreement, with and without a token in the answer; does an expiry end at the log-in screen |
| `chat` | `MCChatRoom.cfg` | does the list show all the screen can know |
| `orders` | `MCMealOrder.cfg` | does a day get one order; is the list the server's |
| `speech_stop_leaves_mic`, `speech_deaf_meeting`, `queue_not_serial`, `screen_resumes_other`, `session_logout_keeps` | one property each | the disagreements of section 6 |

Bounds, and why they are enough:

* `MaxSession` (2 to 4) bounds the session counter; a start and a stop take two,
  so 3 lets a second meeting meet what the first one left behind;
* `MaxCalls` (1 or 2) holds back the owner's calls, never the event loop's: 2 is a
  call behind another one. `MaxEvents` 2 lets an event be overtaken by another;
  with 1 it can still be overtaken by the owner's calls and the timers;
* `Langs` has two languages in `speech`, where the language may change at any
  moment. In `conversation`, whose properties do not look at it, it changes once,
  before the last meeting (`LanguageChangesOnce`, a constraint on actions of the
  user only, which fairness does not need);
* `MaxMessages` 3 and `MaxSeq` 4 make the history drop a message that is still
  pending; `MaxChunks` 2 submits two messages with one utterance. The composition
  has one message (about 682,000 states): the shown state asks only whether a
  translation is awaited. That overlapping translations are all answered is
  `PendingIsAnswered` of `queue`. `queue_not_serial` needs three sessions (a
  start, its stop, another start) and a message in each meeting;
* `meeting_screen` has two sessions, three utterances and one late event (about
  670,000 states): one being spoken, one waiting and one more after a stop, with a
  meeting that ended below it. The counterexample of `screen_resumes_other` needs
  three sessions (a start, its stop, another start) and one utterance;
* `MaxLogins` 3 and `MaxReads` 1 in `session` (about 822,000 states): two attempts
  that overlap, on one screen or two, and one more; `sent` stands for any number of
  requests with the server, so `MaxReads` bounds only those that still read the
  token;
* `chat` has two requests, so that one overtakes the other, three messages, a list
  that is cut beyond 2 to 1, two events on their way, and one message un-sent or
  deleted (about 370,000 states). The requests are alike: symmetry;
* `orders` has three days (symmetry), three orders, two requests at a time, and a
  list of at most two: the third order meets the limit (about 240,000 states).

Fairness: JavaScript runs every timer and every answer that has come, and the
native module answers every call (weak fairness of the answers, the timer and
the delivery of events); `translateText()` has a timeout and a bounded number of
attempts, so every translation is answered (weak fairness for each item). The
user, the speaker and the recogniser (when it stops hearing) owe nothing: no
fairness for buttons, `PartialResult` or `RecogniserEnds`. The speech engine owes
no event: `MeetingComesBack` rests on the answers to the awaited stops, to `init()`
and to the voice, and on the service's own timeout. It is about a screen that stops
asking (the bound on the calls makes it stop): while taps keep coming the loop does
not end. `ExpiryIsHandled` rests on the answers of the storage, failures included,
on a callback that has begun going on to its end (`ScreensReset`), and on the timer; the server and the user owe nothing. Chat room and meal orders
have no liveness: nothing in them must happen.
`WaitingEnds` assumes in its statement that the
user does not press Retry for ever: with two failed messages, each retried while
the other is translated, the screen shows "translating" without end, rightly.

## 4. What is proved

The theorems hold for every value of the constants that satisfies the
assumptions `MaxSessionAssumption`, `SpeechAssumption`, `QueueAssumption`,
`TtsAssumption`, `SessionAssumption`, `RoomAssumption` and `OrderAssumption`
(bounds are natural numbers; a history keeps at least one message and no more than
its limit; `Off` is not a language; the days on offer are finitely many). Every
safety invariant and action property of the runs that pass, and both refinements,
are theorems.

* `SpeechSessionProofs`: type correctness, all the safety invariants of the
  run `speech`, and its action property `SilenceIsCounted`. The inductive invariant `SpeechInv` adds that a running meeting
  has a session number above 0 (the timer's value 0 means none), and, for
  `NothingHeardAfterDestroy`, that once the screen is left a closing call is
  outstanding with no start behind it, or the microphone is closed and no start
  is outstanding (`MicWillClose`).
* `TranslationQueueProofs`: type correctness and all the safety invariants of
  the run `queue`, and that the history is ordered by number and bounded
  (`HistoryIsOrdered`). The invariants are not inductive as they stand. `QueueInv`
  counts the awaited items of ended sessions too (`ItemsAreProcessing`): the
  message of a late drainer is still "processing", which is what keeps a retry
  from submitting it twice; and it bounds the drainers while no loop is marked as
  running (`SerialLoop`). Requests are not serial, as a run shows; what is proved is
  how far they are from it (`SerialButForStrays`): a meeting adds one at a time to
  those that were awaited when it began. The loop is described by `Advance`, and that a move of
  the head from the queue to the awaited items loses and doubles nothing is one
  lemma (`HeadMoves`). From the same invariant follow the action properties:
  `TranslatedIsFinal`, as numbers are unique in the history and an answer or a
  retry only touches a message that is "processing" or failed; and `NoMessageLost`,
  as what leaves the pending messages of a session is the item that is answered.
  And `TranslationQueue` implements `MeetingTimeline`: ends of meetings map to
  `Abandon`, an utterance to `Submit`, an answer of the session to `Resolve`, a
  retry to `Resubmit`, and a late answer to no step.
* `ConversationManagerProofs`: every step of the manager is a step, or none, of
  each side (`SpeechOfMeeting`, `QueueOfMeeting`), so all the above holds of the
  composition (`MeetingKeepsBothSides`, `MeetingKeepsItsTimeline`); with an
  invariant on the calls of `stop()` and `pause()` (`Typed`), the safety properties
  of the run `conversation`; and `ManagerImplementsMeeting`. Its steps map as
  their names say: the buttons to the operations of `Meeting`, a refusal, a rejected
  start and a fatal error to `MeetingFails`, a permission, the timer, a result, a
  translation and a retry to `MeetingGoesOn` or to nothing, and the answer of an
  awaited stop to `MeetingAnswered`. What needs work is the mapping of the calls:
  a call that is added comes last among those that show a state or is none of them
  (`AwaitedAppended`), and one that is answered was the first of them or none
  (`AwaitedTaken`); both rest on the places of the members of a finite set
  (`Places`, `PlacesBehindFirst`).
* `TextToSpeechProofs`: type correctness and the safety invariants of the speech
  service. They become inductive with two facts (`LoopInv`): the queue
  holds the numbers of the calls in increasing order, all above the utterance the
  loop handles; and each caller's state is determined by where its number is
  (`Accounted`). All actions end in the loop, so one lemma (`LoopGoesOn`) carries
  most of the proof.
* `MeetingScreenProofs`: the screen takes only steps of `TextToSpeech` and of
  `Meeting` (`ServiceOfScreen`, `MeetingOfScreen`), so the theorems of the service
  hold on the screen; and `PauseIsResumed`, from the types (`HandlersTyped`), the
  invariant of `Meeting` and what each caller does next in `TextToSpeech`: the
  only steps that end the last call that is to resume a meeting run `Finally`, end
  the meeting, or leave the screen.
* `AuthSessionProofs`: type correctness, `TokenIsOfStore` and `HomeHasSession`.
  `SessionInv` says of every operation in the queue what its attempt has written
  (`OpsFit`): if it is an attempt of the log-in screen on top, the user is
  there from the second await on, and the store from the last. A removal in between
  takes that screen away with the session, and an attempt without its screen cannot
  show Main. While `clearSession()` is between the store and the screens the
  attempts of the screen on top have nothing to rely on, and nothing of theirs runs
  (`Attempts`): the reset that follows ends them (`ScreensResetKeeps`). What is proved
  of the token leaves out the log-ins that got none (`tokenless`), and what is
  proved of Main leaves out that window.
* `ChatRoomProofs`: type correctness, `NoOtherUnsendIsMissing` and
  `NoOtherMessageIsMissing`. All rest on lemmas about what `Listed`, `Optimised` and
  `Replaced` return. For the un-sends two facts make the property
  inductive (`RoomInv`): an event by which an un-sent message appears has the one
  that marks it behind it, or that one is lost (`MarksFollow`); and nothing is on
  its way while the socket is not in the room (`RoomIsOrdered`). For the messages
  (`MessagesInv`) the events are in the order in which messages were made, and
  behind the event of a message are those of all newer ones (`EventsInOrder`); and the property is proved in the form that every message is
  "accounted for" by a shown one at least as new (`Accounted`), which a list cut
  from its old end keeps because its last entry stays (`OptimisedKeepsLast`) and a
  history answer keeps because it lists its messages in order (`ListedInOrder`).
* `MealOrderProofs`: type correctness, `OneOrderPerDay` and `ListIsTheServers`.
  `OrderInv` says what the screen and the server have while no mishap has happened:
  before the list has come nothing is shown or under way (`BeforeTheList`); then
  orders under way are for different days, all of them free, and the server has
  the list and those it has answered (`TapsApart`); and a cancellation is the only
  request under way and brings back the list that is shown (`CancelAlone`). A
  list that waits to come back fits the limit (`ListsFit`), which the types need.

## 5. What is only model-checked

Liveness (`ListensAgain`, `DestroyClosesMic`, `PendingIsAnswered`,
`WaitingEnds`, `MeetingComesBack`, `ExpiryIsHandled`), which is out of the prover's
reach. The five runs that find a violation have, of course, no theorem.

## 6. Where the code does not do what its documentation says

1. `MicClosedWhenNotRunning`: a stop while `Voice.start()` is pending finds
   `started` false and does not call `Voice.stop()`; the microphone opens
   afterwards, without a meeting.
2. `ListeningIsHeard`: a result that arrives while the manager does not listen is
   dropped before `markEnded()`; `started` stays set, and the next start shows
   "listening" with a closed microphone and nothing to wake it.
3. `ResumesSameSession`: a speech begun in one meeting, still spoken when the user
   has stopped it, started another and paused that one, resumes the pause of the
   other meeting when it ends.
4. `LogoutIsFinal`: log-out only navigates; token, user and store stay, and Back
   returns to Main with the session of before.
5. `SerialTranslation`: a stop resets `_queueRunning` under a loop that awaits its
   translation, so the next meeting starts a second loop beside it. The
   documentation has one serial queue (`TRANSLATOR_REDESIGN.md:134-135,152`).

Three more disagreements are described and not run. They are in the models as they
are in the code:

* the timeout of an utterance, and a late event of a stopped one, answer its caller
  while the engine speaks on, or is still to speak, so the meeting listens to the
  synthesised voice. The comment of `tts.js:1-3` has the promise resolve when the
  playing is over, and `TRANSLATOR_REDESIGN.md:143-145` has the recogniser paused
  while speech is audible. The timeout is 20 seconds, and whether an utterance
  lasts longer is a duration, which the models do not have; without it a
  counterexample would show only that a timeout may come early;
* a log-in whose answer has no token goes through without one (`Login.js:191-194`),
  and its requests have no `Authorization`, or that of the log-in before.
  `TODO.md:372-373` ticks off that the token is saved after log-in. Whether the
  server ever answers so is not in the repository; `TokenIsOfStore` names the case;
* `TRANSLATOR_REDESIGN.md:97-99` can be read as "a new meeting clears the messages of
  the last"; the code keeps them, and `MeetingTimeline` follows the code.

`TODO.md:366-370` describes a crash of HomeTab when the store is emptied under it.
That render still happens (`SessionRemoved`, before `ScreensReset`), HomeTab has been
made safe for it, and `HomeHasSession` says that it is the only one.

Other behaviour is in the models as it is in the code, without a sentence of the
documentation to hold it against, and the properties are stated around it:

* a refusal of an earlier `start()` fails the meeting that runs by then;
* a language change does not restart the recogniser;
* a message whose meeting ends while it is pending stays "processing" and cannot
  be retried;
* the translation loop shows a paused meeting as translating, and a late answer
  to `Voice.stop()` shows `idle` or `paused` over what has begun since;
* an utterance whose voice is being set when `stop()` comes is spoken after it;
* a chat translation writes its message back as it was when it began, over an
  un-send that came meanwhile; a history answer older than an event takes it away
  again; after a broken connection the screen does not join the room again;
* two taps on a day before the first answer place two orders; a cancellation puts
  back the list of the moment of its press.

Where a model is coarser than the code, and why that changes no property:

* `VoiceStopped` of a stop that belongs to `destroy()` leaves `started` as it is;
  `speechRecognition.js:157` resets it before `Voice.destroy()`. The screen is gone by
  then: no start follows, and a `started` that stayed set could only cause one more
  `Voice.stop()`;
* `EngineStops` reports at most once for a stop; an engine that reports every
  utterance it drops sends further late events, which meet the same handler;
* `HandleSpeak` looks at the manager's present state; the screen looks at that of
  its last render (`Translator.js:135,161`), which is the same once the
  notification of a change has been rendered.

## 7. Not modelled, and the plan

* Translation service (`translator.js`): between calls it keeps nothing; its
  retries and timeout appear as the answer that always comes. Its splitting is
  string handling, a candidate for a module of operators checked against a
  reference definition.
* User profile cache (`useUserProfile.js`): an older request may overwrite a newer
  one. No sentence says which has to win, and both are the server's.
* Check-in scanner (`Checkin.js`): its lock is released by timers, and whether two
  scans overlap depends on their durations, which untimed models do not have.
* Notification list (`Notifications.js`): the list is fetched again whenever the
  screen is shown, so what a partly failed "mark all" leaves is temporary.
* Of the chat: typing marks, images, calls, the list of conversations
  (`Message.js`).
* Everything else is listed with its reason in `PROJECT.json`: screens that send
  one request and show its answer, hold local sample data, or set up libraries;
  layout, wording, logging, theme and the translations of the interface; and the
  native modules, modelled only as the code in `src/` uses them.

Next, in this order: `MeetingScreen` over the whole manager, now that the manager
is proved to implement `Meeting`; an abstract specification of the speech service
(calls answered once and in order) and of the session (one holder of a token) with
their refinements; and the splitting of long texts.
