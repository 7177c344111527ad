--------------------------- MODULE TranslationQueue ---------------------------
(***************************************************************************)
(* The translation side of ConversationManager: finalized speech becomes   *)
(* messages of the meeting's history, and each message is translated by a  *)
(* "drainer", a run of the asynchronous loop _drainQueue(). The loop only  *)
(* yields while it awaits translateText(), so a drainer is identified with *)
(* the item it awaits; an answer and everything the loop does up to its    *)
(* next await, or its end, is one step.                                    *)
(*                                                                         *)
(* What a message says is left out. A final result is the number of its    *)
(* chunks that survive _enqueue()'s comparison with the previous text.     *)
(***************************************************************************)
EXTENDS ConversationState, Sequences, FiniteSets

CONSTANTS
  MaxMessages,  \* MAX_MESSAGES, how much history is kept
  MaxSeq,       \* bound of the model on the number of messages
  MaxChunks     \* bound of the model on the chunks of one final result

ASSUME QueueAssumption ==
  /\ MaxMessages \in Nat \ {0}
  /\ MaxSeq \in Nat
  /\ MaxChunks \in Nat \ {0}

VARIABLES
  queue,         \* this._queue
  queueRunning,  \* this._queueRunning
  inflight,      \* the items whose translation a drainer awaits
  messages,      \* this.messages
  msgSeq,        \* this._msgSeq
  strays         \* history: drainers of earlier sessions still awaiting an
                 \* answer when the current session began

queueVars == <<queue, queueRunning, inflight, messages, msgSeq, strays>>
qvars == <<sessionVars, queueVars>>

Item    == [id : Nat, session : Nat]
Status  == {"processing", "translated", "error"}
Message == [id : Nat, status : Status]

QueueTypeOK ==
  /\ SessionTypeOK
  /\ queue \in Seq(Item)
  /\ queueRunning \in BOOLEAN
  /\ inflight \in SUBSET Item
  /\ IsFiniteSet(inflight)
  /\ messages \in Seq(Message)
  /\ msgSeq \in Nat
  /\ strays \in Nat

QueueInit ==
  /\ SessionInit
  /\ queue = <<>>
  /\ queueRunning = FALSE
  /\ inflight = {}
  /\ messages = <<>>
  /\ msgSeq = 0
  /\ strays = 0

-----------------------------------------------------------------------------
(***************************************************************************)
(* The loop of _drainQueue().                                              *)
(***************************************************************************)

\* An item of a stopped or earlier session is skipped.
Live(item) == running /\ item.session = session

LiveAt(q) == {i \in DOMAIN q : Live(q[i])}
FirstLive(q) == CHOOSE i \in LiveAt(q) : \A j \in LiveAt(q) : i =< j

\* The loop from its top: "q" is the queue, "others" the items the other
\* drainers await. It stops at the next await, or ends with the queue empty.
DrainFrom(q, others) ==
  IF LiveAt(q) = {}
  THEN /\ queue' = <<>>
       /\ inflight' = others
       /\ queueRunning' = FALSE
  ELSE /\ queue' = SubSeq(q, FirstLive(q) + 1, Len(q))
       /\ inflight' = others \cup {q[FirstLive(q)]}
       /\ queueRunning' = TRUE

\* A call of _drainQueue() with the queue "q": nothing while a loop runs.
DrainQueue(q) ==
  IF queueRunning
  THEN /\ queue' = q
       /\ UNCHANGED <<inflight, queueRunning>>
  ELSE DrainFrom(q, inflight)

\* slice(-MAX_MESSAGES)
KeepLast(s) ==
  IF Len(s) =< MaxMessages THEN s
  ELSE SubSeq(s, Len(s) - MaxMessages + 1, Len(s))

\* Mutant of SetStatus: a status outside the type of a message.
SetStatusCompleted(id, status) ==
  messages' = [i \in DOMAIN messages |->
                 IF messages[i].id = id
                 THEN [messages[i] EXCEPT !.status = "completed"]
                 ELSE messages[i]]

SetStatus(id, status) ==
  messages' = [i \in DOMAIN messages |->
                 IF messages[i].id = id
                 THEN [messages[i] EXCEPT !.status = status]
                 ELSE messages[i]]

-----------------------------------------------------------------------------
(***************************************************************************)
(* What the session's operations do to the queue.                          *)
(***************************************************************************)

QueueStart ==
  /\ BeginSession
  /\ queue' = <<>>
  /\ strays' = Cardinality(inflight)
  /\ UNCHANGED <<queueRunning, inflight, messages, msgSeq>>

\* stop() also forgets that a loop may be awaiting an answer.
QueueStop ==
  /\ EndSession
  /\ queue' = <<>>
  /\ queueRunning' = FALSE
  /\ UNCHANGED <<inflight, messages, msgSeq, strays>>

QueueDestroy ==
  /\ DestroySession
  /\ queue' = <<>>
  /\ UNCHANGED <<queueRunning, inflight, messages, msgSeq, strays>>

\* Mutant of QueueFail: the queue survives the meeting.
QueueFailKeepsQueue == FailSession /\ UNCHANGED queueVars

QueueFail ==
  /\ FailSession
  /\ queue' = <<>>
  /\ UNCHANGED <<queueRunning, inflight, messages, msgSeq, strays>>

\* The queue goes on while the meeting is paused.
QueuePause  == PauseSession /\ UNCHANGED queueVars
QueueResume == ResumeSession /\ UNCHANGED queueVars

-----------------------------------------------------------------------------
(***************************************************************************)
(* Messages.                                                               *)
(***************************************************************************)

\* The chunks of a final result become messages "m<seq>" and queue items.
Enqueue(chunks) ==
  LET ids == [i \in 1 .. chunks |-> msgSeq + i] IN
  /\ running /\ ~paused
  /\ msgSeq + chunks =< MaxSeq
  /\ msgSeq' = msgSeq + chunks
  /\ messages' = KeepLast(messages \o
       [i \in 1 .. chunks |-> [id |-> ids[i], status |-> "processing"]])
  /\ DrainQueue(queue \o
       [i \in 1 .. chunks |-> [id |-> ids[i], session |-> session]])
  /\ UNCHANGED <<sessionVars, strays>>

\* Mutants of Answer: a late answer is written; a late answer ends the loop; a
\* failed one is not written.
AnswerUnchecked(item, ok) ==
  /\ item \in inflight
  /\ SetStatus(item.id, IF ok THEN "translated" ELSE "error")
  /\ DrainFrom(queue, inflight \ {item})
  /\ UNCHANGED <<sessionVars, msgSeq, strays>>

AnswerEndsLoop(item, ok) ==
  /\ item \in inflight
  /\ IF Live(item)
     THEN /\ SetStatus(item.id, IF ok THEN "translated" ELSE "error")
          /\ DrainFrom(queue, inflight \ {item})
     ELSE /\ inflight' = inflight \ {item}
          /\ queueRunning' = FALSE
          /\ UNCHANGED <<messages, queue>>
  /\ UNCHANGED <<sessionVars, msgSeq, strays>>

AnswerDropsFailure(item, ok) ==
  /\ item \in inflight
  /\ IF Live(item) /\ ok THEN SetStatus(item.id, "translated")
     ELSE UNCHANGED messages
  /\ DrainFrom(queue, inflight \ {item})
  /\ UNCHANGED <<sessionVars, msgSeq, strays>>

\* translateText() answers, or fails, and the loop goes on. An answer for an
\* earlier session is thrown away.
Answer(item, ok) ==
  /\ item \in inflight
  /\ IF Live(item)
     THEN SetStatus(item.id, IF ok THEN "translated" ELSE "error")
     ELSE UNCHANGED messages
  /\ DrainFrom(queue, inflight \ {item})
  /\ UNCHANGED <<sessionVars, msgSeq, strays>>

\* Mutants of Retry: any message can be retried; the error stays shown.
RetryAnyStatus(id) ==
  /\ mounted /\ running
  /\ \E i \in DOMAIN messages : messages[i].id = id
  /\ SetStatus(id, "processing")
  /\ DrainQueue(Append(queue, [id |-> id, session |-> session]))
  /\ UNCHANGED <<sessionVars, msgSeq, strays>>

RetryKeepsError(id) ==
  /\ mounted /\ running
  /\ \E i \in DOMAIN messages : messages[i].id = id /\ messages[i].status = "error"
  /\ DrainQueue(Append(queue, [id |-> id, session |-> session]))
  /\ UNCHANGED <<sessionVars, messages, msgSeq, strays>>

\* retryMessage(): the Retry button of a message whose translation failed.
Retry(id) ==
  /\ mounted /\ running
  /\ \E i \in DOMAIN messages : messages[i].id = id /\ messages[i].status = "error"
  /\ SetStatus(id, "processing")
  /\ DrainQueue(Append(queue, [id |-> id, session |-> session]))
  /\ UNCHANGED <<sessionVars, msgSeq, strays>>

-----------------------------------------------------------------------------
QueueNext ==
  \/ QueueStart
  \/ QueueStop
  \/ QueueDestroy
  \/ QueueFail
  \/ QueuePause
  \/ QueueResume
  \/ \E chunks \in 1 .. MaxChunks : Enqueue(chunks)
  \/ \E item \in inflight, ok \in BOOLEAN : Answer(item, ok)
  \/ \E id \in 1 .. msgSeq : Retry(id)

QueueSpec == QueueInit /\ [][QueueNext]_qvars

\* Every translation is answered: translateText() has a timeout and a bounded
\* number of attempts (translator.js).
QueueFairness == \A n \in 1 .. MaxSeq, s \in 1 .. MaxSession :
  WF_qvars(\E item \in inflight, ok \in BOOLEAN :
             item = [id |-> n, session |-> s] /\ Answer(item, ok))

FairQueueSpec == QueueSpec /\ QueueFairness

-----------------------------------------------------------------------------
(***************************************************************************)
(* Safety.                                                                 *)
(***************************************************************************)

\* An item whose answer will be used: queued, or awaited for this session.
PendingIds == {queue[i].id : i \in DOMAIN queue}
              \cup {item.id : item \in {x \in inflight : Live(x)}}

\* Only the running session has anything queued: stop, start, destroy and every
\* failure empty the queue before another session can find it.
QueueIsCurrent == \A i \in DOMAIN queue : Live(queue[i])

\* Nothing waits in vain: while a message is queued, a loop is marked as running
\* and a drainer awaits an answer, after which it looks at the queue again.
QueueIsDrained ==
  /\ queue # <<>> => queueRunning
  /\ queueRunning => inflight # {}

\* A message is never translated twice at a time: retry, a restarted session and
\* a surviving drainer do not submit one that is still pending.
NoDoubleTranslation ==
  /\ \A i, j \in DOMAIN queue : queue[i].id = queue[j].id => i = j
  /\ \A i \in DOMAIN queue, item \in inflight : queue[i].id # item.id
  /\ \A x, y \in inflight : x.id = y.id => x = y

\* An answer only ever lands on a message that is shown as "processing".
PendingIsProcessing ==
  \A i \in DOMAIN messages :
    messages[i].id \in PendingIds => messages[i].status = "processing"

\* A pending message of a session that goes on stays pending, is answered, or
\* leaves the kept history: no early return, failure path or loop exit drops it.
NoMessageLost ==
  [][running /\ running' /\ session' = session =>
       \A n \in PendingIds \ PendingIds' :
         \A i \in DOMAIN messages' :
           messages'[i].id = n => messages'[i].status # "processing"]_qvars

\* A translation, once shown, is never replaced or taken back.
TranslatedIsFinal ==
  [][\A i \in DOMAIN messages, j \in DOMAIN messages' :
       messages[i].id = messages'[j].id /\ messages[i].status = "translated"
         => messages'[j].status = "translated"]_qvars

\* The timeline is in the order of speech and keeps the newest messages.
HistoryIsOrdered ==
  /\ \A i, j \in DOMAIN messages : i < j => messages[i].id < messages[j].id
  /\ Len(messages) =< MaxMessages
  /\ messages # <<>> => messages[Len(messages)].id = msgSeq

-----------------------------------------------------------------------------
(***************************************************************************)
(* The queue and its drainers implement the timeline a reader is promised. *)
(***************************************************************************)

Timeline == INSTANCE MeetingTimeline WITH
  Bound <- MaxMessages, Batch <- MaxChunks, timeline <- messages, pending <- PendingIds,
  last <- msgSeq

\* Sessions, drainers left over from earlier ones and the restarts of the loop
\* are invisible: every step of the queue is a step of the timeline or none.
ImplementsTimeline == Timeline!TimelineSpec

-----------------------------------------------------------------------------
(***************************************************************************)
(* Liveness.                                                               *)
(***************************************************************************)

Shown(n, status) ==
  \E i \in DOMAIN messages : messages[i].id = n /\ messages[i].status = status

\* A message of a session that goes on is answered.
PendingIsAnswered ==
  \A n \in 1 .. MaxSeq, s \in 1 .. MaxSession :
    running /\ session = s /\ n \in PendingIds
      ~> n \notin PendingIds \/ ~running \/ session # s

-----------------------------------------------------------------------------
(***************************************************************************)
(* What the documentation says and the code does not do.                   *)
(***************************************************************************)

\* The queue "processes requests serially", "to preserve order and avoid duplicate
\* requests" (TRANSLATOR_REDESIGN.md:134-135,152): two requests are never awaited
\* at a time. But stop() resets _queueRunning under a loop that awaits an answer,
\* and the next session starts another loop beside it.
SerialTranslation == Cardinality(inflight) =< 1

\* How far the code is from it: the requests left over when the session began, and
\* one more.
SerialUpToStrays == Cardinality(inflight) =< strays + 1

=============================================================================
