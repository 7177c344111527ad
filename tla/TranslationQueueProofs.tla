------------------------ MODULE TranslationQueueProofs ------------------------
(***************************************************************************)
(* The translation queue keeps its safety properties, and implements the   *)
(* meeting timeline, for every value of the bounds.                        *)
(*                                                                         *)
(* The three actions that turn the loop of _drainQueue() have one shape:   *)
(* a full queue "q" is made, and the loop then leaves it as it is, takes   *)
(* its head, or ends. Advance says so without the loop, and what a move of *)
(* the head from the queue to the awaited items preserves is proved once.  *)
(***************************************************************************)
EXTENDS TranslationQueue, FiniteSetTheorems, TLAPS

USE QueueAssumption

\* No message has two items, in the queue "q" and awaited in "s" together.
Distinct(q, s) ==
  /\ \A i, j \in DOMAIN q : q[i].id = q[j].id => i = j
  /\ \A i \in DOMAIN q, x \in s : q[i].id # x.id
  /\ \A x, y \in s : x.id = y.id => x = y

\* No item is newer than message "n" and session "now".
Numbered(q, s, n, now) ==
  /\ \A i \in DOMAIN q : q[i].id =< n
  /\ \A x \in s : x.id =< n /\ x.session =< now

HasItem(q, s, n) ==
  (\E i \in DOMAIN q : q[i].id = n) \/ (\E x \in s : x.id = n)

\* A message with an item, of whatever session, is shown as "processing".
Processing(q, s, m) ==
  \A k \in DOMAIN m : HasItem(q, s, m[k].id) => m[k].status = "processing"

AllLive(q) == \A i \in DOMAIN q : Live(q[i])

\* What the loop does with the queue "q" while "others" are awaited.
Advance(q, others) ==
  \/ /\ queueRunning /\ queueRunning' = TRUE
     /\ queue' = q
     /\ others = inflight /\ inflight' = inflight
  \/ /\ ~queueRunning \/ others # inflight
     /\ q = <<>>
     /\ queueRunning' = FALSE
     /\ queue' = <<>>
     /\ inflight' = others
  \/ /\ ~queueRunning \/ others # inflight
     /\ q # <<>>
     /\ queueRunning' = TRUE
     /\ queue' = Tail(q)
     /\ inflight' = others \cup {Head(q)}

-----------------------------------------------------------------------------
(***************************************************************************)
(* The inductive invariant.                                                *)
(***************************************************************************)

QueueFlags ==
  /\ running \in BOOLEAN
  /\ paused \in BOOLEAN
  /\ mounted \in BOOLEAN
  /\ queueRunning \in BOOLEAN

QueueNumbers ==
  /\ session \in Nat
  /\ msgSeq \in Nat
  /\ strays \in Nat

QueueItems ==
  /\ queue \in Seq(Item)
  /\ inflight \in SUBSET Item
  /\ IsFiniteSet(inflight)

ItemsAreNumbered == Numbered(queue, inflight, msgSeq, session)

\* Stronger than PendingIsProcessing: the awaited items of ended sessions count,
\* so that no retry can submit their messages a second time.
ItemsAreProcessing == Processing(queue, inflight, messages)

\* What SerialUpToStrays needs to be inductive: with no loop marked as running,
\* a running session awaits at most what was left over when it began.
SerialLoop ==
  /\ SerialUpToStrays
  /\ running /\ ~queueRunning => Cardinality(inflight) =< strays

History ==
  /\ messages \in Seq(Message)
  /\ \A k \in DOMAIN messages : messages[k].id =< msgSeq
  /\ HistoryIsOrdered

QueueInv ==
  /\ QueueFlags
  /\ QueueNumbers
  /\ QueueItems
  /\ QueueIsCurrent
  /\ QueueIsDrained
  /\ ItemsAreNumbered
  /\ NoDoubleTranslation
  /\ ItemsAreProcessing
  /\ SerialLoop
  /\ History

-----------------------------------------------------------------------------
(***************************************************************************)
(* The loop.                                                               *)
(***************************************************************************)

\* With nothing of another session in the queue, the loop takes its head.
LEMMA DrainAdvances ==
  ASSUME NEW q \in Seq(Item), NEW others, AllLive(q)
  PROVE  /\ others # inflight /\ DrainFrom(q, others) => Advance(q, others)
         /\ queueRunning \in BOOLEAN /\ DrainQueue(q) => Advance(q, inflight)
<1>1. ASSUME NEW rest, ~queueRunning \/ rest # inflight, DrainFrom(q, rest)
      PROVE  Advance(q, rest)
  <2>1. LiveAt(q) = DOMAIN q
    BY DEF LiveAt, AllLive
  <2>2. CASE q = <<>>
    BY <1>1, <2>1, <2>2 DEF DrainFrom, Advance
  <2>3. CASE q # <<>>
    <3>1. 1 \in LiveAt(q) /\ \A j \in LiveAt(q) : 1 =< j
      BY <2>1, <2>3
    <3>2. FirstLive(q) \in LiveAt(q) /\ FirstLive(q) =< 1
      BY <3>1 DEF FirstLive
    <3>3. FirstLive(q) = 1
      BY <2>1, <3>1, <3>2
    <3>4. SubSeq(q, 1 + 1, Len(q)) = Tail(q) /\ Head(q) = q[1]
      BY <2>3
    <3> QED
      BY <1>1, <2>3, <3>1, <3>3, <3>4 DEF DrainFrom, Advance
  <2> QED
    BY <2>2, <2>3
<1>2. ASSUME queueRunning \in BOOLEAN, DrainQueue(q) PROVE Advance(q, inflight)
  <2>1. CASE queueRunning
    BY <1>2, <2>1 DEF DrainQueue, Advance
  <2>2. CASE ~queueRunning
    BY <1>1, <1>2, <2>2 DEF DrainQueue
  <2> QED
    BY <2>1, <2>2
<1> QED
  BY <1>1, <1>2

\* Moving the head of the queue to the awaited items loses and doubles nothing.
LEMMA HeadMoves ==
  ASSUME NEW q \in Seq(Item), q # <<>>, NEW s
  PROVE  /\ Tail(q) \in Seq(Item) /\ Head(q) \in Item
         /\ AllLive(q) => AllLive(Tail(q)) /\ Live(Head(q))
         /\ Distinct(q, s) => Distinct(Tail(q), s \cup {Head(q)})
         /\ \A n : HasItem(Tail(q), s \cup {Head(q)}, n) <=> HasItem(q, s, n)
         /\ \A n : session \in Nat /\ AllLive(q) /\ Numbered(q, s, n, session)
                  => Numbered(Tail(q), s \cup {Head(q)}, n, session)
<1>1. /\ Tail(q) \in Seq(Item) /\ Head(q) \in Item
      /\ Head(q) = q[1] /\ 1 \in DOMAIN q
  OBVIOUS
<1>2. \A i \in DOMAIN Tail(q) : i + 1 \in DOMAIN q /\ Tail(q)[i] = q[i + 1]
  OBVIOUS
<1>3. \A i \in DOMAIN q : i # 1 => i - 1 \in DOMAIN Tail(q) /\ Tail(q)[i - 1] = q[i]
  OBVIOUS
<1>4. AllLive(q) => AllLive(Tail(q)) /\ Live(Head(q))
  BY <1>1, <1>2 DEF AllLive
<1>5. ASSUME Distinct(q, s) PROVE Distinct(Tail(q), s \cup {Head(q)})
  <2>1. \A i, j \in DOMAIN Tail(q) : Tail(q)[i].id = Tail(q)[j].id => i = j
    BY <1>2, <1>5 DEF Distinct
  <2>2. \A i \in DOMAIN Tail(q) : Tail(q)[i].id # q[1].id
    BY <1>1, <1>2, <1>5 DEF Distinct
  <2>3. \A i \in DOMAIN Tail(q), x \in s \cup {Head(q)} : Tail(q)[i].id # x.id
    BY <1>1, <1>2, <1>5, <2>2 DEF Distinct
  <2>4. \A x, y \in s \cup {Head(q)} : x.id = y.id => x = y
    BY <1>1, <1>5 DEF Distinct
  <2> QED
    BY <2>1, <2>3, <2>4 DEF Distinct
<1>6. ASSUME NEW n PROVE HasItem(Tail(q), s \cup {Head(q)}, n) <=> HasItem(q, s, n)
  <2>1. ASSUME HasItem(Tail(q), s \cup {Head(q)}, n) PROVE HasItem(q, s, n)
    BY <1>1, <1>2, <2>1 DEF HasItem
  <2>2. ASSUME HasItem(q, s, n) PROVE HasItem(Tail(q), s \cup {Head(q)}, n)
    <3>1. CASE \E x \in s : x.id = n
      BY <3>1 DEF HasItem
    <3>2. CASE \E i \in DOMAIN q : q[i].id = n
      <4>1. PICK i \in DOMAIN q : q[i].id = n
        BY <3>2
      <4>2. CASE i = 1
        BY <1>1, <4>1, <4>2 DEF HasItem
      <4>3. CASE i # 1
        BY <1>3, <4>1, <4>3 DEF HasItem
      <4> QED
        BY <4>2, <4>3
    <3> QED
      BY <2>2, <3>1, <3>2 DEF HasItem
  <2> QED
    BY <2>1, <2>2
<1>7. ASSUME NEW n, AllLive(q), Numbered(q, s, n, session), session \in Nat
      PROVE  Numbered(Tail(q), s \cup {Head(q)}, n, session)
  BY <1>1, <1>2, <1>4, <1>7 DEF Numbered, Live
<1> QED
  BY <1>1, <1>4, <1>5, <1>6, <1>7

\* A turn of the loop keeps the parts of the invariant that speak of items.
LEMMA AdvanceKeeps ==
  ASSUME QueueFlags, QueueNumbers, QueueItems, QueueIsDrained, SerialLoop,
         NEW q \in Seq(Item), NEW others \in SUBSET Item, IsFiniteSet(others),
         AllLive(q), Distinct(q, others), Numbered(q, others, msgSeq', session),
         others # inflight => Cardinality(others) =< strays,
         others = inflight => running,
         UNCHANGED <<running, paused, session, mounted, strays>>,
         Advance(q, others)
  PROVE  /\ QueueFlags' /\ QueueItems' /\ QueueIsCurrent' /\ QueueIsDrained'
         /\ ItemsAreNumbered' /\ NoDoubleTranslation' /\ SerialLoop'
         /\ \A n : HasItem(queue', inflight', n) <=> HasItem(q, others, n)
<1> USE DEF QueueNumbers
<1>1. Cardinality(others) \in Nat
  BY FS_CardinalityType
<1>2. CASE /\ queueRunning /\ queueRunning' = TRUE
           /\ queue' = q
           /\ others = inflight /\ inflight' = inflight
  <2>1. inflight # {}
    BY <1>2 DEF QueueIsDrained
  <2>2. QueueFlags' /\ QueueItems'
    BY <1>2 DEF QueueFlags, QueueItems
  <2>3. QueueIsCurrent'
    BY <1>2 DEF QueueIsCurrent, AllLive, Live
  <2>4. QueueIsDrained' /\ ItemsAreNumbered' /\ NoDoubleTranslation'
    BY <1>2, <2>1
       DEF QueueIsDrained, ItemsAreNumbered, Numbered, NoDoubleTranslation, Distinct
  <2>5. SerialLoop'
    BY <1>2 DEF SerialLoop, SerialUpToStrays
  <2> QED
    BY <1>2, <2>2, <2>3, <2>4, <2>5
<1>3. CASE /\ ~queueRunning \/ others # inflight
           /\ q = <<>>
           /\ queueRunning' = FALSE
           /\ queue' = <<>>
           /\ inflight' = others
  <2>1. Cardinality(others) =< strays
    BY <1>3 DEF SerialLoop
  <2>2. QueueFlags' /\ QueueItems'
    BY <1>3 DEF QueueFlags, QueueItems
  <2>3. QueueIsCurrent' /\ QueueIsDrained' /\ ItemsAreNumbered' /\ NoDoubleTranslation'
    BY <1>3 DEF QueueIsCurrent, QueueIsDrained, ItemsAreNumbered, Numbered,
                NoDoubleTranslation, Distinct
  <2>4. SerialLoop'
    BY <1>1, <1>3, <2>1 DEF SerialLoop, SerialUpToStrays
  <2> QED
    BY <1>3, <2>2, <2>3, <2>4
<1>4. CASE /\ ~queueRunning \/ others # inflight
           /\ q # <<>>
           /\ queueRunning' = TRUE
           /\ queue' = Tail(q)
           /\ inflight' = others \cup {Head(q)}
  <2>1. Cardinality(others) =< strays
    BY <1>4 DEF SerialLoop
  <2>2. /\ IsFiniteSet(others \cup {Head(q)})
        /\ Cardinality(others \cup {Head(q)}) =< Cardinality(others) + 1
    <3> DEFINE more == others \cup {Head(q)}
    <3>1. /\ IsFiniteSet(more)
          /\ Cardinality(more) = IF Head(q) \in others THEN Cardinality(others)
                                 ELSE Cardinality(others) + 1
      BY FS_AddElement
    <3> HIDE DEF more
    <3>2. IsFiniteSet(more) /\ Cardinality(more) =< Cardinality(others) + 1
      BY <1>1, <3>1
    <3> QED
      BY <3>2 DEF more
  <2>3. QueueFlags' /\ QueueItems'
    BY <1>4, <2>2, HeadMoves DEF QueueFlags, QueueItems
  <2>4. QueueIsCurrent'
    <3>1. AllLive(Tail(q))
      BY <1>4, HeadMoves
    <3> QED
      BY <1>4, <3>1 DEF QueueIsCurrent, AllLive, Live
  <2>5. QueueIsDrained'
    BY <1>4 DEF QueueIsDrained
  <2>6. ItemsAreNumbered'
    <3>1. Numbered(Tail(q), others \cup {Head(q)}, msgSeq', session)
      BY <1>4, HeadMoves
    <3> QED
      BY <1>4, <3>1 DEF ItemsAreNumbered, Numbered
  <2>7. NoDoubleTranslation'
    <3>1. Distinct(Tail(q), others \cup {Head(q)})
      BY <1>4, HeadMoves
    <3> QED
      BY <1>4, <3>1 DEF NoDoubleTranslation, Distinct
  <2>8. SerialLoop'
    BY <1>1, <1>4, <2>1, <2>2, FS_CardinalityType DEF SerialLoop, SerialUpToStrays
  <2>9. \A n : HasItem(queue', inflight', n) <=> HasItem(q, others, n)
    BY <1>4, HeadMoves
  <2> QED
    BY <2>3, <2>4, <2>5, <2>6, <2>7, <2>8, <2>9
<1> QED
  BY <1>2, <1>3, <1>4 DEF Advance

-----------------------------------------------------------------------------
(***************************************************************************)
(* Messages.                                                               *)
(***************************************************************************)

\* _updateMessage() changes the status of one message and nothing else.
LEMMA StatusIsSet ==
  ASSUME messages \in Seq(Message), NEW n, NEW st \in Status, SetStatus(n, st)
  PROVE  /\ messages' \in Seq(Message)
         /\ Len(messages') = Len(messages)
         /\ DOMAIN messages' = DOMAIN messages
         /\ \A k \in DOMAIN messages :
              /\ messages'[k].id = messages[k].id
              /\ messages'[k].status = IF messages[k].id = n THEN st
                                       ELSE messages[k].status
<1> DEFINE m(k) == IF messages[k].id = n
                   THEN [messages[k] EXCEPT !.status = st]
                   ELSE messages[k]
<1>1. messages' = [k \in 1 .. Len(messages) |-> m(k)]
  BY DEF SetStatus
<1>2. \A k \in 1 .. Len(messages) : messages[k] \in Message
  OBVIOUS
<1>3. \A k \in 1 .. Len(messages) :
        /\ m(k) \in Message
        /\ m(k).id = messages[k].id
        /\ m(k).status = IF messages[k].id = n THEN st ELSE messages[k].status
  BY <1>2 DEF Message
<1> HIDE DEF m
<1>4. messages' \in Seq(Message) /\ Len(messages') = Len(messages)
  BY <1>1, <1>3
<1> QED
  BY <1>1, <1>3, <1>4

\* The messages of an utterance are typed and numbered.
LEMMA NewMessages ==
  ASSUME msgSeq \in Nat, NEW k \in Nat
  PROVE  LET new == [i \in 1 .. k |-> [id |-> msgSeq + i, status |-> "processing"]]
         IN  /\ new \in Seq(Message)
             /\ Len(new) = k
             /\ \A i \in 1 .. k : new[i].id = msgSeq + i
BY DEF Message, Status

\* So are the items they are queued with.
LEMMA NewItems ==
  ASSUME msgSeq \in Nat, session \in Nat, NEW k \in Nat
  PROVE  LET new == [i \in 1 .. k |-> [id |-> msgSeq + i, session |-> session]]
         IN  /\ new \in Seq(Item)
             /\ Len(new) = k
             /\ \A i \in 1 .. k : new[i].id = msgSeq + i /\ new[i].session = session
BY DEF Item

\* "r" is "s" without its first "d" members.
IsSuffix(r, s, d) ==
  /\ Len(r) + d = Len(s)
  /\ \A k \in 1 .. Len(r) : r[k] = s[k + d]

\* slice(-MAX_MESSAGES) keeps a run of messages up to the newest.
LEMMA KeptSuffix ==
  ASSUME NEW s \in Seq(Message)
  PROVE  /\ KeepLast(s) \in Seq(Message)
         /\ Len(KeepLast(s)) =< MaxMessages
         /\ s # <<>> => KeepLast(s) # <<>>
         /\ \E d \in Nat : IsSuffix(KeepLast(s), s, d)
<1>1. CASE Len(s) =< MaxMessages
  <2>1. KeepLast(s) = s /\ IsSuffix(s, s, 0)
    BY <1>1 DEF KeepLast, IsSuffix
  <2> QED
    BY <1>1, <2>1
<1>2. CASE ~(Len(s) =< MaxMessages)
  <2> DEFINE d == Len(s) - MaxMessages
             r == SubSeq(s, d + 1, Len(s))
  <2>1. d \in Nat /\ d + 1 =< Len(s)
    BY <1>2
  <2>2. KeepLast(s) = r
    BY <1>2 DEF KeepLast
  <2>3. Len(r) = MaxMessages /\ r \in Seq(Message)
    BY <2>1
  <2>4. \A k \in 1 .. MaxMessages : r[k] = s[k + d]
    BY <2>1
  <2>5. Len(r) + d = Len(s)
    BY <2>3
  <2>6. IsSuffix(r, s, d)
    BY <2>3, <2>4, <2>5 DEF IsSuffix
  <2>7. r # <<>>
    BY <2>3
  <2> HIDE DEF r, d
  <2> QED
    BY <2>1, <2>2, <2>3, <2>6, <2>7
<1> QED
  BY <1>1, <1>2

-----------------------------------------------------------------------------
(***************************************************************************)
(* The inductive invariant holds at first and is kept by every action.     *)
(***************************************************************************)

\* The initial states satisfy the inductive invariant.
LEMMA QueueInvInit == QueueInit => QueueInv
<1> SUFFICES ASSUME QueueInit PROVE QueueInv
  OBVIOUS
<1> USE DEF QueueInit, SessionInit
<1>1. QueueFlags /\ QueueNumbers
  BY DEF QueueFlags, QueueNumbers
<1>2. QueueItems
  BY FS_EmptySet DEF QueueItems
<1>3. QueueIsCurrent /\ QueueIsDrained /\ ItemsAreNumbered /\ NoDoubleTranslation
  BY DEF QueueIsCurrent, QueueIsDrained, ItemsAreNumbered, Numbered,
         NoDoubleTranslation
<1>4. ItemsAreProcessing /\ History
  BY DEF ItemsAreProcessing, Processing, History, HistoryIsOrdered
<1>5. SerialLoop
  BY FS_EmptySet DEF SerialLoop, SerialUpToStrays
<1> QED
  BY <1>1, <1>2, <1>3, <1>4, <1>5 DEF QueueInv

\* An emptied queue has the types of a queue.
LEMMA ItemsKept ==
  ASSUME QueueItems, queue' = <<>> \/ queue' = queue, UNCHANGED inflight
  PROVE  QueueItems'
<1>1. queue' \in Seq(Item)
  <2>1. CASE queue' = <<>>
    BY <2>1
  <2>2. CASE queue' = queue
    BY <2>2 DEF QueueItems
  <2> QED
    BY <2>1, <2>2
<1> QED
  BY <1>1 DEF QueueItems

\* Starting, stopping, failing, leaving and pausing empty the queue or leave it
\* as it is, and touch no message.
LEMMA SessionKeeps ==
  ASSUME QueueInv,
         \/ QueueStart \/ QueueStop \/ QueueDestroy \/ QueueFail
         \/ QueuePause \/ QueueResume \/ UNCHANGED qvars
  PROVE  QueueInv'
<1> USE DEF QueueInv, queueVars, qvars, sessionVars, QueueStart, QueueStop,
            QueueDestroy, QueueFail, QueuePause, QueueResume, BeginSession,
            EndSession, DestroySession, FailSession, PauseSession, ResumeSession
<1>1. /\ UNCHANGED <<inflight, messages, msgSeq>>
      /\ queue' = <<>> \/ queue' = queue
      /\ session' \in Nat /\ session' >= session
  BY DEF QueueNumbers
<1>2. Cardinality(inflight) \in Nat
  BY FS_CardinalityType DEF QueueItems
<1>3. QueueFlags'
  BY DEF QueueFlags
<1>4. QueueNumbers' /\ QueueItems'
  <2>1. QueueItems'
    BY <1>1, ItemsKept
  <2>2. strays' = Cardinality(inflight) \/ strays' = strays
    OBVIOUS
  <2>3. QueueNumbers'
    BY <1>1, <1>2, <2>2 DEF QueueNumbers
  <2> QED
    BY <2>1, <2>3
<1>5. QueueIsCurrent'
  BY DEF QueueIsCurrent, Live
<1>6. QueueIsDrained'
  BY DEF QueueIsDrained
<1>7. ItemsAreNumbered'
  BY <1>1 DEF ItemsAreNumbered, Numbered, QueueNumbers, QueueItems, Item
<1>8. NoDoubleTranslation'
  BY <1>1 DEF NoDoubleTranslation
<1>9. ItemsAreProcessing'
  BY <1>1 DEF ItemsAreProcessing, Processing, HasItem
<1>10. SerialLoop'
  BY <1>2 DEF SerialLoop, SerialUpToStrays, QueueNumbers
<1>11. History'
  BY <1>1 DEF History, HistoryIsOrdered
<1> QED
  BY <1>3, <1>4, <1>5, <1>6, <1>7, <1>8, <1>9, <1>10, <1>11

\* A timeline in which only a status changed is ordered as it was.
LEMMA HistoryKept ==
  ASSUME History, messages' \in Seq(Message), Len(messages') = Len(messages),
         \A k \in DOMAIN messages : messages'[k].id = messages[k].id,
         UNCHANGED msgSeq
  PROVE  History'
<1>1. /\ DOMAIN messages = 1 .. Len(messages)
      /\ DOMAIN messages' = 1 .. Len(messages)
      /\ Len(messages) \in Nat
  BY DEF History
<1>2. \A k \in DOMAIN messages' : messages'[k].id =< msgSeq'
  BY <1>1 DEF History
<1>3. \A i, j \in DOMAIN messages' : i < j => messages'[i].id < messages'[j].id
  BY <1>1 DEF History, HistoryIsOrdered
<1>4. ASSUME messages' # <<>> PROVE messages'[Len(messages')].id = msgSeq'
  <2>1. messages # <<>> /\ Len(messages) \in DOMAIN messages
    BY <1>1, <1>4
  <2> QED
    BY <2>1 DEF History, HistoryIsOrdered
<1>5. Len(messages') =< MaxMessages
  BY DEF History, HistoryIsOrdered
<1> QED
  BY <1>2, <1>3, <1>4, <1>5 DEF History, HistoryIsOrdered

\* Answer(): the item that is answered had its message to itself.
LEMMA AnswerKeeps ==
  ASSUME QueueInv, NEW item \in inflight, NEW ok \in BOOLEAN, Answer(item, ok)
  PROVE  QueueInv'
<1> DEFINE others == inflight \ {item}
<1> USE DEF QueueInv, QueueItems
<1>1. /\ UNCHANGED <<running, paused, session, mounted, msgSeq, strays>>
      /\ DrainFrom(queue, others)
  BY DEF Answer, sessionVars
<1>2. /\ others \in SUBSET Item /\ others # inflight
      /\ IsFiniteSet(others)
      /\ Cardinality(others) = Cardinality(inflight) - 1
  BY FS_RemoveElement
<1>3. Cardinality(others) =< strays
  BY <1>2, FS_CardinalityType DEF SerialLoop, SerialUpToStrays, QueueNumbers
<1>4. AllLive(queue) /\ Distinct(queue, others)
  BY DEF QueueIsCurrent, AllLive, NoDoubleTranslation, Distinct
<1>5. Numbered(queue, others, msgSeq', session)
  BY <1>1 DEF ItemsAreNumbered, Numbered
<1>6. ~HasItem(queue, others, item.id)
  BY DEF HasItem, NoDoubleTranslation
<1>7. \A n : HasItem(queue, others, n) => HasItem(queue, inflight, n)
  BY DEF HasItem
<1> HIDE DEF others
<1>8. Advance(queue, others)
  BY <1>1, <1>2, <1>4, DrainAdvances
<1>9. /\ QueueFlags' /\ QueueItems' /\ QueueIsCurrent' /\ QueueIsDrained'
      /\ ItemsAreNumbered' /\ NoDoubleTranslation' /\ SerialLoop'
      /\ \A n : HasItem(queue', inflight', n) <=> HasItem(queue, others, n)
  BY <1>1, <1>2, <1>3, <1>4, <1>5, <1>8, AdvanceKeeps
<1>10. QueueNumbers'
  BY <1>1 DEF QueueNumbers
<1>11. CASE UNCHANGED messages
  <2>1. ItemsAreProcessing'
    BY <1>7, <1>9, <1>11 DEF ItemsAreProcessing, Processing
  <2>2. History'
    BY <1>1, <1>11 DEF History, HistoryIsOrdered
  <2> QED
    BY <1>9, <1>10, <2>1, <2>2
<1>12. CASE \E st \in Status : SetStatus(item.id, st)
  <2>1. PICK st \in Status : SetStatus(item.id, st)
    BY <1>12
  <2>2. /\ messages' \in Seq(Message)
        /\ Len(messages') = Len(messages)
        /\ DOMAIN messages' = DOMAIN messages
        /\ \A k \in DOMAIN messages :
             /\ messages'[k].id = messages[k].id
             /\ messages'[k].status = IF messages[k].id = item.id THEN st
                                      ELSE messages[k].status
    BY <2>1, StatusIsSet DEF History
  <2>3. ItemsAreProcessing'
    BY <1>6, <1>7, <1>9, <2>2 DEF ItemsAreProcessing, Processing
  <2>4. History'
    BY <2>2, HistoryKept, <1>1
  <2> QED
    BY <1>9, <1>10, <2>3, <2>4
<1> QED
  BY <1>11, <1>12 DEF Answer, Status

\* Enqueue(): the chunks get numbers above every item, queued or awaited.
LEMMA EnqueueKeeps ==
  ASSUME QueueInv, NEW chunks \in 1 .. MaxChunks, Enqueue(chunks)
  PROVE  QueueInv'
<1> DEFINE newMessages == [i \in 1 .. chunks |->
                             [id |-> msgSeq + i, status |-> "processing"]]
           newItems == [i \in 1 .. chunks |->
                          [id |-> msgSeq + i, session |-> session]]
           full == messages \o newMessages
           q == queue \o newItems
<1>1. /\ running
      /\ msgSeq' = msgSeq + chunks
      /\ messages' = KeepLast(full)
      /\ DrainQueue(q)
      /\ UNCHANGED <<running, paused, session, mounted, strays>>
  BY DEF Enqueue, sessionVars
<1>2. /\ QueueFlags /\ QueueNumbers /\ QueueItems /\ QueueIsCurrent /\ QueueIsDrained
      /\ ItemsAreNumbered /\ NoDoubleTranslation /\ ItemsAreProcessing
      /\ SerialLoop /\ History
  BY DEF QueueInv
<1>3. chunks \in Nat /\ chunks >= 1 /\ msgSeq \in Nat /\ session \in Nat
  BY <1>2 DEF QueueNumbers
<1>4. /\ newMessages \in Seq(Message)
      /\ Len(newMessages) = chunks
      /\ \A i \in 1 .. chunks : newMessages[i].id = msgSeq + i
      /\ \A i \in 1 .. chunks : newMessages[i].status = "processing"
  BY <1>3, NewMessages
<1>5. /\ newItems \in Seq(Item)
      /\ Len(newItems) = chunks
      /\ \A i \in 1 .. chunks : newItems[i].id = msgSeq + i
                             /\ newItems[i].session = session
  BY <1>3, NewItems
<1> HIDE DEF newMessages, newItems
<1>6. messages \in Seq(Message) /\ queue \in Seq(Item) /\ inflight \in SUBSET Item
  BY <1>2 DEF History, QueueItems
<1>7. /\ q \in Seq(Item)
      /\ \A i \in DOMAIN q : \/ i \in DOMAIN queue /\ q[i] = queue[i]
                             \/ /\ i - Len(queue) \in 1 .. chunks
                                /\ q[i] = newItems[i - Len(queue)]
  BY <1>3, <1>5, <1>6
<1>8. /\ full \in Seq(Message)
      /\ full # <<>>
      /\ Len(full) = Len(messages) + chunks
      /\ \A i \in DOMAIN full : \/ i \in DOMAIN messages /\ full[i] = messages[i]
                                \/ /\ i - Len(messages) \in 1 .. chunks
                                   /\ full[i] = newMessages[i - Len(messages)]
  BY <1>3, <1>4, <1>6, SMTT(30)
<1> HIDE DEF q, full
\* What is in the full queue, item by item.
<1>9. \A i \in DOMAIN q :
        \/ i \in DOMAIN queue /\ q[i] = queue[i]
        \/ q[i].id = msgSeq + (i - Len(queue)) /\ q[i].id > msgSeq
           /\ q[i].id =< msgSeq' /\ q[i].session = session
  BY <1>1, <1>3, <1>5, <1>6, <1>7
<1>10. AllLive(q)
  BY <1>1, <1>2, <1>9 DEF AllLive, QueueIsCurrent, Live
<1>11. \A i \in DOMAIN queue : queue[i].id =< msgSeq /\ queue[i].id \in Nat
  <2>1. ASSUME NEW i \in DOMAIN queue PROVE queue[i] \in Item
    BY <1>6
  <2>2. ASSUME NEW i \in DOMAIN queue PROVE queue[i].id \in Nat
    BY <2>1 DEF Item
  <2> QED
    BY <1>2, <2>2 DEF ItemsAreNumbered, Numbered
<1>12. \A x \in inflight : /\ x.id =< msgSeq /\ x.id \in Nat
                           /\ x.session =< session /\ x.session \in Nat
  BY <1>2, <1>6 DEF ItemsAreNumbered, Numbered, Item
<1>13. Distinct(q, inflight)
  <2>1. ASSUME NEW i \in DOMAIN q, NEW j \in DOMAIN q, q[i].id = q[j].id PROVE i = j
    <3>1. i \in Int /\ j \in Int /\ Len(queue) \in Int
      BY <1>6, <1>7
    <3>2. CASE i \in DOMAIN queue /\ q[i] = queue[i]
               /\ j \in DOMAIN queue /\ q[j] = queue[j]
      BY <1>2, <2>1, <3>2 DEF NoDoubleTranslation
    <3>3. CASE q[i].id > msgSeq /\ q[j].id > msgSeq
               /\ q[i].id = msgSeq + (i - Len(queue))
               /\ q[j].id = msgSeq + (j - Len(queue))
      <4>1. msgSeq + (i - Len(queue)) = msgSeq + (j - Len(queue))
        BY <2>1, <3>3
      <4> QED
        BY <1>3, <3>1, <4>1
    <3>4. CASE i \in DOMAIN queue /\ q[i] = queue[i] /\ q[j].id > msgSeq
      BY <1>3, <1>11, <2>1, <3>4
    <3>5. CASE j \in DOMAIN queue /\ q[j] = queue[j] /\ q[i].id > msgSeq
      BY <1>3, <1>11, <2>1, <3>5
    <3> QED
      BY <1>9, <3>2, <3>3, <3>4, <3>5
  <2>2. \A i \in DOMAIN q, x \in inflight : q[i].id # x.id
    BY <1>2, <1>3, <1>9, <1>12 DEF NoDoubleTranslation
  <2> QED
    BY <1>2, <2>1, <2>2 DEF Distinct, NoDoubleTranslation
<1>14. Numbered(q, inflight, msgSeq', session)
  BY <1>1, <1>3, <1>9, <1>11, <1>12 DEF Numbered
<1>15. Advance(q, inflight)
  BY <1>1, <1>2, <1>7, <1>10, DrainAdvances DEF QueueFlags
<1>16. IsFiniteSet(inflight)
  BY <1>2 DEF QueueItems
<1>17. /\ QueueFlags' /\ QueueItems' /\ QueueIsCurrent' /\ QueueIsDrained'
       /\ ItemsAreNumbered' /\ NoDoubleTranslation' /\ SerialLoop'
       /\ \A n : HasItem(queue', inflight', n) <=> HasItem(q, inflight, n)
  BY <1>1, <1>2, <1>6, <1>7, <1>10, <1>13, <1>14, <1>15, <1>16, AdvanceKeeps
<1>18. QueueNumbers'
  BY <1>1, <1>2, <1>3 DEF QueueNumbers
\* What is in the full timeline, message by message.
<1>19. \A i \in DOMAIN full :
         \/ i \in DOMAIN messages /\ full[i] = messages[i]
            /\ full[i].id =< msgSeq /\ full[i].id \in Nat
         \/ full[i].id = msgSeq + (i - Len(messages)) /\ full[i].id > msgSeq
            /\ full[i].id =< msgSeq' /\ full[i].status = "processing"
            /\ i > Len(messages)
  <2>1. ASSUME NEW i \in DOMAIN messages PROVE messages[i] \in Message
    BY <1>6
  <2>2. ASSUME NEW i \in DOMAIN messages
        PROVE  messages[i].id =< msgSeq /\ messages[i].id \in Nat
    BY <1>2, <2>1 DEF History, Message
  <2>3. ASSUME NEW i \in DOMAIN full, i - Len(messages) \in 1 .. chunks,
               full[i] = newMessages[i - Len(messages)]
        PROVE  /\ full[i].id = msgSeq + (i - Len(messages)) /\ full[i].id > msgSeq
               /\ full[i].id =< msgSeq' /\ full[i].status = "processing"
               /\ i > Len(messages)
    <3>1. i \in Int /\ Len(messages) \in Int
      BY <1>6, <1>8
    <3>2. full[i].id = msgSeq + (i - Len(messages))
          /\ full[i].status = "processing"
      BY <1>4, <2>3
    <3> QED
      BY <1>1, <1>3, <2>3, <3>1, <3>2
  <2> QED
    BY <1>8, <2>2, <2>3
<1>20. \A i \in DOMAIN full : HasItem(q, inflight, full[i].id)
                              => full[i].status = "processing"
  <2>1. ASSUME NEW i \in DOMAIN full, i \in DOMAIN messages, full[i] = messages[i],
               full[i].id =< msgSeq, full[i].id \in Nat,
               HasItem(q, inflight, full[i].id)
        PROVE  full[i].status = "processing"
    <3>1. HasItem(queue, inflight, messages[i].id)
      BY <1>3, <1>9, <2>1 DEF HasItem
    <3> QED
      BY <1>2, <2>1, <3>1 DEF ItemsAreProcessing, Processing
  <2> QED
    BY <1>19, <2>1
<1>21. /\ messages' \in Seq(Message)
       /\ Len(messages') =< MaxMessages
       /\ messages' # <<>>
       /\ \E d \in Nat : IsSuffix(messages', full, d)
  BY <1>1, <1>8, KeptSuffix
<1>22. PICK d \in Nat : IsSuffix(messages', full, d)
  BY <1>21
<1>23. \A k \in DOMAIN messages' : k + d \in DOMAIN full /\ messages'[k] = full[k + d]
  BY <1>8, <1>21, <1>22 DEF IsSuffix
<1>24. ItemsAreProcessing'
  BY <1>17, <1>20, <1>23 DEF ItemsAreProcessing, Processing
<1>25. \A i, j \in DOMAIN full : i < j => full[i].id < full[j].id
  <2>1. ASSUME NEW i \in DOMAIN full, NEW j \in DOMAIN full, i < j
        PROVE  full[i].id < full[j].id
    <3>1. i \in Int /\ j \in Int /\ Len(messages) \in Int
          /\ DOMAIN messages = 1 .. Len(messages)
      BY <1>6, <1>8
    <3>2. CASE i \in DOMAIN messages /\ full[i] = messages[i]
               /\ j \in DOMAIN messages /\ full[j] = messages[j]
      BY <1>2, <2>1, <3>2 DEF History, HistoryIsOrdered
    <3>3. CASE i > Len(messages) /\ j \in DOMAIN messages
      BY <2>1, <3>1, <3>3
    <3>4. CASE full[i].id =< msgSeq /\ full[i].id \in Nat /\ full[j].id > msgSeq
               /\ full[j].id = msgSeq + (j - Len(messages))
      BY <1>3, <3>1, <3>4
    <3>5. CASE full[i].id = msgSeq + (i - Len(messages))
               /\ full[j].id = msgSeq + (j - Len(messages))
      BY <1>3, <2>1, <3>1, <3>5
    <3> QED
      BY <1>19, <3>2, <3>3, <3>4, <3>5
  <2> QED
    BY <2>1
<1>26. full[Len(full)].id = msgSeq'
  <2>1. Len(full) \in DOMAIN full /\ Len(full) \in Nat /\ Len(messages) \in Nat
        /\ DOMAIN messages = 1 .. Len(messages)
    BY <1>6, <1>8
  <2>2. ~(Len(full) \in DOMAIN messages)
    BY <1>3, <1>8, <2>1
  <2> QED
    BY <1>1, <1>3, <1>8, <1>19, <2>1, <2>2
<1>27. History'
  <2>1. \A k \in DOMAIN messages' : messages'[k].id =< msgSeq'
    BY <1>1, <1>3, <1>19, <1>23
  <2>2. /\ DOMAIN messages' = 1 .. Len(messages') /\ Len(messages') \in Nat
        /\ Len(messages') \in DOMAIN messages'
    BY <1>21
  <2>3. \A i, j \in DOMAIN messages' : i < j => messages'[i].id < messages'[j].id
    BY <1>23, <1>25, <2>2
  <2>4. messages'[Len(messages')].id = msgSeq'
    BY <1>22, <1>23, <1>26, <2>2 DEF IsSuffix
  <2> QED
    BY <1>21, <2>1, <2>3, <2>4 DEF History, HistoryIsOrdered
<1> QED
  BY <1>17, <1>18, <1>24, <1>27 DEF QueueInv

\* Retry(): a message shown as failed has no item, so its new one is the only one.
LEMMA RetryKeeps ==
  ASSUME QueueInv, NEW id \in 1 .. msgSeq, Retry(id)
  PROVE  QueueInv'
<1> DEFINE item == [id |-> id, session |-> session]
           q == Append(queue, item)
<1>1. /\ running
      /\ SetStatus(id, "processing")
      /\ DrainQueue(q)
      /\ UNCHANGED <<running, paused, session, mounted, strays, msgSeq>>
      /\ \E i \in DOMAIN messages : messages[i].id = id /\ messages[i].status = "error"
  BY DEF Retry, sessionVars
<1>2. /\ QueueFlags /\ QueueNumbers /\ QueueItems /\ QueueIsCurrent /\ QueueIsDrained
      /\ ItemsAreNumbered /\ NoDoubleTranslation /\ ItemsAreProcessing
      /\ SerialLoop /\ History
  BY DEF QueueInv
<1>3. id \in Nat /\ id =< msgSeq /\ msgSeq \in Nat /\ session \in Nat
  BY <1>2 DEF QueueNumbers
<1>4. item \in Item /\ item.id = id /\ item.session = session
  BY <1>3 DEF Item
<1> HIDE DEF item
<1>5. queue \in Seq(Item) /\ inflight \in SUBSET Item /\ IsFiniteSet(inflight)
  BY <1>2 DEF QueueItems
<1>6. /\ q \in Seq(Item)
      /\ \A i \in DOMAIN q : \/ i \in DOMAIN queue /\ q[i] = queue[i]
                             \/ i = Len(queue) + 1 /\ q[i] = item
  BY <1>4, <1>5
<1> HIDE DEF q
<1>7. ~HasItem(queue, inflight, id)
  BY <1>1, <1>2 DEF ItemsAreProcessing, Processing
<1>8. AllLive(q)
  BY <1>1, <1>2, <1>4, <1>6 DEF AllLive, QueueIsCurrent, Live
<1>9. Distinct(q, inflight)
  <2>1. \A i, j \in DOMAIN q : q[i].id = q[j].id => i = j
    BY <1>2, <1>4, <1>6, <1>7 DEF NoDoubleTranslation, HasItem
  <2>2. \A i \in DOMAIN q, x \in inflight : q[i].id # x.id
    BY <1>2, <1>4, <1>6, <1>7 DEF NoDoubleTranslation, HasItem
  <2> QED
    BY <1>2, <2>1, <2>2 DEF Distinct, NoDoubleTranslation
<1>10. Numbered(q, inflight, msgSeq', session)
  BY <1>1, <1>2, <1>3, <1>4, <1>6 DEF Numbered, ItemsAreNumbered
<1>11. Advance(q, inflight)
  BY <1>1, <1>2, <1>6, <1>8, DrainAdvances DEF QueueFlags
<1>12. /\ QueueFlags' /\ QueueItems' /\ QueueIsCurrent' /\ QueueIsDrained'
       /\ ItemsAreNumbered' /\ NoDoubleTranslation' /\ SerialLoop'
       /\ \A n : HasItem(queue', inflight', n) <=> HasItem(q, inflight, n)
  BY <1>1, <1>2, <1>5, <1>6, <1>8, <1>9, <1>10, <1>11, AdvanceKeeps
<1>13. QueueNumbers'
  BY <1>1, <1>2 DEF QueueNumbers
<1>14. /\ messages' \in Seq(Message)
       /\ Len(messages') = Len(messages)
       /\ DOMAIN messages' = DOMAIN messages
       /\ \A k \in DOMAIN messages :
            /\ messages'[k].id = messages[k].id
            /\ messages'[k].status = IF messages[k].id = id THEN "processing"
                                     ELSE messages[k].status
  BY <1>1, <1>2, StatusIsSet DEF History, Status
<1>15. \A n : HasItem(q, inflight, n) => HasItem(queue, inflight, n) \/ n = id
  BY <1>4, <1>6 DEF HasItem
<1>16. ItemsAreProcessing'
  BY <1>2, <1>12, <1>14, <1>15 DEF ItemsAreProcessing, Processing
<1>17. History'
  BY <1>1, <1>2, <1>14, HistoryKept
<1> QED
  BY <1>12, <1>13, <1>16, <1>17 DEF QueueInv

\* Every step of the queue keeps the inductive invariant.
LEMMA QueueInvStep == QueueInv /\ [QueueNext]_qvars => QueueInv'
<1> SUFFICES ASSUME QueueInv, [QueueNext]_qvars PROVE QueueInv'
  OBVIOUS
<1>1. ASSUME NEW chunks \in 1 .. MaxChunks, Enqueue(chunks) PROVE QueueInv'
  BY <1>1, EnqueueKeeps
<1>2. ASSUME NEW item \in inflight, NEW ok \in BOOLEAN, Answer(item, ok) PROVE QueueInv'
  BY <1>2, AnswerKeeps
<1>3. ASSUME NEW id \in 1 .. msgSeq, Retry(id) PROVE QueueInv'
  BY <1>3, RetryKeeps
<1> QED
  BY <1>1, <1>2, <1>3, SessionKeeps DEF QueueNext

-----------------------------------------------------------------------------
(***************************************************************************)
(* The theorems.                                                           *)
(***************************************************************************)

\* The inductive invariant holds in every behaviour of the queue.
THEOREM QueueInvariant == QueueSpec => []QueueInv
BY QueueInvInit, QueueInvStep, PTL DEF QueueSpec

\* The queue, its drainers and the timeline have their types.
THEOREM QueueTyped == QueueSpec => []QueueTypeOK
<1>1. QueueInv => QueueTypeOK
  BY DEF QueueInv, QueueFlags, QueueNumbers, QueueItems, History, QueueTypeOK,
         SessionTypeOK
<1> QED
  BY <1>1, QueueInvariant, PTL

\* _queue never holds an item of a session that stopped, failed or was left.
THEOREM QueueCurrent == QueueSpec => []QueueIsCurrent
<1>1. QueueInv => QueueIsCurrent
  BY DEF QueueInv
<1> QED
  BY <1>1, QueueInvariant, PTL

\* _drainQueue() leaves no queued message without a loop that will come to it.
THEOREM QueueDrained == QueueSpec => []QueueIsDrained
<1>1. QueueInv => QueueIsDrained
  BY DEF QueueInv
<1> QED
  BY <1>1, QueueInvariant, PTL

\* Neither retryMessage() nor a drainer left over by stop() ever has a message
\* translated twice at a time.
THEOREM NeverTranslatedTwice == QueueSpec => []NoDoubleTranslation
<1>1. QueueInv => NoDoubleTranslation
  BY DEF QueueInv
<1> QED
  BY <1>1, QueueInvariant, PTL

\* Every answer that _updateMessage() writes lands on a "processing" message.
THEOREM AnswersLandOnProcessing == QueueSpec => []PendingIsProcessing
<1>1. QueueInv => PendingIsProcessing
  BY DEF QueueInv, ItemsAreProcessing, Processing, HasItem, PendingIsProcessing,
         PendingIds
<1> QED
  BY <1>1, QueueInvariant, PTL

\* Requests are not serial (SerialTranslation, which a run refutes): beside those
\* that were awaited when the session began there is at most one.
THEOREM SerialButForStrays == QueueSpec => []SerialUpToStrays
<1>1. QueueInv => SerialUpToStrays
  BY DEF QueueInv, SerialLoop
<1> QED
  BY <1>1, QueueInvariant, PTL

\* _appendMessage() keeps the newest MAX_MESSAGES messages, in order.
THEOREM HistoryOrdered == QueueSpec => []HistoryIsOrdered
<1>1. QueueInv => HistoryIsOrdered
  BY DEF QueueInv, History
<1> QED
  BY <1>1, QueueInvariant, PTL

-----------------------------------------------------------------------------
(***************************************************************************)
(* TranslationQueue implements MeetingTimeline under the mapping of its    *)
(* instance Timeline: the timeline is the messages, and a message is       *)
(* pending while it is queued, or awaited for the running session. Every   *)
(* action of the queue is one of the timeline, or changes nothing of it.   *)
(***************************************************************************)

IdsOf(q) == {q[i].id : i \in DOMAIN q}
LiveIds(s) == {item.id : item \in {x \in s : Live(x)}}

\* A turn of the loop moves a message between the queue and the awaited ones:
\* it is pending before and after.
LEMMA AdvanceKeepsPending ==
  ASSUME NEW q \in Seq(Item), NEW others, AllLive(q), Advance(q, others),
         UNCHANGED <<running, session>>
  PROVE  PendingIds' = IdsOf(q) \cup LiveIds(others)
<1>1. \A x : Live(x)' <=> Live(x)
  BY DEF Live
<1>2. CASE queue' = q /\ inflight' = others
  BY <1>1, <1>2 DEF PendingIds, IdsOf, LiveIds
<1>3. CASE /\ q # <<>>
           /\ queue' = Tail(q)
           /\ inflight' = others \cup {Head(q)}
  <2>1. /\ Head(q) = q[1] /\ 1 \in DOMAIN q /\ Live(q[1])
    BY <1>3 DEF AllLive
  <2>2. \A i \in DOMAIN Tail(q) : i + 1 \in DOMAIN q /\ Tail(q)[i] = q[i + 1]
    BY <1>3
  <2>3. \A i \in DOMAIN q : i # 1 => i - 1 \in DOMAIN Tail(q) /\ Tail(q)[i - 1] = q[i]
    BY <1>3
  <2>4. IdsOf(q) = IdsOf(Tail(q)) \cup {q[1].id}
    <3>1. ASSUME NEW i \in DOMAIN q PROVE q[i].id \in IdsOf(Tail(q)) \cup {q[1].id}
      <4>1. CASE i = 1
        BY <4>1
      <4>2. CASE i # 1
        BY <2>3, <4>2 DEF IdsOf
      <4> QED
        BY <4>1, <4>2
    <3>2. ASSUME NEW i \in DOMAIN Tail(q) PROVE Tail(q)[i].id \in IdsOf(q)
      BY <2>2 DEF IdsOf
    <3>3. q[1].id \in IdsOf(q)
      BY <2>1 DEF IdsOf
    <3> QED
      BY <3>1, <3>2, <3>3 DEF IdsOf
  <2>5. LiveIds(inflight') = LiveIds(others) \cup {q[1].id}
    BY <1>3, <2>1 DEF LiveIds
  <2>6. PendingIds' = IdsOf(Tail(q)) \cup LiveIds(inflight')
    BY <1>1, <1>3 DEF PendingIds, IdsOf, LiveIds
  <2> QED
    BY <2>4, <2>5, <2>6
<1> QED
  BY <1>2, <1>3 DEF Advance

\* start(), stop(), destroy() and _fail() leave nothing pending.
LEMMA SessionAbandons ==
  ASSUME QueueInv, QueueStart \/ QueueStop \/ QueueDestroy \/ QueueFail
  PROVE  Timeline!Abandon
<1>1. \A x \in inflight : x.session \in Nat /\ x.session =< session
  BY DEF QueueInv, QueueItems, Item, ItemsAreNumbered, Numbered
<1>2. /\ queue' = <<>> /\ UNCHANGED <<inflight, messages, msgSeq>>
      /\ ~running' \/ session' = session + 1
  BY DEF QueueStart, QueueStop, QueueDestroy, QueueFail, BeginSession, EndSession,
         DestroySession, FailSession
<1>3. session \in Nat
  BY DEF QueueInv, QueueNumbers
<1>4. \A x \in inflight' : ~Live(x)'
  BY <1>1, <1>2, <1>3 DEF Live
<1>5. PendingIds' = {}
  BY <1>2, <1>4 DEF PendingIds
<1> QED
  BY <1>2, <1>5 DEF Timeline!Abandon

\* Enqueue() submits what it appends.
LEMMA EnqueueSubmits ==
  ASSUME QueueInv, NEW chunks \in 1 .. MaxChunks, Enqueue(chunks)
  PROVE  Timeline!Submit(chunks)
<1> DEFINE new == [i \in 1 .. chunks |-> [id |-> msgSeq + i, session |-> session]]
           q == queue \o new
<1>1. /\ running
      /\ DrainQueue(q)
      /\ UNCHANGED <<running, session>>
  BY DEF Enqueue, sessionVars
<1>2. /\ queue \in Seq(Item) /\ msgSeq \in Nat /\ session \in Nat
      /\ queueRunning \in BOOLEAN /\ QueueIsCurrent
  BY DEF QueueInv, QueueItems, QueueNumbers, QueueFlags
<1>3. chunks \in Nat
  OBVIOUS
<1>4. /\ new \in Seq(Item)
      /\ Len(new) = chunks
      /\ \A i \in 1 .. chunks : new[i].id = msgSeq + i /\ new[i].session = session
  BY <1>2, <1>3, NewItems
<1> HIDE DEF new
<1>5. q \in Seq(Item)
  BY <1>2, <1>4
<1>6. \A i \in DOMAIN q : \/ i \in DOMAIN queue /\ q[i] = queue[i]
                         \/ /\ i - Len(queue) \in 1 .. chunks
                            /\ q[i] = new[i - Len(queue)]
  BY <1>2, <1>3, <1>4
<1>7. \A i \in DOMAIN queue : i \in DOMAIN q /\ q[i] = queue[i]
  BY <1>2, <1>3, <1>4
<1>8. \A i \in 1 .. chunks : i + Len(queue) \in DOMAIN q /\ q[i + Len(queue)] = new[i]
  BY <1>2, <1>3, <1>4
<1> HIDE DEF q
<1>9. AllLive(q)
  BY <1>1, <1>2, <1>4, <1>6 DEF AllLive, QueueIsCurrent, Live
<1>10. IdsOf(q) = IdsOf(queue) \cup {msgSeq + i : i \in 1 .. chunks}
  BY <1>4, <1>6, <1>7, <1>8, SMTT(30) DEF IdsOf
<1>11. PendingIds' = IdsOf(q) \cup LiveIds(inflight)
  BY <1>1, <1>2, <1>5, <1>9, DrainAdvances, AdvanceKeepsPending
<1>12. PendingIds' = PendingIds \cup {msgSeq + i : i \in 1 .. chunks}
  BY <1>10, <1>11 DEF PendingIds, IdsOf, LiveIds
<1>13. /\ msgSeq' = msgSeq + chunks
       /\ messages' = KeepLast(messages \o
            [i \in 1 .. chunks |-> [id |-> msgSeq + i, status |-> "processing"]])
  BY DEF Enqueue
<1> QED
  BY <1>12, <1>13 DEF Timeline!Submit, Timeline!Newest, KeepLast

\* Answer() of this session resolves its message; of an earlier one it shows
\* nothing.
LEMMA AnswerResolves ==
  ASSUME QueueInv, NEW item \in inflight, NEW ok \in BOOLEAN, Answer(item, ok)
  PROVE  IF Live(item) THEN item.id \in PendingIds /\ Timeline!Resolve(item.id)
         ELSE UNCHANGED <<messages, PendingIds, msgSeq>>
<1> DEFINE others == inflight \ {item}
<1>1. /\ UNCHANGED <<running, session, msgSeq>>
      /\ DrainFrom(queue, others)
  BY DEF Answer, sessionVars
<1>2. queue \in Seq(Item) /\ AllLive(queue) /\ others # inflight
  BY DEF QueueInv, QueueItems, QueueIsCurrent, AllLive
<1>3. PendingIds' = IdsOf(queue) \cup LiveIds(others)
  <2> HIDE DEF others
  <2> QED
    BY <1>1, <1>2, DrainAdvances, AdvanceKeepsPending
<1>4. PendingIds = IdsOf(queue) \cup LiveIds(inflight)
  BY DEF PendingIds, IdsOf, LiveIds
<1>5. item.id \notin IdsOf(queue) /\ item.id \notin LiveIds(others)
  BY DEF QueueInv, NoDoubleTranslation, IdsOf, LiveIds
<1>6. CASE Live(item)
  <2>1. LiveIds(inflight) = LiveIds(others) \cup {item.id}
    BY <1>6 DEF LiveIds
  <2>2. item.id \in PendingIds /\ PendingIds' = PendingIds \ {item.id}
    BY <1>3, <1>4, <1>5, <2>1
  <2>3. SetStatus(item.id, "translated") \/ SetStatus(item.id, "error")
    BY <1>6 DEF Answer
  <2> QED
    BY <1>1, <1>6, <2>2, <2>3 DEF Timeline!Resolve, Timeline!Mark, SetStatus
<1>7. CASE ~Live(item)
  <2>1. LiveIds(inflight) = LiveIds(others)
    BY <1>7 DEF LiveIds
  <2>2. UNCHANGED messages
    BY <1>7 DEF Answer
  <2> QED
    BY <1>1, <1>3, <1>4, <1>7, <2>1, <2>2
<1> QED
  BY <1>6, <1>7

\* Retry() submits a failed message again.
LEMMA RetryResubmits ==
  ASSUME QueueInv, NEW id \in 1 .. msgSeq, Retry(id)
  PROVE  Timeline!Resubmit(id)
<1> DEFINE item == [id |-> id, session |-> session]
           q == Append(queue, item)
<1>1. /\ running
      /\ SetStatus(id, "processing")
      /\ DrainQueue(q)
      /\ UNCHANGED <<running, session, msgSeq>>
      /\ \E i \in DOMAIN messages : messages[i].id = id /\ messages[i].status = "error"
  BY DEF Retry, sessionVars
<1>2. /\ queue \in Seq(Item) /\ msgSeq \in Nat /\ session \in Nat
      /\ queueRunning \in BOOLEAN /\ QueueIsCurrent /\ ItemsAreProcessing
  BY DEF QueueInv, QueueItems, QueueNumbers, QueueFlags
<1>3. item \in Item /\ item.id = id /\ item.session = session
  BY <1>2 DEF Item
<1> HIDE DEF item
<1>4. q \in Seq(Item)
  BY <1>2, <1>3
<1>5. \A i \in DOMAIN q : \/ i \in DOMAIN queue /\ q[i] = queue[i]
                         \/ q[i] = item
  BY <1>2, <1>3
<1>6. /\ \A i \in DOMAIN queue : i \in DOMAIN q /\ q[i] = queue[i]
      /\ Len(queue) + 1 \in DOMAIN q /\ q[Len(queue) + 1] = item
  BY <1>2, <1>3
<1> HIDE DEF q
<1>7. AllLive(q)
  BY <1>1, <1>2, <1>3, <1>5 DEF AllLive, QueueIsCurrent, Live
<1>8. IdsOf(q) = IdsOf(queue) \cup {id}
  BY <1>3, <1>5, <1>6 DEF IdsOf
<1>9. PendingIds' = IdsOf(q) \cup LiveIds(inflight)
  BY <1>1, <1>2, <1>4, <1>7, DrainAdvances, AdvanceKeepsPending
<1>10. PendingIds' = PendingIds \cup {id}
  BY <1>8, <1>9 DEF PendingIds, IdsOf, LiveIds
<1>11. ~HasItem(queue, inflight, id)
  BY <1>1, <1>2 DEF ItemsAreProcessing, Processing
<1>12. id \notin PendingIds
  BY <1>11 DEF HasItem, PendingIds
<1> QED
  BY <1>1, <1>10, <1>12 DEF Timeline!Resubmit, Timeline!Mark, SetStatus

\* A step of the queue is a step of the timeline, or none.
LEMMA QueueStepsAreTimelineSteps ==
  QueueInv /\ [QueueNext]_qvars => [Timeline!TimelineNext]_(Timeline!tvars)
<1> SUFFICES ASSUME QueueInv, [QueueNext]_qvars
             PROVE  [Timeline!TimelineNext]_(Timeline!tvars)
  OBVIOUS
<1> USE DEF Timeline!TimelineNext, Timeline!tvars
<1>1. CASE QueueStart \/ QueueStop \/ QueueDestroy \/ QueueFail
  BY <1>1, SessionAbandons
<1>2. CASE QueuePause \/ QueueResume \/ UNCHANGED qvars
  <2>1. UNCHANGED <<running, session, queue, inflight, messages, msgSeq>>
    BY <1>2 DEF QueuePause, QueueResume, PauseSession, ResumeSession, queueVars,
                qvars, sessionVars
  <2> QED
    BY <2>1 DEF PendingIds, Live
<1>3. ASSUME NEW chunks \in 1 .. MaxChunks, Enqueue(chunks)
      PROVE  [Timeline!TimelineNext]_(Timeline!tvars)
  BY <1>3, EnqueueSubmits
<1>4. ASSUME NEW item \in inflight, NEW ok \in BOOLEAN, Answer(item, ok)
      PROVE  [Timeline!TimelineNext]_(Timeline!tvars)
  BY <1>4, AnswerResolves
<1>5. ASSUME NEW id \in 1 .. msgSeq, Retry(id)
      PROVE  [Timeline!TimelineNext]_(Timeline!tvars)
  BY <1>5, RetryResubmits
<1> QED
  BY <1>1, <1>2, <1>3, <1>4, <1>5 DEF QueueNext

\* Whatever stops, restarts, late answers and retries do, a reader of the
\* messages sees a MeetingTimeline.
THEOREM QueueImplementsTimeline == QueueSpec => ImplementsTimeline
<1>1. QueueInit => Timeline!TimelineInit
  BY DEF QueueInit, Timeline!TimelineInit, PendingIds
<1> QED
  BY <1>1, QueueInvariant, QueueStepsAreTimelineSteps, PTL
     DEF QueueSpec, ImplementsTimeline, Timeline!TimelineSpec

-----------------------------------------------------------------------------
(***************************************************************************)
(* What a step of the queue may never do to a message.                     *)
(***************************************************************************)

\* No two kept messages have the same number.
LEMMA MessagesAreUnique ==
  ASSUME History
  PROVE  \A i, j \in DOMAIN messages : messages[i].id = messages[j].id => i = j
<1>1. /\ DOMAIN messages \subseteq Int
      /\ \A i \in DOMAIN messages : messages[i] \in Message
  BY DEF History
<1>2. \A i \in DOMAIN messages : messages[i].id \in Nat
  BY <1>1 DEF Message
<1> QED
  BY <1>1, <1>2 DEF History, HistoryIsOrdered

\* Enqueue() keeps messages as they are and adds some with new numbers.
LEMMA EnqueueAppends ==
  ASSUME QueueInv, NEW chunks \in 1 .. MaxChunks, Enqueue(chunks)
  PROVE  \A j \in DOMAIN messages' :
           \/ \E k \in DOMAIN messages : messages'[j] = messages[k]
           \/ messages'[j].id > msgSeq
<1> DEFINE new == [i \in 1 .. chunks |-> [id |-> msgSeq + i, status |-> "processing"]]
           full == messages \o new
<1>1. messages' = KeepLast(full)
  BY DEF Enqueue
<1>2. messages \in Seq(Message) /\ msgSeq \in Nat /\ chunks \in Nat
  BY DEF QueueInv, History, QueueNumbers
<1>3. /\ new \in Seq(Message)
      /\ Len(new) = chunks
      /\ \A i \in 1 .. chunks : new[i].id = msgSeq + i
  BY <1>2, NewMessages
<1> HIDE DEF new
<1>4. /\ full \in Seq(Message)
      /\ \A i \in DOMAIN full : \/ i \in DOMAIN messages /\ full[i] = messages[i]
                                \/ /\ i - Len(messages) \in 1 .. chunks
                                   /\ full[i] = new[i - Len(messages)]
  BY <1>2, <1>3, SMTT(30)
<1> HIDE DEF full
<1>5. /\ messages' \in Seq(Message)
      /\ \E d \in Nat : IsSuffix(messages', full, d)
  BY <1>1, <1>4, KeptSuffix
<1>6. PICK d \in Nat : IsSuffix(messages', full, d)
  BY <1>5
<1>7. \A j \in DOMAIN messages' : j + d \in DOMAIN full /\ messages'[j] = full[j + d]
  BY <1>4, <1>5, <1>6 DEF IsSuffix
<1>8. \A i \in 1 .. chunks : msgSeq + i > msgSeq
  BY <1>2
<1> QED
  BY <1>3, <1>4, <1>7, <1>8

\* A message that shows a translation after Enqueue(), Answer() or Retry() was
\* either left alone or pending before.
LEMMA TranslationsStay ==
  QueueInv /\ [QueueNext]_qvars =>
    \A i \in DOMAIN messages, j \in DOMAIN messages' :
      messages[i].id = messages'[j].id /\ messages[i].status = "translated"
        => messages'[j].status = "translated"
<1> SUFFICES ASSUME QueueInv, [QueueNext]_qvars,
                    NEW i \in DOMAIN messages, NEW j \in DOMAIN messages',
                    messages[i].id = messages'[j].id,
                    messages[i].status = "translated"
             PROVE  messages'[j].status = "translated"
  OBVIOUS
<1>1. /\ messages \in Seq(Message) /\ History
      /\ messages[i].id \in Nat /\ messages[i].id =< msgSeq /\ msgSeq \in Nat
  <2>1. messages \in Seq(Message) /\ messages[i] \in Message
    BY DEF QueueInv, History
  <2> QED
    BY <2>1 DEF QueueInv, History, Message, QueueNumbers
<1>2. \A k \in DOMAIN messages : messages[k].id = messages[i].id => k = i
  BY <1>1, MessagesAreUnique
<1>3. CASE UNCHANGED messages
  BY <1>2, <1>3
<1>4. ASSUME NEW chunks \in 1 .. MaxChunks, Enqueue(chunks)
      PROVE  messages'[j].status = "translated"
  <2>1. CASE \E k \in DOMAIN messages : messages'[j] = messages[k]
    BY <1>2, <2>1
  <2>2. CASE messages'[j].id > msgSeq
    BY <1>1, <2>2
  <2> QED
    BY <1>4, <2>1, <2>2, EnqueueAppends
<1>5. ASSUME NEW n, NEW st \in Status, SetStatus(n, st), messages[i].id # n
      PROVE  messages'[j].status = "translated"
  <2>1. /\ DOMAIN messages' = DOMAIN messages
        /\ \A k \in DOMAIN messages :
             /\ messages'[k].id = messages[k].id
             /\ messages'[k].status = IF messages[k].id = n THEN st
                                      ELSE messages[k].status
    BY <1>1, <1>5, StatusIsSet
  <2> QED
    BY <1>2, <1>5, <2>1
<1>6. ASSUME NEW item \in inflight, NEW ok \in BOOLEAN, Answer(item, ok)
      PROVE  messages'[j].status = "translated"
  <2>1. messages[i].id # item.id
    BY DEF QueueInv, ItemsAreProcessing, Processing, HasItem
  <2>2. \/ UNCHANGED messages
        \/ SetStatus(item.id, "translated")
        \/ SetStatus(item.id, "error")
    BY <1>6 DEF Answer
  <2> QED
    BY <1>3, <1>5, <2>1, <2>2 DEF Status
<1>7. ASSUME NEW id \in 1 .. msgSeq, Retry(id)
      PROVE  messages'[j].status = "translated"
  <2>1. messages[i].id # id
    BY <1>2, <1>7 DEF Retry
  <2>2. SetStatus(id, "processing")
    BY <1>7 DEF Retry
  <2> QED
    BY <1>5, <2>1, <2>2 DEF Status
<1>8. CASE \/ QueueStart \/ QueueStop \/ QueueDestroy \/ QueueFail
           \/ QueuePause \/ QueueResume \/ UNCHANGED qvars
  <2>1. UNCHANGED messages
    BY <1>8 DEF QueueStart, QueueStop, QueueDestroy, QueueFail, QueuePause,
                QueueResume, queueVars, qvars
  <2> QED
    BY <1>3, <2>1
<1> QED
  BY <1>4, <1>6, <1>7, <1>8 DEF QueueNext

\* A translation, once shown, is never replaced or taken back: neither a late
\* answer nor retryMessage() reaches a message that has one.
THEOREM TranslationsAreFinal == QueueSpec => TranslatedIsFinal
BY QueueInvariant, TranslationsStay, PTL DEF QueueSpec, TranslatedIsFinal

\* While the meeting goes on, only an answer takes a message from the pending
\* ones, and it marks it.
LEMMA PendingLeavesAnswered ==
  ASSUME QueueInv, [QueueNext]_qvars, running, running', session' = session,
         NEW n \in PendingIds \ PendingIds', NEW i \in DOMAIN messages',
         messages'[i].id = n
  PROVE  messages'[i].status # "processing"
<1>1. CASE QueueStart \/ QueueStop \/ QueueDestroy \/ QueueFail
  BY <1>1 DEF QueueStart, QueueStop, QueueDestroy, QueueFail, BeginSession,
              EndSession, DestroySession, FailSession, QueueInv, QueueNumbers
<1>2. CASE QueuePause \/ QueueResume \/ UNCHANGED qvars
  <2>1. UNCHANGED <<running, session, queue, inflight>>
    BY <1>2 DEF QueuePause, QueueResume, PauseSession, ResumeSession, queueVars,
                qvars, sessionVars
  <2> QED
    BY <2>1 DEF PendingIds, Live
<1>3. ASSUME NEW chunks \in 1 .. MaxChunks, Enqueue(chunks) PROVE FALSE
  BY <1>3, EnqueueSubmits DEF Timeline!Submit
<1>4. ASSUME NEW id \in 1 .. msgSeq, Retry(id) PROVE FALSE
  BY <1>4, RetryResubmits DEF Timeline!Resubmit
<1>5. ASSUME NEW item \in inflight, NEW ok \in BOOLEAN, Answer(item, ok)
      PROVE  messages'[i].status # "processing"
  <2>1. CASE ~Live(item)
    BY <1>5, <2>1, AnswerResolves
  <2>2. CASE Live(item)
    <3>1. n = item.id
      BY <1>5, <2>2, AnswerResolves DEF Timeline!Resolve
    <3>2. PICK st \in {"translated", "error"} : SetStatus(item.id, st)
      BY <1>5, <2>2 DEF Answer
    <3>3. /\ DOMAIN messages' = DOMAIN messages
          /\ messages'[i].id = messages[i].id
          /\ messages'[i].status = IF messages[i].id = item.id THEN st
                                   ELSE messages[i].status
      BY <3>2, StatusIsSet DEF QueueInv, History, Status
    <3> QED
      BY <3>1, <3>2, <3>3
  <2> QED
    BY <2>1, <2>2
<1> QED
  BY <1>1, <1>2, <1>3, <1>4, <1>5 DEF QueueNext

\* No early return, failure path or loop exit of _drainQueue() drops a message
\* of a meeting that goes on.
THEOREM MessagesAreNotLost == QueueSpec => NoMessageLost
<1>1. QueueInv /\ [QueueNext]_qvars =>
        (running /\ running' /\ session' = session =>
           \A n \in PendingIds \ PendingIds' :
             \A i \in DOMAIN messages' :
               messages'[i].id = n => messages'[i].status # "processing")
  BY PendingLeavesAnswered
<1> QED
  BY <1>1, QueueInvariant, PTL DEF QueueSpec, NoMessageLost
=============================================================================
