----------------------------- MODULE ChatRoomProofs -----------------------------
(***************************************************************************)
(* The chat room, for any number of requests, messages and events and any  *)
(* length of the list: its types, the un-sends and the messages it shows.  *)
(* The events come in order, so an event by which a message appears has    *)
(* behind it the one by which it is marked, if the message was un-sent     *)
(* (MarksFollow), and those by which all newer messages appear             *)
(* (EventsInOrder); whatever the screen misses while its socket is not in  *)
(* the room is accounted for when it happens, because nothing is then on   *)
(* its way.                                                                *)
(***************************************************************************)
EXTENDS ChatRoom, SequenceTheorems, FiniteSetTheorems, FunctionTheorems, TLAPS

UnsendOf(m) == [kind |-> "unsent", id |-> m]

\* The fact is on its way in the events "q".
Coming(q, fact) == \E i \in 1 .. Len(q) : q[i] = fact

\* The list entry "message" is marked if it has to be, or will be by the events "q",
\* or cannot know, when "u" are un-sent and the facts "l" lost.
Excused(message, u, q, l) ==
  message.id \in u =>
    message.is_unsend \/ Coming(q, UnsendOf(message.id)) \/ UnsendOf(message.id) \in l

RoomIsOrdered ==
  /\ made \in Nat /\ made =< MaxMessages
  /\ unsent \in SUBSET (1 .. made) /\ hidden \in SUBSET (1 .. made)
  /\ events \in Seq(Events)
  /\ ~joined => events = <<>>

MarksFollow ==
  \A i \in 1 .. Len(events) :
    events[i].kind = "made" /\ events[i].id \in unsent =>
      \E j \in 1 .. Len(events) : i < j /\ events[j] = UnsendOf(events[i].id)

ListIsExcused ==
  /\ \E S : messages \in Seq(S)
  /\ \A i \in 1 .. Len(messages) : Excused(messages[i], unsent, events, lost)

AnswersTyped == requests \in [Requests -> Request]

RoomInv == RoomIsOrdered /\ MarksFollow /\ ListIsExcused /\ AnswersTyped

-----------------------------------------------------------------------------
(***************************************************************************)
(* The operators on the list.                                              *)
(***************************************************************************)

\* Cutting the list makes up no entry.
LEMMA OptimisedTakes ==
  ASSUME NEW S, NEW list \in Seq(S)
  PROVE  /\ Optimised(list) \in Seq(S)
         /\ \A i \in 1 .. Len(Optimised(list)) :
              \E j \in 1 .. Len(list) : Optimised(list)[i] = list[j]
<1>1. CASE Len(list) > MaxList
  <2> DEFINE m == Len(list) - Keep + 1
             n == Len(list)
  <2>1. Len(list) \in Nat /\ Keep \in Nat /\ 1 =< Keep /\ Keep =< Len(list)
    BY <1>1, RoomAssumption
  <2>2. m \in 1 .. Len(list) + 1 /\ n \in m - 1 .. Len(list)
    BY <2>1
  <2>3. /\ SubSeq(list, m, n) \in Seq(S)
        /\ Len(SubSeq(list, m, n)) = n - m + 1
        /\ \A i \in 1 .. n - m + 1 : SubSeq(list, m, n)[i] = list[m + i - 1]
    BY <2>2, SubSeqProperties
  <2>4. Optimised(list) = SubSeq(list, m, n)
    BY <1>1 DEF Optimised
  <2>5. ASSUME NEW i \in 1 .. n - m + 1 PROVE m + i - 1 \in 1 .. Len(list)
    BY <2>1
  <2> HIDE DEF m, n
  <2> QED
    BY <2>3, <2>4, <2>5
<1>2. CASE ~(Len(list) > MaxList)
  BY <1>2 DEF Optimised
<1> QED
  BY <1>1, <1>2

\* A message in the place of every entry of its number, and the others as they are.
LEMMA ReplacedPointwise ==
  ASSUME NEW S, NEW list \in Seq(S), NEW id, NEW message
  PROVE  /\ Replaced(list, id, message) \in Seq(S \cup {message})
         /\ Len(Replaced(list, id, message)) = Len(list)
         /\ \A i \in 1 .. Len(list) :
              \/ list[i].id = id /\ Replaced(list, id, message)[i] = message
              \/ list[i].id # id /\ Replaced(list, id, message)[i] = list[i]
<1>1. Len(list) \in Nat /\ \A i \in 1 .. Len(list) : list[i] \in S
  OBVIOUS
<1> QED
  BY <1>1 DEF Replaced

\* A message put in the place of its own number changes no number of the list.
LEMMA NumbersStay ==
  ASSUME NEW S, NEW list \in Seq(S), NEW message, NEW new,
         new = Replaced(list, message.id, message)
  PROVE  /\ Len(new) = Len(list)
         /\ \A i \in 1 .. Len(list) : new[i].id = list[i].id
<1>1. Len(new) = Len(list)
  BY DEF Replaced
<1>2. ASSUME NEW i \in 1 .. Len(list) PROVE new[i].id = list[i].id
  <2>1. new[i] = IF list[i].id = message.id THEN message ELSE list[i]
    BY DEF Replaced
  <2>2. CASE list[i].id = message.id
    BY <2>1, <2>2
  <2>3. CASE list[i].id # message.id
    BY <2>1, <2>3
  <2> QED
    BY <2>2, <2>3
<1> QED
  BY <1>1, <1>2

\* An answer marks exactly what the server knew as un-sent.
LEMMA ListedIsMarked ==
  ASSUME NEW has \in SUBSET Ids, NEW marks
  PROVE  /\ \E S : Listed(has, marks) \in Seq(S)
         /\ \A i \in 1 .. Len(Listed(has, marks)) :
              Listed(has, marks)[i].is_unsend = (Listed(has, marks)[i].id \in marks)
<1> DEFINE n == Cardinality(has)
           pick(i) == CHOOSE m \in has : Cardinality({k \in has : k <= m}) = i
           entry(i) == [id |-> pick(i), is_unsend |-> pick(i) \in marks]
           S == {entry(i) : i \in 1 .. n}
<1>1. n \in Nat
  <2>1. IsFiniteSet(Ids)
    BY RoomAssumption, FS_Interval DEF Ids
  <2>2. IsFiniteSet(has)
    BY <2>1, FS_Subset
  <2> QED
    BY <2>2, FS_CardinalityType
<1>2. Listed(has, marks) = [i \in 1 .. n |-> entry(i)]
  BY DEF Listed
<1>3. \A i \in 1 .. n : entry(i) \in S
  OBVIOUS
<1>4. \A i \in 1 .. n : entry(i).is_unsend = (entry(i).id \in marks)
  OBVIOUS
<1> HIDE DEF n, entry, S
<1>5. [i \in 1 .. n |-> entry(i)] \in Seq(S) /\ Len([i \in 1 .. n |-> entry(i)]) = n
  BY <1>1, <1>3
<1> QED
  BY <1>1, <1>2, <1>4, <1>5

-----------------------------------------------------------------------------
(***************************************************************************)
(* The order of an answer.                                                 *)
(***************************************************************************)

Rank(S, m) == Cardinality({n \in S : n <= m})

\* The numbers of a finite set have the ranks from 1 to its size, in their order.
LEMMA Ranks ==
  ASSUME NEW S \in SUBSET Nat, IsFiniteSet(S)
  PROVE  /\ Cardinality(S) \in Nat
         /\ \A m \in S : Rank(S, m) \in 1 .. Cardinality(S)
         /\ \A m, n \in S : m < n => Rank(S, m) < Rank(S, n)
         /\ \A i \in 1 .. Cardinality(S) : \E m \in S : Rank(S, m) = i
<1> DEFINE below(m) == {n \in S : n <= m}
           f == [m \in S |-> Rank(S, m)]
<1>1. Cardinality(S) \in Nat
  BY FS_CardinalityType
<1>2. ASSUME NEW m \in S
      PROVE  Rank(S, m) \in 1 .. Cardinality(S)
  <2>1. below(m) \in SUBSET S /\ m \in below(m)
    OBVIOUS
  <2> HIDE DEF below
  <2>2. IsFiniteSet(below(m)) /\ Cardinality(below(m)) =< Cardinality(S)
    BY <2>1, FS_Subset
  <2>3. Cardinality(below(m)) \in Nat /\ Cardinality(below(m)) # 0
    BY <2>1, <2>2, FS_CardinalityType, FS_EmptySet
  <2>4. Rank(S, m) = Cardinality(below(m))
    BY DEF Rank, below
  <2> QED
    BY <1>1, <2>2, <2>3, <2>4
<1>3. ASSUME NEW m \in S, NEW n \in S, m < n
      PROVE  Rank(S, m) < Rank(S, n)
  <2>1. /\ below(n) \in SUBSET S /\ n \in below(n) /\ n \notin below(m)
        /\ \A k \in below(m) : k \in below(n)
    BY <1>3
  <2> HIDE DEF below
  <2>2. IsFiniteSet(below(n))
    BY <2>1, FS_Subset
  <2>3. Cardinality(below(m)) =< Cardinality(below(n))
        /\ Cardinality(below(m)) # Cardinality(below(n))
    <3>1. below(m) \in SUBSET below(n) /\ below(m) # below(n)
      BY <2>1
    <3> QED
      BY <2>2, <3>1, FS_Subset
  <2>4. Rank(S, m) = Cardinality(below(m)) /\ Rank(S, n) = Cardinality(below(n))
    BY DEF Rank, below
  <2> QED
    BY <1>1, <1>2, <2>3, <2>4
<1>4. f \in Injection(S, 1 .. Cardinality(S))
  <2>1. f \in [S -> 1 .. Cardinality(S)]
    BY <1>2
  <2>2. ASSUME NEW m \in S, NEW n \in S, f[m] = f[n] PROVE m = n
    <3>1. Rank(S, m) = Rank(S, n) /\ Rank(S, m) \in Nat
      BY <1>1, <1>2, <2>2
    <3>2. ~(m < n) /\ ~(n < m)
      BY <1>3, <3>1
    <3> QED
      BY <3>2
  <2> QED
    BY <2>1, <2>2, Fun_IsInj
<1>5. IsFiniteSet(1 .. Cardinality(S)) /\ Cardinality(1 .. Cardinality(S)) = Cardinality(S)
  BY <1>1, FS_Interval
<1>6. f \in Surjection(S, 1 .. Cardinality(S))
  <2> HIDE DEF f
  <2> QED
    BY <1>4, <1>5, FS_Injection
<1>7. ASSUME NEW i \in 1 .. Cardinality(S) PROVE \E m \in S : Rank(S, m) = i
  <2>1. PICK m \in S : f[m] = i
    <3> HIDE DEF f
    <3> QED
      BY <1>6 DEF Surjection
  <2> QED
    BY <2>1
<1> QED
  BY <1>1, <1>2, <1>3, <1>7

\* An answer lists each of its messages, and its newest one last.
LEMMA ListedInOrder ==
  ASSUME NEW has \in SUBSET Ids, NEW marks
  PROVE  LET list == Listed(has, marks) IN
         /\ list \in Seq(Message)
         /\ Len(list) = Cardinality(has)
         /\ \A m \in has : \E i \in 1 .. Len(list) : list[i].id = m
         /\ \A i, j \in 1 .. Len(list) : i < j => list[i].id < list[j].id
<1> DEFINE n == Cardinality(has)
           at(i) == CHOOSE m \in has : Cardinality({k \in has : k <= m}) = i
           entry(i) == [id |-> at(i), is_unsend |-> at(i) \in marks]
           list == [i \in 1 .. n |-> entry(i)]
<1>1. has \in SUBSET Nat /\ IsFiniteSet(has)
  <2>1. IsFiniteSet(Ids) /\ Ids \in SUBSET Nat
    BY RoomAssumption, FS_Interval DEF Ids
  <2> QED
    BY <2>1, FS_Subset
<1>2. /\ n \in Nat
      /\ \A m \in has : Rank(has, m) \in 1 .. n
      /\ \A m, k \in has : m < k => Rank(has, m) < Rank(has, k)
      /\ \A i \in 1 .. n : \E m \in has : Rank(has, m) = i
  BY <1>1, Ranks
<1>3. \A i \in 1 .. n : at(i) \in has /\ Rank(has, at(i)) = i
  BY <1>2 DEF Rank
<1>4. Listed(has, marks) = list
  BY DEF Listed
<1> HIDE DEF n, at
<1>5. \A i \in 1 .. n : entry(i) \in Message /\ entry(i).id = at(i)
  BY <1>3 DEF Message
<1> HIDE DEF entry
<1>6. list \in Seq(Message) /\ Len(list) = n /\ \A i \in 1 .. n : list[i].id = at(i)
  BY <1>2, <1>5
<1>7. ASSUME NEW m \in has PROVE \E i \in 1 .. n : at(i) = m
  <2>1. PICK i \in 1 .. n : Rank(has, m) = i
    BY <1>2
  <2>2. PICK k \in has : at(i) = k /\ Rank(has, k) = i
    BY <1>3
  <2>3. ~(Rank(has, m) < Rank(has, k)) /\ ~(Rank(has, k) < Rank(has, m))
    BY <1>2, <2>1, <2>2
  <2>4. ~(m < k) /\ ~(k < m)
    BY <1>2, <2>3
  <2> QED
    BY <1>1, <2>2, <2>4
<1>8. ASSUME NEW i \in 1 .. n, NEW j \in 1 .. n, i < j PROVE at(i) < at(j)
  <2>1. ~(at(j) < at(i)) /\ at(i) # at(j)
    BY <1>2, <1>3, <1>8
  <2>2. at(i) \in Nat /\ at(j) \in Nat
    BY <1>1, <1>3
  <2> QED
    BY <2>1, <2>2
<1> HIDE DEF list
<1>9. Len(list) = Cardinality(has)
  BY <1>6 DEF n
<1> QED
  BY <1>4, <1>6, <1>7, <1>8, <1>9

\* The list is cut to its length, from the old end.
LEMMA OptimisedKeepsLast ==
  ASSUME NEW S, NEW list \in Seq(S)
  PROVE  /\ Optimised(list) \in Seq(S)
         /\ Len(Optimised(list)) <= MaxList
         /\ list # <<>> => /\ Optimised(list) # <<>>
                           /\ Optimised(list)[Len(Optimised(list))] = list[Len(list)]
         /\ Optimised(list) = list \/ list # <<>>
<1>1. CASE Len(list) > MaxList
  <2> DEFINE m == Len(list) - Keep + 1
             n == Len(list)
             kept == SubSeq(list, m, n)
  <2>1. /\ Len(list) \in Nat /\ Keep \in Nat /\ 1 =< Keep /\ Keep =< MaxList
        /\ MaxList \in Nat /\ Keep =< Len(list)
    BY <1>1, RoomAssumption
  <2>2. m \in 1 .. Len(list) + 1 /\ n \in m - 1 .. Len(list)
    BY <2>1
  <2>3. /\ kept \in Seq(S)
        /\ Len(kept) = n - m + 1
        /\ \A i \in 1 .. n - m + 1 : kept[i] = list[m + i - 1]
    BY <2>2, SubSeqProperties
  <2>4. Optimised(list) = kept /\ list # <<>>
    BY <1>1, <2>1 DEF Optimised
  <2>5. n - m + 1 = Keep /\ m + Keep - 1 = Len(list) /\ Keep \in 1 .. Keep
    BY <2>1
  <2> HIDE DEF m, n, kept
  <2>6. Len(kept) = Keep /\ kept[Keep] = list[Len(list)]
    BY <2>3, <2>5
  <2>7. kept # <<>>
    BY <2>1, <2>3, <2>6
  <2> QED
    BY <2>1, <2>3, <2>4, <2>6, <2>7
<1>2. CASE ~(Len(list) > MaxList)
  BY <1>2, RoomAssumption DEF Optimised
<1> QED
  BY <1>1, <1>2

-----------------------------------------------------------------------------
(***************************************************************************)
(* What is on its way.                                                     *)
(***************************************************************************)

LEMMA AppendedEvent ==
  ASSUME NEW event \in Events, events \in Seq(Events), events' = Append(events, event)
  PROVE  /\ events' \in Seq(Events) /\ Len(events') = Len(events) + 1
         /\ \A i \in 1 .. Len(events) : i \in 1 .. Len(events') /\ events'[i] = events[i]
         /\ events'[Len(events')] = event
         /\ Coming(events', event)
         /\ \A fact : Coming(events, fact) => Coming(events', fact)
<1>1. /\ events' \in Seq(Events) /\ Len(events') = Len(events) + 1
      /\ \A i \in 1 .. Len(events) : i \in 1 .. Len(events') /\ events'[i] = events[i]
      /\ events'[Len(events')] = event /\ Len(events') \in 1 .. Len(events')
  OBVIOUS
<1> QED
  BY <1>1 DEF Coming

LEMMA TakenEvent ==
  ASSUME events \in Seq(Events), events # <<>>, events' = Tail(events)
  PROVE  /\ events' \in Seq(Events) /\ Len(events') = Len(events) - 1
         /\ Head(events) \in Events /\ Head(events) = events[1]
         /\ \A i \in 1 .. Len(events') : i + 1 \in 1 .. Len(events) /\ events'[i] = events[i + 1]
         /\ \A j \in 1 .. Len(events) : j > 1 => j - 1 \in 1 .. Len(events') /\ events'[j - 1] = events[j]
         /\ \A fact : fact # Head(events) /\ Coming(events, fact) => Coming(events', fact)
<1>1. /\ events' \in Seq(Events) /\ Len(events') = Len(events) - 1
      /\ Head(events) \in Events /\ Head(events) = events[1] /\ Len(events) \in Nat
      /\ \A i \in 1 .. Len(events') : i + 1 \in 1 .. Len(events) /\ events'[i] = events[i + 1]
  OBVIOUS
<1>2. \A j \in 1 .. Len(events) : j > 1 => j - 1 \in 1 .. Len(events') /\ events'[j - 1] = events[j]
  <2> SUFFICES ASSUME NEW j \in 1 .. Len(events), j > 1
               PROVE  j - 1 \in 1 .. Len(events') /\ events'[j - 1] = events[j]
    OBVIOUS
  <2>1. j - 1 \in 1 .. Len(events') /\ (j - 1) + 1 = j
    BY <1>1
  <2> QED
    BY <1>1, <2>1
<1>3. ASSUME NEW fact, fact # Head(events), Coming(events, fact) PROVE Coming(events', fact)
  <2>1. PICK j \in 1 .. Len(events) : events[j] = fact
    BY <1>3 DEF Coming
  <2>2. j > 1
    BY <1>1, <1>3, <2>1
  <2> QED
    BY <1>2, <2>1, <2>2 DEF Coming
<1> QED
  BY <1>1, <1>2, <1>3

\* A new event behind the others, when it makes no un-sent message.
LEMMA FollowAppended ==
  ASSUME MarksFollow, events \in Seq(Events), UNCHANGED unsent,
         NEW event \in Events, events' = Append(events, event),
         event.kind = "made" => event.id \notin unsent
  PROVE  MarksFollow'
<1>1. /\ events' \in Seq(Events) /\ Len(events') = Len(events) + 1
      /\ \A i \in 1 .. Len(events) : i \in 1 .. Len(events') /\ events'[i] = events[i]
      /\ events'[Len(events')] = event
  BY AppendedEvent
<1> SUFFICES ASSUME NEW i \in 1 .. Len(events'),
                    events'[i].kind = "made" /\ events'[i].id \in unsent
             PROVE  \E j \in 1 .. Len(events') :
                      i < j /\ events'[j] = UnsendOf(events'[i].id)
  BY DEF MarksFollow, UnsendOf
<1>2. i \in 1 .. Len(events)
  BY <1>1
<1>3. PICK j \in 1 .. Len(events) : i < j /\ events[j] = UnsendOf(events[i].id)
  BY <1>1, <1>2 DEF MarksFollow
<1> QED
  BY <1>1, <1>2, <1>3

\* The list as it was, when what excuses its entries stays.
LEMMA ListKeeps ==
  ASSUME ListIsExcused, UNCHANGED <<unsent, messages>>,
         \A m \in unsent : Coming(events, UnsendOf(m)) =>
           Coming(events', UnsendOf(m)) \/ UnsendOf(m) \in lost',
         lost \subseteq lost'
  PROVE  ListIsExcused'
<1>1. \A i \in 1 .. Len(messages) : Excused(messages[i], unsent, events, lost)
  BY DEF ListIsExcused
<1>2. ASSUME NEW i \in 1 .. Len(messages) PROVE Excused(messages'[i], unsent', events', lost')
  <2>1. Excused(messages[i], unsent, events, lost)
    BY <1>1
  <2> QED
    BY <2>1 DEF Excused
<1> QED
  BY <1>2 DEF ListIsExcused

\* Steps of which the events and the list take no notice.
LEMMA RoomKeeps ==
  ASSUME RoomInv, UNCHANGED <<made, unsent, hidden, events, messages, lost>>,
         joined' = joined \/ joined' = TRUE,
         AnswersTyped'
  PROVE  RoomInv'
<1>1. RoomIsOrdered' /\ MarksFollow'
  BY DEF RoomInv, RoomIsOrdered, MarksFollow, UnsendOf
<1>2. \A m : Coming(events, UnsendOf(m)) => Coming(events', UnsendOf(m))
  BY DEF Coming, UnsendOf
<1>3. ListIsExcused'
  BY <1>2, ListKeeps DEF RoomInv
<1> QED
  BY <1>1, <1>3 DEF RoomInv

-----------------------------------------------------------------------------
(***************************************************************************)
(* The steps of the server and the socket.                                 *)
(***************************************************************************)

LEMMA InitiallyRoom == RoomInit => RoomInv
<1> SUFFICES ASSUME RoomInit PROVE RoomInv
  OBVIOUS
<1>1. events = <<>> /\ messages = <<>> /\ <<>> \in Seq(Events) /\ Len(<<>>) = 0
  BY DEF RoomInit
<1>2. RoomIsOrdered
  BY <1>1, RoomAssumption DEF RoomInit, RoomIsOrdered
<1>3. MarksFollow /\ ListIsExcused
  BY <1>1 DEF MarksFollow, ListIsExcused
<1>4. AnswersTyped
  BY DEF RoomInit, AnswersTyped, Request, Asked, Idle
<1> QED
  BY <1>2, <1>3, <1>4 DEF RoomInv

LEMMA JoinKeeps == ASSUME RoomInv, Join PROVE RoomInv'
BY RoomKeeps DEF Join, AnswersTyped, RoomInv

LEMMA MessageMadeKeeps == ASSUME RoomInv, MessageMade PROVE RoomInv'
<1> DEFINE fact == [kind |-> "made", id |-> made + 1]
<1>1. /\ made < MaxMessages /\ made' = made + 1
      /\ UNCHANGED <<unsent, hidden, joined, requests, messages>>
      /\ IF joined THEN events' = Append(events, fact) /\ lost' = lost
                   ELSE events' = events /\ lost \subseteq lost'
  BY DEF MessageMade, Tell
<1>2. /\ made \in Nat /\ unsent \in SUBSET (1 .. made) /\ hidden \in SUBSET (1 .. made)
      /\ events \in Seq(Events) /\ (~joined => events = <<>>)
  BY DEF RoomInv, RoomIsOrdered
<1>3. fact \in Events /\ fact.id \notin unsent
  BY <1>1, <1>2, RoomAssumption DEF Events, Facts, Ids
<1> HIDE DEF fact
<1>4. CASE joined
  <2>1. events' = Append(events, fact) /\ lost' = lost
    BY <1>1, <1>4
  <2>2. events' \in Seq(Events) /\ \A f : Coming(events, f) => Coming(events', f)
    BY <1>2, <1>3, <2>1, AppendedEvent
  <2>3. MarksFollow'
    BY <1>1, <1>2, <1>3, <2>1, FollowAppended DEF RoomInv
  <2>4. ListIsExcused'
    BY <1>1, <2>1, <2>2, ListKeeps DEF RoomInv
  <2>5. RoomIsOrdered'
    BY <1>1, <1>2, <1>4, <2>2, RoomAssumption DEF RoomIsOrdered
  <2>6. AnswersTyped'
    BY <1>1 DEF RoomInv, AnswersTyped
  <2> QED
    BY <2>3, <2>4, <2>5, <2>6 DEF RoomInv
<1>5. CASE ~joined
  <2>1. events' = events /\ lost \subseteq lost'
    BY <1>1, <1>5
  <2>2. MarksFollow' /\ RoomIsOrdered'
    BY <1>1, <1>2, <2>1, RoomAssumption DEF RoomInv, MarksFollow, UnsendOf, RoomIsOrdered
  <2>3. \A m : Coming(events, UnsendOf(m)) => Coming(events', UnsendOf(m))
    BY <2>1 DEF Coming, UnsendOf
  <2>4. ListIsExcused'
    BY <1>1, <2>1, <2>3, ListKeeps DEF RoomInv
  <2>5. AnswersTyped'
    BY <1>1 DEF RoomInv, AnswersTyped
  <2> QED
    BY <2>2, <2>4, <2>5 DEF RoomInv
<1> QED
  BY <1>4, <1>5

\* The event, or the record of what is lost, comes with the un-send itself.
LEMMA MessageUnsentKeeps ==
  ASSUME RoomInv, NEW m \in 1 .. made, NEW here \in BOOLEAN, MessageUnsent(m, here)
  PROVE  RoomInv'
<1>1. /\ unsent' = unsent \cup {m}
      /\ UNCHANGED <<made, hidden, joined, requests, messages>>
      /\ IF joined THEN events' = Append(events, UnsendOf(m)) /\ lost' = lost
                   ELSE events' = events /\ lost' = lost \cup {UnsendOf(m)}
  BY DEF MessageUnsent, Tell, UnsendOf
<1>2. /\ made \in Nat /\ made =< MaxMessages
      /\ unsent \in SUBSET (1 .. made) /\ hidden \in SUBSET (1 .. made)
      /\ events \in Seq(Events) /\ (~joined => events = <<>>)
  BY DEF RoomInv, RoomIsOrdered
<1>3. UnsendOf(m) \in Events /\ UnsendOf(m).kind = "unsent"
  BY <1>2, RoomAssumption DEF Events, Facts, Ids, UnsendOf
<1>4. /\ events' \in Seq(Events) /\ (~joined' => events' = <<>>)
      /\ lost \subseteq lost'
      /\ Coming(events', UnsendOf(m)) \/ UnsendOf(m) \in lost'
      /\ \A f : Coming(events, f) => Coming(events', f)
  <2>1. CASE joined
    BY <1>1, <1>2, <1>3, <2>1, AppendedEvent
  <2>2. CASE ~joined
    BY <1>1, <1>2, <2>2 DEF Coming
  <2> QED
    BY <2>1, <2>2
<1>5. MarksFollow'
  <2>1. CASE joined
    <3>1. /\ Len(events') = Len(events) + 1
          /\ \A i \in 1 .. Len(events) : i \in 1 .. Len(events') /\ events'[i] = events[i]
          /\ events'[Len(events')] = UnsendOf(m)
      BY <1>1, <1>2, <1>3, <2>1, AppendedEvent
    <3> SUFFICES ASSUME NEW i \in 1 .. Len(events'),
                        events'[i].kind = "made" /\ events'[i].id \in unsent'
                 PROVE  \E j \in 1 .. Len(events') :
                          i < j /\ events'[j] = UnsendOf(events'[i].id)
      BY DEF MarksFollow, UnsendOf
    <3>2. i \in 1 .. Len(events) /\ events'[i] = events[i]
      BY <1>2, <1>3, <3>1
    <3>3. CASE events[i].id = m
      <4>1. Len(events') \in 1 .. Len(events') /\ i < Len(events')
        BY <1>2, <3>1, <3>2
      <4> QED
        BY <3>1, <3>2, <3>3, <4>1
    <3>4. CASE events[i].id \in unsent
      <4>1. PICK j \in 1 .. Len(events) : i < j /\ events[j] = UnsendOf(events[i].id)
        BY <3>2, <3>4 DEF RoomInv, MarksFollow
      <4> QED
        BY <3>1, <3>2, <4>1
    <3> QED
      BY <1>1, <3>2, <3>3, <3>4
  <2>2. CASE ~joined
    BY <1>1, <1>2, <2>2 DEF MarksFollow
  <2> QED
    BY <2>1, <2>2
<1>6. ListIsExcused'
  <2>1. ASSUME NEW i \in 1 .. Len(messages) PROVE Excused(messages'[i], unsent', events', lost')
    <3>1. Excused(messages[i], unsent, events, lost)
      BY DEF RoomInv, ListIsExcused
    <3> QED
      BY <1>1, <1>4, <3>1 DEF Excused
  <2> QED
    BY <1>1, <2>1 DEF RoomInv, ListIsExcused
<1>7. RoomIsOrdered'
  BY <1>1, <1>2, <1>4 DEF RoomIsOrdered
<1>8. AnswersTyped'
  BY <1>1 DEF RoomInv, AnswersTyped
<1> QED
  BY <1>5, <1>6, <1>7, <1>8 DEF RoomInv

LEMMA MessageDeletedKeeps ==
  ASSUME RoomInv, NEW m \in 1 .. made, MessageDeleted(m)
  PROVE  RoomInv'
<1> DEFINE event == [kind |-> "deleted", id |-> m]
<1>1. /\ hidden' = hidden \cup {m}
      /\ UNCHANGED <<made, unsent, joined, requests, messages, lost>>
      /\ IF joined THEN events' = Append(events, event) ELSE events' = events
  BY DEF MessageDeleted
<1>2. /\ made \in Nat /\ made =< MaxMessages
      /\ unsent \in SUBSET (1 .. made) /\ hidden \in SUBSET (1 .. made)
      /\ events \in Seq(Events) /\ (~joined => events = <<>>)
  BY DEF RoomInv, RoomIsOrdered
<1>3. event \in Events /\ event.kind # "made"
  BY <1>2, RoomAssumption DEF Events, Facts, Ids
<1> HIDE DEF event
<1>4. /\ MarksFollow'
      /\ events' \in Seq(Events) /\ (~joined' => events' = <<>>)
      /\ \A f : Coming(events, f) => Coming(events', f)
  <2>1. CASE joined
    <3>1. events' = Append(events, event) /\ joined'
      BY <1>1, <2>1
    <3>2. MarksFollow'
      BY <1>1, <1>2, <1>3, <3>1, FollowAppended DEF RoomInv
    <3> QED
      BY <1>2, <1>3, <3>1, <3>2, AppendedEvent
  <2>2. CASE ~joined
    BY <1>1, <1>2, <2>2 DEF Coming, MarksFollow
  <2> QED
    BY <2>1, <2>2
<1>5. ListIsExcused'
  BY <1>1, <1>4, ListKeeps DEF RoomInv
<1>6. RoomIsOrdered' /\ AnswersTyped'
  BY <1>1, <1>2, <1>4 DEF RoomInv, RoomIsOrdered, AnswersTyped
<1> QED
  BY <1>4, <1>5, <1>6 DEF RoomInv

\* What was on its way is lost.
LEMMA DisconnectKeeps == ASSUME RoomInv, Disconnect PROVE RoomInv'
<1>1. /\ joined' = FALSE /\ events' = <<>>
      /\ lost' = lost \cup ({events[i] : i \in 1 .. Len(events)} \cap Facts)
      /\ UNCHANGED <<made, unsent, hidden, requests, messages>>
  BY DEF Disconnect
<1>2. /\ made \in Nat /\ made =< MaxMessages
      /\ unsent \in SUBSET (1 .. made) /\ hidden \in SUBSET (1 .. made)
      /\ events' \in Seq(Events) /\ Len(events') = 0
  BY <1>1 DEF RoomInv, RoomIsOrdered
<1>3. ASSUME NEW m \in unsent, Coming(events, UnsendOf(m)) PROVE UnsendOf(m) \in lost'
  <2>1. UnsendOf(m) \in Facts
    BY <1>2, RoomAssumption DEF Facts, Ids, UnsendOf
  <2> QED
    BY <1>1, <1>3, <2>1 DEF Coming
<1>4. ListIsExcused'
  BY <1>1, <1>3, ListKeeps DEF RoomInv
<1>5. MarksFollow' /\ RoomIsOrdered' /\ AnswersTyped'
  BY <1>1, <1>2 DEF RoomInv, MarksFollow, RoomIsOrdered, AnswersTyped
<1> QED
  BY <1>4, <1>5 DEF RoomInv

-----------------------------------------------------------------------------
(***************************************************************************)
(* The steps of the screen.                                                *)
(***************************************************************************)

LEMMA AnsweredKeeps == ASSUME RoomInv, NEW r \in Requests, Answered(r) PROVE RoomInv'
<1> DEFINE snapshot == [at |-> "answered", has |-> (1 .. made) \ hidden, unsent |-> unsent]
<1>1. /\ requests' = [requests EXCEPT ![r] = snapshot]
      /\ UNCHANGED <<made, unsent, hidden, joined, events, messages, lost>>
  BY DEF Answered, serverVars
<1>2. snapshot \in Request
  BY RoomAssumption DEF RoomInv, RoomIsOrdered, Request, Ids
<1> HIDE DEF snapshot
<1>3. AnswersTyped'
  BY <1>1, <1>2 DEF RoomInv, AnswersTyped
<1> QED
  BY <1>1, <1>3, RoomKeeps

LEMMA RequestEndsKeeps ==
  ASSUME RoomInv,
         \/ \E r \in Requests : HistoryFails(r)
         \/ \E ok \in BOOLEAN : UnsendAnswered(ok)
         \/ \E i \in 1 .. Len(messages) : TranslatePressed(i)
  PROVE  RoomInv'
<1>1. Idle \in Request /\ Asked \in Request
  BY DEF Idle, Asked, Request
<1>2. /\ UNCHANGED <<made, unsent, hidden, joined, events, messages, lost>>
      /\ \/ requests' = requests
         \/ \E r \in Requests : requests' = [requests EXCEPT ![r] = Idle]
         \/ \E r \in Requests : requests' = [requests EXCEPT ![r] = Asked]
  BY DEF HistoryFails, UnsendAnswered, TranslatePressed, Ask, serverVars
<1>3. AnswersTyped'
  BY <1>1, <1>2 DEF RoomInv, AnswersTyped
<1> QED
  BY <1>2, <1>3, RoomKeeps

\* The list is the answer's: it marks what the server knew, and the rest of what is
\* un-sent is on its way or lost.
LEMMA HistoryAppliedKeeps ==
  ASSUME RoomInv, NEW r \in Requests, HistoryApplied(r)
  PROVE  RoomInv'
<1> DEFINE answer == requests[r]
           list == Listed(answer.has, answer.unsent)
<1>1. /\ requests' = [requests EXCEPT ![r] = Idle]
      /\ messages' = Optimised(list)
      /\ lost' = Overlooked(answer)
      /\ UNCHANGED <<made, unsent, hidden, joined, events>>
  BY DEF HistoryApplied, serverVars
<1>2. answer \in Request
  BY DEF RoomInv, AnswersTyped
<1>3. answer.has \in SUBSET Ids
  BY <1>2 DEF Request
<1> HIDE DEF answer
<1>4. PICK S : list \in Seq(S)
  BY <1>3, ListedIsMarked
<1>5. \A i \in 1 .. Len(list) : list[i].is_unsend = (list[i].id \in answer.unsent)
  BY <1>3, ListedIsMarked
<1> HIDE DEF list
<1>6. /\ messages' \in Seq(S)
      /\ \A i \in 1 .. Len(messages') :
           messages'[i].is_unsend = (messages'[i].id \in answer.unsent)
  <2>1. /\ Optimised(list) \in Seq(S)
        /\ \A i \in 1 .. Len(Optimised(list)) :
             \E j \in 1 .. Len(list) : Optimised(list)[i] = list[j]
    BY <1>4, OptimisedTakes
  <2> QED
    BY <1>1, <1>5, <2>1
<1>7. ASSUME NEW m \in unsent, m \notin answer.unsent, ~Coming(events, UnsendOf(m))
      PROVE  UnsendOf(m) \in lost'
  <2>1. UnsendOf(m) \in Facts /\ UnsendOf(m).kind = "unsent" /\ UnsendOf(m).id = m
    BY RoomAssumption DEF RoomInv, RoomIsOrdered, Facts, Ids, UnsendOf
  <2> QED
    BY <1>1, <1>7, <2>1 DEF Overlooked, Coming
<1>8. ListIsExcused'
  <2>1. ASSUME NEW i \in 1 .. Len(messages') PROVE Excused(messages'[i], unsent', events', lost')
    <3>1. \A f : Coming(events', f) = Coming(events, f)
      BY <1>1 DEF Coming
    <3>2. CASE messages'[i].id \in unsent /\ messages'[i].id \notin answer.unsent
                 /\ ~Coming(events, UnsendOf(messages'[i].id))
      <4>1. UnsendOf(messages'[i].id) \in lost'
        BY <1>7, <3>2
      <4> QED
        BY <4>1 DEF Excused
    <3>3. CASE messages'[i].id \in answer.unsent
      <4>1. messages'[i].is_unsend
        BY <1>6, <3>3
      <4> QED
        BY <4>1 DEF Excused
    <3>4. CASE messages'[i].id \notin unsent
      BY <1>1, <3>4 DEF Excused
    <3>5. CASE Coming(events, UnsendOf(messages'[i].id))
      BY <1>1, <3>5 DEF Excused, Coming
    <3> QED
      BY <3>2, <3>3, <3>4, <3>5
  <2> QED
    BY <1>6, <2>1 DEF ListIsExcused
<1>9. MarksFollow' /\ RoomIsOrdered'
  BY <1>1 DEF RoomInv, MarksFollow, UnsendOf, RoomIsOrdered
<1>10. AnswersTyped'
  <2>1. Idle \in Request
    BY DEF Idle, Request
  <2> QED
    BY <1>1, <2>1 DEF RoomInv, AnswersTyped
<1> QED
  BY <1>8, <1>9, <1>10 DEF RoomInv

\* The list after an event of the kind "made" or "unsent".
LEMMA EventMarks ==
  ASSUME RoomInv, events # <<>>, events' = Tail(events),
         UNCHANGED <<unsent, lost>>,
         \/ /\ Head(events).kind = "made"
            /\ messages' = Optimised(Append(messages,
                             [id |-> Head(events).id, is_unsend |-> FALSE]))
         \/ /\ Head(events).kind = "unsent"
            /\ messages' = Marked(messages, Head(events).id)
         \/ /\ Head(events).kind = "deleted"
            /\ messages' = messages
  PROVE  ListIsExcused'
<1> DEFINE event == Head(events)
           new == [id |-> event.id, is_unsend |-> FALSE]
           mark == [id |-> event.id, is_unsend |-> TRUE]
<1>1. events \in Seq(Events)
  BY DEF RoomInv, RoomIsOrdered
<1>2. /\ Head(events) \in Events /\ Head(events) = events[1]
      /\ \A f : f # Head(events) /\ Coming(events, f) => Coming(events', f)
  BY <1>1, TakenEvent
<1>3. PICK S : messages \in Seq(S)
  BY DEF RoomInv, ListIsExcused
<1>4. \A i \in 1 .. Len(messages) : Excused(messages[i], unsent, events, lost)
  BY DEF RoomInv, ListIsExcused
<1>5. CASE event.kind = "made"
  <2>1. ASSUME NEW f, f.kind = "unsent", Coming(events, f) PROVE Coming(events', f)
    BY <1>2, <1>5, <2>1
  <2>2. event.id \in unsent => Coming(events', UnsendOf(event.id))
    <3>1. SUFFICES ASSUME event.id \in unsent PROVE Coming(events', UnsendOf(event.id))
      OBVIOUS
    <3>2. 1 \in 1 .. Len(events)
      BY <1>1
    <3>3. PICK j \in 1 .. Len(events) : events[j] = UnsendOf(event.id)
      BY <1>2, <1>5, <3>1, <3>2 DEF RoomInv, MarksFollow
    <3>4. Coming(events, UnsendOf(event.id)) /\ UnsendOf(event.id).kind = "unsent"
      BY <3>3 DEF Coming, UnsendOf
    <3> QED
      BY <2>1, <3>4 DEF UnsendOf
  <2> DEFINE list == Append(messages, new)
  <2>3. /\ list \in Seq(S \cup {new})
        /\ \A i \in 1 .. Len(list) :
             list[i] = new \/ \E j \in 1 .. Len(messages) : list[i] = messages[j]
    <3> HIDE DEF new
    <3>1. messages \in Seq(S \cup {new}) /\ Len(messages) \in Nat
      BY <1>3
    <3> QED
      BY <3>1
  <2>4. messages' = Optimised(list)
    BY <1>5
  <2> HIDE DEF list, new
  <2>5. /\ messages' \in Seq(S \cup {new})
        /\ \A i \in 1 .. Len(messages') :
             messages'[i] = new \/ \E j \in 1 .. Len(messages) : messages'[i] = messages[j]
    BY <2>3, <2>4, OptimisedTakes
  <2>6. ASSUME NEW i \in 1 .. Len(messages') PROVE Excused(messages'[i], unsent', events', lost')
    <3>1. CASE messages'[i] = new
      BY <2>2, <3>1 DEF Excused, new
    <3>2. CASE \E j \in 1 .. Len(messages) : messages'[i] = messages[j]
      <4>1. PICK j \in 1 .. Len(messages) : messages'[i] = messages[j]
        BY <3>2
      <4>2. Excused(messages[j], unsent, events, lost)
        BY <1>4
      <4>3. UnsendOf(messages[j].id).kind = "unsent"
        BY DEF UnsendOf
      <4>4. Coming(events, UnsendOf(messages[j].id)) => Coming(events', UnsendOf(messages'[i].id))
        BY <2>1, <4>1, <4>3 DEF UnsendOf
      <4> QED
        BY <4>1, <4>2, <4>4 DEF Excused
    <3> QED
      BY <2>5, <3>1, <3>2
  <2> QED
    BY <2>5, <2>6 DEF ListIsExcused
<1>6. CASE event.kind = "unsent"
  <2>1. /\ messages' = Replaced(messages, event.id, mark)
        /\ mark.id = event.id /\ mark.is_unsend
    BY <1>6 DEF Marked
  <2>2. event = UnsendOf(event.id)
    BY <1>2, <1>6 DEF Events, Facts, UnsendOf
  <2> HIDE DEF mark, event
  <2>3. /\ messages' \in Seq(S \cup {mark}) /\ Len(messages') = Len(messages)
        /\ \A i \in 1 .. Len(messages) :
             \/ messages'[i] = mark
             \/ messages[i].id # event.id /\ messages'[i] = messages[i]
    <3>1. messages \in Seq(S)
      BY <1>3
    <3> DEFINE list == Replaced(messages, event.id, mark)
    <3>2. /\ list \in Seq(S \cup {mark}) /\ Len(list) = Len(messages)
          /\ \A i \in 1 .. Len(messages) :
               \/ messages[i].id = event.id /\ list[i] = mark
               \/ messages[i].id # event.id /\ list[i] = messages[i]
      BY <3>1, ReplacedPointwise
    <3>3. messages' = list
      BY <2>1
    <3> HIDE DEF list
    <3> QED
      BY <3>2, <3>3
  <2>4. ASSUME NEW i \in 1 .. Len(messages') PROVE Excused(messages'[i], unsent', events', lost')
    <3>1. CASE messages'[i] = mark
      BY <2>1, <3>1 DEF Excused
    <3>2. CASE messages[i].id # event.id /\ messages'[i] = messages[i]
      <4>1. Excused(messages[i], unsent, events, lost)
        BY <1>4, <2>3
      <4>2. UnsendOf(messages[i].id) # event
        BY <2>2, <3>2 DEF UnsendOf
      <4>3. Coming(events, UnsendOf(messages[i].id)) => Coming(events', UnsendOf(messages'[i].id))
        BY <1>2, <3>2, <4>2 DEF UnsendOf, event
      <4> QED
        BY <3>2, <4>1, <4>3 DEF Excused
    <3> QED
      BY <2>3, <3>1, <3>2
  <2> QED
    BY <2>3, <2>4 DEF ListIsExcused
<1>7. CASE event.kind = "deleted"
  <2>1. messages' = messages
    BY <1>7
  <2>2. ASSUME NEW m \in unsent, Coming(events, UnsendOf(m)) PROVE Coming(events', UnsendOf(m))
    <3>1. UnsendOf(m) # event
      BY <1>7 DEF UnsendOf
    <3> QED
      BY <1>2, <2>2, <3>1 DEF UnsendOf
  <2> QED
    BY <2>1, <2>2, ListKeeps DEF RoomInv
<1> QED
  BY <1>5, <1>6, <1>7

LEMMA EventArrivesKeeps == ASSUME RoomInv, EventArrives PROVE RoomInv'
<1>1. /\ events # <<>> /\ events' = Tail(events)
      /\ UNCHANGED <<made, unsent, hidden, joined, lost>>
      /\ requests' = requests \/ \E r \in Requests : Ask(r)
  BY DEF EventArrives, serverVars
<1>2. events \in Seq(Events) /\ joined
  BY <1>1 DEF RoomInv, RoomIsOrdered
<1>3. /\ events' \in Seq(Events)
      /\ \A i \in 1 .. Len(events') : i + 1 \in 1 .. Len(events) /\ events'[i] = events[i + 1]
      /\ \A j \in 1 .. Len(events) : j > 1 => j - 1 \in 1 .. Len(events') /\ events'[j - 1] = events[j]
  BY <1>1, <1>2, TakenEvent
<1>4. ListIsExcused'
  BY <1>1, EventMarks DEF EventArrives
<1>5. MarksFollow'
  <2> SUFFICES ASSUME NEW i \in 1 .. Len(events'),
                      events'[i].kind = "made" /\ events'[i].id \in unsent
               PROVE  \E j \in 1 .. Len(events') :
                        i < j /\ events'[j] = UnsendOf(events'[i].id)
    BY <1>1 DEF MarksFollow, UnsendOf
  <2>1. i + 1 \in 1 .. Len(events) /\ events'[i] = events[i + 1]
    BY <1>3
  <2>2. PICK j \in 1 .. Len(events) : i + 1 < j /\ events[j] = UnsendOf(events[i + 1].id)
    BY <2>1 DEF RoomInv, MarksFollow
  <2>3. j > 1 /\ i < j - 1
    BY <2>2
  <2> QED
    BY <1>3, <2>1, <2>2, <2>3
<1>6. RoomIsOrdered'
  BY <1>1, <1>2, <1>3 DEF RoomInv, RoomIsOrdered
<1>7. AnswersTyped'
  <2>1. Asked \in Request
    BY DEF Asked, Request
  <2> QED
    BY <1>1, <2>1 DEF RoomInv, AnswersTyped, Ask
<1> QED
  BY <1>4, <1>5, <1>6, <1>7 DEF RoomInv

\* What is written back unmarked is recorded as lost.
LEMMA TranslatedKeeps ==
  ASSUME RoomInv, NEW ok \in BOOLEAN, Translated(ok)
  PROVE  RoomInv'
<1> DEFINE old == translating
           fact == UnsendOf(old.id)
<1>1. /\ UNCHANGED <<made, unsent, hidden, joined, events, requests>>
      /\ \/ UNCHANGED <<messages, lost>>
         \/ /\ messages' = Replaced(messages, old.id, old)
            /\ lost' = IF ~old.is_unsend /\ old.id \in unsent THEN lost \cup {fact} ELSE lost
  BY DEF Translated, serverVars, UnsendOf
<1> HIDE DEF old
<1>2. PICK S : messages \in Seq(S)
  BY DEF RoomInv, ListIsExcused
<1>3. ListIsExcused'
  <2>1. CASE UNCHANGED <<messages, lost>>
    <3>1. \A m : Coming(events, UnsendOf(m)) => Coming(events', UnsendOf(m))
      BY <1>1 DEF Coming, UnsendOf
    <3> QED
      BY <1>1, <2>1, <3>1, ListKeeps DEF RoomInv
  <2>2. CASE /\ messages' = Replaced(messages, old.id, old)
             /\ lost' = IF ~old.is_unsend /\ old.id \in unsent
                        THEN lost \cup {fact} ELSE lost
    <3>1. /\ messages' \in Seq(S \cup {old}) /\ Len(messages') = Len(messages)
          /\ \A i \in 1 .. Len(messages) : messages'[i] = old \/ messages'[i] = messages[i]
      <4>1. /\ Replaced(messages, old.id, old) \in Seq(S \cup {old})
            /\ Len(Replaced(messages, old.id, old)) = Len(messages)
        BY <1>2, ReplacedPointwise
      <4>2. ASSUME NEW i \in 1 .. Len(messages)
            PROVE  \/ Replaced(messages, old.id, old)[i] = old
                   \/ Replaced(messages, old.id, old)[i] = messages[i]
        BY <1>2 DEF Replaced
      <4> QED
        BY <2>2, <4>1, <4>2
    <3>2. lost \subseteq lost' /\ (~old.is_unsend /\ old.id \in unsent => fact \in lost')
      BY <2>2
    <3>3. ASSUME NEW i \in 1 .. Len(messages') PROVE Excused(messages'[i], unsent', events', lost')
      <4>1. CASE messages'[i] = old
        BY <1>1, <3>2, <4>1 DEF Excused
      <4>2. CASE messages'[i] = messages[i]
        <5>1. Excused(messages[i], unsent, events, lost)
          BY <3>1 DEF RoomInv, ListIsExcused
        <5>2. Coming(events, UnsendOf(messages[i].id)) => Coming(events', UnsendOf(messages'[i].id))
          BY <1>1, <4>2 DEF Coming, UnsendOf
        <5> QED
          BY <1>1, <3>2, <4>2, <5>1, <5>2 DEF Excused
      <4> QED
        BY <3>1, <4>1, <4>2
    <3> QED
      BY <3>1, <3>3 DEF ListIsExcused
  <2> QED
    BY <1>1, <2>1, <2>2
<1>4. MarksFollow' /\ RoomIsOrdered' /\ AnswersTyped'
  BY <1>1 DEF RoomInv, MarksFollow, UnsendOf, RoomIsOrdered, AnswersTyped
<1> QED
  BY <1>3, <1>4 DEF RoomInv

-----------------------------------------------------------------------------
LEMMA RoomStutters == ASSUME RoomInv, UNCHANGED roomVars PROVE RoomInv'
BY RoomKeeps DEF roomVars, serverVars, RoomInv, AnswersTyped

LEMMA RoomStep == RoomInv /\ [RoomNext]_roomVars => RoomInv'
<1> SUFFICES ASSUME RoomInv, [RoomNext]_roomVars PROVE RoomInv'
  OBVIOUS
<1>1. CASE Join
  BY <1>1, JoinKeeps
<1>2. CASE MessageMade
  BY <1>2, MessageMadeKeeps
<1>3. CASE \E m \in 1 .. made, here \in BOOLEAN : MessageUnsent(m, here)
  BY <1>3, MessageUnsentKeeps
<1>4. CASE \E m \in 1 .. made : MessageDeleted(m)
  BY <1>4, MessageDeletedKeeps
<1>5. CASE Disconnect
  BY <1>5, DisconnectKeeps
<1>6. CASE \E r \in Requests : Answered(r)
  BY <1>6, AnsweredKeeps
<1>7. CASE \E r \in Requests : HistoryApplied(r)
  BY <1>7, HistoryAppliedKeeps
<1>8. CASE \/ \E r \in Requests : HistoryFails(r)
           \/ \E ok \in BOOLEAN : UnsendAnswered(ok)
           \/ \E i \in 1 .. Len(messages) : TranslatePressed(i)
  BY <1>8, RequestEndsKeeps
<1>9. CASE EventArrives
  BY <1>9, EventArrivesKeeps
<1>10. CASE \E ok \in BOOLEAN : Translated(ok)
  BY <1>10, TranslatedKeeps
<1>11. CASE UNCHANGED roomVars
  BY <1>11, RoomStutters
<1> QED
  BY <1>1, <1>2, <1>3, <1>4, <1>5, <1>6, <1>7, <1>8, <1>9, <1>10, <1>11 DEF RoomNext

\* The inductive invariant of history answers, events, disconnections and
\* translations.
THEOREM RoomInvariant == RoomSpec => []RoomInv
<1>1. RoomInit => RoomInv
  BY InitiallyRoom
<1>2. RoomInv /\ [RoomNext]_roomVars => RoomInv'
  BY RoomStep
<1> QED
  BY <1>1, <1>2, PTL DEF RoomSpec

\* An un-sent message is shown as such, but for what the screen cannot know and for
\* a translation that began before.
THEOREM UnsendsAreShown == RoomSpec => []NoOtherUnsendIsMissing
<1>1. RoomInv => NoOtherUnsendIsMissing
  BY DEF RoomInv, ListIsExcused, Excused, Coming,
         NoOtherUnsendIsMissing, OnItsWay, UnsendOf
<1> QED
  BY <1>1, RoomInvariant, PTL

-----------------------------------------------------------------------------
(***************************************************************************)
(* Types.                                                                  *)
(***************************************************************************)

\* An event is told to the room or lost to this screen.
LEMMA ToldIsTyped ==
  ASSUME RoomTypeOK, NEW fact \in Facts, Tell(fact)
  PROVE  events' \in Seq(Events) /\ lost' \in SUBSET Facts
<1>1. fact \in Events /\ events \in Seq(Events)
  BY DEF Events, RoomTypeOK
<1>2. Append(events, fact) \in Seq(Events)
  BY <1>1
<1> QED
  BY <1>1, <1>2 DEF RoomTypeOK, Tell

\* A message in the place of others.
LEMMA ReplacedTyped ==
  ASSUME NEW list \in Seq(Message), NEW message \in Message, NEW id
  PROVE  /\ Replaced(list, id, message) \in Seq(Message)
         /\ Len(Replaced(list, id, message)) = Len(list)
<1>1. Message \cup {message} = Message
  OBVIOUS
<1>2. /\ Replaced(list, id, message) \in Seq(Message \cup {message})
      /\ Len(Replaced(list, id, message)) = Len(list)
  BY ReplacedPointwise
<1> QED
  BY <1>1, <1>2

LEMMA RoomTypedInit == RoomInit => RoomTypeOK
<1> SUFFICES ASSUME RoomInit PROVE RoomTypeOK
  OBVIOUS
<1> USE DEF RoomInit, RoomTypeOK
<1>1. requests \in [Requests -> Request]
  BY DEF Request, Asked, Idle
<1>2. lost \in SUBSET Facts
  BY RoomAssumption DEF Facts, Ids
<1>3. messages \in Seq(Message) /\ Len(messages) <= MaxList /\ events \in Seq(Events)
  BY RoomAssumption
<1> QED
  BY <1>1, <1>2, <1>3

\* The server's part of the state, when it alone changes.
LEMMA ServerKeepsTypes ==
  ASSUME RoomTypeOK,
         \/ Join \/ MessageMade \/ Disconnect
         \/ \E m \in 1 .. made, here \in BOOLEAN : MessageUnsent(m, here)
         \/ \E m \in 1 .. made : MessageDeleted(m)
         \/ \E r \in Requests : Answered(r)
  PROVE  RoomTypeOK'
<1>1. made \in Nat /\ made =< MaxMessages /\ MaxMessages \in Nat
  BY RoomAssumption DEF RoomTypeOK
<1>2. CASE Join
  BY <1>2 DEF Join, RoomTypeOK
<1>3. CASE MessageMade
  <2>1. [kind |-> "made", id |-> made + 1] \in Facts
    BY <1>1, <1>3 DEF MessageMade, Facts, Ids
  <2>2. events' \in Seq(Events) /\ lost' \in SUBSET Facts
    BY <1>3, <2>1, ToldIsTyped DEF MessageMade
  <2>3. /\ made' \in 0 .. MaxMessages
        /\ unsent' \in SUBSET (1 .. made') /\ hidden' \in SUBSET (1 .. made')
    BY <1>1, <1>3 DEF MessageMade, RoomTypeOK
  <2> QED
    BY <1>3, <2>2, <2>3 DEF MessageMade, RoomTypeOK
<1>4. CASE Disconnect
  <2>1. events' = <<>> /\ <<>> \in Seq(Events)
    BY <1>4 DEF Disconnect
  <2> QED
    BY <1>4, <2>1 DEF Disconnect, RoomTypeOK
<1>5. ASSUME NEW m \in 1 .. made, NEW here \in BOOLEAN, MessageUnsent(m, here)
      PROVE  RoomTypeOK'
  <2>1. [kind |-> "unsent", id |-> m] \in Facts
    BY <1>1 DEF Facts, Ids
  <2>2. events' \in Seq(Events) /\ lost' \in SUBSET Facts
    BY <1>5, <2>1, ToldIsTyped DEF MessageUnsent
  <2>3. unsent' \in SUBSET (1 .. made) /\ reloads' \in Nat
    BY <1>5 DEF MessageUnsent, RoomTypeOK
  <2> QED
    BY <1>5, <2>2, <2>3 DEF MessageUnsent, RoomTypeOK
<1>6. ASSUME NEW m \in 1 .. made, MessageDeleted(m) PROVE RoomTypeOK'
  <2> DEFINE event == [kind |-> "deleted", id |-> m]
  <2>1. event \in Events
    BY <1>1 DEF Events, Ids
  <2>2. events' = Append(events, event) \/ events' = events
    BY <1>6 DEF MessageDeleted
  <2>3. events \in Seq(Events)
    BY DEF RoomTypeOK
  <2> HIDE DEF event
  <2>4. events' \in Seq(Events)
    BY <2>1, <2>2, <2>3
  <2> QED
    BY <1>6, <2>4 DEF MessageDeleted, RoomTypeOK
<1>7. ASSUME NEW r \in Requests, Answered(r) PROVE RoomTypeOK'
  <2> DEFINE snapshot == [at |-> "answered", has |-> (1 .. made) \ hidden, unsent |-> unsent]
  <2>1. snapshot \in Request
    BY <1>1 DEF RoomTypeOK, Request, Ids
  <2>2. requests' = [requests EXCEPT ![r] = snapshot]
    BY <1>7 DEF Answered
  <2> HIDE DEF snapshot
  <2>3. requests' \in [Requests -> Request]
    BY <2>1, <2>2 DEF RoomTypeOK
  <2> QED
    BY <1>7, <2>3 DEF Answered, serverVars, RoomTypeOK
<1> QED
  BY <1>2, <1>3, <1>4, <1>5, <1>6, <1>7

\* The screen's part: its requests, its list, and the message it translates.
LEMMA ScreenKeepsTypes ==
  ASSUME RoomTypeOK,
         \/ \E r \in Requests : HistoryApplied(r) \/ HistoryFails(r)
         \/ \E ok \in BOOLEAN : UnsendAnswered(ok) \/ Translated(ok)
         \/ EventArrives
         \/ \E i \in 1 .. Len(messages) : TranslatePressed(i)
  PROVE  RoomTypeOK'
<1>1. Idle \in Request /\ Asked \in Request
  BY DEF Idle, Asked, Request
<1>2. messages \in Seq(Message) /\ Len(messages) <= MaxList /\ events \in Seq(Events)
  BY DEF RoomTypeOK
<1>3. ASSUME NEW r \in Requests, HistoryApplied(r) PROVE RoomTypeOK'
  <2> DEFINE answer == requests[r]
             list == Listed(answer.has, answer.unsent)
  <2>1. /\ requests' = [requests EXCEPT ![r] = Idle]
        /\ messages' = Optimised(list)
        /\ lost' = Overlooked(answer)
        /\ UNCHANGED <<serverVars, events, reloads, translating>>
    BY <1>3 DEF HistoryApplied
  <2>2. answer.has \in SUBSET Ids
    BY DEF RoomTypeOK, Request
  <2>3. list \in Seq(Message)
    BY <2>2, ListedInOrder
  <2> HIDE DEF list, answer
  <2>4. messages' \in Seq(Message) /\ Len(messages') <= MaxList
    BY <2>1, <2>3, OptimisedKeepsLast
  <2>5. lost' \in SUBSET Facts
    BY <2>1 DEF Overlooked
  <2>6. requests' \in [Requests -> Request]
    BY <1>1, <2>1 DEF RoomTypeOK
  <2> QED
    BY <2>1, <2>4, <2>5, <2>6 DEF serverVars, RoomTypeOK
<1>4. ASSUME NEW r \in Requests, HistoryFails(r) PROVE RoomTypeOK'
  BY <1>1, <1>4 DEF HistoryFails, serverVars, RoomTypeOK
<1>5. ASSUME NEW ok \in BOOLEAN, UnsendAnswered(ok) PROVE RoomTypeOK'
  <2>1. requests' \in [Requests -> Request] /\ reloads' \in Nat
    BY <1>1, <1>5 DEF UnsendAnswered, Ask, RoomTypeOK
  <2> QED
    BY <1>5, <2>1 DEF UnsendAnswered, serverVars, RoomTypeOK
<1>6. ASSUME NEW ok \in BOOLEAN, Translated(ok) PROVE RoomTypeOK'
  <2>1. /\ translating \in Message /\ translating' = NoMessage
        /\ UNCHANGED <<serverVars, events, requests, reloads>>
        /\ \/ UNCHANGED <<messages, lost>>
           \/ /\ messages' = Replaced(messages, translating.id, translating)
              /\ lost' \subseteq lost \cup {UnsendOf(translating.id)}
    BY <1>6 DEF Translated, RoomTypeOK, UnsendOf
  <2>2. UnsendOf(translating.id) \in Facts
    BY <2>1 DEF Message, Facts, UnsendOf
  <2>3. messages' \in Seq(Message) /\ Len(messages') <= MaxList
    BY <1>2, <2>1, ReplacedTyped
  <2>4. lost' \in SUBSET Facts
    BY <2>1, <2>2 DEF RoomTypeOK
  <2> QED
    BY <2>1, <2>3, <2>4 DEF serverVars, RoomTypeOK
<1>7. CASE EventArrives
  <2> DEFINE event == Head(events)
             new == [id |-> event.id, is_unsend |-> FALSE]
             mark == [id |-> event.id, is_unsend |-> TRUE]
  <2>1. /\ events' \in Seq(Events) /\ event \in Events
        /\ UNCHANGED <<serverVars, reloads, translating, lost>>
    BY <1>2, <1>7 DEF EventArrives
  <2>2. new \in Message /\ mark \in Message /\ mark.id = event.id
    BY <2>1 DEF Events, Facts, Message
  <2>3. requests' \in [Requests -> Request]
    BY <1>1, <1>7 DEF EventArrives, Ask, RoomTypeOK
  <2>4. \/ messages' = Optimised(Append(messages, new))
        \/ messages' = Replaced(messages, mark.id, mark)
        \/ messages' = messages
    BY <1>7 DEF EventArrives, Marked
  <2> HIDE DEF new, mark, event
  <2>5. CASE messages' = Optimised(Append(messages, new))
    <3>1. Append(messages, new) \in Seq(Message)
      BY <1>2, <2>2
    <3>2. messages' \in Seq(Message) /\ Len(messages') <= MaxList
      BY <2>5, <3>1, OptimisedKeepsLast
    <3> QED
      BY <2>1, <2>3, <3>2 DEF serverVars, RoomTypeOK
  <2>6. CASE messages' = Replaced(messages, mark.id, mark)
    <3>1. messages' \in Seq(Message) /\ Len(messages') <= MaxList
      BY <1>2, <2>2, <2>6, ReplacedTyped
    <3> QED
      BY <2>1, <2>3, <3>1 DEF serverVars, RoomTypeOK
  <2>7. CASE messages' = messages
    BY <2>1, <2>3, <2>7 DEF serverVars, RoomTypeOK
  <2> QED
    BY <2>4, <2>5, <2>6, <2>7
<1>8. ASSUME NEW i \in 1 .. Len(messages), TranslatePressed(i) PROVE RoomTypeOK'
  <2>1. messages[i] \in Message
    BY <1>2
  <2> QED
    BY <1>8, <2>1 DEF TranslatePressed, serverVars, RoomTypeOK
<1> QED
  BY <1>3, <1>4, <1>5, <1>6, <1>7, <1>8

LEMMA RoomTypedStep == RoomTypeOK /\ [RoomNext]_roomVars => RoomTypeOK'
<1> SUFFICES ASSUME RoomTypeOK, [RoomNext]_roomVars PROVE RoomTypeOK'
  OBVIOUS
<1>1. CASE UNCHANGED roomVars
  BY <1>1 DEF roomVars, serverVars, RoomTypeOK
<1> QED
  BY <1>1, ServerKeepsTypes, ScreenKeepsTypes DEF RoomNext

\* The server, the socket, the requests and the list have their types, and
\* optimizeMemory() keeps the list to its length whatever fills it.
THEOREM RoomTyped == RoomSpec => []RoomTypeOK
BY RoomTypedInit, RoomTypedStep, PTL DEF RoomSpec

-----------------------------------------------------------------------------
(***************************************************************************)
(* Messages. They are numbered as they are made, and their events come in  *)
(* that order and until the connection breaks: behind the event of a       *)
(* message are those of all newer ones. So a list that gets a message from *)
(* an event is up to date but for what is still on its way, and one that   *)
(* is cut has kept what is newer.                                          *)
(***************************************************************************)

MadeOf(m) == [kind |-> "made", id |-> m]

MadeInOrder ==
  /\ \A i \in 1 .. Len(events) : events[i].kind = "made" => events[i].id =< made
  /\ \A i, j \in 1 .. Len(events) :
       i < j /\ events[i].kind = "made" /\ events[j].kind = "made"
         => events[i].id < events[j].id

NewerFollow ==
  \A i \in 1 .. Len(events) :
    events[i].kind = "made" =>
      \A m \in 1 .. made : m > events[i].id => Coming(events, MadeOf(m))

EventsInOrder == (~joined => events = <<>>) /\ MadeInOrder /\ NewerFollow

\* Message m or a newer one is shown.
ShownUpTo(m) == \E i \in 1 .. Len(messages) : messages[i].id >= m

Accounted(m) == ShownUpTo(m) \/ Coming(events, MadeOf(m)) \/ MadeOf(m) \in lost

MessagesInv ==
  RoomTypeOK /\ EventsInOrder /\ \A m \in (1 .. made) \ hidden : Accounted(m)

LEMMA MessagesInit == RoomInit => MessagesInv
<1> SUFFICES ASSUME RoomInit PROVE MessagesInv
  OBVIOUS
<1>1. events = <<>> /\ Len(<<>>) = 0
  BY DEF RoomInit
<1>2. EventsInOrder
  BY <1>1 DEF EventsInOrder, MadeInOrder, NewerFollow
<1>3. \A m \in 1 .. made : MadeOf(m) \in lost
  BY DEF RoomInit, MadeOf
<1> QED
  BY <1>2, <1>3, RoomTypedInit DEF MessagesInv, Accounted

\* An event that makes no message changes nothing of their order.
LEMMA OtherEventInOrder ==
  ASSUME RoomTypeOK, EventsInOrder, NEW event \in Events, event.kind # "made",
         joined, joined', made' = made, events' = Append(events, event)
  PROVE  EventsInOrder' /\ \A f : Coming(events, f) => Coming(events', f)
<1>1. events \in Seq(Events) /\ made \in Nat
  BY DEF RoomTypeOK
<1>2. /\ Len(events') = Len(events) + 1 /\ Len(events) \in Nat
      /\ \A i \in 1 .. Len(events) : events'[i] = events[i]
      /\ events'[Len(events')] = event
      /\ \A f : Coming(events, f) => Coming(events', f)
  BY <1>1, AppendedEvent
<1>3. \A i \in 1 .. Len(events') :
        events'[i].kind = "made" => i \in 1 .. Len(events) /\ events'[i] = events[i]
  BY <1>2
<1>4. MadeInOrder'
  BY <1>3 DEF EventsInOrder, MadeInOrder
<1>5. NewerFollow'
  <2> SUFFICES ASSUME NEW i \in 1 .. Len(events'), events'[i].kind = "made",
                      NEW m \in 1 .. made, m > events'[i].id
               PROVE  Coming(events', MadeOf(m))
    BY DEF NewerFollow, MadeOf
  <2> QED
    BY <1>2, <1>3 DEF EventsInOrder, NewerFollow
<1> QED
  BY <1>2, <1>4, <1>5 DEF EventsInOrder

\* The message that is made is the newest: its event is behind all others.
LEMMA NewMessageInOrder ==
  ASSUME RoomTypeOK, EventsInOrder, made < MaxMessages,
         joined, joined', made' = made + 1, events' = Append(events, MadeOf(made + 1))
  PROVE  /\ EventsInOrder'
         /\ Coming(events', MadeOf(made + 1))
         /\ \A f : Coming(events, f) => Coming(events', f)
<1>1. events \in Seq(Events) /\ made \in Nat /\ made + 1 \in Ids
  BY RoomAssumption DEF RoomTypeOK, Ids
<1>2. MadeOf(made + 1) \in Events /\ MadeOf(made + 1).id = made + 1
  BY <1>1 DEF MadeOf, Events, Facts
<1>3. /\ events' \in Seq(Events)
      /\ Len(events') = Len(events) + 1 /\ Len(events) \in Nat
      /\ \A i \in 1 .. Len(events) : events'[i] = events[i]
      /\ events'[Len(events')] = MadeOf(made + 1)
      /\ Coming(events', MadeOf(made + 1))
      /\ \A f : Coming(events, f) => Coming(events', f)
  BY <1>1, <1>2, AppendedEvent
<1>4. \A i \in 1 .. Len(events') :
        \/ i \in 1 .. Len(events) /\ events'[i] = events[i]
        \/ i = Len(events) + 1 /\ events'[i].id = made + 1
  BY <1>2, <1>3
<1>5. \A i \in 1 .. Len(events') : events'[i].id \in Nat
  <2>1. ASSUME NEW i \in 1 .. Len(events') PROVE events'[i] \in Events
    BY <1>3
  <2> QED
    BY <2>1 DEF Events, Facts, Ids
<1>6. MadeInOrder'
  <2>1. ASSUME NEW i \in 1 .. Len(events'), events'[i].kind = "made"
        PROVE  events'[i].id =< made'
    <3>1. CASE i \in 1 .. Len(events) /\ events'[i] = events[i]
      BY <1>1, <1>5, <2>1, <3>1 DEF EventsInOrder, MadeInOrder
    <3> QED
      BY <1>1, <1>4, <3>1
  <2>2. ASSUME NEW i \in 1 .. Len(events'), NEW j \in 1 .. Len(events'),
               i < j, events'[i].kind = "made", events'[j].kind = "made"
        PROVE  events'[i].id < events'[j].id
    <3>1. i \in 1 .. Len(events) /\ events'[i] = events[i]
      BY <1>3, <1>4, <2>2
    <3>2. CASE j \in 1 .. Len(events) /\ events'[j] = events[j]
      BY <2>2, <3>1, <3>2 DEF EventsInOrder, MadeInOrder
    <3>3. CASE events'[j].id = made + 1
      <4>1. events[i].id =< made /\ events[i].id \in Nat
        BY <1>5, <2>2, <3>1 DEF EventsInOrder, MadeInOrder
      <4> QED
        BY <1>1, <3>1, <3>3, <4>1
    <3> QED
      BY <1>4, <3>2, <3>3
  <2> QED
    BY <2>1, <2>2 DEF MadeInOrder
<1>7. NewerFollow'
  <2> SUFFICES ASSUME NEW i \in 1 .. Len(events'), events'[i].kind = "made",
                      NEW m \in 1 .. made + 1, m > events'[i].id
               PROVE  Coming(events', MadeOf(m))
    BY DEF NewerFollow, MadeOf
  <2>1. CASE m = made + 1
    BY <1>3, <2>1
  <2>2. CASE m \in 1 .. made
    <3>1. i \in 1 .. Len(events) /\ events'[i] = events[i]
      BY <1>1, <1>4, <2>2
    <3> QED
      BY <1>3, <2>2, <3>1 DEF EventsInOrder, NewerFollow
  <2> QED
    BY <1>1, <2>1, <2>2
<1> QED
  BY <1>3, <1>6, <1>7 DEF EventsInOrder

\* The rest of the events is in order when the first is taken.
LEMMA RestInOrder ==
  ASSUME RoomTypeOK, EventsInOrder, events # <<>>, events' = Tail(events),
         UNCHANGED <<made, joined>>
  PROVE  EventsInOrder'
<1>1. events \in Seq(Events) /\ made \in Nat
  BY DEF RoomTypeOK
<1>2. /\ events' \in Seq(Events) /\ Len(events') = Len(events) - 1
      /\ Head(events) \in Events /\ Head(events) = events[1]
      /\ \A i \in 1 .. Len(events') : i + 1 \in 1 .. Len(events) /\ events'[i] = events[i + 1]
      /\ \A f : f # Head(events) /\ Coming(events, f) => Coming(events', f)
  BY <1>1, TakenEvent
<1>3. Len(events) \in Nat /\ 1 \in 1 .. Len(events)
  BY <1>1
<1>4. MadeInOrder'
  <2>1. \A i \in 1 .. Len(events') : events'[i].kind = "made" => events'[i].id =< made
    BY <1>2 DEF EventsInOrder, MadeInOrder
  <2>2. \A i, j \in 1 .. Len(events') : i < j => i + 1 < j + 1
    BY <1>2, <1>3
  <2>3. \A i, j \in 1 .. Len(events') :
          i < j /\ events'[i].kind = "made" /\ events'[j].kind = "made"
            => events'[i].id < events'[j].id
    BY <1>2, <2>2 DEF EventsInOrder, MadeInOrder
  <2> QED
    BY <2>1, <2>3 DEF MadeInOrder
<1>5. NewerFollow'
  <2> SUFFICES ASSUME NEW i \in 1 .. Len(events'), events'[i].kind = "made",
                      NEW m \in 1 .. made, m > events'[i].id
               PROVE  Coming(events', MadeOf(m))
    BY DEF NewerFollow, MadeOf
  <2>1. i + 1 \in 1 .. Len(events) /\ events'[i] = events[i + 1] /\ 1 < i + 1
    BY <1>2, <1>3
  <2>2. Coming(events, MadeOf(m))
    BY <2>1 DEF EventsInOrder, NewerFollow
  <2>3. MadeOf(m) # Head(events)
    <3> SUFFICES ASSUME MadeOf(m) = events[1] PROVE FALSE
      BY <1>2
    <3>1. events[1].kind = "made" /\ events[1].id = m
      BY DEF MadeOf
    <3>2. events[1].id < events[i + 1].id
      BY <1>3, <2>1, <3>1 DEF EventsInOrder, MadeInOrder
    <3>3. events[i + 1] \in Events
      BY <1>1, <2>1
    <3>4. events[i + 1].id \in Nat
      BY <3>3 DEF Events, Facts, Ids
    <3> QED
      BY <2>1, <3>1, <3>2, <3>4
  <2> QED
    BY <1>2, <2>2, <2>3
<1> QED
  BY <1>1, <1>2, <1>4, <1>5 DEF EventsInOrder

\* The server's steps: what is new is on its way, or lost.
LEMMA ServerAccounts ==
  ASSUME MessagesInv,
         \/ MessageMade \/ Disconnect
         \/ \E m \in 1 .. made, here \in BOOLEAN : MessageUnsent(m, here)
         \/ \E m \in 1 .. made : MessageDeleted(m)
  PROVE  EventsInOrder' /\ \A m \in (1 .. made') \ hidden' : Accounted(m)'
<1>1. /\ RoomTypeOK /\ EventsInOrder /\ \A m \in (1 .. made) \ hidden : Accounted(m)
      /\ made \in Nat
  BY DEF MessagesInv, RoomTypeOK
<1>2. ASSUME UNCHANGED messages, hidden \subseteq hidden', lost \subseteq lost', EventsInOrder',
             \A f : f.kind = "made" /\ Coming(events, f) => Coming(events', f) \/ f \in lost',
             \A m \in 1 .. made' : m \in 1 .. made \/ Coming(events', MadeOf(m))
                                   \/ MadeOf(m) \in lost'
      PROVE  EventsInOrder' /\ \A m \in (1 .. made') \ hidden' : Accounted(m)'
  <2> SUFFICES ASSUME NEW m \in (1 .. made') \ hidden' PROVE Accounted(m)'
    BY <1>2
  <2> USE DEF Accounted, ShownUpTo, MadeOf
  <2>1. CASE m \in 1 .. made
    <3>1. Accounted(m)
      BY <1>1, <1>2, <2>1
    <3> QED
      BY <1>2, <3>1
  <2>2. CASE Coming(events', MadeOf(m)) \/ MadeOf(m) \in lost'
    BY <2>2
  <2> QED
    BY <1>2, <2>1, <2>2
<1>3. ASSUME UNCHANGED <<joined, events>>, ~joined, made' \in Nat PROVE EventsInOrder'
  BY <1>1, <1>3 DEF EventsInOrder, MadeInOrder, NewerFollow
<1>4. \A f : Coming(events, f) /\ events' = events => Coming(events', f)
  BY DEF Coming
<1>5. CASE MessageMade
  <2>1. /\ made < MaxMessages /\ made' = made + 1 /\ UNCHANGED <<messages, hidden, joined>>
        /\ IF joined THEN events' = Append(events, MadeOf(made + 1)) /\ lost' = lost
                     ELSE events' = events /\ lost' = lost \cup {MadeOf(made + 1)}
    BY <1>5 DEF MessageMade, Tell, MadeOf
  <2>2. CASE joined
    BY <1>1, <1>2, <2>1, <2>2, NewMessageInOrder
  <2>3. CASE ~joined
    BY <1>1, <1>2, <1>3, <1>4, <2>1, <2>3
  <2> QED
    BY <2>2, <2>3
<1>6. ASSUME NEW event \in Events, event.kind # "made",
             UNCHANGED <<made, messages, joined>>, hidden \subseteq hidden', lost \subseteq lost',
             IF joined THEN events' = Append(events, event) ELSE events' = events
      PROVE  EventsInOrder' /\ \A m \in (1 .. made') \ hidden' : Accounted(m)'
  <2>1. CASE joined
    BY <1>1, <1>2, <1>6, <2>1, OtherEventInOrder
  <2>2. CASE ~joined
    BY <1>1, <1>2, <1>3, <1>4, <1>6, <2>2
  <2> QED
    BY <2>1, <2>2
<1>7. \A m \in 1 .. made : m \in Ids
  BY <1>1, RoomAssumption DEF RoomTypeOK, Ids
<1>8. ASSUME NEW m \in 1 .. made, NEW here \in BOOLEAN, MessageUnsent(m, here)
      PROVE  EventsInOrder' /\ \A n \in (1 .. made') \ hidden' : Accounted(n)'
  <2> DEFINE event == [kind |-> "unsent", id |-> m]
  <2>1. event \in Events /\ event.kind # "made"
    BY <1>7 DEF Events, Facts
  <2>2. /\ UNCHANGED <<made, messages, joined, hidden>> /\ lost \subseteq lost'
        /\ IF joined THEN events' = Append(events, event) ELSE events' = events
    BY <1>8 DEF MessageUnsent, Tell
  <2> HIDE DEF event
  <2> QED
    BY <1>6, <2>1, <2>2
<1>9. ASSUME NEW m \in 1 .. made, MessageDeleted(m)
      PROVE  EventsInOrder' /\ \A n \in (1 .. made') \ hidden' : Accounted(n)'
  <2> DEFINE event == [kind |-> "deleted", id |-> m]
  <2>1. event \in Events /\ event.kind # "made"
    BY <1>7 DEF Events
  <2>2. /\ UNCHANGED <<made, messages, joined, lost>> /\ hidden \subseteq hidden'
        /\ IF joined THEN events' = Append(events, event) ELSE events' = events
    BY <1>9 DEF MessageDeleted
  <2> HIDE DEF event
  <2> QED
    BY <1>6, <2>1, <2>2
<1>10. CASE Disconnect
  <2>1. /\ events' = <<>> /\ UNCHANGED <<made, messages, hidden>>
        /\ lost' = lost \cup ({events[i] : i \in 1 .. Len(events)} \cap Facts)
    BY <1>10 DEF Disconnect
  <2>2. ASSUME NEW f, f.kind = "made", Coming(events, f) PROVE f \in lost'
    <3>1. events \in Seq(Events)
      BY DEF MessagesInv, RoomTypeOK
    <3>2. f \in Events
      BY <2>2, <3>1 DEF Coming
    <3>3. f \in Facts
      BY <2>2, <3>2 DEF Events, Facts
    <3> QED
      BY <2>1, <2>2, <3>3 DEF Coming
  <2>3. EventsInOrder'
    <3>1. Len(events') = 0
      BY <2>1
    <3> QED
      BY <2>1, <3>1 DEF EventsInOrder, MadeInOrder, NewerFollow
  <2> QED
    BY <1>2, <2>1, <2>2, <2>3
<1> QED
  BY <1>5, <1>8, <1>9, <1>10

\* The answer to a history request, cut to the newest: what it does not have is on
\* its way, or lost.
LEMMA HistoryAccounts ==
  ASSUME MessagesInv, NEW r \in Requests, HistoryApplied(r)
  PROVE  \A m \in (1 .. made') \ hidden' : Accounted(m)'
<1> DEFINE answer == requests[r]
           list == Listed(answer.has, answer.unsent)
<1>1. /\ messages' = Optimised(list)
      /\ lost' = Overlooked(answer)
      /\ UNCHANGED <<made, hidden, events>>
  BY DEF HistoryApplied, serverVars
<1>2. answer.has \in SUBSET Ids /\ RoomTypeOK
  BY DEF MessagesInv, RoomTypeOK, Request
<1> HIDE DEF answer
<1>3. /\ list \in Seq(Message)
      /\ Len(list) = Cardinality(answer.has)
      /\ \A m \in answer.has : \E i \in 1 .. Len(list) : list[i].id = m
      /\ \A i, j \in 1 .. Len(list) : i < j => list[i].id < list[j].id
  BY <1>2, ListedInOrder
<1> HIDE DEF list
<1>4. /\ messages' \in Seq(Message)
      /\ list # <<>> => /\ messages' # <<>>
                        /\ messages'[Len(messages')] = list[Len(list)]
  BY <1>1, <1>3, OptimisedKeepsLast
<1> SUFFICES ASSUME NEW m \in (1 .. made) \ hidden PROVE Accounted(m)'
  BY <1>1
<1>5. CASE m \in answer.has
  <2>1. PICK i \in 1 .. Len(list) : list[i].id = m
    BY <1>3, <1>5
  <2>2. /\ Len(list) \in 1 .. Len(list) /\ list # <<>> /\ list[i] \in Message
        /\ list[Len(list)] \in Message /\ Len(list) \in Nat
    BY <1>3, <2>1
  <2>3. list[Len(list)].id \in Nat /\ m \in Nat
    BY <2>1, <2>2 DEF Message, Ids
  <2>4. list[Len(list)].id >= m
    <3>1. CASE i = Len(list)
      BY <2>1, <2>3, <3>1
    <3>2. CASE i < Len(list)
      BY <1>3, <2>1, <2>2, <2>3, <3>2
    <3> QED
      BY <2>1, <2>2, <3>1, <3>2
  <2>5. Len(messages') \in 1 .. Len(messages')
    BY <1>4, <2>2
  <2> QED
    BY <1>4, <2>2, <2>4, <2>5 DEF Accounted, ShownUpTo
<1>6. CASE m \notin answer.has /\ ~Coming(events, MadeOf(m))
  <2>1. m \in Ids
    BY <1>2, RoomAssumption DEF RoomTypeOK, Ids
  <2>2. MadeOf(m) \in Facts /\ MadeOf(m).kind = "made" /\ MadeOf(m).id = m
    BY <2>1 DEF MadeOf, Facts
  <2>3. MadeOf(m) \in Overlooked(answer)
    BY <1>6, <2>2 DEF Overlooked, Coming
  <2> QED
    BY <1>1, <2>3 DEF Accounted, MadeOf
<1>7. CASE Coming(events, MadeOf(m))
  BY <1>1, <1>7 DEF Accounted, Coming, MadeOf
<1> QED
  BY <1>5, <1>6, <1>7

\* An event that arrives. A new message goes to the end of the list, which is then
\* cut from the other one: what it drops is older, or about to come again.
LEMMA EventAccounts ==
  ASSUME MessagesInv, EventArrives
  PROVE  EventsInOrder' /\ \A m \in (1 .. made') \ hidden' : Accounted(m)'
<1> DEFINE event == Head(events)
           new == [id |-> event.id, is_unsend |-> FALSE]
<1>1. /\ events # <<>> /\ events' = Tail(events)
      /\ UNCHANGED <<made, hidden, joined, lost>>
  BY DEF EventArrives, serverVars
<1>2. /\ RoomTypeOK /\ EventsInOrder /\ \A m \in (1 .. made) \ hidden : Accounted(m)
      /\ events \in Seq(Events) /\ messages \in Seq(Message) /\ made \in Nat
  BY DEF MessagesInv, RoomTypeOK
<1>3. EventsInOrder'
  BY <1>1, <1>2, RestInOrder
<1>4. /\ event \in Events /\ event = events[1] /\ 1 \in 1 .. Len(events)
      /\ \A f : f # event /\ Coming(events, f) => Coming(events', f)
  BY <1>1, <1>2, TakenEvent
<1>5. \/ event.kind = "made" /\ messages' = Optimised(Append(messages, new))
      \/ event.kind = "unsent" /\ messages' = Marked(messages, event.id)
      \/ event.kind = "deleted" /\ messages' = messages
  BY DEF EventArrives
<1> HIDE DEF event
<1> SUFFICES ASSUME NEW m \in (1 .. made) \ hidden PROVE Accounted(m)'
  BY <1>1, <1>3
<1>6. Accounted(m)
  BY <1>2
<1>7. CASE event.kind = "made" /\ messages' = Optimised(Append(messages, new))
  <2>1. new \in Message /\ event.id \in Nat
    BY <1>4 DEF Events, Facts, Message, Ids
  <2>2. new.id = event.id
    OBVIOUS
  <2> DEFINE list == Append(messages, new)
  <2> HIDE DEF new
  <2>3. list \in Seq(Message) /\ list # <<>> /\ list[Len(list)] = new
    BY <1>2, <2>1
  <2>4. messages' = Optimised(list)
    BY <1>7
  <2> HIDE DEF list
  <2>5. /\ messages' \in Seq(Message) /\ messages' # <<>>
        /\ messages'[Len(messages')] = new
    BY <2>3, <2>4, OptimisedKeepsLast
  <2>6. Len(messages') \in 1 .. Len(messages')
    BY <2>5
  <2>7. CASE m =< event.id
    <3>1. messages'[Len(messages')].id >= m
      BY <2>1, <2>2, <2>5, <2>7
    <3> QED
      BY <2>6, <3>1 DEF Accounted, ShownUpTo
  <2>8. CASE m > event.id
    <3>1. Coming(events, MadeOf(m))
      BY <1>2, <1>4, <1>7, <2>8 DEF EventsInOrder, NewerFollow
    <3>2. MadeOf(m) # event
      BY <2>1, <2>8 DEF MadeOf
    <3> QED
      BY <1>4, <3>1, <3>2 DEF Accounted, MadeOf
  <2> QED
    BY <2>1, <2>7, <2>8
<1>8. CASE event.kind # "made"
  <2>1. /\ Len(messages') = Len(messages)
        /\ \A i \in 1 .. Len(messages) : messages'[i].id = messages[i].id
    <3>1. CASE messages' = messages
      BY <3>1
    <3>2. CASE messages' = Marked(messages, event.id)
      <4> DEFINE mark == [id |-> event.id, is_unsend |-> TRUE]
      <4>1. messages' = Replaced(messages, mark.id, mark)
        BY <3>2 DEF Marked
      <4> HIDE DEF mark
      <4> QED
        BY <1>2, <4>1, NumbersStay
    <3> QED
      BY <1>5, <1>8, <3>1, <3>2
  <2>2. MadeOf(m) # event
    BY <1>8 DEF MadeOf
  <2>3. Coming(events, MadeOf(m)) => Coming(events', MadeOf(m))
    BY <1>4, <2>2
  <2> QED
    BY <1>1, <1>6, <2>1, <2>3 DEF Accounted, ShownUpTo, MadeOf
<1> QED
  BY <1>5, <1>7, <1>8

\* What else the screen does moves no message.
LEMMA OthersAccount ==
  ASSUME MessagesInv,
         \/ Join
         \/ \E r \in Requests : Answered(r) \/ HistoryFails(r)
         \/ \E ok \in BOOLEAN : UnsendAnswered(ok) \/ Translated(ok)
         \/ \E i \in 1 .. Len(messages) : TranslatePressed(i)
         \/ UNCHANGED roomVars
  PROVE  \A m \in (1 .. made') \ hidden' : Accounted(m)'
<1>1. /\ UNCHANGED <<made, hidden, events>> /\ lost \subseteq lost'
      /\ \/ messages' = messages
         \/ messages' = Replaced(messages, translating.id, translating)
  BY DEF Join, Answered, HistoryFails, UnsendAnswered, Translated, TranslatePressed,
         serverVars, roomVars
<1>2. messages \in Seq(Message) /\ \A m \in (1 .. made) \ hidden : Accounted(m)
  BY DEF MessagesInv, RoomTypeOK
<1>3. /\ Len(messages') = Len(messages)
      /\ \A i \in 1 .. Len(messages) : messages'[i].id = messages[i].id
  BY <1>1, <1>2, NumbersStay
<1>4. \A f : Coming(events, f) => Coming(events', f)
  BY <1>1 DEF Coming
<1> QED
  BY <1>1, <1>2, <1>3, <1>4 DEF Accounted, ShownUpTo, MadeOf

LEMMA MessagesStep == MessagesInv /\ [RoomNext]_roomVars => MessagesInv'
<1> SUFFICES ASSUME MessagesInv, [RoomNext]_roomVars PROVE MessagesInv'
  OBVIOUS
<1>1. RoomTypeOK'
  BY RoomTypedStep DEF MessagesInv
<1>2. ASSUME UNCHANGED <<made, joined, events>> \/ Join PROVE EventsInOrder'
  BY <1>2 DEF MessagesInv, EventsInOrder, MadeInOrder, NewerFollow, MadeOf, Coming, Join
<1>3. CASE \/ MessageMade \/ Disconnect
           \/ \E m \in 1 .. made, here \in BOOLEAN : MessageUnsent(m, here)
           \/ \E m \in 1 .. made : MessageDeleted(m)
  BY <1>1, <1>3, ServerAccounts DEF MessagesInv
<1>4. CASE \E r \in Requests : HistoryApplied(r)
  <2>1. UNCHANGED <<made, joined, events>>
    BY <1>4 DEF HistoryApplied, serverVars
  <2> QED
    BY <1>1, <1>2, <1>4, <2>1, HistoryAccounts DEF MessagesInv
<1>5. CASE EventArrives
  BY <1>1, <1>5, EventAccounts DEF MessagesInv
<1>6. CASE \/ Join
           \/ \E r \in Requests : Answered(r) \/ HistoryFails(r)
           \/ \E ok \in BOOLEAN : UnsendAnswered(ok) \/ Translated(ok)
           \/ \E i \in 1 .. Len(messages) : TranslatePressed(i)
           \/ UNCHANGED roomVars
  <2>1. UNCHANGED <<made, joined, events>> \/ Join
    BY <1>6 DEF Answered, HistoryFails, UnsendAnswered, Translated, TranslatePressed,
                serverVars, roomVars
  <2> QED
    BY <1>1, <1>2, <1>6, <2>1, OthersAccount DEF MessagesInv
<1> QED
  BY <1>3, <1>4, <1>5, <1>6 DEF RoomNext

\* The inductive invariant of messages, events and the list.
THEOREM MessagesInvariant == RoomSpec => []MessagesInv
BY MessagesInit, MessagesStep, PTL DEF RoomSpec

\* A message is shown, on its way, or older than one that is shown, but for what the
\* screen cannot know: optimizeMemory(), a history answer that is out of date and
\* events that arrive in between drop nothing else.
THEOREM MessagesAreShown == RoomSpec => []NoOtherMessageIsMissing
<1>1. MessagesInv => NoOtherMessageIsMissing
  <2> SUFFICES ASSUME MessagesInv, NEW m \in (1 .. made) \ hidden, ShownUpTo(m)
               PROVE  m \in Shows(messages) \/ \E n \in Shows(messages) : n > m
    BY DEF MessagesInv, Accounted, NoOtherMessageIsMissing, OnItsWay, Coming, MadeOf
  <2>1. PICK i \in 1 .. Len(messages) : messages[i].id >= m
    BY DEF ShownUpTo
  <2>2. messages[i] \in Message
    BY DEF MessagesInv, RoomTypeOK
  <2>3. messages[i].id \in Nat /\ messages[i].id \in Shows(messages)
    BY <2>2 DEF Message, Ids, Shows
  <2> QED
    BY <2>1, <2>3
<1> QED
  BY <1>1, MessagesInvariant, PTL
=============================================================================
