-------------------------------- MODULE ChatRoom --------------------------------
(***************************************************************************)
(* The chat screen during one visit of a conversation: its list is         *)
(* replaced by the answers to history requests, extended and marked by the *)
(* events of the socket, and written back by translations. The server, its *)
(* socket channel and the network are external; a visit shares nothing     *)
(* with another one, as an answer to a screen that has been left changes   *)
(* nothing.                                                                *)
(*                                                                         *)
(* What there is to know is a set of facts: a message was made, a message  *)
(* was un-sent. The order of the list is the order of the numbers of the   *)
(* messages when a history fills it, and of the events afterwards.         *)
(***************************************************************************)
EXTENDS Naturals, Sequences, FiniteSets

CONSTANTS
  Requests,     \* the history requests that can be under way at a time
  MaxMessages,  \* bound of the model on the messages of the conversation
  MaxUnsent,    \* bound of the model on the messages un-sent, and on those deleted
  MaxEvents,    \* bound of the model on the events of the socket on their way
  MaxList,      \* the list is cut when it is longer (100 in the code)
  Keep          \* ... to this many (50)

ASSUME RoomAssumption ==
  /\ MaxMessages \in Nat /\ MaxUnsent \in Nat /\ MaxEvents \in Nat
  /\ MaxList \in Nat /\ Keep \in 1 .. MaxList

VARIABLES
  made,         \* external: messages made so far, numbered in their order
  unsent,       \* external: those that were un-sent
  hidden,       \* external: those deleted for this user
  joined,       \* external: the server sends the events to this socket
  events,       \* external: events on their way, in order
  requests,     \* the history requests, each with the snapshot it is answered with
  reloads,      \* answered un-send requests that will ask for the history
  messages,     \* the list of the screen
  translating,  \* the message being translated as it was, NoMessage for none
  lost          \* history: facts only a further history request can tell

serverVars == <<made, unsent, hidden, joined>>
roomVars == <<serverVars, events, requests, reloads, messages, translating, lost>>

Ids == 1 .. MaxMessages
Facts == [kind : {"made", "unsent"}, id : Ids]
Events == Facts \cup [kind : {"deleted"}, id : Ids]
Message == [id : Ids, is_unsend : BOOLEAN]
NoMessage == [id |-> 0, is_unsend |-> FALSE]

\* A request is idle, under way, or answered with the messages not deleted for
\* the user and which of them were un-sent.
Request == [at : {"idle", "asked", "answered"}, has : SUBSET Ids, unsent : SUBSET Ids]
Idle == [at |-> "idle", has |-> {}, unsent |-> {}]
Asked == [at |-> "asked", has |-> {}, unsent |-> {}]

RoomTypeOK ==
  /\ made \in 0 .. MaxMessages
  /\ unsent \in SUBSET (1 .. made) /\ hidden \in SUBSET (1 .. made)
  /\ joined \in BOOLEAN
  /\ events \in Seq(Events)
  /\ requests \in [Requests -> Request]
  /\ reloads \in Nat
  /\ messages \in Seq(Message) /\ Len(messages) <= MaxList
  /\ translating \in Message \cup {NoMessage}
  /\ lost \in SUBSET Facts

\* The screen opens: it asks for the history and to be let into the room. The
\* conversation is new or has messages already.
RoomInit ==
  /\ made \in 0 .. MaxMessages
  /\ unsent = {} /\ hidden = {}
  /\ joined = FALSE
  /\ events = <<>>
  /\ \E first \in Requests :
       requests = [r \in Requests |-> IF r = first THEN Asked ELSE Idle]
  /\ reloads = 0
  /\ messages = <<>>
  /\ translating = NoMessage
  /\ lost = [kind : {"made"}, id : 1 .. made]

-----------------------------------------------------------------------------
(***************************************************************************)
(* The list.                                                               *)
(***************************************************************************)

Shows(list) == {list[i].id : i \in 1 .. Len(list)}

\* Mutant of Optimised: the first messages are kept.
OptimisedToOldest(list) ==
  IF Len(list) > MaxList THEN SubSeq(list, 1, Keep) ELSE list

\* Mutant of Optimised: one late.
OptimisedLate(list) ==
  IF Len(list) > MaxList + 1 THEN SubSeq(list, Len(list) - Keep + 1, Len(list)) ELSE list

\* optimizeMemory(), after every change of the list's length.
Optimised(list) ==
  IF Len(list) > MaxList THEN SubSeq(list, Len(list) - Keep + 1, Len(list)) ELSE list

Replaced(list, id, message) ==
  [i \in 1 .. Len(list) |-> IF list[i].id = id THEN message ELSE list[i]]

\* Mutant of Marked: only the first of several copies is marked.
MarkedOnce(list, id) ==
  [i \in 1 .. Len(list) |->
     IF list[i].id = id /\ \A j \in 1 .. (i - 1) : list[j].id # id
     THEN [list[i] EXCEPT !.is_unsend = TRUE] ELSE list[i]]

Marked(list, id) ==
  Replaced(list, id, [id |-> id, is_unsend |-> TRUE])

\* The messages of an answer in their order.
Listed(has, marks) ==
  [i \in 1 .. Cardinality(has) |->
     LET id == CHOOSE m \in has : Cardinality({n \in has : n <= m}) = i
     IN [id |-> id, is_unsend |-> id \in marks]]

-----------------------------------------------------------------------------
(***************************************************************************)
(* The server and the socket.                                              *)
(***************************************************************************)

\* The server tells the room a fact; a socket that is not in it misses it.
Tell(fact) ==
  IF joined
  THEN /\ Len(events) < MaxEvents
       /\ events' = Append(events, fact)
       /\ lost' = lost
  ELSE /\ events' = events
       /\ lost' = lost \cup {fact}

Join ==
  /\ ~joined
  /\ joined' = TRUE
  /\ UNCHANGED <<made, unsent, hidden, events, requests, reloads, messages,
                 translating, lost>>

\* Somebody, this user included, sends a message; everybody's list, this one's
\* too, gets it from the room.
MessageMade ==
  /\ made < MaxMessages
  /\ made' = made + 1
  /\ Tell([kind |-> "made", id |-> made + 1])
  /\ UNCHANGED <<unsent, hidden, joined, requests, reloads, messages, translating>>

\* A message is un-sent: by its author elsewhere, or by "Delete" and "Recall" of
\* this screen, which send the same request and ask for the history when it is
\* answered ("here").
MessageUnsent(m, here) ==
  /\ m \in (1 .. made) \ unsent /\ Cardinality(unsent) < MaxUnsent
  /\ unsent' = unsent \cup {m}
  /\ Tell([kind |-> "unsent", id |-> m])
  /\ IF here
     THEN m \in Shows(messages) /\ reloads = 0 /\ reloads' = reloads + 1
     ELSE reloads' = reloads
  /\ UNCHANGED <<made, hidden, joined, requests, messages, translating>>

\* A message is deleted for this user only, which the room is told as well.
MessageDeleted(m) ==
  /\ m \in (1 .. made) \ hidden /\ Cardinality(hidden) < MaxUnsent
  /\ hidden' = hidden \cup {m}
  /\ IF joined
     THEN /\ Len(events) < MaxEvents
          /\ events' = Append(events, [kind |-> "deleted", id |-> m])
     ELSE events' = events
  /\ UNCHANGED <<made, unsent, joined, requests, reloads, messages, translating, lost>>

\* The connection breaks with events on their way. The client connects again, but
\* asks to be let into the room only when the screen opens: whether it is in the
\* room again (Join) is up to the server, and what it missed is not asked for.
Disconnect ==
  /\ joined
  /\ joined' = FALSE
  /\ lost' = lost \cup ({events[i] : i \in 1 .. Len(events)} \cap Facts)
  /\ events' = <<>>
  /\ UNCHANGED <<made, unsent, hidden, requests, reloads, messages, translating>>

\* The server answers a history request with what it knows at that moment.
Answered(r) ==
  /\ requests[r].at = "asked"
  /\ requests' = [requests EXCEPT ![r] =
                    [at |-> "answered", has |-> (1 .. made) \ hidden, unsent |-> unsent]]
  /\ UNCHANGED <<serverVars, events, reloads, messages, translating, lost>>

-----------------------------------------------------------------------------
(***************************************************************************)
(* The screen.                                                             *)
(***************************************************************************)

Ask(r) ==
  /\ requests[r].at = "idle"
  /\ requests' = [requests EXCEPT ![r] = Asked]

\* What the server knows and is not in the snapshot "s", nor on its way.
Overlooked(s) ==
  {f \in Facts :
     /\ IF f.kind = "made"
        THEN f.id \in (1 .. made) \ (hidden \cup s.has)
        ELSE f.id \in unsent \ s.unsent
     /\ \A i \in 1 .. Len(events) : events[i] # f}

\* The answer replaces the list. Whatever the list knew and the answer does not
\* is lost until the next history.
HistoryApplied(r) ==
  /\ requests[r].at = "answered"
  /\ requests' = [requests EXCEPT ![r] = Idle]
  /\ messages' = Optimised(Listed(requests[r].has, requests[r].unsent))
  /\ lost' = Overlooked(requests[r])
  /\ UNCHANGED <<serverVars, events, reloads, translating>>

\* No answer, or not a good one: only a message is shown.
HistoryFails(r) ==
  /\ requests[r].at # "idle"
  /\ requests' = [requests EXCEPT ![r] = Idle]
  /\ UNCHANGED <<serverVars, events, reloads, messages, translating, lost>>

\* The answer to an un-send of this screen; when it is lost nothing is asked for.
UnsendAnswered(ok) ==
  /\ reloads > 0
  /\ reloads' = reloads - 1
  /\ IF ok THEN \E r \in Requests : Ask(r) ELSE UNCHANGED requests
  /\ UNCHANGED <<serverVars, events, messages, translating, lost>>

\* An event of the socket is handled.
EventArrives ==
  /\ events # <<>>
  /\ events' = Tail(events)
  /\ LET event == Head(events) IN
       \/ /\ event.kind = "made"
          /\ messages' = Optimised(Append(messages, [id |-> event.id, is_unsend |-> FALSE]))
          /\ UNCHANGED requests
       \/ /\ event.kind = "unsent"
          /\ messages' = Marked(messages, event.id)
          /\ UNCHANGED requests
       \/ /\ event.kind = "deleted"
          /\ \E r \in Requests : Ask(r)
          /\ UNCHANGED messages
  /\ UNCHANGED <<serverVars, reloads, translating, lost>>

\* The message is kept as it is now.
TranslatePressed(i) ==
  /\ translating = NoMessage
  /\ \A j \in 1 .. (i - 1) : messages[j].id # messages[i].id
  /\ translating' = messages[i]
  /\ UNCHANGED <<serverVars, events, requests, reloads, messages, lost>>

\* ... and written back as it was, with its translation: a mark it has got
\* meanwhile is lost. A translation that fails writes nothing.
Translated(ok) ==
  /\ translating # NoMessage
  /\ translating' = NoMessage
  /\ IF ok
     THEN /\ messages' = Replaced(messages, translating.id, translating)
          /\ lost' = IF ~translating.is_unsend /\ translating.id \in unsent
                     THEN lost \cup {[kind |-> "unsent", id |-> translating.id]}
                     ELSE lost
     ELSE UNCHANGED <<messages, lost>>
  /\ UNCHANGED <<serverVars, events, requests, reloads>>

-----------------------------------------------------------------------------
RoomNext ==
  \/ Join
  \/ MessageMade
  \/ \E m \in 1 .. made, here \in BOOLEAN : MessageUnsent(m, here)
  \/ \E m \in 1 .. made : MessageDeleted(m)
  \/ Disconnect
  \/ \E r \in Requests : Answered(r)
  \/ \E r \in Requests : HistoryApplied(r)
  \/ \E r \in Requests : HistoryFails(r)
  \/ \E ok \in BOOLEAN : UnsendAnswered(ok)
  \/ EventArrives
  \/ \E i \in 1 .. Len(messages) : TranslatePressed(i)
  \/ \E ok \in BOOLEAN : Translated(ok)

RoomSpec == RoomInit /\ [][RoomNext]_roomVars

-----------------------------------------------------------------------------
(***************************************************************************)
(* Safety.                                                                 *)
(***************************************************************************)

OnItsWay(fact) == \E i \in 1 .. Len(events) : events[i] = fact

\* A message of the server is shown, or its event is on its way, or it gave way to
\* newer ones; or it is lost: made while the socket was not in the room, or known
\* to the screen only until an older history answer replaced the list.
NoOtherMessageIsMissing ==
  \A m \in (1 .. made) \ hidden :
    \/ m \in Shows(messages)
    \/ OnItsWay([kind |-> "made", id |-> m])
    \/ [kind |-> "made", id |-> m] \in lost
    \/ \E n \in Shows(messages) : n > m

\* No copy of an un-sent message is shown as if it were still sent, unless the
\* event is on its way or lost in the same ways, or to a translation that began
\* before it.
NoOtherUnsendIsMissing ==
  \A i \in 1 .. Len(messages) :
    LET fact == [kind |-> "unsent", id |-> messages[i].id] IN
    messages[i].id \in unsent =>
      messages[i].is_unsend \/ OnItsWay(fact) \/ fact \in lost

=============================================================================
