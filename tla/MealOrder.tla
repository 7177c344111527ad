------------------------------- MODULE MealOrder -------------------------------
(***************************************************************************)
(* The meal order screen: the user's orders are fetched once, placed by    *)
(* tapping a free day and cancelled in the list. Every answer rewrites the *)
(* one list by which the days are offered. The server is external; it may  *)
(* accept a second order for a day.                                        *)
(*                                                                         *)
(* The two shifts of a day are alike: an order for either disables both.   *)
(* The order of the list decides only what is cut off beyond its limit, so *)
(* the list is a set; orderedDates and the list of the modal, which always *)
(* follow it, are not told apart from it.                                  *)
(***************************************************************************)
EXTENDS Naturals, FiniteSets

CONSTANTS
  Days,         \* the days shown
  MaxOrders,    \* bound of the model on the orders there ever are
  MaxRequests,  \* bound of the model on the requests under way at a time
  Limit         \* the list keeps this many orders (100 in the code)

ASSUME OrderAssumption ==
  /\ IsFiniteSet(Days)
  /\ MaxOrders \in Nat /\ MaxRequests \in Nat /\ Limit \in Nat

VARIABLES
  placed,     \* external: the user's orders at the server
  tapped,     \* how many orders there have been, which names the next
  fetch,      \* the request of getUserOrders() and the answer on its way
  posts,      \* POST requests: the order, and whether the server has placed it
  deletes,    \* DELETE requests: the order, the list of the screen when the
              \* button was pressed, and whether the server has acted
  ordered,    \* the list
  selected,   \* the days of selectedMap
  mishaps     \* history: what has happened that the screen does not provide for

orderVars == <<placed, tapped, fetch, posts, deletes, ordered, selected, mishaps>>

Orders == [id : 1 .. MaxOrders, day : Days]
Mishaps == {"early tap", "second tap", "overlapped cancel", "lost answer", "list full"}

DaysOf(list) == {order.day : order \in list}

OrderTypeOK ==
  /\ placed \in SUBSET Orders
  /\ tapped \in 0 .. MaxOrders
  /\ fetch \in [at : {"asked", "answered", "over"}, list : SUBSET Orders]
  /\ posts \in SUBSET [order : Orders, done : BOOLEAN]
  /\ deletes \in SUBSET [order : Orders, list : SUBSET Orders, done : BOOLEAN]
  /\ ordered \in SUBSET Orders /\ Cardinality(ordered) <= Limit
  /\ selected \in SUBSET Days
  /\ mishaps \in SUBSET Mishaps

\* The screen opens, with an order for some of the days, and asks for them. The
\* days are offered before the answer.
OrderInit ==
  /\ tapped \in 0 .. MaxOrders
  /\ placed \in {p \in SUBSET [id : 1 .. tapped, day : Days] :
                   /\ Cardinality(p) = tapped
                   /\ \A x, y \in p : x # y => x.id # y.id /\ x.day # y.day}
  /\ fetch = [at |-> "asked", list |-> {}]
  /\ posts = {} /\ deletes = {}
  /\ ordered = {} /\ selected = {}
  /\ mishaps = {}

-----------------------------------------------------------------------------
CanRequest == Cardinality(posts) + Cardinality(deletes) < MaxRequests

Quiet == fetch.at = "over" /\ posts = {} /\ deletes = {}

\* What the screen does not keep the user from: acting before the list has come,
\* tapping a day whose order is not answered, a cancellation next to anything else.
\* Orders for different days under way at a time are no mishap.
Early == IF fetch.at = "over" THEN {} ELSE {"early tap"}
SecondTap(day) ==
  IF \E p \in posts : p.order.day = day THEN {"second tap"} ELSE {}
Overlapped(requests) == IF requests = {} THEN {} ELSE {"overlapped cancel"}

\* Mutant of Offered: only the days of this visit's taps are disabled.
OfferedUnlessTapped(day) == day \notin selected

\* The buttons of a day are enabled: there is no order for it in the list. A
\* request on its way disables nothing.
Offered(day) == day \notin DaysOf(ordered)

\* handleCheckBoxPress() on an offered day.
PlaceOrder(day) ==
  /\ Offered(day) /\ tapped < MaxOrders /\ CanRequest
  /\ tapped' = tapped + 1
  /\ posts' = posts \cup {[order |-> [id |-> tapped + 1, day |-> day], done |-> FALSE]}
  /\ mishaps' = mishaps \cup Early \cup SecondTap(day) \cup Overlapped(deletes)
  /\ UNCHANGED <<placed, fetch, deletes, ordered, selected>>

\* handleCancelOrder() of an order of the list, which the screen's own
\* handleOrderDeleted() will filter as it is now.
CancelOrder(order) ==
  /\ order \in ordered /\ CanRequest
  /\ deletes' = deletes \cup {[order |-> order, list |-> ordered, done |-> FALSE]}
  /\ mishaps' = mishaps \cup Early \cup Overlapped(posts \cup deletes)
  /\ UNCHANGED <<placed, tapped, fetch, posts, ordered, selected>>

-----------------------------------------------------------------------------
(***************************************************************************)
(* The server acts on a request before it is answered.                     *)
(***************************************************************************)

FetchServed ==
  /\ fetch.at = "asked"
  /\ fetch' = [at |-> "answered", list |-> placed]
  /\ UNCHANGED <<placed, tapped, posts, deletes, ordered, selected, mishaps>>

PostServed(p) ==
  /\ p \in posts /\ ~p.done
  /\ placed' = placed \cup {p.order}
  /\ posts' = (posts \ {p}) \cup {[p EXCEPT !.done = TRUE]}
  /\ UNCHANGED <<tapped, fetch, deletes, ordered, selected, mishaps>>

DeleteServed(d) ==
  /\ d \in deletes /\ ~d.done /\ d.order \in placed
  /\ placed' = placed \ {d.order}
  /\ deletes' = (deletes \ {d}) \cup {[d EXCEPT !.done = TRUE]}
  /\ UNCHANGED <<tapped, fetch, posts, ordered, selected, mishaps>>

-----------------------------------------------------------------------------
(***************************************************************************)
(* The answers.                                                            *)
(***************************************************************************)

\* getUserOrders(): the list is replaced by as many orders as it may keep.
FetchApplied ==
  /\ fetch.at = "answered"
  /\ fetch' = [at |-> "over", list |-> {}]
  /\ IF Cardinality(fetch.list) <= Limit
     THEN ordered' = fetch.list /\ UNCHANGED mishaps
     ELSE /\ ordered' \in {s \in SUBSET fetch.list : Cardinality(s) = Limit}
          /\ mishaps' = mishaps \cup {"list full"}
  /\ UNCHANGED <<placed, tapped, posts, deletes, selected>>

\* ... or emptied, when the request throws; an answer without success is ignored.
FetchFails(throws) ==
  /\ fetch.at # "over"
  /\ fetch' = [at |-> "over", list |-> {}]
  /\ ordered' = IF throws THEN {} ELSE ordered
  /\ mishaps' = mishaps \cup {"lost answer"}
  /\ UNCHANGED <<placed, tapped, posts, deletes, selected>>

\* Mutant of PostApplied: the list may exceed its limit by one.
PostAppliedOverLimit(p) ==
  /\ p \in posts /\ p.done
  /\ posts' = posts \ {p}
  /\ selected' = selected \cup {p.order.day}
  /\ ordered' = IF Cardinality(ordered) <= Limit THEN ordered \cup {p.order} ELSE ordered
  /\ UNCHANGED <<placed, tapped, fetch, deletes, mishaps>>

\* The order is appended, and cut off at once when the list is full.
PostApplied(p) ==
  /\ p \in posts /\ p.done
  /\ posts' = posts \ {p}
  /\ selected' = selected \cup {p.order.day}
  /\ IF p.order \in ordered \/ Cardinality(ordered) < Limit
     THEN ordered' = ordered \cup {p.order} /\ UNCHANGED mishaps
     ELSE mishaps' = mishaps \cup {"list full"} /\ UNCHANGED ordered
  /\ UNCHANGED <<placed, tapped, fetch, deletes>>

\* No success, or no answer, whatever the server has done: only a message.
PostFails(p) ==
  /\ p \in posts
  /\ posts' = posts \ {p}
  /\ mishaps' = IF p.done THEN mishaps \cup {"lost answer"} ELSE mishaps
  /\ UNCHANGED <<placed, tapped, fetch, deletes, ordered, selected>>

\* Mutant of DeleteApplied: the day stays selected.
DeleteAppliedToList(d) ==
  /\ d \in deletes /\ d.done
  /\ deletes' = deletes \ {d}
  /\ ordered' = d.list \ {d.order}
  /\ UNCHANGED <<placed, tapped, fetch, posts, selected, mishaps>>

\* handleOrderDeleted(): the list becomes the one of the press without the order.
DeleteApplied(d) ==
  /\ d \in deletes /\ d.done
  /\ deletes' = deletes \ {d}
  /\ ordered' = d.list \ {d.order}
  /\ selected' = selected \ {d.order.day}
  /\ UNCHANGED <<placed, tapped, fetch, posts, mishaps>>

DeleteFails(d) ==
  /\ d \in deletes
  /\ deletes' = deletes \ {d}
  /\ mishaps' = IF d.done THEN mishaps \cup {"lost answer"} ELSE mishaps
  /\ UNCHANGED <<placed, tapped, fetch, posts, ordered, selected>>

-----------------------------------------------------------------------------
OrderNext ==
  \/ \E day \in Days : PlaceOrder(day)
  \/ \E order \in ordered : CancelOrder(order)
  \/ FetchServed
  \/ FetchApplied
  \/ \E throws \in BOOLEAN : FetchFails(throws)
  \/ \E p \in posts : PostServed(p) \/ PostApplied(p) \/ PostFails(p)
  \/ \E d \in deletes : DeleteServed(d) \/ DeleteApplied(d) \/ DeleteFails(d)

OrderSpec == OrderInit /\ [][OrderNext]_orderVars

-----------------------------------------------------------------------------
(***************************************************************************)
(* Safety.                                                                 *)
(***************************************************************************)

\* A day has two orders only after one of the mishaps: no sequence of taps, answers
\* in any order, cancellations and failures otherwise offers a day that has one.
OneOrderPerDay ==
  mishaps = {} => \A x, y \in placed : x.day = y.day => x = y

\* Short of the same mishaps the list is the server's whenever nothing is under
\* way, however many orders were under way at a time and in whichever order they
\* were answered; and no day is shown as ordered that is free to order.
ListIsTheServers ==
  mishaps = {} /\ Quiet => ordered = placed /\ selected \subseteq DaysOf(ordered)
=============================================================================
