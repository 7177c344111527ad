----------------------------- MODULE MealOrderProofs -----------------------------
(***************************************************************************)
(* The meal order screen, for any days, orders, requests and limit. Short  *)
(* of the mishaps the screen does not provide for, it works in one of four *)
(* ways: it waits for the list, shows it, has orders for different free    *)
(* days under way, or has one cancellation under way (BeforeTheList,       *)
(* TapsApart, CancelAlone). In each it is known what the server has.       *)
(***************************************************************************)
EXTENDS MealOrder, FiniteSetTheorems, FunctionTheorems, TLAPS

\* No two orders of the list are for the same day.
OnePerDay(list) == \A x, y \in list : x.day = y.day => x = y

\* The orders that the server has placed and the screen has not been told of.
Untold == {p.order : p \in {q \in posts : q.done}}

\* A list that a cancellation may bring back fits the limit, as the list does.
ListsFit == \A d \in deletes : Cardinality(d.list) =< Limit

\* Until the orders have come nothing is shown, and nothing was asked for.
BeforeTheList ==
  fetch.at # "over" =>
    /\ posts = {} /\ deletes = {} /\ ordered = {} /\ selected = {}
    /\ OnePerDay(placed)
    /\ fetch.at = "answered" => fetch.list = placed

\* Afterwards every day has one order or one request, the selected days are among
\* the ordered ones, and what the server has is known up to the answers to come.
TapsApart ==
  fetch.at = "over" =>
    /\ OnePerDay(ordered)
    /\ selected \subseteq DaysOf(ordered)
    /\ \A p, q \in posts : p.order.day = q.order.day => p = q
    /\ \A p \in posts : p.order.day \notin DaysOf(ordered)
    /\ deletes = {} => placed = ordered \cup Untold

\* A cancellation is alone, and brings back the list it was pressed in.
CancelAlone ==
  fetch.at = "over" =>
    \A d \in deletes :
      /\ deletes = {d} /\ posts = {}
      /\ d.order \in ordered /\ d.list = ordered
      /\ placed = IF d.done THEN ordered \ {d.order} ELSE ordered

Orderly == mishaps = {} => BeforeTheList /\ TapsApart /\ CancelAlone

OrderInv == OrderTypeOK /\ ListsFit /\ Orderly

-----------------------------------------------------------------------------
(***************************************************************************)
(* Sets of orders.                                                         *)
(***************************************************************************)

LEMMA OrdersAreFinite ==
  /\ IsFiniteSet(Orders)
  /\ \A s \in SUBSET Orders : IsFiniteSet(s) /\ Cardinality(s) \in Nat
<1> DEFINE pairs == (1 .. MaxOrders) \X Days
           f == [order \in Orders |-> <<order.id, order.day>>]
<1>1. IsFiniteSet(1 .. MaxOrders)
  BY OrderAssumption, FS_Interval
<1>2. IsFiniteSet(pairs)
  BY <1>1, OrderAssumption, FS_Product
<1>3. f \in Injection(Orders, pairs)
  <2>1. f \in [Orders -> pairs]
    BY DEF Orders
  <2>2. \A x, y \in Orders : f[x] = f[y] => x = y
    BY DEF Orders
  <2> QED
    BY <2>1, <2>2, Fun_IsInj
<1>4. IsFiniteSet(Orders)
  <2> HIDE DEF f, pairs
  <2> QED
    BY <1>2, <1>3, FS_Injection
<1>5. ASSUME NEW s \in SUBSET Orders PROVE IsFiniteSet(s) /\ Cardinality(s) \in Nat
  <2>1. IsFiniteSet(s)
    BY <1>4, FS_Subset
  <2> QED
    BY <2>1, FS_CardinalityType
<1> QED
  BY <1>4, <1>5

\* An order more, when there is room or it is there already, and an order less.
LEMMA ListChanges ==
  ASSUME NEW list \in SUBSET Orders, NEW order, Cardinality(list) =< Limit
  PROVE  /\ order \in list \/ Cardinality(list) < Limit
            => Cardinality(list \cup {order}) =< Limit
         /\ Cardinality(list \ {order}) =< Limit
<1>1. IsFiniteSet(list) /\ Cardinality(list) \in Nat
  BY OrdersAreFinite
<1>2. Cardinality(list \cup {order}) =
        IF order \in list THEN Cardinality(list) ELSE Cardinality(list) + 1
  BY <1>1, FS_AddElement
<1>3. Cardinality(list \ {order}) =
        IF order \in list THEN Cardinality(list) - 1 ELSE Cardinality(list)
  BY <1>1, FS_RemoveElement
<1> QED
  BY <1>1, <1>2, <1>3, OrderAssumption

-----------------------------------------------------------------------------
(***************************************************************************)
(* Types, and the limit of the list.                                       *)
(***************************************************************************)

LEMMA OrdersInit == OrderInit => OrderInv
<1> SUFFICES ASSUME OrderInit PROVE OrderInv
  OBVIOUS
<1> USE DEF OrderInit
<1>1. placed \in SUBSET Orders
  BY OrderAssumption DEF Orders
<1>2. Cardinality({}) = 0
  BY FS_EmptySet
<1>3. OrderTypeOK
  BY <1>1, <1>2, OrderAssumption DEF OrderTypeOK
<1>4. OnePerDay(placed)
  BY DEF OnePerDay
<1>5. Orderly
  BY <1>4 DEF Orderly, BeforeTheList, TapsApart, CancelAlone
<1> QED
  BY <1>3, <1>5 DEF OrderInv, ListsFit

LEMMA OrdersTyped ==
  ASSUME OrderTypeOK, ListsFit, [OrderNext]_orderVars
  PROVE  OrderTypeOK' /\ ListsFit'
<1> USE DEF OrderTypeOK, ListsFit
<1>1. ASSUME NEW day \in Days, PlaceOrder(day) PROVE OrderTypeOK' /\ ListsFit'
  <2> DEFINE post == [order |-> [id |-> tapped + 1, day |-> day], done |-> FALSE]
  <2>1. post \in [order : Orders, done : BOOLEAN] /\ tapped + 1 \in 0 .. MaxOrders
    BY <1>1, OrderAssumption DEF PlaceOrder, Orders
  <2>2. mishaps' \in SUBSET Mishaps
    BY <1>1 DEF PlaceOrder, Early, SecondTap, Overlapped, Mishaps
  <2>3. posts' = posts \cup {post} /\ tapped' = tapped + 1
        /\ UNCHANGED <<placed, fetch, deletes, ordered, selected>>
    BY <1>1 DEF PlaceOrder
  <2> HIDE DEF post
  <2> QED
    BY <2>1, <2>2, <2>3
<1>2. ASSUME NEW order \in ordered, CancelOrder(order) PROVE OrderTypeOK' /\ ListsFit'
  <2> DEFINE delete == [order |-> order, list |-> ordered, done |-> FALSE]
  <2>1. delete \in [order : Orders, list : SUBSET Orders, done : BOOLEAN]
        /\ delete.list = ordered
    OBVIOUS
  <2>2. mishaps' \in SUBSET Mishaps
    BY <1>2 DEF CancelOrder, Early, Overlapped, Mishaps
  <2>3. deletes' = deletes \cup {delete}
        /\ UNCHANGED <<placed, tapped, fetch, posts, ordered, selected>>
    BY <1>2 DEF CancelOrder
  <2> HIDE DEF delete
  <2> QED
    BY <2>1, <2>2, <2>3
<1>3. CASE FetchServed
  BY <1>3 DEF FetchServed
<1>4. CASE FetchApplied
  <2>1. fetch' \in [at : {"asked", "answered", "over"}, list : SUBSET Orders]
    BY <1>4 DEF FetchApplied
  <2>2. fetch.list \in SUBSET Orders
    OBVIOUS
  <2>3. \/ ordered' = fetch.list /\ Cardinality(fetch.list) =< Limit
        \/ ordered' \in SUBSET fetch.list /\ Cardinality(ordered') = Limit
    BY <1>4 DEF FetchApplied
  <2>4. ordered' \in SUBSET Orders /\ Cardinality(ordered') =< Limit
    BY <2>2, <2>3, OrderAssumption
  <2>5. mishaps' \in SUBSET Mishaps
    BY <1>4 DEF FetchApplied, Mishaps
  <2> QED
    BY <1>4, <2>1, <2>4, <2>5 DEF FetchApplied
<1>5. ASSUME NEW throws \in BOOLEAN, FetchFails(throws) PROVE OrderTypeOK' /\ ListsFit'
  <2>1. Cardinality({}) =< Limit
    BY FS_EmptySet, OrderAssumption
  <2>2. ordered' \in SUBSET Orders /\ Cardinality(ordered') =< Limit
    BY <1>5, <2>1 DEF FetchFails
  <2> QED
    BY <1>5, <2>2 DEF FetchFails, Mishaps
<1>6. ASSUME NEW p \in posts, PostServed(p) PROVE OrderTypeOK' /\ ListsFit'
  <2>1. [p EXCEPT !.done = TRUE] \in [order : Orders, done : BOOLEAN]
    OBVIOUS
  <2>2. placed' \in SUBSET Orders
    BY <1>6 DEF PostServed
  <2> QED
    BY <1>6, <2>1, <2>2 DEF PostServed
<1>7. ASSUME NEW p \in posts, PostApplied(p) PROVE OrderTypeOK' /\ ListsFit'
  <2>1. p.order \in Orders /\ p.order.day \in Days
    BY DEF Orders
  <2>2. ordered' \in SUBSET Orders /\ Cardinality(ordered') =< Limit
    BY <1>7, <2>1, ListChanges DEF PostApplied
  <2>3. mishaps' \in SUBSET Mishaps
    BY <1>7 DEF PostApplied, Mishaps
  <2> QED
    BY <1>7, <2>1, <2>2, <2>3 DEF PostApplied
<1>8. ASSUME NEW p \in posts, PostFails(p) PROVE OrderTypeOK' /\ ListsFit'
  BY <1>8 DEF PostFails, Mishaps
<1>9. ASSUME NEW d \in deletes, DeleteServed(d) PROVE OrderTypeOK' /\ ListsFit'
  <2>1. [d EXCEPT !.done = TRUE] \in [order : Orders, list : SUBSET Orders, done : BOOLEAN]
        /\ [d EXCEPT !.done = TRUE].list = d.list
    OBVIOUS
  <2> QED
    BY <1>9, <2>1 DEF DeleteServed
<1>10. ASSUME NEW d \in deletes, DeleteApplied(d) PROVE OrderTypeOK' /\ ListsFit'
  <2>1. d.list \in SUBSET Orders /\ Cardinality(d.list) =< Limit
    OBVIOUS
  <2>2. ordered' \in SUBSET Orders /\ Cardinality(ordered') =< Limit
    BY <1>10, <2>1, ListChanges DEF DeleteApplied
  <2> QED
    BY <1>10, <2>2 DEF DeleteApplied
<1>11. ASSUME NEW d \in deletes, DeleteFails(d) PROVE OrderTypeOK' /\ ListsFit'
  BY <1>11 DEF DeleteFails, Mishaps
<1>12. CASE UNCHANGED orderVars
  BY <1>12 DEF orderVars
<1> QED
  BY <1>1, <1>2, <1>3, <1>4, <1>5, <1>6, <1>7, <1>8, <1>9, <1>10, <1>11, <1>12
     DEF OrderNext

-----------------------------------------------------------------------------
(***************************************************************************)
(* What the screen and the server know, short of mishaps.                  *)
(***************************************************************************)

\* What the user does: a tap on a free day, or a cancellation while nothing else
\* is under way; anything else is a mishap.
LEMMA PressKeepsOrder ==
  ASSUME OrderTypeOK, Orderly, mishaps' = {},
         \/ \E day \in Days : PlaceOrder(day)
         \/ \E order \in ordered : CancelOrder(order)
  PROVE  Orderly'
<1>1. mishaps = {} /\ fetch.at = "over"
  BY DEF PlaceOrder, CancelOrder, Early
<1>2. TapsApart /\ CancelAlone
  BY <1>1 DEF Orderly
<1>3. ASSUME NEW day \in Days, PlaceOrder(day) PROVE Orderly'
  <2> DEFINE post == [order |-> [id |-> tapped + 1, day |-> day], done |-> FALSE]
  <2>1. /\ posts' = posts \cup {post} /\ deletes = {}
        /\ UNCHANGED <<placed, fetch, deletes, ordered, selected>>
        /\ \A p \in posts : p.order.day # day
        /\ day \notin DaysOf(ordered)
    BY <1>3 DEF PlaceOrder, Offered, SecondTap, Overlapped
  <2>2. post.order.day = day /\ ~post.done
    OBVIOUS
  <2> HIDE DEF post
  <2>3. Untold' = Untold
    BY <2>1, <2>2 DEF Untold
  <2>4. TapsApart'
    BY <1>1, <1>2, <2>1, <2>2, <2>3 DEF TapsApart, OnePerDay, DaysOf
  <2> QED
    BY <1>1, <2>1, <2>4 DEF Orderly, BeforeTheList, CancelAlone
<1>4. ASSUME NEW order \in ordered, CancelOrder(order) PROVE Orderly'
  <2> DEFINE delete == [order |-> order, list |-> ordered, done |-> FALSE]
  <2>1. /\ deletes' = {delete} /\ posts = {} /\ deletes = {}
        /\ UNCHANGED <<placed, fetch, posts, ordered, selected>>
    BY <1>4 DEF CancelOrder, Overlapped
  <2>2. delete.order = order /\ delete.list = ordered /\ ~delete.done
    OBVIOUS
  <2> HIDE DEF delete
  <2>3. placed = ordered
    BY <1>1, <1>2, <2>1 DEF TapsApart, Untold
  <2>4. TapsApart'
    BY <1>1, <1>2, <2>1 DEF TapsApart, OnePerDay, DaysOf
  <2>5. CancelAlone'
    BY <2>1, <2>2, <2>3 DEF CancelAlone
  <2> QED
    BY <1>1, <2>1, <2>4, <2>5 DEF Orderly, BeforeTheList
<1> QED
  BY <1>3, <1>4

\* The list comes, complete, or not at all.
LEMMA FetchKeepsOrder ==
  ASSUME OrderTypeOK, Orderly, mishaps' = {},
         \/ FetchServed \/ FetchApplied \/ \E throws \in BOOLEAN : FetchFails(throws)
  PROVE  Orderly'
<1>1. mishaps = {} /\ fetch.at # "over"
  BY DEF FetchServed, FetchApplied, FetchFails
<1>2. /\ posts = {} /\ deletes = {} /\ ordered = {} /\ selected = {}
      /\ OnePerDay(placed)
      /\ fetch.at = "answered" => fetch.list = placed
  BY <1>1 DEF Orderly, BeforeTheList
<1>3. CASE FetchServed
  BY <1>2, <1>3 DEF FetchServed, Orderly, BeforeTheList, TapsApart, CancelAlone, OnePerDay
<1>4. CASE FetchApplied
  <2>1. /\ fetch'.at = "over" /\ ordered' = placed
        /\ UNCHANGED <<placed, posts, deletes, selected>>
    BY <1>2, <1>4 DEF FetchApplied
  <2>2. Untold' = {}
    BY <1>2, <2>1 DEF Untold
  <2> QED
    BY <1>2, <2>1, <2>2 DEF Orderly, BeforeTheList, TapsApart, CancelAlone, OnePerDay
<1>5. CASE \E throws \in BOOLEAN : FetchFails(throws)
  BY <1>5 DEF FetchFails
<1> QED
  BY <1>3, <1>4, <1>5

\* An order is placed by the server, then shown; or refused. Orders for other days
\* under way take no notice.
LEMMA PostKeepsOrder ==
  ASSUME OrderTypeOK, Orderly, mishaps' = {}, NEW p \in posts,
         PostServed(p) \/ PostApplied(p) \/ PostFails(p)
  PROVE  Orderly'
<1>1. mishaps = {} /\ UNCHANGED <<fetch, deletes>>
  BY DEF PostServed, PostApplied, PostFails
<1>2. fetch.at = "over"
  BY <1>1 DEF Orderly, BeforeTheList
<1>3. TapsApart /\ deletes = {}
  BY <1>1, <1>2 DEF Orderly, CancelAlone
<1>4. /\ OnePerDay(ordered) /\ selected \subseteq DaysOf(ordered)
      /\ \A r, q \in posts : r.order.day = q.order.day => r = q
      /\ \A q \in posts : q.order.day \notin DaysOf(ordered)
      /\ placed = ordered \cup Untold
  BY <1>2, <1>3 DEF TapsApart
<1>5. SUFFICES TapsApart'
  BY <1>1, <1>2, <1>3 DEF Orderly, BeforeTheList, CancelAlone
<1>6. CASE PostServed(p)
  <2> DEFINE served == [p EXCEPT !.done = TRUE]
  <2>1. /\ served.order = p.order /\ served.done
    BY DEF OrderTypeOK
  <2>2. /\ ~p.done /\ placed' = placed \cup {p.order}
        /\ posts' = (posts \ {p}) \cup {served}
        /\ UNCHANGED <<ordered, selected>>
    BY <1>6 DEF PostServed
  <2> HIDE DEF served
  <2>3. Untold' = Untold \cup {p.order}
    BY <2>1, <2>2 DEF Untold
  <2>4. \A r, q \in posts' : r.order.day = q.order.day => r = q
    BY <1>4, <2>1, <2>2
  <2>5. \A q \in posts' : q.order.day \notin DaysOf(ordered)
    BY <1>4, <2>1, <2>2
  <2> QED
    BY <1>4, <2>2, <2>3, <2>4, <2>5 DEF TapsApart, OnePerDay, DaysOf
<1>7. CASE PostApplied(p)
  <2>1. /\ p.done /\ posts' = posts \ {p}
        /\ ordered' = ordered \cup {p.order}
        /\ selected' = selected \cup {p.order.day}
        /\ placed' = placed
    BY <1>7 DEF PostApplied
  <2>2. placed' = ordered' \cup Untold'
    BY <1>4, <2>1 DEF Untold
  <2>3. OnePerDay(ordered')
    BY <1>4, <2>1 DEF OnePerDay, DaysOf
  <2>4. selected' \subseteq DaysOf(ordered')
    BY <1>4, <2>1 DEF DaysOf
  <2>5. \A q \in posts' : q.order.day \notin DaysOf(ordered')
    BY <1>4, <2>1 DEF DaysOf
  <2> QED
    BY <1>4, <2>1, <2>2, <2>3, <2>4, <2>5 DEF TapsApart, OnePerDay
<1>8. CASE PostFails(p)
  <2>1. /\ ~p.done /\ posts' = posts \ {p}
        /\ UNCHANGED <<placed, ordered, selected>>
    BY <1>8 DEF PostFails
  <2>2. Untold' = Untold
    BY <2>1 DEF Untold
  <2> QED
    BY <1>4, <2>1, <2>2 DEF TapsApart, OnePerDay, DaysOf
<1> QED
  BY <1>6, <1>7, <1>8

\* A cancellation is acted on by the server, then shown; or refused.
LEMMA DeleteKeepsOrder ==
  ASSUME OrderTypeOK, Orderly, mishaps' = {}, NEW d \in deletes,
         DeleteServed(d) \/ DeleteApplied(d) \/ DeleteFails(d)
  PROVE  Orderly'
<1>1. mishaps = {} /\ UNCHANGED <<fetch, posts>>
  BY DEF DeleteServed, DeleteApplied, DeleteFails
<1>2. fetch.at = "over"
  BY <1>1 DEF Orderly, BeforeTheList
<1>3. /\ OnePerDay(ordered) /\ selected \subseteq DaysOf(ordered)
      /\ deletes = {d} /\ posts = {}
      /\ d.order \in ordered /\ d.list = ordered
      /\ placed = IF d.done THEN ordered \ {d.order} ELSE ordered
  BY <1>1, <1>2 DEF Orderly, TapsApart, CancelAlone
<1>4. Untold' = {}
  BY <1>1, <1>3 DEF Untold
<1>5. CASE DeleteServed(d)
  <2> DEFINE served == [d EXCEPT !.done = TRUE]
  <2>1. served.order = d.order /\ served.list = d.list /\ served.done
    BY DEF OrderTypeOK
  <2>2. /\ ~d.done /\ placed' = placed \ {d.order}
        /\ deletes' = {served}
        /\ UNCHANGED <<ordered, selected>>
    BY <1>3, <1>5 DEF DeleteServed
  <2> HIDE DEF served
  <2>3. TapsApart' /\ CancelAlone'
    BY <1>1, <1>3, <2>1, <2>2 DEF TapsApart, CancelAlone, OnePerDay, DaysOf
  <2> QED
    BY <1>1, <1>2, <2>3 DEF Orderly, BeforeTheList
<1>6. CASE DeleteApplied(d)
  <2>1. /\ deletes' = {} /\ ordered' = ordered \ {d.order}
        /\ selected' = selected \ {d.order.day}
        /\ placed' = ordered'
    BY <1>3, <1>6 DEF DeleteApplied
  <2>2. selected' \subseteq DaysOf(ordered')
    BY <1>3, <2>1 DEF DaysOf
  <2>3. TapsApart'
    BY <1>1, <1>3, <1>4, <2>1, <2>2 DEF TapsApart, OnePerDay
  <2> QED
    BY <1>1, <1>2, <2>1, <2>3 DEF Orderly, BeforeTheList, CancelAlone
<1>7. CASE DeleteFails(d)
  <2>1. ~d.done /\ deletes' = {} /\ UNCHANGED <<placed, ordered, selected>>
    BY <1>3, <1>7 DEF DeleteFails
  <2>2. TapsApart'
    BY <1>1, <1>3, <1>4, <2>1 DEF TapsApart, OnePerDay, DaysOf
  <2> QED
    BY <1>1, <1>2, <2>1, <2>2 DEF Orderly, BeforeTheList, CancelAlone
<1> QED
  BY <1>5, <1>6, <1>7

LEMMA OrdersStep == OrderInv /\ [OrderNext]_orderVars => OrderInv'
<1> SUFFICES ASSUME OrderInv, [OrderNext]_orderVars PROVE OrderInv'
  OBVIOUS
<1>1. OrderTypeOK /\ Orderly /\ OrderTypeOK' /\ ListsFit'
  BY OrdersTyped DEF OrderInv
<1>2. SUFFICES ASSUME mishaps' = {} PROVE Orderly'
  BY <1>1 DEF OrderInv, Orderly
<1>3. CASE UNCHANGED orderVars
  BY <1>1, <1>3 DEF orderVars, Orderly, BeforeTheList, TapsApart, CancelAlone, OnePerDay,
                    DaysOf, Untold
<1> QED
  BY <1>1, <1>2, <1>3, PressKeepsOrder, FetchKeepsOrder, PostKeepsOrder,
     DeleteKeepsOrder DEF OrderNext

-----------------------------------------------------------------------------
(***************************************************************************)
(* The theorems.                                                           *)
(***************************************************************************)

\* The inductive invariant holds in every behaviour of the screen and the server.
THEOREM OrdersInvariant == OrderSpec => []OrderInv
BY OrdersInit, OrdersStep, PTL DEF OrderSpec

\* The orders, the requests and the list have their types; whatever a late
\* cancellation brings back, the list of orders keeps to its limit.
THEOREM ListKeepsItsLimit == OrderSpec => []OrderTypeOK
<1>1. OrderInv => OrderTypeOK
  BY DEF OrderInv
<1> QED
  BY <1>1, OrdersInvariant, PTL

\* Short of the mishaps handleCheckBoxPress() and handleOrderDeleted() never offer
\* a day that has an order, or will have one.
THEOREM NoDayTwice == OrderSpec => []OneOrderPerDay
<1>1. ASSUME OrderInv, mishaps = {}, NEW x \in placed, NEW y \in placed, x.day = y.day
      PROVE  x = y
  <2>1. BeforeTheList /\ TapsApart /\ CancelAlone
    BY <1>1 DEF OrderInv, Orderly
  <2>2. CASE fetch.at # "over"
    BY <1>1, <2>1, <2>2 DEF BeforeTheList, OnePerDay
  <2>3. CASE fetch.at = "over" /\ deletes # {}
    BY <1>1, <2>1, <2>3 DEF TapsApart, CancelAlone, OnePerDay
  <2>4. CASE fetch.at = "over" /\ deletes = {}
    BY <1>1, <2>1, <2>4 DEF TapsApart, OnePerDay, Untold, DaysOf
  <2> QED
    BY <2>2, <2>3, <2>4
<1>2. OrderInv => OneOrderPerDay
  BY <1>1 DEF OneOrderPerDay
<1> QED
  BY <1>2, OrdersInvariant, PTL

\* Short of the same mishaps the screen and the server agree whenever nothing is
\* under way, in whichever order the answers of several requests came.
THEOREM ScreenAndServerAgree == OrderSpec => []ListIsTheServers
<1>1. OrderInv => ListIsTheServers
  BY DEF OrderInv, Orderly, TapsApart, Untold, ListIsTheServers, Quiet
<1> QED
  BY <1>1, OrdersInvariant, PTL
=============================================================================
