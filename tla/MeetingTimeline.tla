--------------------------- MODULE MeetingTimeline ---------------------------
(***************************************************************************)
(* What the translation side of a meeting promises its reader, without     *)
(* sessions, queues or drainers: a bounded timeline of messages in the     *)
(* order of speech. A message is pending from the moment it is submitted   *)
(* until it is answered once, or the meeting it belongs to ends; a failed  *)
(* one may be submitted again; a translated one stays as it is.            *)
(***************************************************************************)
EXTENDS Naturals, Sequences

CONSTANTS
  Bound,   \* how many messages the timeline keeps
  Batch    \* how many messages one utterance can become

VARIABLES
  timeline,   \* the kept messages, oldest first
  pending,    \* the numbers of the messages that await an answer
  last        \* the number of the newest message

tvars == <<timeline, pending, last>>

Newest(s) ==
  IF Len(s) =< Bound THEN s ELSE SubSeq(s, Len(s) - Bound + 1, Len(s))

Mark(n, status) ==
  timeline' = [i \in DOMAIN timeline |->
                 IF timeline[i].id = n
                 THEN [timeline[i] EXCEPT !.status = status]
                 ELSE timeline[i]]

TimelineInit ==
  /\ timeline = <<>>
  /\ pending = {}
  /\ last = 0

Submit(k) ==
  /\ last' = last + k
  /\ timeline' = Newest(timeline \o
       [i \in 1 .. k |-> [id |-> last + i, status |-> "processing"]])
  /\ pending' = pending \cup {last + i : i \in 1 .. k}

Resolve(n) ==
  /\ n \in pending
  /\ pending' = pending \ {n}
  /\ Mark(n, "translated") \/ Mark(n, "error")
  /\ UNCHANGED last

Resubmit(n) ==
  /\ n \notin pending
  /\ \E i \in DOMAIN timeline : timeline[i].id = n /\ timeline[i].status = "error"
  /\ pending' = pending \cup {n}
  /\ Mark(n, "processing")
  /\ UNCHANGED last

Abandon ==
  /\ pending' = {}
  /\ UNCHANGED <<timeline, last>>

TimelineNext ==
  \/ \E k \in 1 .. Batch : Submit(k)
  \/ \E n \in pending : Resolve(n)
  \/ \E n \in 1 .. last : Resubmit(n)
  \/ Abandon

TimelineSpec == TimelineInit /\ [][TimelineNext]_tvars
=============================================================================
