-------------------------- MODULE TextToSpeechProofs --------------------------
(***************************************************************************)
(* Every utterance is accounted for, for any number of utterances and      *)
(* events. The calls of speak() are numbered, and the queue holds their    *)
(* numbers in increasing order, behind the one the loop handles: this is   *)
(* what makes the invariants inductive. Push, Resolve and CloseActive all  *)
(* end in the loop of _drainQueue() or leave it alone, so that each has a  *)
(* lemma about the service part (LoopInv) and the actions cite them.       *)
(***************************************************************************)
EXTENDS TextToSpeech, TLAPS

USE TtsAssumption

\* The queue "q" is in the order of the calls, behind the utterance "it", and
\* holds none beyond the "n"-th call.
Ordered(q, it, n) ==
  /\ q \in Seq(Utterances)
  /\ \A i, j \in 1 .. Len(q) : i < j => q[i] < q[j]
  /\ \A i \in 1 .. Len(q) : it < q[i] /\ q[i] =< n

\* The callers in the states "c" fit the queue "q", the utterance "it", the number
\* of calls "n" and whether init() has been answered.
Accounted(c, q, it, n, r) ==
  /\ c \in [Utterances -> Awaits]
  /\ \A u \in Utterances :
       c[u] = "speech" <=> u = it \/ \E i \in 1 .. Len(q) : q[i] = u
  /\ \A i \in 1 .. Len(q) : \A v \in Utterances :
       q[i] < v => c[v] \notin {"idle", "done"}
  /\ \A u \in Utterances : c[u] = "nothing" <=> n < u
  /\ \A u \in Utterances : c[u] = "init" <=> u =< n /\ ~r

-----------------------------------------------------------------------------
(***************************************************************************)
(* The inductive invariant.                                                *)
(***************************************************************************)

LoopInv ==
  /\ step \in {"idle", "preparing", "playing"}
  /\ item \in 0 .. MaxUtterances
  /\ item =< said
  /\ Ordered(ttsQueue, item, said)
  /\ Accounted(caller, ttsQueue, item, said, ready)
  /\ step = "idle" <=> item = 0
  /\ step = "idle" => ttsQueue = <<>> /\ \A u \in Utterances : caller[u] # "idle"

FlagsTyped ==
  /\ ready \in BOOLEAN
  /\ listeners \in BOOLEAN
  /\ left \in BOOLEAN
  /\ speaking \in BOOLEAN

NumbersTyped ==
  /\ said \in 0 .. MaxUtterances
  /\ active \in 0 .. MaxUtterances

EngineTyped ==
  /\ lined \in Seq(Utterances)
  /\ audible \in 0 .. MaxUtterances
  /\ ttsEvents \in Seq({"start", "end"})

TtsInv ==
  /\ FlagsTyped
  /\ NumbersTyped
  /\ EngineTyped
  /\ OnlyTheActiveTimesOut
  /\ LoopInv

-----------------------------------------------------------------------------
(***************************************************************************)
(* The loop.                                                               *)
(***************************************************************************)

\* With nothing in hand, the loop takes the next utterance or ends, and accounts
\* for the same calls.
LEMMA LoopGoesOn ==
  ASSUME NEW q, NEW c, NEW sp \in BOOLEAN, NEW n \in 0 .. MaxUtterances,
         NEW r \in BOOLEAN,
         Ordered(q, 0, n), Accounted(c, q, 0, n, r), LoopFrom(q, c, sp),
         said' = n, ready' = r
  PROVE  LoopInv' /\ step' # "playing" /\ speaking' \in BOOLEAN
<1>1. CASE q = <<>>
  <2>1. /\ step' = "idle" /\ item' = 0 /\ ttsQueue' = <<>> /\ speaking' = FALSE
        /\ caller' = [u \in Utterances |-> IF c[u] = "idle" THEN "done" ELSE c[u]]
    BY <1>1 DEF LoopFrom
  <2>2. Ordered(ttsQueue', item', n)
    <3>1. <<>> \in Seq(Utterances) /\ Len(<<>>) = 0
      OBVIOUS
    <3> QED
      BY <2>1, <3>1 DEF Ordered
  <2>3. Accounted(caller', ttsQueue', item', n, r)
    BY <1>1, <2>1 DEF Accounted, Awaits, Utterances
  <2>4. \A u \in Utterances : caller'[u] # "idle"
    BY <2>1
  <2>5. step' \in {"idle", "preparing", "playing"} /\ item' \in 0 .. MaxUtterances
        /\ item' =< n
    BY <2>1
  <2>6. LoopInv'
    BY <2>1, <2>2, <2>3, <2>4, <2>5 DEF LoopInv
  <2> QED
    BY <2>1, <2>6
<1>2. CASE q # <<>>
  <2>1. /\ step' = "preparing" /\ item' = Head(q) /\ ttsQueue' = Tail(q)
        /\ speaking' = sp /\ caller' = c
    BY <1>2 DEF LoopFrom
  <2>2. q \in Seq(Utterances)
    BY DEF Ordered
  <2>3. /\ Head(q) = q[1] /\ 1 \in 1 .. Len(q) /\ q[1] \in Utterances
        /\ Tail(q) \in Seq(Utterances) /\ Len(Tail(q)) = Len(q) - 1
        /\ Len(q) \in Nat
        /\ \A i \in 1 .. Len(q) - 1 : Tail(q)[i] = q[i + 1] /\ i + 1 \in 1 .. Len(q)
    BY <1>2, <2>2
  <2>4. Ordered(Tail(q), q[1], n)
    BY <2>3 DEF Ordered, Utterances
  <2>5. \A u : (\E i \in 1 .. Len(q) : q[i] = u)
               <=> u = q[1] \/ \E i \in 1 .. Len(Tail(q)) : Tail(q)[i] = u
    <3>1. ASSUME NEW u, NEW i \in 1 .. Len(q), q[i] = u, u # q[1]
          PROVE  \E k \in 1 .. Len(Tail(q)) : Tail(q)[k] = u
      <4>1. i - 1 \in 1 .. Len(Tail(q)) /\ (i - 1) + 1 = i
        BY <2>3, <3>1
      <4> QED
        BY <2>3, <3>1, <4>1
    <3> QED
      BY <2>3, <3>1, SMTT(30)
  <2>6. \A u \in Utterances : u # 0
    BY DEF Utterances
  <2>7. Accounted(c, Tail(q), q[1], n, r)
    BY <2>3, <2>5, <2>6 DEF Accounted
  <2>8. q[1] \in 0 .. MaxUtterances /\ q[1] =< n /\ q[1] # 0
    BY <2>3 DEF Ordered, Utterances
  <2> QED
    BY <2>1, <2>3, <2>4, <2>7, <2>8 DEF LoopInv
<1> QED
  BY <1>1, <1>2

\* Utterances added behind the queue are accounted for, whether the loop runs or
\* not.
LEMMA PushAccounts ==
  ASSUME NEW us \in Seq(Utterances), NEW c, NEW n \in 0 .. MaxUtterances,
         NEW r \in BOOLEAN, LoopInv, speaking \in BOOLEAN,
         Ordered(ttsQueue \o us, item, n), Accounted(c, ttsQueue \o us, item, n, r),
         item =< n, Push(us, c), said' = n, ready' = r
  PROVE  /\ LoopInv' /\ speaking' \in BOOLEAN
         /\ step' = "playing" <=> step = "playing"
         /\ step = "playing" => item' = item
<1>1. CASE step = "idle"
  <2>1. item = 0 /\ LoopFrom(ttsQueue \o us, c, speaking)
    BY <1>1 DEF LoopInv, Push
  <2> QED
    BY <1>1, <2>1, LoopGoesOn
<1>2. CASE step # "idle"
  <2>1. /\ ttsQueue' = ttsQueue \o us /\ caller' = c
        /\ step' = step /\ item' = item /\ speaking' = speaking
    BY <1>2 DEF Push
  <2> QED
    BY <1>2, <2>1 DEF LoopInv
<1> QED
  BY <1>1, <1>2

\* A resolved utterance that the loop does not await changes nothing for it; the
\* one it awaits is settled, and the loop goes on.
LEMMA ResolveAccounts ==
  ASSUME NEW u, NEW q, NEW c, LoopInv, said \in 0 .. MaxUtterances,
         ready \in BOOLEAN,
         Ordered(q, item, said), Accounted(c, q, item, said, ready),
         step = "idle" => q = <<>> /\ \A v \in Utterances : c[v] # "idle",
         Resolve(u, q, c), said' = said, ready' = ready
  PROVE  /\ LoopInv' /\ speaking' \in BOOLEAN
         /\ step = "playing" /\ item = u => step' # "playing"
         /\ ~(step = "playing" /\ item = u) => step' = step /\ item' = item
<1>1. CASE step = "playing" /\ item = u
  <2> DEFINE d == [c EXCEPT ![u] = "idle"]
  <2>1. LoopFrom(q, d, FALSE)
    BY <1>1 DEF Resolve
  <2>2. u \in Utterances /\ u # 0 /\ u =< said
    BY <1>1 DEF LoopInv, Utterances
  <2>3. Ordered(q, 0, said)
    BY <1>1, <2>2 DEF Ordered, Utterances
  <2>4. /\ d \in [Utterances -> Awaits] /\ d[u] = "idle"
        /\ \A v \in Utterances : v # u => d[v] = c[v]
    BY <2>2 DEF Accounted, Awaits
  <2>5. c[u] = "speech"
    BY <1>1, <2>2 DEF Accounted
  <2>6. \A i \in 1 .. Len(q) : u < q[i] /\ q[i] \in Utterances
    BY <1>1 DEF Ordered
  <2>7. \A i \in 1 .. Len(q) : q[i] # u /\ ~(q[i] < u)
    BY <2>2, <2>6 DEF Utterances
  <2> HIDE DEF d
  <2>8. Accounted(d, q, 0, said, ready)
    <3>1. \A v \in Utterances :
            d[v] = "speech" <=> v = 0 \/ \E i \in 1 .. Len(q) : q[i] = v
      <4>1. \A v \in Utterances : v # 0
        BY DEF Utterances
      <4> QED
        BY <1>1, <2>4, <2>7, <4>1 DEF Accounted
    <3>2. \A i \in 1 .. Len(q) : \A v \in Utterances :
            q[i] < v => d[v] \notin {"idle", "done"}
      BY <2>4, <2>7 DEF Accounted
    <3>3. /\ \A v \in Utterances : d[v] = "nothing" <=> said < v
          /\ \A v \in Utterances : d[v] = "init" <=> v =< said /\ ~ready
      BY <2>4, <2>5, <2>2 DEF Accounted
    <3> QED
      BY <2>4, <3>1, <3>2, <3>3 DEF Accounted
  <2> QED
    BY <1>1, <2>1, <2>3, <2>8, LoopGoesOn
<1>2. CASE ~(step = "playing" /\ item = u)
  <2>1. /\ ttsQueue' = q /\ caller' = c /\ speaking' = FALSE
        /\ step' = step /\ item' = item
    BY <1>2 DEF Resolve
  <2> QED
    BY <1>2, <2>1 DEF LoopInv
<1> QED
  BY <1>1, <1>2

\* An event or stop() leaves no timeout behind.
LEMMA CloseAccounts ==
  ASSUME NEW q, NEW c, TtsInv,
         Ordered(q, item, said), Accounted(c, q, item, said, ready),
         step = "idle" => q = <<>> /\ \A v \in Utterances : c[v] # "idle",
         CloseActive(q, c), said' = said, ready' = ready
  PROVE  LoopInv' /\ speaking' \in BOOLEAN /\ active' = 0 /\ OnlyTheActiveTimesOut'
<1>1. /\ LoopInv /\ said \in 0 .. MaxUtterances /\ ready \in BOOLEAN
      /\ OnlyTheActiveTimesOut
  BY DEF TtsInv, NumbersTyped, FlagsTyped
<1>2. active' = 0 /\ timers' = timers \ {active} /\ Resolve(active, q, c)
  BY DEF CloseActive
<1>3. /\ LoopInv' /\ speaking' \in BOOLEAN
      /\ step = "playing" /\ item = active => step' # "playing"
      /\ ~(step = "playing" /\ item = active) => step' = step /\ item' = item
  BY <1>1, <1>2, ResolveAccounts
<1>4. step' # "playing"
  BY <1>1, <1>3 DEF OnlyTheActiveTimesOut
<1>5. timers' = {}
  BY <1>1, <1>2 DEF OnlyTheActiveTimesOut
<1> QED
  BY <1>2, <1>3, <1>4, <1>5 DEF OnlyTheActiveTimesOut

-----------------------------------------------------------------------------
(***************************************************************************)
(* The steps.                                                              *)
(***************************************************************************)

LEMMA TtsInitially == TtsInit => TtsInv
<1> SUFFICES ASSUME TtsInit PROVE TtsInv
  OBVIOUS
<1>1. FlagsTyped /\ NumbersTyped
  <2>1. FlagsTyped
    BY DEF TtsInit, FlagsTyped
  <2>2. NumbersTyped
    BY DEF TtsInit, NumbersTyped
  <2> QED
    BY <2>1, <2>2
<1>2. EngineTyped
  BY DEF TtsInit, EngineTyped
<1>3. OnlyTheActiveTimesOut
  BY DEF TtsInit, OnlyTheActiveTimesOut
<1>4. Ordered(ttsQueue, item, said)
  <2>1. <<>> \in Seq(Utterances) /\ Len(<<>>) = 0
    OBVIOUS
  <2> QED
    BY <2>1 DEF TtsInit, Ordered
<1>5. Accounted(caller, ttsQueue, item, said, ready)
  BY DEF TtsInit, Accounted, Awaits, Utterances
<1>6. LoopInv
  <2>1. \A u \in Utterances : caller[u] # "idle"
    BY DEF TtsInit
  <2> QED
    BY <1>4, <1>5, <2>1 DEF TtsInit, LoopInv
<1> QED
  BY <1>1, <1>2, <1>3, <1>6 DEF TtsInv

\* Before init() is answered nothing is queued or handled.
LEMMA NothingBeforeInit ==
  ASSUME TtsInv, ~ready
  PROVE  item = 0 /\ step = "idle" /\ ttsQueue = <<>>
<1>1. \A u \in Utterances : caller[u] # "speech"
  <2> SUFFICES ASSUME NEW u \in Utterances PROVE caller[u] # "speech"
    OBVIOUS
  <2>1. u \in Nat /\ said \in Nat
    BY DEF Utterances, TtsInv, NumbersTyped
  <2>2. CASE said < u
    BY <2>2 DEF TtsInv, LoopInv, Accounted
  <2>3. CASE u =< said
    BY <2>3 DEF TtsInv, LoopInv, Accounted
  <2> QED
    BY <2>1, <2>2, <2>3
<1>2. item \notin Utterances
  BY <1>1 DEF TtsInv, LoopInv, Accounted
<1>3. item = 0
  BY <1>2 DEF TtsInv, LoopInv, Utterances
<1> QED
  BY <1>3 DEF TtsInv, LoopInv

LEMMA SpeakKeeps == ASSUME TtsInv, Speak PROVE TtsInv'
<1> DEFINE us == <<said + 1>>
           c == [caller EXCEPT ![said + 1] = "speech"]
           q == ttsQueue \o us
<1>1. /\ speaking' \in BOOLEAN => FlagsTyped'
      /\ EngineTyped' /\ NumbersTyped'
      /\ said \in Nat /\ said + 1 \in Utterances /\ said' = said + 1
      /\ active' = active /\ timers' = timers /\ ready' = ready
  BY DEF TtsInv, FlagsTyped, NumbersTyped, EngineTyped, Speak, engineVars, Utterances
<1>2. /\ LoopInv /\ OnlyTheActiveTimesOut /\ speaking \in BOOLEAN
      /\ ready \in BOOLEAN
  BY DEF TtsInv, FlagsTyped
<1>3. CASE ready
  <2>1. Push(us, c)
    BY <1>3 DEF Speak
  <2>2. /\ us \in Seq(Utterances) /\ Len(us) = 1 /\ us[1] = said + 1
        /\ ttsQueue \in Seq(Utterances) /\ Len(ttsQueue) \in Nat
    BY <1>1, <1>2 DEF LoopInv, Ordered
  <2>3. /\ q \in Seq(Utterances) /\ Len(q) = Len(ttsQueue) + 1
        /\ \A i \in 1 .. Len(ttsQueue) : q[i] = ttsQueue[i]
        /\ q[Len(ttsQueue) + 1] = said + 1
    BY <2>2
  <2>4. \A i \in 1 .. Len(q) :
          i \in 1 .. Len(ttsQueue) \/ i = Len(ttsQueue) + 1
    BY <2>2, <2>3
  <2>5. /\ c \in [Utterances -> Awaits] /\ c[said + 1] = "speech"
        /\ \A v \in Utterances : v # said + 1 => c[v] = caller[v]
    BY <1>1, <1>2 DEF LoopInv, Accounted, Awaits
  <2> HIDE DEF c, us, q
  <2>6. Ordered(q, item, said + 1)
    <3>1. \A i \in 1 .. Len(ttsQueue) : ttsQueue[i] =< said /\ ttsQueue[i] \in Nat
      BY <1>2, <2>2 DEF LoopInv, Ordered, Utterances
    <3>2. item < said + 1
      BY <1>1, <1>2 DEF LoopInv
    <3>3. \A i, j \in 1 .. Len(q) : i < j => q[i] < q[j]
      BY <1>1, <1>2, <2>2, <2>3, <2>4, <3>1 DEF LoopInv, Ordered
    <3>4. \A i \in 1 .. Len(q) : item < q[i] /\ q[i] =< said + 1
      BY <1>1, <1>2, <2>2, <2>3, <2>4, <3>1, <3>2 DEF LoopInv, Ordered
    <3> QED
      BY <2>3, <3>3, <3>4 DEF Ordered
  <2>7. Accounted(c, q, item, said + 1, ready)
    <3>1. \A v \in Utterances :
            c[v] = "speech" <=> v = item \/ \E i \in 1 .. Len(q) : q[i] = v
      <4> SUFFICES ASSUME NEW v \in Utterances
                   PROVE  c[v] = "speech"
                          <=> v = item \/ \E i \in 1 .. Len(q) : q[i] = v
        OBVIOUS
      <4>1. Len(ttsQueue) + 1 \in 1 .. Len(q)
        BY <2>2, <2>3
      <4>2. CASE v = said + 1
        BY <2>3, <2>5, <4>1, <4>2
      <4>3. CASE v # said + 1
        <5>1. (\E i \in 1 .. Len(q) : q[i] = v)
              <=> \E i \in 1 .. Len(ttsQueue) : ttsQueue[i] = v
          BY <2>2, <2>3, <2>4, <4>3
        <5> QED
          BY <1>2, <2>5, <4>3, <5>1 DEF LoopInv, Accounted
      <4> QED
        BY <4>2, <4>3
    <3>2. \A v \in Utterances : said < v => caller[v] = "nothing"
      BY <1>2 DEF LoopInv, Accounted
    <3>3. \A i \in 1 .. Len(q) : \A v \in Utterances :
            q[i] < v => c[v] \notin {"idle", "done"}
      <4> SUFFICES ASSUME NEW i \in 1 .. Len(q), NEW v \in Utterances, q[i] < v
                   PROVE  c[v] \notin {"idle", "done"}
        OBVIOUS
      <4>1. CASE i \in 1 .. Len(ttsQueue)
        BY <1>2, <2>3, <2>5, <4>1 DEF LoopInv, Accounted
      <4>2. CASE i = Len(ttsQueue) + 1
        <5>1. said < v /\ v # said + 1
          BY <1>1, <2>3, <4>2 DEF Utterances
        <5> QED
          BY <2>5, <3>2, <5>1
      <4> QED
        BY <2>4, <4>1, <4>2
    <3>4. \A v \in Utterances : c[v] = "nothing" <=> said + 1 < v
      <4>1. \A v \in Utterances : v # said + 1 => (said < v <=> said + 1 < v)
        BY <1>1 DEF Utterances
      <4>2. ~(said + 1 < said + 1)
        BY <1>1
      <4> QED
        BY <1>2, <2>5, <4>1, <4>2 DEF LoopInv, Accounted
    <3>5. \A v \in Utterances : c[v] = "init" <=> v =< said + 1 /\ ~ready
      BY <1>2, <1>3, <2>5 DEF LoopInv, Accounted
    <3> QED
      BY <2>5, <3>1, <3>3, <3>4, <3>5 DEF Accounted
  <2>8. item =< said + 1 /\ said + 1 \in 0 .. MaxUtterances
    BY <1>1, <1>2 DEF LoopInv, Utterances
  <2>9. /\ LoopInv' /\ speaking' \in BOOLEAN
        /\ step' = "playing" <=> step = "playing"
        /\ step = "playing" => item' = item
    BY <1>1, <1>2, <2>1, <2>2, <2>6, <2>7, <2>8, PushAccounts DEF q
  <2> QED
    BY <1>1, <1>2, <2>9 DEF TtsInv, OnlyTheActiveTimesOut
<1>4. CASE ~ready
  <2>1. item = 0 /\ step = "idle" /\ ttsQueue = <<>>
    BY <1>4, NothingBeforeInit
  <2>2. /\ caller' = [caller EXCEPT ![said + 1] = "init"]
        /\ ttsQueue' = <<>> /\ step' = "idle" /\ item' = 0 /\ speaking' = speaking
    BY <1>4, <2>1 DEF Speak
  <2>3. /\ caller' \in [Utterances -> Awaits] /\ caller'[said + 1] = "init"
        /\ \A v \in Utterances : v # said + 1 => caller'[v] = caller[v]
    BY <1>1, <1>2, <2>2 DEF LoopInv, Accounted, Awaits
  <2>4. Ordered(ttsQueue', item', said')
    BY <1>1, <1>2, <2>1, <2>2 DEF LoopInv, Ordered
  <2>5. Accounted(caller', ttsQueue', item', said', ready')
    <3>1. /\ Len(ttsQueue') = 0
          /\ \A v \in Utterances : v # 0
      BY <2>2 DEF Utterances
    <3>2. \A v \in Utterances : caller'[v] # "speech"
      BY <1>2, <2>1, <2>3, <3>1 DEF LoopInv, Accounted
    <3>3. \A v \in Utterances : v # said + 1 =>
            (said < v <=> said + 1 < v) /\ (v =< said <=> v =< said + 1)
      BY <1>1 DEF Utterances
    <3>4. ~(said + 1 < said + 1) /\ said + 1 =< said + 1
      BY <1>1
    <3> QED
      BY <1>1, <1>2, <1>4, <2>2, <2>3, <3>1, <3>2, <3>3, <3>4 DEF LoopInv, Accounted
  <2>6. \A v \in Utterances : caller'[v] # "idle"
    BY <1>2, <2>1, <2>3 DEF LoopInv
  <2>7. LoopInv'
    BY <1>1, <2>2, <2>4, <2>5, <2>6 DEF LoopInv
  <2>8. OnlyTheActiveTimesOut'
    BY <1>1, <1>2, <2>1, <2>2 DEF OnlyTheActiveTimesOut
  <2> QED
    BY <1>1, <1>2, <2>2, <2>7, <2>8 DEF TtsInv
<1> QED
  BY <1>3, <1>4

LEMMA InitAnsweredKeeps == ASSUME TtsInv, InitAnswered PROVE TtsInv'
<1> DEFINE us == [i \in 1 .. said |-> i]
           c == [u \in Utterances |-> IF caller[u] = "init" THEN "speech" ELSE caller[u]]
           q == ttsQueue \o us
<1>1. /\ speaking' \in BOOLEAN => FlagsTyped'
      /\ EngineTyped' /\ NumbersTyped'
      /\ said \in Nat /\ said =< MaxUtterances /\ said' = said /\ ready' = TRUE
      /\ active' = active /\ timers' = timers /\ ~ready
  BY DEF TtsInv, FlagsTyped, NumbersTyped, EngineTyped, InitAnswered, engineVars
<1>2. /\ LoopInv /\ OnlyTheActiveTimesOut /\ speaking \in BOOLEAN
  BY DEF TtsInv, FlagsTyped
<1>3. Push(us, c)
  BY DEF InitAnswered
<1>4. item = 0 /\ step = "idle" /\ ttsQueue = <<>>
  BY <1>1, NothingBeforeInit
<1>5. /\ us \in Seq(Utterances) /\ Len(us) = said
      /\ \A i \in 1 .. said : us[i] = i
  <2>1. \A i \in 1 .. said : i \in Utterances
    BY <1>1 DEF Utterances
  <2> QED
    BY <1>1, <2>1
<1>6. q = us
  BY <1>4, <1>5
<1>7. c \in [Utterances -> Awaits]
  BY <1>2 DEF LoopInv, Accounted, Awaits
<1>8. \A u \in Utterances : c[u] = IF caller[u] = "init" THEN "speech" ELSE caller[u]
  OBVIOUS
<1> HIDE DEF us, c, q
<1>9. Ordered(q, item, said)
  BY <1>1, <1>4, <1>5, <1>6 DEF Ordered
<1>10. Accounted(c, q, item, said, TRUE)
  <2>1. \A u \in Utterances :
          /\ u =< said <=> u \in 1 .. said
          /\ said < u <=> u \notin 1 .. said
    BY <1>1 DEF Utterances
  <2>2. \A u \in Utterances : u \in 1 .. said <=> \E i \in 1 .. Len(q) : q[i] = u
    BY <1>5, <1>6
  <2>3. \A u \in Utterances : c[u] = IF u \in 1 .. said THEN "speech" ELSE "nothing"
    BY <1>1, <1>2, <1>8, <2>1 DEF LoopInv, Accounted
  <2>4. \A u \in Utterances : u # item
    BY <1>4 DEF Utterances
  <2>5. \A u \in Utterances : c[u] \notin {"idle", "done", "init"}
    BY <2>3
  <2>6. \A u \in Utterances : c[u] = "speech" <=> u \in 1 .. said
    BY <2>3
  <2>7. \A u \in Utterances : c[u] = "nothing" <=> said < u
    BY <2>1, <2>3
  <2> QED
    BY <1>7, <2>2, <2>4, <2>5, <2>6, <2>7 DEF Accounted
<1>11. item =< said /\ said \in 0 .. MaxUtterances /\ TRUE \in BOOLEAN
  BY <1>1, <1>4
<1>12. /\ LoopInv' /\ speaking' \in BOOLEAN
       /\ step' = "playing" <=> step = "playing"
       /\ step = "playing" => item' = item
  BY <1>1, <1>2, <1>3, <1>5, <1>9, <1>10, <1>11, PushAccounts DEF q
<1> QED
  BY <1>1, <1>2, <1>12 DEF TtsInv, OnlyTheActiveTimesOut

\* The part of the invariant that stop(), a late event and a timeout leave alone.
LEMMA RestKeeps ==
  ASSUME TtsInv, UNCHANGED <<ready, left, said>>, listeners' \in BOOLEAN,
         speaking' \in BOOLEAN, active' \in 0 .. MaxUtterances
  PROVE  FlagsTyped' /\ NumbersTyped'
<1>1. FlagsTyped'
  BY DEF TtsInv, FlagsTyped
<1>2. NumbersTyped'
  BY DEF TtsInv, NumbersTyped
<1> QED
  BY <1>1, <1>2

LEMMA StopAllKeeps ==
  ASSUME TtsInv, StopAll, UNCHANGED <<ready, said>>
  PROVE  /\ LoopInv' /\ speaking' \in BOOLEAN /\ active' = 0
         /\ OnlyTheActiveTimesOut' /\ EngineTyped'
<1> DEFINE c == [u \in Utterances |->
                   IF \E i \in DOMAIN ttsQueue : ttsQueue[i] = u
                   THEN "idle" ELSE caller[u]]
<1>1. CloseActive(<<>>, c) /\ EngineStops
  BY DEF StopAll
<1>2. /\ LoopInv /\ ttsQueue \in Seq(Utterances)
      /\ DOMAIN ttsQueue = 1 .. Len(ttsQueue) /\ said \in Nat
  BY DEF TtsInv, LoopInv, Ordered, NumbersTyped
<1>3. <<>> \in Seq(Utterances) /\ Len(<<>>) = 0 /\ 1 .. 0 = {}
  OBVIOUS
<1>4. Ordered(<<>>, item, said)
  BY <1>3 DEF Ordered
<1>5. /\ c \in [Utterances -> Awaits]
      /\ \A u \in Utterances : c[u] = IF \E i \in 1 .. Len(ttsQueue) : ttsQueue[i] = u
                                  THEN "idle" ELSE caller[u]
  BY <1>2 DEF LoopInv, Accounted, Awaits
<1> HIDE DEF c
<1>6. Accounted(c, <<>>, item, said, ready)
  <2>1. \A i \in 1 .. Len(ttsQueue) : ttsQueue[i] # item
    BY <1>2 DEF LoopInv, Ordered, Utterances
  <2>2. \A u \in Utterances :
          (\E i \in 1 .. Len(ttsQueue) : ttsQueue[i] = u) => caller[u] = "speech"
    BY <1>2 DEF LoopInv, Accounted
  <2>3. \A u \in Utterances : c[u] = "speech" <=> u = item
    BY <1>2, <1>5, <2>1 DEF LoopInv, Accounted
  <2>4. \A u \in Utterances : c[u] = "nothing" <=> caller[u] = "nothing"
    BY <1>5, <2>2
  <2>5. \A u \in Utterances : c[u] = "init" <=> caller[u] = "init"
    BY <1>5, <2>2
  <2> QED
    BY <1>2, <1>3, <1>5, <2>3, <2>4, <2>5 DEF LoopInv, Accounted
<1>7. step = "idle" => \A u \in Utterances : c[u] # "idle"
  BY <1>2, <1>3, <1>5 DEF LoopInv
<1>8. EngineTyped'
  <2>1. "end" \in {"start", "end"} /\ ttsEvents \in Seq({"start", "end"})
    BY DEF TtsInv, EngineTyped
  <2>2. ttsEvents' \in Seq({"start", "end"})
    BY <1>1, <2>1 DEF EngineStops
  <2> QED
    BY <1>1, <1>3, <2>2 DEF EngineStops, EngineTyped
<1> QED
  BY <1>1, <1>4, <1>6, <1>7, <1>8, CloseAccounts

LEMMA StopSpeakingKeeps == ASSUME TtsInv, StopSpeaking PROVE TtsInv'
<1>1. StopAll /\ UNCHANGED <<ready, listeners, left, said>>
  BY DEF StopSpeaking
<1>2. /\ LoopInv' /\ speaking' \in BOOLEAN /\ active' = 0
      /\ OnlyTheActiveTimesOut' /\ EngineTyped'
  BY <1>1, StopAllKeeps
<1>3. listeners' \in BOOLEAN /\ 0 \in 0 .. MaxUtterances
  BY <1>1 DEF TtsInv, FlagsTyped
<1> QED
  BY <1>1, <1>2, <1>3, RestKeeps DEF TtsInv

LEMMA DestroySpeakingKeeps == ASSUME TtsInv, DestroySpeaking PROVE TtsInv'
<1>1. StopAll /\ UNCHANGED <<ready, said>> /\ left' = TRUE /\ listeners' = FALSE
  BY DEF DestroySpeaking
<1>2. /\ LoopInv' /\ speaking' \in BOOLEAN /\ active' = 0
      /\ OnlyTheActiveTimesOut' /\ EngineTyped'
  BY <1>1, StopAllKeeps
<1>3. FlagsTyped'
  BY <1>1, <1>2 DEF TtsInv, FlagsTyped
<1>4. NumbersTyped'
  BY <1>1, <1>2 DEF TtsInv, NumbersTyped
<1> QED
  BY <1>2, <1>3, <1>4 DEF TtsInv

LEMMA PreparedKeeps ==
  ASSUME TtsInv, NEW ok \in BOOLEAN, Prepared(ok) PROVE TtsInv'
<1>1. /\ step = "preparing" /\ active = 0 /\ timers = {}
      /\ LoopInv /\ speaking \in BOOLEAN /\ ready \in BOOLEAN
      /\ said \in 0 .. MaxUtterances
      /\ UNCHANGED <<ready, listeners, left, said, audible, ttsEvents>>
  BY DEF TtsInv, OnlyTheActiveTimesOut, FlagsTyped, NumbersTyped, Prepared
<1>2. item \in Utterances /\ item # 0 /\ item \in 0 .. MaxUtterances
  BY <1>1 DEF LoopInv, Utterances
<1>3. CASE ok
  <2>1. /\ step' = "playing" /\ active' = item /\ timers' = {item}
        /\ speaking' = TRUE /\ lined' = Append(lined, item)
        /\ ttsQueue' = ttsQueue /\ item' = item /\ caller' = caller
    BY <1>1, <1>3 DEF Prepared
  <2>2. FlagsTyped'
    BY <1>1, <2>1 DEF TtsInv, FlagsTyped
  <2>3. NumbersTyped'
    BY <1>1, <1>2, <2>1 DEF NumbersTyped
  <2>4. EngineTyped'
    BY <1>1, <1>2, <2>1 DEF TtsInv, EngineTyped
  <2>5. OnlyTheActiveTimesOut'
    BY <1>2, <2>1 DEF OnlyTheActiveTimesOut
  <2>6. LoopInv'
    BY <1>1, <1>2, <2>1 DEF LoopInv
  <2> QED
    BY <2>2, <2>3, <2>4, <2>5, <2>6 DEF TtsInv
<1>4. CASE ~ok
  <2> DEFINE c == [caller EXCEPT ![item] = "done"]
  <2>1. LoopFrom(ttsQueue, c, speaking) /\ UNCHANGED <<active, timers, lined>>
    BY <1>4 DEF Prepared
  <2>2. /\ c \in [Utterances -> Awaits] /\ c[item] = "done"
        /\ \A v \in Utterances : v # item => c[v] = caller[v]
    BY <1>1, <1>2 DEF LoopInv, Accounted, Awaits
  <2> HIDE DEF c
  <2>3. Ordered(ttsQueue, 0, said)
    BY <1>1, <1>2 DEF LoopInv, Ordered, Utterances
  <2>4. \A i \in 1 .. Len(ttsQueue) : ttsQueue[i] # item /\ ~(ttsQueue[i] < item)
    BY <1>1, <1>2 DEF LoopInv, Ordered, Utterances
  <2>5. item =< said /\ ~(said < item) /\ caller[item] = "speech"
    BY <1>1, <1>2 DEF LoopInv, Accounted
  <2>6. Accounted(c, ttsQueue, 0, said, ready)
    <3>1. \A v \in Utterances :
            c[v] = "speech" <=> v = 0 \/ \E i \in 1 .. Len(ttsQueue) : ttsQueue[i] = v
      <4>1. \A v \in Utterances : v # 0
        BY DEF Utterances
      <4> QED
        BY <1>1, <2>2, <2>4, <4>1 DEF LoopInv, Accounted
    <3>2. \A i \in 1 .. Len(ttsQueue) : \A v \in Utterances :
            ttsQueue[i] < v => c[v] \notin {"idle", "done"}
      BY <1>1, <2>2, <2>4 DEF LoopInv, Accounted
    <3>3. \A v \in Utterances : c[v] = "nothing" <=> said < v
      BY <1>1, <2>2, <2>5 DEF LoopInv, Accounted
    <3>4. \A v \in Utterances : c[v] = "init" <=> v =< said /\ ~ready
      BY <1>1, <1>2, <2>2, <2>5 DEF LoopInv, Accounted
    <3> QED
      BY <2>2, <3>1, <3>2, <3>3, <3>4 DEF Accounted
  <2>7. LoopInv' /\ step' # "playing" /\ speaking' \in BOOLEAN
    BY <1>1, <2>1, <2>3, <2>6, LoopGoesOn
  <2>8. FlagsTyped'
    BY <1>1, <2>7 DEF TtsInv, FlagsTyped
  <2>9. NumbersTyped'
    BY <1>1, <2>1 DEF TtsInv, NumbersTyped
  <2>10. EngineTyped'
    BY <1>1, <2>1 DEF TtsInv, EngineTyped
  <2>11. OnlyTheActiveTimesOut'
    BY <1>1, <2>1, <2>7 DEF OnlyTheActiveTimesOut
  <2> QED
    BY <2>7, <2>8, <2>9, <2>10, <2>11 DEF TtsInv
<1> QED
  BY <1>3, <1>4

LEMMA TtsTimeoutKeeps ==
  ASSUME TtsInv, NEW u \in timers, TtsTimeout(u) PROVE TtsInv'
<1>1. /\ LoopInv /\ ready \in BOOLEAN /\ listeners \in BOOLEAN
      /\ said \in 0 .. MaxUtterances
      /\ UNCHANGED <<ready, listeners, left, said, lined, audible, ttsEvents>>
  BY DEF TtsInv, FlagsTyped, NumbersTyped, TtsTimeout, engineVars
<1>2. active = u /\ u # 0 /\ timers = {u} /\ step = "playing" /\ item = u
  BY DEF TtsInv, OnlyTheActiveTimesOut
<1>3. timers' = {} /\ active' = 0 /\ Resolve(u, ttsQueue, caller)
  BY <1>2 DEF TtsTimeout
<1>4. /\ Ordered(ttsQueue, item, said) /\ Accounted(caller, ttsQueue, item, said, ready)
      /\ step # "idle"
  BY <1>1, <1>2 DEF LoopInv
<1>5. LoopInv' /\ speaking' \in BOOLEAN /\ step' # "playing"
  BY <1>1, <1>2, <1>3, <1>4, ResolveAccounts
<1>6. FlagsTyped' /\ NumbersTyped'
  <2>1. 0 \in 0 .. MaxUtterances
    OBVIOUS
  <2> QED
    BY <1>1, <1>3, <1>5, <2>1, RestKeeps
<1>7. EngineTyped'
  BY <1>1 DEF TtsInv, EngineTyped
<1>8. OnlyTheActiveTimesOut'
  BY <1>3, <1>5 DEF OnlyTheActiveTimesOut
<1> QED
  BY <1>5, <1>6, <1>7, <1>8 DEF TtsInv

LEMMA TtsEventKeeps == ASSUME TtsInv, TtsEvent PROVE TtsInv'
<1>1. /\ LoopInv /\ OnlyTheActiveTimesOut /\ FlagsTyped /\ NumbersTyped
      /\ UNCHANGED <<ready, listeners, left, said, lined, audible>>
      /\ ttsEvents # <<>> /\ ttsEvents' = Tail(ttsEvents)
  BY DEF TtsInv, TtsEvent
<1>2. EngineTyped'
  <2>1. ttsEvents \in Seq({"start", "end"})
    BY DEF TtsInv, EngineTyped
  <2>2. ttsEvents' \in Seq({"start", "end"})
    BY <1>1, <2>1
  <2> QED
    BY <1>1, <2>2 DEF TtsInv, EngineTyped
<1>3. CASE UNCHANGED <<caller, ttsQueue, step, item, active, timers>>
           /\ speaking' \in BOOLEAN
  <2>1. FlagsTyped' /\ NumbersTyped'
    BY <1>1, <1>3, RestKeeps DEF FlagsTyped, NumbersTyped
  <2>2. LoopInv'
    BY <1>1, <1>3 DEF LoopInv
  <2>3. OnlyTheActiveTimesOut'
    BY <1>1, <1>3 DEF OnlyTheActiveTimesOut
  <2> QED
    BY <1>2, <2>1, <2>2, <2>3 DEF TtsInv
<1>4. CASE CloseActive(ttsQueue, caller)
  <2>1. /\ Ordered(ttsQueue, item, said)
        /\ Accounted(caller, ttsQueue, item, said, ready)
        /\ step = "idle" => ttsQueue = <<>> /\ \A v \in Utterances : caller[v] # "idle"
    BY <1>1 DEF LoopInv
  <2>2. LoopInv' /\ speaking' \in BOOLEAN /\ active' = 0 /\ OnlyTheActiveTimesOut'
    BY <1>1, <1>4, <2>1, CloseAccounts
  <2>3. listeners' \in BOOLEAN /\ 0 \in 0 .. MaxUtterances
    BY <1>1 DEF FlagsTyped
  <2>4. FlagsTyped' /\ NumbersTyped'
    BY <1>1, <2>2, <2>3, RestKeeps
  <2> QED
    BY <1>2, <2>2, <2>4 DEF TtsInv
<1>5. \/ UNCHANGED <<caller, ttsQueue, step, item, active, timers>>
         /\ speaking' \in BOOLEAN
      \/ CloseActive(ttsQueue, caller)
  BY <1>1 DEF TtsEvent, FlagsTyped
<1> QED
  BY <1>3, <1>4, <1>5

\* A step of the engine leaves the service alone.
LEMMA EngineKeeps ==
  ASSUME TtsInv, UNCHANGED serviceVars, EngineTyped'
  PROVE  TtsInv'
<1>1. UNCHANGED <<ready, listeners, left, said, caller, ttsQueue, step, item,
                  active, timers, speaking>>
  BY DEF serviceVars
<1>2. FlagsTyped'
  BY <1>1 DEF TtsInv, FlagsTyped
<1>3. NumbersTyped'
  BY <1>1 DEF TtsInv, NumbersTyped
<1>4. OnlyTheActiveTimesOut'
  BY <1>1 DEF TtsInv, OnlyTheActiveTimesOut
<1>5. LoopInv'
  BY <1>1 DEF TtsInv, LoopInv
<1> QED
  BY <1>2, <1>3, <1>4, <1>5 DEF TtsInv

LEMMA EngineStepsKeep ==
  ASSUME TtsInv, EngineStarts \/ EngineEnds \/ EngineFails
  PROVE  TtsInv'
<1>1. /\ lined \in Seq(Utterances) /\ audible \in 0 .. MaxUtterances
      /\ ttsEvents \in Seq({"start", "end"})
  BY DEF TtsInv, EngineTyped
<1>2. UNCHANGED serviceVars
  BY DEF EngineStarts, EngineEnds, EngineFails
<1>3. ttsEvents' \in Seq({"start", "end"})
  <2>1. \A e \in {"start", "end"} :
          Reports(e) => ttsEvents' \in Seq({"start", "end"})
    BY <1>1 DEF Reports
  <2> QED
    BY <1>1, <2>1 DEF EngineStarts, EngineEnds, EngineFails
<1>4. lined' \in Seq(Utterances)
  BY <1>1 DEF EngineStarts, EngineEnds, EngineFails
<1>5. audible' \in 0 .. MaxUtterances
  <2>1. lined # <<>> => Head(lined) \in Utterances
    BY <1>1
  <2> QED
    BY <1>1, <2>1 DEF EngineStarts, EngineEnds, EngineFails, Utterances
<1>6. EngineTyped'
  BY <1>3, <1>4, <1>5 DEF EngineTyped
<1> QED
  BY <1>2, <1>6, EngineKeeps

THEOREM TtsInvariant == TtsSpec => []TtsInv
<1>1. TtsInit => TtsInv
  BY TtsInitially
<1>2. TtsInv /\ [TtsNext]_ttsVars => TtsInv'
  <2> SUFFICES ASSUME TtsInv, [TtsNext]_ttsVars PROVE TtsInv'
    OBVIOUS
  <2>1. CASE Speak
    BY <2>1, SpeakKeeps
  <2>2. CASE StopSpeaking
    BY <2>2, StopSpeakingKeeps
  <2>3. CASE DestroySpeaking
    BY <2>3, DestroySpeakingKeeps
  <2>4. CASE InitAnswered
    BY <2>4, InitAnsweredKeeps
  <2>5. CASE \E ok \in BOOLEAN : Prepared(ok)
    BY <2>5, PreparedKeeps
  <2>6. CASE \E u \in timers : TtsTimeout(u)
    BY <2>6, TtsTimeoutKeeps
  <2>7. CASE TtsEvent
    BY <2>7, TtsEventKeeps
  <2>8. CASE EngineStarts \/ EngineEnds \/ EngineFails
    BY <2>8, EngineStepsKeep
  <2>9. CASE UNCHANGED ttsVars
    <3>1. UNCHANGED serviceVars /\ UNCHANGED <<lined, audible, ttsEvents>>
      BY <2>9 DEF ttsVars, engineVars
    <3>2. EngineTyped'
      BY <3>1 DEF TtsInv, EngineTyped
    <3> QED
      BY <3>1, <3>2, EngineKeeps
  <2> QED
    BY <2>1, <2>2, <2>3, <2>4, <2>5, <2>6, <2>7, <2>8, <2>9 DEF TtsNext
<1> QED
  BY <1>1, <1>2, PTL DEF TtsSpec

-----------------------------------------------------------------------------
(***************************************************************************)
(* The results.                                                            *)
(***************************************************************************)

\* Type correctness of the service and the engine (tts.js:149-161).
THEOREM TtsTyped == TtsSpec => []TtsTypeOK
<1>1. TtsInv => TtsTypeOK
  <2> SUFFICES ASSUME TtsInv PROVE TtsTypeOK
    OBVIOUS
  <2>1. timers \in SUBSET Utterances
    BY DEF TtsInv, NumbersTyped, OnlyTheActiveTimesOut, Utterances
  <2>2. ttsQueue \in Seq(Utterances) /\ caller \in [Utterances -> Awaits]
    BY DEF TtsInv, LoopInv, Ordered, Accounted
  <2>3. ready \in BOOLEAN /\ listeners \in BOOLEAN /\ left \in BOOLEAN
        /\ speaking \in BOOLEAN
    BY DEF TtsInv, FlagsTyped
  <2> QED
    BY <2>1, <2>2, <2>3 DEF TtsInv, NumbersTyped, EngineTyped, LoopInv, TtsTypeOK
<1> QED
  BY <1>1, TtsInvariant, PTL

\* The timeout that is pending is always the active utterance's (tts.js:258-266):
\* however events, stops and timeouts race, none outlives its utterance.
THEOREM TimeoutsAreCurrent == TtsSpec => []OnlyTheActiveTimesOut
<1>1. TtsInv => OnlyTheActiveTimesOut
  BY DEF TtsInv
<1> QED
  BY <1>1, TtsInvariant, PTL

\* Every caller of speak() is queued or being spoken, and every caller of
\* waitForIdle() has a loop that will answer it (tts.js:229-289).
THEOREM CallersAreKept == TtsSpec => []NobodyIsForgotten
<1>1. TtsInv => NobodyIsForgotten
  <2> SUFFICES ASSUME TtsInv PROVE NobodyIsForgotten
    OBVIOUS
  <2>1. ttsQueue \in Seq(Utterances) /\ DOMAIN ttsQueue = 1 .. Len(ttsQueue)
    BY DEF TtsInv, LoopInv, Ordered
  <2> QED
    BY <2>1 DEF TtsInv, LoopInv, Accounted, NobodyIsForgotten
<1> QED
  BY <1>1, TtsInvariant, PTL

\* The calls of speak() are settled in their order, whatever stop() answers
\* early (tts.js:240-305).
THEOREM SpokenInOrder == TtsSpec => []SettledInOrder
<1>1. TtsInv => SettledInOrder
  <2> SUFFICES ASSUME TtsInv, NEW u \in Utterances, NEW v \in Utterances,
                      u < v, Settled(v), ~Settled(u), u # item
               PROVE  FALSE
    BY DEF SettledInOrder
  <2>1. /\ Accounted(caller, ttsQueue, item, said, ready)
        /\ said \in Nat /\ u \in Nat /\ v \in Nat
    BY DEF TtsInv, LoopInv, NumbersTyped, Utterances
  <2>2. caller[u] \in {"nothing", "init", "speech"}
    BY <2>1 DEF Accounted, Awaits, Settled
  <2>3. caller[v] \notin {"nothing", "init"}
    BY DEF Settled
  <2>4. v =< said /\ ready
    BY <2>1, <2>3 DEF Accounted
  <2>5. caller[u] # "nothing"
    BY <2>1, <2>4 DEF Accounted
  <2>6. caller[u] # "init"
    BY <2>1, <2>4 DEF Accounted
  <2>7. PICK i \in 1 .. Len(ttsQueue) : ttsQueue[i] = u
    BY <2>1, <2>2, <2>5, <2>6 DEF Accounted
  <2> QED
    BY <2>1, <2>7 DEF Accounted, Settled
<1> QED
  BY <1>1, TtsInvariant, PTL

=============================================================================
