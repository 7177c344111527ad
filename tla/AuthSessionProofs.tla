--------------------------- MODULE AuthSessionProofs ---------------------------
(***************************************************************************)
(* The session, for any number of log-ins and requests. A Main screen is   *)
(* reached only by an attempt of the log-in screen on top, and its         *)
(* operations in the storage all come after the last removal, because a    *)
(* removal takes that screen away before another callback runs: so the     *)
(* attempt finds what it has written. The invariant says this of every     *)
(* operation in the queue.                                                 *)
(***************************************************************************)
EXTENDS AuthSession, TLAPS

\* The operation "op" fits "t" attempts, the attempts "h" of the screen on top, the
\* saved user "u" and the log-in "s" of the store.
OpFits(op, t, h, u, s) ==
  /\ op.by =< t
  /\ op.do \notin {"read", "remove"} => op.by # 0
  /\ op.by \in h /\ op.do \in {"flag", "token", "info"} => u # 0
  /\ op.by \in h /\ op.do = "info" => s # 0

OpsFit(q, t, h, u, s) ==
  /\ q \in Seq(Operations)
  /\ \A i \in 1 .. Len(q) : OpFits(q[i], t, h, u, s)

\* The attempts that can still change the screen: none once a reset is due.
Attempts == IF clearing THEN {} ELSE here

FlagsTyped ==
  /\ up \in BOOLEAN
  /\ firstLogin \in BOOLEAN
  /\ loggingOut \in BOOLEAN
  /\ latchTimer \in BOOLEAN
  /\ sent \in BOOLEAN
  /\ clearing \in BOOLEAN

LoginsTyped ==
  /\ token \in LoginOrNone /\ savedUser \in LoginOrNone /\ store \in LoginOrNone
  /\ tried \in LoginOrNone
  /\ here \in SUBSET (1 .. tried)
  /\ posting \in SUBSET (1 .. tried)
  /\ tokenless \in SUBSET Logins

ScreensTyped ==
  /\ top \in {"Splash", "Login", "FirstLoginPassword", "Main"}
  /\ below \in Nat

\* Nothing is under way while the first screen is shown.
NothingAtStart ==
  /\ ~up => top = "Splash"
  /\ top = "Splash" => /\ store = 0 /\ below = 0 /\ here = {}
                       /\ posting = {} /\ ~sent /\ ~clearing
  /\ top = "Splash" /\ up => ops = <<>>

SessionInv ==
  /\ FlagsTyped
  /\ LoginsTyped
  /\ ScreensTyped
  /\ OpsFit(ops, tried, Attempts, savedUser, store)
  /\ NothingAtStart
  /\ TokenIsOfStore
  /\ HomeHasSession

-----------------------------------------------------------------------------
(***************************************************************************)
(* The queue of the storage.                                               *)
(***************************************************************************)

LEMMA FitAppended ==
  ASSUME NEW q, NEW t, NEW h, NEW u, NEW s, OpsFit(q, t, h, u, s),
         NEW op \in Operations, OpFits(op, t, h, u, s)
  PROVE  OpsFit(Append(q, op), t, h, u, s)
<1>1. q \in Seq(Operations) /\ Append(q, op) \in Seq(Operations)
      /\ Len(Append(q, op)) = Len(q) + 1
  BY DEF OpsFit
<1>2. ASSUME NEW i \in 1 .. Len(Append(q, op))
      PROVE  Append(q, op)[i] = op \/ (i \in 1 .. Len(q) /\ Append(q, op)[i] = q[i])
  BY <1>1
<1>3. ASSUME NEW i \in 1 .. Len(Append(q, op))
      PROVE  OpFits(Append(q, op)[i], t, h, u, s)
  BY <1>2 DEF OpsFit
<1> QED
  BY <1>1, <1>3 DEF OpsFit

LEMMA FitTaken ==
  ASSUME NEW q, NEW t, NEW h, NEW u, NEW s, OpsFit(q, t, h, u, s), q # <<>>
  PROVE  /\ OpsFit(Tail(q), t, h, u, s)
         /\ Head(q) \in Operations /\ OpFits(Head(q), t, h, u, s)
<1>1. /\ q \in Seq(Operations) /\ Tail(q) \in Seq(Operations)
      /\ Len(Tail(q)) = Len(q) - 1 /\ 1 \in 1 .. Len(q) /\ Head(q) = q[1]
  BY DEF OpsFit
<1>2. ASSUME NEW i \in 1 .. Len(Tail(q))
      PROVE  i + 1 \in 1 .. Len(q) /\ Tail(q)[i] = q[i + 1]
  BY <1>1
<1>3. ASSUME NEW i \in 1 .. Len(Tail(q)) PROVE OpFits(Tail(q)[i], t, h, u, s)
  BY <1>2 DEF OpsFit
<1> QED
  BY <1>1, <1>3 DEF OpsFit

\* What fits goes on to fit while log-ins only gain: attempts leave the screen, and
\* the saved user and the store do not become empty, unless all of them have left.
LEMMA FitKept ==
  ASSUME NEW q, NEW t, NEW h, NEW u, NEW s, OpsFit(q, t, h, u, s),
         NEW h2, NEW u2, NEW s2, h2 \subseteq h,
         h2 # {} => (u # 0 => u2 # 0) /\ (s # 0 => s2 # 0)
  PROVE  OpsFit(q, t, h2, u2, s2)
BY DEF OpsFit, OpFits

-----------------------------------------------------------------------------
(***************************************************************************)
(* The steps.                                                              *)
(***************************************************************************)

LEMMA InitiallySession == SessionInit => SessionInv
<1> SUFFICES ASSUME SessionInit PROVE SessionInv
  OBVIOUS
<1>1. OpsFit(ops, tried, Attempts, savedUser, store)
  <2>1. ops = <<>>
    BY DEF SessionInit
  <2>2. <<>> \in Seq(Operations) /\ Len(<<>>) = 0
    OBVIOUS
  <2> QED
    BY <2>1, <2>2 DEF OpsFit
<1>2. FlagsTyped
  BY DEF SessionInit, FlagsTyped
<1>3. LoginsTyped /\ ScreensTyped
  BY SessionAssumption DEF SessionInit, LoginsTyped, ScreensTyped, LoginOrNone, Logins
<1>4. NothingAtStart /\ TokenIsOfStore /\ HomeHasSession
  BY DEF SessionInit, NothingAtStart, TokenIsOfStore, HomeHasSession, MainMounted
<1> QED
  BY <1>1, <1>2, <1>3, <1>4 DEF SessionInv

LEMMA ScreensKeep ==
  ASSUME SessionInv,
         \/ \E readable \in BOOLEAN : SplashRoutes(readable)
         \/ Logout
         \/ Back
         \/ GoBackToLogin
  PROVE  SessionInv'
<1>1. /\ UNCHANGED <<up, ops, token, savedUser, firstLogin, store, tried, posting,
                     sent, tokenless, clearing, loggingOut, latchTimer>>
      /\ up /\ ~clearing
      /\ here' = here \/ here' = {}
  BY DEF SplashRoutes, Logout, Back, GoBackToLogin, LoopIsFree, storageVars, latchVars
<1>2. FlagsTyped' /\ TokenIsOfStore'
  BY <1>1 DEF SessionInv, FlagsTyped, TokenIsOfStore
<1>3. LoginsTyped'
  BY <1>1 DEF SessionInv, LoginsTyped, LoginOrNone
<1>4. OpsFit(ops, tried, Attempts, savedUser, store)'
  <2>1. OpsFit(ops, tried, here', savedUser, store)
    BY <1>1, FitKept DEF SessionInv, Attempts
  <2> QED
    BY <1>1, <2>1 DEF Attempts
<1>5. CASE \E readable \in BOOLEAN : SplashRoutes(readable)
  <2>1. up /\ store = 0 /\ below' = below /\ top' \in {"FirstLoginPassword", "Login"}
        /\ below = 0
    BY <1>1, <1>5 DEF SplashRoutes, SessionInv, NothingAtStart
  <2>2. ScreensTyped' /\ NothingAtStart' /\ HomeHasSession'
    BY <1>1, <2>1 DEF SessionInv, ScreensTyped, NothingAtStart, HomeHasSession, MainMounted
  <2> QED
    BY <1>2, <1>3, <1>4, <2>2 DEF SessionInv
<1>6. CASE Logout \/ Back \/ GoBackToLogin
  <2>1. up /\ top' # "Splash" /\ top' \in {"Login", "Main"} /\ below' \in Nat
    BY <1>1, <1>6 DEF Logout, Back, GoBackToLogin, SessionInv, ScreensTyped
  <2>2. MainMounted' => MainMounted
    BY <1>6 DEF Logout, Back, GoBackToLogin, MainMounted
  <2>3. ScreensTyped' /\ NothingAtStart' /\ HomeHasSession'
    BY <1>1, <2>1, <2>2 DEF SessionInv, ScreensTyped, NothingAtStart, HomeHasSession
  <2> QED
    BY <1>2, <1>3, <1>4, <2>3 DEF SessionInv
<1> QED
  BY <1>5, <1>6

LEMMA LoginPressedKeeps == ASSUME SessionInv, LoginPressed PROVE SessionInv'
<1>1. /\ UNCHANGED <<up, ops, token, savedUser, firstLogin, store, top, below, sent,
                     tokenless, clearing, loggingOut, latchTimer>>
      /\ up /\ ~clearing /\ top = "Login" /\ tried < MaxLogins
      /\ tried' = tried + 1 /\ here' = here \cup {tried + 1}
      /\ posting' = posting \cup {tried + 1}
  BY DEF LoginPressed, LoopIsFree, storageVars, latchVars
<1>2. FlagsTyped' /\ TokenIsOfStore' /\ ScreensTyped'
  BY <1>1 DEF SessionInv, FlagsTyped, TokenIsOfStore, ScreensTyped
<1>3. LoginsTyped'
  BY <1>1, SessionAssumption DEF SessionInv, LoginsTyped, LoginOrNone
<1>4. OpsFit(ops, tried, Attempts, savedUser, store)'
  <2>1. tried \in Nat /\ ops \in Seq(Operations)
    BY SessionAssumption DEF SessionInv, LoginsTyped, LoginOrNone, OpsFit
  <2>2. ASSUME NEW i \in 1 .. Len(ops)
        PROVE  OpFits(ops[i], tried', here', savedUser, store)
    <3>1. ops[i] \in Operations /\ OpFits(ops[i], tried, here, savedUser, store)
      BY <1>1, <2>1 DEF SessionInv, OpsFit, Attempts
    <3>2. ops[i].by \in Nat
      BY <3>1, SessionAssumption DEF Operations, LoginOrNone
    <3> QED
      BY <1>1, <2>1, <3>1, <3>2 DEF OpFits
  <2> QED
    BY <1>1, <2>1, <2>2 DEF OpsFit, Attempts
<1>5. NothingAtStart' /\ HomeHasSession'
  BY <1>1 DEF SessionInv, NothingAtStart, HomeHasSession, MainMounted
<1> QED
  BY <1>2, <1>3, <1>4, <1>5 DEF SessionInv

\* A new operation, or none, with the screens as they are or without the attempt.
LEMMA QueueGrows ==
  ASSUME SessionInv, up, ~clearing, top # "Splash",
         UNCHANGED <<up, token, savedUser, firstLogin, store, top, below, tried, clearing,
                     latchTimer>>,
         here' \subseteq here, posting' \subseteq posting,
         loggingOut' \in BOOLEAN, sent' \in BOOLEAN,
         tokenless \subseteq tokenless', tokenless' \subseteq Logins,
         \/ ops' = ops
         \/ \E op \in Operations :
              /\ ops' = Append(ops, op)
              /\ op.by =< tried /\ op.do \in {"user", "read", "remove"}
              /\ op.do = "user" => op.by # 0
  PROVE  SessionInv'
<1>1. FlagsTyped' /\ TokenIsOfStore' /\ ScreensTyped'
  BY DEF SessionInv, FlagsTyped, TokenIsOfStore, ScreensTyped
<1>2. LoginsTyped'
  BY DEF SessionInv, LoginsTyped, LoginOrNone
<1>3. OpsFit(ops, tried, here', savedUser, store)
  BY FitKept DEF SessionInv, Attempts
<1>4. OpsFit(ops', tried, here', savedUser, store)
  <2>1. CASE ops' = ops
    BY <1>3, <2>1
  <2>2. ASSUME NEW op \in Operations, ops' = Append(ops, op), op.by =< tried,
               op.do \in {"user", "read", "remove"}, op.do = "user" => op.by # 0
        PROVE  OpsFit(ops', tried, here', savedUser, store)
    <3>1. OpFits(op, tried, here', savedUser, store)
      BY <2>2 DEF OpFits
    <3> QED
      BY <1>3, <2>2, <3>1, FitAppended
  <2> QED
    BY <2>1, <2>2
<1>5. NothingAtStart' /\ HomeHasSession'
  BY DEF SessionInv, NothingAtStart, HomeHasSession, MainMounted
<1>6. OpsFit(ops, tried, Attempts, savedUser, store)'
  BY <1>4 DEF Attempts
<1> QED
  BY <1>1, <1>2, <1>5, <1>6 DEF SessionInv

LEMMA LoginAnsweredKeeps ==
  ASSUME SessionInv,
         NEW n \in posting, NEW success \in BOOLEAN, NEW first \in BOOLEAN,
         NEW bearing \in BOOLEAN, LoginAnswered(n, success, first, bearing)
  PROVE  SessionInv'
<1>1. /\ UNCHANGED <<up, token, savedUser, firstLogin, store, top, below, tried, sent,
                     clearing, loggingOut, latchTimer>>
      /\ up /\ ~clearing
      /\ here' \subseteq here
      /\ posting' \subseteq posting
      /\ tokenless' \in {tokenless, tokenless \cup {n}}
  BY DEF LoginAnswered, LoopIsFree, EndAttempt, screenVars, latchVars
<1>2. top # "Splash" /\ n \in 1 .. tried /\ n \in LoginOrNone /\ n # 0 /\ n =< tried
  BY SessionAssumption DEF SessionInv, NothingAtStart, LoginsTyped, LoginOrNone
<1>3. /\ loggingOut' \in BOOLEAN /\ sent' \in BOOLEAN
      /\ tokenless \subseteq tokenless' /\ tokenless' \subseteq Logins
  BY <1>1, <1>2 DEF SessionInv, FlagsTyped, LoginsTyped, LoginOrNone, Logins
<1>4. \/ ops' = ops
      \/ \E op \in Operations :
           /\ ops' = Append(ops, op)
           /\ op.by =< tried /\ op.do \in {"user", "read", "remove"}
           /\ op.do = "user" => op.by # 0
  <2> DEFINE op == [do |-> "user", by |-> n, first |-> first]
  <2>1. op \in Operations /\ op.by = n /\ op.do = "user"
    BY <1>2 DEF Operations
  <2>2. ops' = ops \/ ops' = Append(ops, op)
    BY DEF LoginAnswered
  <2> HIDE DEF op
  <2> QED
    BY <1>2, <2>1, <2>2
<1> QED
  BY <1>1, <1>2, <1>3, <1>4, QueueGrows

LEMMA RequestsKeep ==
  ASSUME SessionInv,
         \/ RequestSent
         \/ RequestAccepted
         \/ RequestRefused
  PROVE  SessionInv'
<1>1. /\ UNCHANGED <<up, token, savedUser, firstLogin, store, top, below, here, tried,
                     posting, tokenless, clearing, latchTimer>>
      /\ up /\ ~clearing
      /\ sent' = sent \/ sent' \in BOOLEAN
      /\ loggingOut' = loggingOut \/ loggingOut' = TRUE
  BY DEF RequestSent, RequestAccepted, RequestRefused, Answered, LoopIsFree, screenVars,
         latchVars, storageVars
<1>2. top # "Splash"
  <2>1. CASE RequestSent
    BY <2>1 DEF RequestSent, MainMounted, SessionInv, NothingAtStart
  <2>2. CASE RequestAccepted \/ RequestRefused
    BY <2>2 DEF RequestAccepted, RequestRefused, Answered, SessionInv, NothingAtStart
  <2> QED
    BY <2>1, <2>2
<1>3. loggingOut' \in BOOLEAN /\ sent' \in BOOLEAN /\ tokenless' \subseteq Logins
  BY <1>1 DEF SessionInv, FlagsTyped, LoginsTyped
<1>4. \/ ops' = ops
      \/ \E op \in Operations :
           /\ ops' = Append(ops, op)
           /\ op.by =< tried /\ op.do \in {"user", "read", "remove"}
           /\ op.do = "user" => op.by # 0
  <2> DEFINE op(d) == [do |-> d, by |-> 0, first |-> FALSE]
  <2>1. ASSUME NEW d \in {"read", "remove"}
        PROVE  op(d) \in Operations /\ op(d).by = 0 /\ op(d).do = d
    BY SessionAssumption DEF Operations, LoginOrNone
  <2>2. ops' = ops \/ \E d \in {"read", "remove"} : ops' = Append(ops, op(d))
    BY DEF RequestSent, RequestAccepted, RequestRefused, storageVars
  <2>3. 0 =< tried
    BY SessionAssumption DEF SessionInv, LoginsTyped, LoginOrNone
  <2> HIDE DEF op
  <2> QED
    BY <2>1, <2>2, <2>3
<1> QED
  BY <1>1, <1>2, <1>3, <1>4, QueueGrows

LEMMA LatchKeeps == ASSUME SessionInv, LatchOpens PROVE SessionInv'
<1>1. /\ UNCHANGED <<up, ops, token, savedUser, firstLogin, store, top, below, here,
                     tried, posting, sent, tokenless, clearing>>
      /\ loggingOut' = FALSE /\ latchTimer' = FALSE
  BY DEF LatchOpens, screenVars, storageVars
<1>2. FlagsTyped' /\ TokenIsOfStore' /\ ScreensTyped'
  BY <1>1 DEF SessionInv, FlagsTyped, TokenIsOfStore, ScreensTyped
<1>3. LoginsTyped'
  BY <1>1 DEF SessionInv, LoginsTyped, LoginOrNone
<1>4. OpsFit(ops, tried, Attempts, savedUser, store)'
  BY <1>1 DEF SessionInv, Attempts
<1>5. NothingAtStart' /\ HomeHasSession'
  BY <1>1 DEF SessionInv, NothingAtStart, HomeHasSession, MainMounted
<1> QED
  BY <1>2, <1>3, <1>4, <1>5 DEF SessionInv

\* The second step of clearSession(): no Main screen is left.
LEMMA ScreensResetKeeps == ASSUME SessionInv, ScreensReset PROVE SessionInv'
<1>1. /\ UNCHANGED <<up, ops, token, savedUser, firstLogin, store, tried, posting, sent,
                     tokenless, loggingOut>>
      /\ clearing /\ clearing' = FALSE /\ latchTimer' = TRUE
      /\ top' = "Login" /\ below' = 0 /\ here' = {}
  BY DEF ScreensReset, storageVars
<1>2. FlagsTyped' /\ TokenIsOfStore' /\ ScreensTyped'
  BY <1>1 DEF SessionInv, FlagsTyped, TokenIsOfStore, ScreensTyped
<1>3. LoginsTyped'
  BY <1>1 DEF SessionInv, LoginsTyped, LoginOrNone
<1>4. OpsFit(ops, tried, Attempts, savedUser, store)'
  <2>1. OpsFit(ops, tried, {}, savedUser, store)
    BY <1>1 DEF SessionInv, Attempts
  <2> QED
    BY <1>1, <2>1 DEF Attempts
<1>5. NothingAtStart' /\ HomeHasSession'
  BY <1>1 DEF SessionInv, NothingAtStart, HomeHasSession, MainMounted
<1> QED
  BY <1>2, <1>3, <1>4, <1>5 DEF SessionInv

LEMMA KillKeeps == ASSUME SessionInv, Kill PROVE SessionInv'
<1>1. /\ UNCHANGED <<ops, token, savedUser, firstLogin, tried, tokenless>>
      /\ up' = FALSE /\ store' = 0 /\ top' = "Splash" /\ below' = 0 /\ here' = {}
      /\ posting' = {} /\ sent' = FALSE /\ clearing' = FALSE
      /\ loggingOut' = FALSE /\ latchTimer' = FALSE
  BY DEF Kill, storageVars
<1>2. FlagsTyped' /\ TokenIsOfStore' /\ ScreensTyped'
  BY <1>1 DEF SessionInv, FlagsTyped, TokenIsOfStore, ScreensTyped
<1>3. LoginsTyped'
  BY <1>1, SessionAssumption DEF SessionInv, LoginsTyped, LoginOrNone
<1>4. OpsFit(ops, tried, Attempts, savedUser, store)'
  <2>1. OpsFit(ops, tried, {}, savedUser, store')
    BY <1>1, FitKept DEF SessionInv
  <2> QED
    BY <1>1, <2>1 DEF Attempts
<1>5. NothingAtStart' /\ HomeHasSession'
  BY <1>1 DEF NothingAtStart, HomeHasSession, MainMounted
<1> QED
  BY <1>2, <1>3, <1>4, <1>5 DEF SessionInv

LEMMA BootKeeps == ASSUME SessionInv, Boot PROVE SessionInv'
<1>1. /\ UNCHANGED <<token, savedUser, firstLogin, store, top, below, here, tried,
                     posting, sent, tokenless, clearing, loggingOut, latchTimer>>
      /\ ~up /\ up' = TRUE /\ ops' = <<>>
  BY DEF Boot, screenVars, latchVars
<1>2. FlagsTyped' /\ TokenIsOfStore' /\ ScreensTyped'
  BY <1>1 DEF SessionInv, FlagsTyped, TokenIsOfStore, ScreensTyped
<1>3. LoginsTyped'
  BY <1>1 DEF SessionInv, LoginsTyped, LoginOrNone
<1>4. OpsFit(ops, tried, Attempts, savedUser, store)'
  <2>1. <<>> \in Seq(Operations) /\ Len(<<>>) = 0
    OBVIOUS
  <2> QED
    BY <1>1, <2>1 DEF OpsFit
<1>5. NothingAtStart' /\ HomeHasSession'
  BY <1>1 DEF SessionInv, NothingAtStart, HomeHasSession, MainMounted
<1> QED
  BY <1>2, <1>3, <1>4, <1>5 DEF SessionInv

\* While the process is down the store is empty and no attempt is on a screen.
LEMMA StorageActsKeeps == ASSUME SessionInv, StorageActs PROVE SessionInv'
<1> DEFINE op == Head(ops)
<1>1. /\ UNCHANGED <<up, store, top, below, here, tried, posting, sent,
                     tokenless, clearing, loggingOut, latchTimer>>
      /\ ~up /\ ops # <<>> /\ ops' = Tail(ops)
      /\ token' \in {op.by, 0, token} /\ savedUser' \in {op.by, 0, savedUser}
      /\ firstLogin' \in {op.first, firstLogin}
  BY DEF StorageActs, screenVars, latchVars
<1>2. OpsFit(Tail(ops), tried, Attempts, savedUser, store) /\ op \in Operations
  BY <1>1, FitTaken DEF SessionInv
<1>3. op.by \in LoginOrNone /\ op.first \in BOOLEAN /\ 0 \in LoginOrNone
  BY <1>2, SessionAssumption DEF Operations, LoginOrNone
<1> HIDE DEF op
<1>4. top = "Splash" /\ store = 0 /\ below = 0 /\ here = {} /\ ~clearing
  BY <1>1 DEF SessionInv, NothingAtStart
<1>5. FlagsTyped' /\ TokenIsOfStore' /\ ScreensTyped'
  BY <1>1, <1>3, <1>4 DEF SessionInv, FlagsTyped, TokenIsOfStore, ScreensTyped
<1>6. LoginsTyped'
  <2>1. token' \in LoginOrNone /\ savedUser' \in LoginOrNone
    BY <1>1, <1>3 DEF SessionInv, LoginsTyped
  <2> QED
    BY <1>1, <2>1 DEF SessionInv, LoginsTyped, LoginOrNone
<1>7. OpsFit(ops, tried, Attempts, savedUser, store)'
  <2>1. OpsFit(Tail(ops), tried, {}, savedUser', store)
    BY <1>2, <1>4, FitKept DEF Attempts
  <2> QED
    BY <1>1, <1>4, <2>1 DEF Attempts
<1>8. NothingAtStart' /\ HomeHasSession'
  BY <1>1, <1>4 DEF SessionInv, NothingAtStart, HomeHasSession, MainMounted
<1> QED
  BY <1>5, <1>6, <1>7, <1>8 DEF SessionInv

-----------------------------------------------------------------------------
(***************************************************************************)
(* An answer of the storage.                                               *)
(***************************************************************************)

\* What the cases share: nothing of it happens on the first screen.
LEMMA AnswerKeeps ==
  ASSUME SessionInv, up, ~clearing, ops # <<>>,
         UNCHANGED <<up, tried, posting, tokenless>>,
         firstLogin' \in BOOLEAN,
         loggingOut' = loggingOut, latchTimer' \in BOOLEAN,
         token' \in LoginOrNone, savedUser' \in LoginOrNone, store' \in LoginOrNone,
         sent' \in BOOLEAN, clearing' \in BOOLEAN,
         here' \subseteq here,
         top' = top \/ top' \in {"Login", "FirstLoginPassword", "Main"},
         below' = below,
         OpsFit(ops', tried, Attempts', savedUser', store'),
         TokenIsOfStore', HomeHasSession'
  PROVE  SessionInv'
<1>1. top # "Splash" /\ top' # "Splash"
  BY DEF SessionInv, NothingAtStart
<1>2. FlagsTyped' /\ ScreensTyped' /\ NothingAtStart'
  BY <1>1 DEF SessionInv, FlagsTyped, ScreensTyped, NothingAtStart
<1>3. LoginsTyped'
  BY DEF SessionInv, LoginsTyped, LoginOrNone
<1>4. OpsFit(ops, tried, Attempts, savedUser, store)'
  OBVIOUS
<1> QED
  BY <1>2, <1>3, <1>4 DEF SessionInv

\* The operation that is answered, and the rest of the queue.
LEMMA Answering ==
  ASSUME SessionInv, up, ~clearing, ops # <<>>
  PROVE  /\ OpsFit(Tail(ops), tried, here, savedUser, store)
         /\ Head(ops) \in Operations /\ OpFits(Head(ops), tried, here, savedUser, store)
         /\ Head(ops).by \in LoginOrNone /\ Head(ops).first \in BOOLEAN
         /\ 0 \in LoginOrNone
<1>1. /\ OpsFit(Tail(ops), tried, here, savedUser, store)
      /\ Head(ops) \in Operations /\ OpFits(Head(ops), tried, here, savedUser, store)
  BY FitTaken DEF SessionInv, Attempts
<1> QED
  BY <1>1, SessionAssumption DEF Operations, LoginOrNone

\* An await of handleLogin() is followed by the next one.
LEMMA NextAwait ==
  ASSUME NEW op \in Operations, NEW d \in {"flag", "token", "info"}
  PROVE  /\ [op EXCEPT !.do = d] \in Operations
         /\ [op EXCEPT !.do = d].do = d /\ [op EXCEPT !.do = d].by = op.by
BY DEF Operations

LEMMA ReadAndRemoveKeep ==
  ASSUME SessionInv, up, ~clearing, ops # <<>>, NEW ok \in BOOLEAN,
         UNCHANGED <<up, tried, posting, tokenless>>,
         TokenRead(Tail(ops), ok) \/ SessionRemoved(Tail(ops), ok)
  PROVE  SessionInv'
<1>1. OpsFit(Tail(ops), tried, here, savedUser, store) /\ 0 \in LoginOrNone
  BY Answering
<1>2. CASE TokenRead(Tail(ops), ok)
  <2>1. /\ UNCHANGED <<token, savedUser, firstLogin, store, top, below, here,
                       clearing, loggingOut, latchTimer>>
        /\ ops' = Tail(ops) /\ sent' = (ok \/ sent)
    BY <1>2 DEF TokenRead, screenVars, latchVars
  <2>2. OpsFit(ops', tried, Attempts', savedUser', store')
    BY <1>1, <2>1 DEF Attempts
  <2>3. TokenIsOfStore' /\ HomeHasSession'
    BY <2>1 DEF SessionInv, TokenIsOfStore, HomeHasSession, MainMounted
  <2>4. /\ token' \in LoginOrNone /\ savedUser' \in LoginOrNone /\ store' \in LoginOrNone
        /\ firstLogin' \in BOOLEAN /\ latchTimer' \in BOOLEAN /\ clearing' \in BOOLEAN
    BY <2>1 DEF SessionInv, LoginsTyped, FlagsTyped
  <2>5. sent' \in BOOLEAN
    BY <2>1
  <2> QED
    BY <2>1, <2>2, <2>3, <2>4, <2>5, AnswerKeeps
<1>3. CASE SessionRemoved(Tail(ops), ok)
  <2>1. /\ UNCHANGED <<firstLogin, sent, top, below, here, loggingOut, latchTimer>>
        /\ ops' = Tail(ops) /\ clearing' = TRUE
        /\ \/ token' = 0 /\ savedUser' = 0 /\ store' = 0
           \/ UNCHANGED <<token, savedUser, store>>
    BY <1>3 DEF SessionRemoved, screenVars, latchVars
  <2>2. OpsFit(ops', tried, Attempts', savedUser', store')
    <3>1. OpsFit(Tail(ops), tried, {}, savedUser', store')
      BY <1>1, FitKept
    <3> QED
      BY <2>1, <3>1 DEF Attempts
  <2>3. TokenIsOfStore' /\ HomeHasSession'
    BY <2>1 DEF SessionInv, TokenIsOfStore, HomeHasSession
  <2>4. /\ token' \in LoginOrNone /\ savedUser' \in LoginOrNone /\ store' \in LoginOrNone
        /\ sent' \in BOOLEAN /\ firstLogin' \in BOOLEAN /\ latchTimer' \in BOOLEAN
    BY <1>1, <2>1 DEF SessionInv, LoginsTyped, FlagsTyped
  <2> QED
    BY <2>1, <2>2, <2>3, <2>4, AnswerKeeps
<1> QED
  BY <1>2, <1>3

LEMMA UserSavedKeeps ==
  ASSUME SessionInv, up, ~clearing, ops # <<>>, NEW ok \in BOOLEAN,
         UNCHANGED <<up, tried, posting, tokenless>>,
         Head(ops).do = "user", UserSaved(Head(ops), Tail(ops), ok)
  PROVE  SessionInv'
<1> DEFINE op == Head(ops)
           next == [op EXCEPT !.do = "flag"]
<1>1. /\ OpsFit(Tail(ops), tried, here, savedUser, store)
      /\ op \in Operations /\ OpFits(op, tried, here, savedUser, store)
      /\ op.by \in LoginOrNone
  BY Answering
<1>2. op.do = "user"
  OBVIOUS
<1>3. op.by # 0 /\ op.by =< tried
  BY <1>1, <1>2 DEF OpFits
<1>4. next \in Operations /\ next.do = "flag" /\ next.by = op.by
  BY <1>1, NextAwait
<1>5. /\ UNCHANGED <<token, firstLogin, store, sent, clearing, loggingOut, latchTimer,
                     top, below>>
      /\ here' \subseteq here
      /\ \/ savedUser' = op.by /\ ops' = Append(Tail(ops), next)
         \/ savedUser' = savedUser /\ ops' = Tail(ops)
  BY DEF UserSaved, LoginFails, EndAttempt, screenVars, latchVars
<1> HIDE DEF op, next
<1>6. OpsFit(Tail(ops), tried, here', savedUser', store)
  BY <1>1, <1>3, <1>5, FitKept
<1>7. OpsFit(ops', tried, here', savedUser', store)
  <2>1. CASE savedUser' = op.by /\ ops' = Append(Tail(ops), next)
    <3>1. OpFits(next, tried, here', savedUser', store)
      BY <1>3, <1>4, <2>1 DEF OpFits
    <3> QED
      BY <1>4, <1>6, <2>1, <3>1, FitAppended
  <2> QED
    BY <1>5, <1>6, <2>1
<1>8. OpsFit(ops', tried, Attempts', savedUser', store')
  BY <1>5, <1>7 DEF Attempts
<1>9. TokenIsOfStore' /\ HomeHasSession'
  BY <1>3, <1>5 DEF SessionInv, TokenIsOfStore, HomeHasSession, MainMounted
<1>10. /\ token' \in LoginOrNone /\ savedUser' \in LoginOrNone /\ store' \in LoginOrNone
       /\ sent' \in BOOLEAN /\ firstLogin' \in BOOLEAN /\ latchTimer' \in BOOLEAN
       /\ clearing' \in BOOLEAN
  BY <1>1, <1>5 DEF SessionInv, LoginsTyped, FlagsTyped
<1> QED
  BY <1>5, <1>8, <1>9, <1>10, AnswerKeeps

\* How an attempt that has written its user ends its writing: it fails, or it is
\* through and sets the store, with a token or without.
LEMMA WritingEnds ==
  ASSUME SessionInv, ~clearing, UNCHANGED <<tried, savedUser, clearing>>,
         NEW op \in Operations, NEW savePass \in BOOLEAN,
         OpFits(op, tried, here, savedUser, store), op.do \in {"flag", "token"},
         OpsFit(Tail(ops), tried, here, savedUser, store),
         LoginFails(op, Tail(ops)) \/ LoggedIn(op, Tail(ops), savePass)
  PROVE  /\ OpsFit(ops', tried, Attempts', savedUser', store')
         /\ HomeHasSession'
         /\ here' \subseteq here /\ below' = below
         /\ top' = top \/ top' \in {"FirstLoginPassword", "Main"}
         /\ store' \in LoginOrNone
<1> DEFINE next == [op EXCEPT !.do = "info"]
<1>1. /\ op.by # 0 /\ op.by =< tried
      /\ op.by \in here => savedUser # 0
  BY DEF OpFits
<1>2. next \in Operations /\ next.do = "info" /\ next.by = op.by
  BY NextAwait
<1>3. /\ here' \subseteq here /\ below' = below
      /\ \/ top' = top
         \/ op.by \in here /\ top' \in {"FirstLoginPassword", "Main"} /\ store' = op.by
      /\ \/ store' = store /\ ops' = Tail(ops)
         \/ store' = op.by /\ ops' \in {Tail(ops), Append(Tail(ops), next)}
  BY DEF LoginFails, LoggedIn, ReplaceLogin, EndAttempt, screenVars
<1> HIDE DEF next
<1>4. OpsFit(Tail(ops), tried, here', savedUser', store')
  BY <1>1, <1>3, FitKept
<1>5. OpsFit(ops', tried, here', savedUser', store')
  <2>1. CASE store' = op.by /\ ops' = Append(Tail(ops), next)
    <3>1. OpFits(next, tried, here', savedUser', store')
      BY <1>1, <1>2, <1>3, <2>1 DEF OpFits
    <3> QED
      BY <1>2, <1>4, <2>1, <3>1, FitAppended
  <2> QED
    BY <1>3, <1>4, <2>1
<1>6. Attempts' = here'
  BY DEF Attempts
<1>7. HomeHasSession'
  BY <1>1, <1>3 DEF SessionInv, HomeHasSession, MainMounted
<1>8. store' \in LoginOrNone
  BY <1>3 DEF Operations, SessionInv, LoginsTyped
<1> QED
  BY <1>3, <1>5, <1>6, <1>7, <1>8

\* The store is set by a log-in without a token, or the token is still to be kept.
LEMMA FlagSavedKeeps ==
  ASSUME SessionInv, up, ~clearing, ops # <<>>,
         NEW ok \in BOOLEAN, NEW savePass \in BOOLEAN,
         UNCHANGED <<up, tried, posting, tokenless>>,
         Head(ops).do = "flag", FlagSaved(Head(ops), Tail(ops), ok, savePass)
  PROVE  SessionInv'
<1> DEFINE op == Head(ops)
           next == [op EXCEPT !.do = "token"]
<1>1. /\ OpsFit(Tail(ops), tried, here, savedUser, store)
      /\ op \in Operations /\ OpFits(op, tried, here, savedUser, store)
      /\ op.by \in LoginOrNone /\ op.first \in BOOLEAN
  BY Answering
<1>2. op.do = "flag"
  OBVIOUS
<1>3. next \in Operations /\ next.do = "token" /\ next.by = op.by
  BY <1>1, NextAwait
<1>4. /\ UNCHANGED <<token, savedUser, sent, clearing, loggingOut, latchTimer>>
      /\ firstLogin' \in {op.first, firstLogin}
      /\ \/ LoginFails(op, Tail(ops))
         \/ op.by \in tokenless /\ LoggedIn(op, Tail(ops), savePass)
         \/ ops' = Append(Tail(ops), next) /\ UNCHANGED <<store, top, below, here>>
  BY DEF FlagSaved, screenVars, latchVars
<1> HIDE DEF op, next
<1>5. /\ OpsFit(ops', tried, Attempts', savedUser', store')
      /\ HomeHasSession'
      /\ here' \subseteq here /\ below' = below
      /\ top' = top \/ top' \in {"FirstLoginPassword", "Main"}
      /\ store' \in LoginOrNone
  <2>1. CASE ops' = Append(Tail(ops), next) /\ UNCHANGED <<store, top, below, here>>
    <3>1. OpFits(next, tried, here, savedUser, store)
      BY <1>1, <1>2, <1>3 DEF OpFits
    <3>2. OpsFit(Append(Tail(ops), next), tried, here, savedUser, store)
      BY <1>1, <1>3, <3>1, FitAppended
    <3>3. OpsFit(ops', tried, Attempts', savedUser', store')
      BY <1>4, <2>1, <3>2 DEF Attempts
    <3>4. HomeHasSession' /\ store' \in LoginOrNone
      BY <1>4, <2>1 DEF SessionInv, HomeHasSession, MainMounted, LoginsTyped
    <3> QED
      BY <2>1, <3>3, <3>4
  <2>2. CASE LoginFails(op, Tail(ops)) \/ LoggedIn(op, Tail(ops), savePass)
    BY <1>1, <1>2, <1>4, <2>2, WritingEnds
  <2> QED
    BY <1>4, <2>1, <2>2
<1>6. TokenIsOfStore'
  <2>1. store' = store \/ store' \in tokenless
    BY <1>4 DEF LoginFails, LoggedIn
  <2> QED
    BY <1>4, <2>1 DEF SessionInv, TokenIsOfStore
<1>7. /\ token' \in LoginOrNone /\ savedUser' \in LoginOrNone
      /\ sent' \in BOOLEAN /\ firstLogin' \in BOOLEAN /\ latchTimer' \in BOOLEAN
      /\ clearing' \in BOOLEAN
  BY <1>1, <1>4 DEF SessionInv, LoginsTyped, FlagsTyped
<1> QED
  BY <1>4, <1>5, <1>6, <1>7, AnswerKeeps

\* The store is set to the log-in whose token has just been kept.
LEMMA TokenSavedKeeps ==
  ASSUME SessionInv, up, ~clearing, ops # <<>>,
         NEW ok \in BOOLEAN, NEW savePass \in BOOLEAN,
         UNCHANGED <<up, tried, posting, tokenless>>,
         Head(ops).do = "token", TokenSaved(Head(ops), Tail(ops), ok, savePass)
  PROVE  SessionInv'
<1> DEFINE op == Head(ops)
<1>1. /\ OpsFit(Tail(ops), tried, here, savedUser, store)
      /\ op \in Operations /\ OpFits(op, tried, here, savedUser, store)
      /\ op.by \in LoginOrNone
  BY Answering
<1>2. op.do = "token"
  OBVIOUS
<1>3. /\ UNCHANGED <<savedUser, firstLogin, sent, clearing, loggingOut, latchTimer>>
      /\ \/ token' = token /\ LoginFails(op, Tail(ops))
         \/ token' = op.by /\ LoggedIn(op, Tail(ops), savePass)
  BY DEF TokenSaved, latchVars
<1> HIDE DEF op
<1>4. /\ OpsFit(ops', tried, Attempts', savedUser', store')
      /\ HomeHasSession'
      /\ here' \subseteq here /\ below' = below
      /\ top' = top \/ top' \in {"FirstLoginPassword", "Main"}
      /\ store' \in LoginOrNone
  BY <1>1, <1>2, <1>3, WritingEnds
<1>5. TokenIsOfStore'
  <2>1. UNCHANGED <<token, store>> \/ token' = store'
    BY <1>3 DEF LoginFails, LoggedIn
  <2> QED
    BY <2>1 DEF SessionInv, TokenIsOfStore
<1>6. /\ token' \in LoginOrNone /\ savedUser' \in LoginOrNone
      /\ sent' \in BOOLEAN /\ firstLogin' \in BOOLEAN /\ latchTimer' \in BOOLEAN
      /\ clearing' \in BOOLEAN
  BY <1>1, <1>3 DEF SessionInv, LoginsTyped, FlagsTyped
<1> QED
  BY <1>3, <1>4, <1>5, <1>6, AnswerKeeps

LEMMA InfoSavedKeeps ==
  ASSUME SessionInv, up, ~clearing, ops # <<>>,
         UNCHANGED <<up, tried, posting, tokenless>>,
         Head(ops).do = "info", InfoSaved(Head(ops), Tail(ops))
  PROVE  SessionInv'
<1> DEFINE op == Head(ops)
<1>1. /\ OpsFit(Tail(ops), tried, here, savedUser, store)
      /\ op \in Operations /\ OpFits(op, tried, here, savedUser, store)
  BY Answering
<1>2. op.do = "info"
  OBVIOUS
<1>3. op.by \in here => savedUser # 0 /\ store # 0
  BY <1>1, <1>2 DEF OpFits
<1>4. /\ UNCHANGED <<token, savedUser, firstLogin, store, sent, clearing, loggingOut,
                     latchTimer, below>>
      /\ ops' = Tail(ops)
      /\ here' \subseteq here
      /\ top' = top \/ (op.by \in here /\ top' = "Main")
  BY DEF InfoSaved, ReplaceLogin, latchVars
<1> HIDE DEF op
<1>5. OpsFit(Tail(ops), tried, here', savedUser, store)
  BY <1>1, <1>4, FitKept
<1>6. OpsFit(ops', tried, Attempts', savedUser', store')
  BY <1>4, <1>5 DEF Attempts
<1>7. TokenIsOfStore' /\ HomeHasSession'
  BY <1>3, <1>4 DEF SessionInv, TokenIsOfStore, HomeHasSession, MainMounted
<1>8. /\ token' \in LoginOrNone /\ savedUser' \in LoginOrNone /\ store' \in LoginOrNone
      /\ sent' \in BOOLEAN /\ firstLogin' \in BOOLEAN /\ latchTimer' \in BOOLEAN
      /\ clearing' \in BOOLEAN
  BY <1>4 DEF SessionInv, LoginsTyped, FlagsTyped
<1> QED
  BY <1>4, <1>6, <1>7, <1>8, AnswerKeeps

LEMMA StorageAnswersKeeps ==
  ASSUME SessionInv, NEW ok \in BOOLEAN, NEW savePass \in BOOLEAN,
         StorageAnswers(ok, savePass)
  PROVE  SessionInv'
<1> DEFINE op == Head(ops)
<1>1. up /\ ~clearing /\ ops # <<>> /\ UNCHANGED <<up, tried, posting, tokenless>>
  BY DEF StorageAnswers, LoopIsFree
<1>2. op.do \in {"read", "user", "flag", "token", "info", "remove"}
  BY <1>1, Answering DEF Operations
<1>3. CASE op.do = "read"
  BY <1>1, <1>3, ReadAndRemoveKeep DEF StorageAnswers
<1>4. CASE op.do = "user"
  BY <1>1, <1>4, UserSavedKeeps DEF StorageAnswers
<1>5. CASE op.do = "flag"
  BY <1>1, <1>5, FlagSavedKeeps DEF StorageAnswers
<1>6. CASE op.do = "token"
  BY <1>1, <1>6, TokenSavedKeeps DEF StorageAnswers
<1>7. CASE op.do = "info"
  BY <1>1, <1>7, InfoSavedKeeps DEF StorageAnswers
<1>8. CASE op.do = "remove"
  BY <1>1, <1>8, ReadAndRemoveKeep DEF StorageAnswers
<1> HIDE DEF op
<1> QED
  BY <1>2, <1>3, <1>4, <1>5, <1>6, <1>7, <1>8

-----------------------------------------------------------------------------
LEMMA SessionStutters ==
  ASSUME SessionInv, UNCHANGED sessionVars PROVE SessionInv'
<1>1. UNCHANGED <<up, ops, token, savedUser, firstLogin, store, top, below, here, tried,
                  posting, sent, tokenless, clearing, loggingOut, latchTimer>>
  BY DEF sessionVars, storageVars, screenVars, latchVars
<1>2. FlagsTyped' /\ LoginsTyped' /\ ScreensTyped' /\ NothingAtStart'
  BY <1>1 DEF SessionInv, FlagsTyped, LoginsTyped, LoginOrNone, ScreensTyped,
              NothingAtStart
<1>3. OpsFit(ops, tried, Attempts, savedUser, store)'
  BY <1>1 DEF SessionInv, Attempts
<1>4. TokenIsOfStore' /\ HomeHasSession'
  BY <1>1 DEF SessionInv, TokenIsOfStore, HomeHasSession, MainMounted
<1> QED
  BY <1>2, <1>3, <1>4 DEF SessionInv

LEMMA SessionStep == SessionInv /\ [SessionNext]_sessionVars => SessionInv'
<1> SUFFICES ASSUME SessionInv, [SessionNext]_sessionVars PROVE SessionInv'
  OBVIOUS
<1>1. CASE \/ \E readable \in BOOLEAN : SplashRoutes(readable)
           \/ Logout
           \/ Back
           \/ GoBackToLogin
  BY <1>1, ScreensKeep
<1>2. CASE LoginPressed
  BY <1>2, LoginPressedKeeps
<1>3. CASE \E n \in posting, success, first, bearing \in BOOLEAN :
             LoginAnswered(n, success, first, bearing)
  BY <1>3, LoginAnsweredKeeps
<1>4. CASE \/ RequestSent
           \/ RequestAccepted
           \/ RequestRefused
  BY <1>4, RequestsKeep
<1>5. CASE LatchOpens \/ ScreensReset
  BY <1>5, LatchKeeps, ScreensResetKeeps
<1>6. CASE \E ok \in BOOLEAN, savePass \in BOOLEAN : StorageAnswers(ok, savePass)
  BY <1>6, StorageAnswersKeeps
<1>7. CASE Kill
  BY <1>7, KillKeeps
<1>8. CASE StorageActs
  BY <1>8, StorageActsKeeps
<1>9. CASE Boot
  BY <1>9, BootKeeps
<1>10. CASE UNCHANGED sessionVars
  BY <1>10, SessionStutters
<1> QED
  BY <1>1, <1>2, <1>3, <1>4, <1>5, <1>6, <1>7, <1>8, <1>9, <1>10 DEF SessionNext

\* The inductive invariant of log-ins, log-outs, expiries, failures of the storage
\* and kills of the process.
THEOREM SessionInvariant == SessionSpec => []SessionInv
<1>1. SessionInit => SessionInv
  BY InitiallySession
<1>2. SessionInv /\ [SessionNext]_sessionVars => SessionInv'
  BY SessionStep
<1> QED
  BY <1>1, <1>2, PTL DEF SessionSpec

\* Type correctness of the session, for any number of log-ins and requests.
THEOREM SessionTyped == SessionSpec => []SessionTypeOK
<1>1. SessionInv => SessionTypeOK
  BY DEF SessionInv, SessionTypeOK, FlagsTyped, LoginsTyped, ScreensTyped, OpsFit
<1> QED
  BY <1>1, SessionInvariant, PTL

\* Whoever the store says is logged in, by an answer with a token, is the one whose
\* token every request carries.
THEOREM TokensAgree == SessionSpec => []TokenIsOfStore
<1>1. SessionInv => TokenIsOfStore
  BY DEF SessionInv
<1> QED
  BY <1>1, SessionInvariant, PTL

\* No Main screen is mounted, or gone back to, without a session and its user; one
\* is without them only between the two steps of clearSession().
THEOREM HomesHaveSessions == SessionSpec => []HomeHasSession
<1>1. SessionInv => HomeHasSession
  BY DEF SessionInv
<1> QED
  BY <1>1, SessionInvariant, PTL
=============================================================================
