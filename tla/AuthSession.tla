------------------------------ MODULE AuthSession ------------------------------
(***************************************************************************)
(* Who is logged in: log-in, log-out, and the answer 401 to a request of   *)
(* the API client, over the persistent storage, the store and the screens. *)
(*                                                                         *)
(* A log-in is named by its number, which stands for its user and token.   *)
(* The storage is a native module with one queue: an operation takes       *)
(* effect when it is answered, and the function that awaits it goes on in  *)
(* the same step. A handleLogin() and a clearSession() are thus where      *)
(* their next operation is in the queue. One callback takes two steps: the *)
(* store that clearSession() empties is rendered before it resets the      *)
(* screens. The server, the storage and the process that may be killed are *)
(* external.                                                               *)
(***************************************************************************)
EXTENDS Naturals, Sequences

CONSTANTS
  MaxLogins,  \* bound of the model on the attempts to log in
  MaxReads    \* bound of the model on the requests that await their token

ASSUME SessionAssumption == MaxLogins \in Nat /\ MaxReads \in Nat

VARIABLES
  up,          \* the process runs
  ops,         \* operations of the storage not yet answered
  token,       \* storage: the log-in whose token is kept, 0 for none
  savedUser,   \* storage: the log-in whose userInfor is kept, 0 for none
  firstLogin,  \* storage: FIRST_LOGIN_REQUIRED is 'true'
  store,       \* state.auth.data: the log-in, 0 for null
  top,         \* the screen on top of the stack
  below,       \* how many Main screens are below it
  tried,       \* attempts to log in
  posting,     \* those whose POST is not answered
  here,        \* the attempts of the log-in screen on top
  sent,        \* requests are on their way that the server has not answered
  tokenless,   \* external: log-ins whose answer had no token
  clearing,    \* clearSession() has left the storage, the screens are not reset
  loggingOut,  \* the latch of apiClient
  latchTimer   \* the timeout that opens it is pending

storageVars == <<ops, token, savedUser, firstLogin>>
screenVars == <<top, below, here>>
latchVars == <<loggingOut, latchTimer>>
sessionVars == <<up, storageVars, store, screenVars, tried, posting, sent,
                 tokenless, clearing, latchVars>>

Logins == 1 .. MaxLogins
LoginOrNone == 0 .. MaxLogins

\* "user", "flag", "token" and "info" are the awaits of handleLogin(), "remove"
\* the one of clearSession(), "read" the one of the request interceptor.
Operations == [do : {"read", "user", "flag", "token", "info", "remove"},
               by : LoginOrNone, first : BOOLEAN]

SessionTypeOK ==
  /\ up \in BOOLEAN
  /\ ops \in Seq(Operations)
  /\ token \in LoginOrNone /\ savedUser \in LoginOrNone /\ firstLogin \in BOOLEAN
  /\ store \in LoginOrNone
  /\ top \in {"Splash", "Login", "FirstLoginPassword", "Main"} /\ below \in Nat
  /\ tried \in LoginOrNone
  /\ posting \in SUBSET (1 .. tried)
  /\ here \in SUBSET (1 .. tried)
  /\ tokenless \in SUBSET Logins
  /\ sent \in BOOLEAN
  /\ clearing \in BOOLEAN /\ loggingOut \in BOOLEAN /\ latchTimer \in BOOLEAN

\* The first start of the application. Language is chosen before the log-in and
\* decides nothing else: the screens before Login are one, Splash.
SessionInit ==
  /\ up = TRUE
  /\ ops = <<>>
  /\ token = 0 /\ savedUser = 0 /\ firstLogin = FALSE
  /\ store = 0
  /\ top = "Splash" /\ below = 0 /\ here = {}
  /\ tried = 0 /\ posting = {}
  /\ sent = FALSE /\ tokenless = {}
  /\ clearing = FALSE /\ loggingOut = FALSE /\ latchTimer = FALSE

\* The callback before has ended, and the next one may run.
LoopIsFree == up /\ ~clearing

\* A Main screen is mounted, on top or below another one.
MainMounted == top = "Main" \/ below > 0

-----------------------------------------------------------------------------
(***************************************************************************)
(* Screens.                                                                *)
(***************************************************************************)

\* navigation.replace() by the log-in screen of attempt "n": an action that a
\* screen which is gone dispatches finds no route and changes nothing.
ReplaceLogin(n, screen) ==
  /\ top' = IF n \in here THEN screen ELSE top
  /\ here' = IF n \in here THEN {} ELSE here
  /\ UNCHANGED below

\* The attempt is over on its screen, which stays.
EndAttempt(n) ==
  /\ here' = here \ {n}
  /\ UNCHANGED <<top, below>>

\* Mutant of SplashRoutes: the name of a screen there is not.
SplashRoutesAstray(readable) ==
  /\ LoopIsFree /\ top = "Splash"
  /\ top' = CASE readable /\ firstLogin /\ savedUser # 0 -> "FirstLogin"
              [] readable /\ ~(firstLogin /\ savedUser # 0) /\ store # 0 -> "Main"
              [] OTHER -> "Login"
  /\ UNCHANGED <<up, storageVars, store, below, here, tried, posting, sent,
                 tokenless, clearing, latchVars>>

\* The storage decides who has to change the first password, the store who is at
\* home.
SplashRoutes(readable) ==
  /\ LoopIsFree /\ top = "Splash"
  /\ top' = CASE readable /\ firstLogin /\ savedUser # 0 -> "FirstLoginPassword"
              [] readable /\ ~(firstLogin /\ savedUser # 0) /\ store # 0 -> "Main"
              [] OTHER -> "Login"
  /\ UNCHANGED <<up, storageVars, store, below, here, tried, posting, sent,
                 tokenless, clearing, latchVars>>

\* Log-out in the menu of Main only shows the log-in screen.
Logout ==
  /\ LoopIsFree /\ top = "Main" /\ below < MaxLogins
  /\ top' = "Login"
  /\ below' = below + 1
  /\ UNCHANGED <<up, storageVars, store, here, tried, posting, sent, tokenless,
                 clearing, latchVars>>

\* Back, where there is a screen to go back to.
Back ==
  /\ LoopIsFree /\ below > 0
  /\ top' = "Main"
  /\ below' = below - 1
  /\ here' = {}
  /\ UNCHANGED <<up, storageVars, store, tried, posting, sent, tokenless,
                 clearing, latchVars>>

GoBackToLogin ==
  /\ LoopIsFree /\ top = "FirstLoginPassword"
  /\ top' = "Login"
  /\ UNCHANGED <<up, storageVars, store, below, here, tried, posting, sent,
                 tokenless, clearing, latchVars>>

-----------------------------------------------------------------------------
(***************************************************************************)
(* handleLogin(): POST, three items of the storage, the store, the screen. *)
(* The button is disabled while an attempt is under way, the Enter key of  *)
(* the password field is not: a screen may have several attempts.          *)
(***************************************************************************)

LoginPressed ==
  /\ LoopIsFree /\ top = "Login" /\ tried < MaxLogins
  /\ tried' = tried + 1
  /\ here' = here \cup {tried + 1}
  /\ posting' = posting \cup {tried + 1}
  /\ UNCHANGED <<up, storageVars, store, top, below, sent, tokenless, clearing,
                 latchVars>>

\* The answer of the server; a success may come without a token.
LoginAnswered(n, success, first, bearing) ==
  /\ LoopIsFree /\ n \in posting
  /\ posting' = posting \ {n}
  /\ IF success
     THEN /\ ops' = Append(ops, [do |-> "user", by |-> n, first |-> first])
          /\ tokenless' = IF bearing THEN tokenless ELSE tokenless \cup {n}
          /\ UNCHANGED screenVars
     ELSE /\ EndAttempt(n)
          /\ UNCHANGED <<ops, tokenless>>
  /\ UNCHANGED <<up, token, savedUser, firstLogin, store, tried, sent,
                 clearing, latchVars>>

\* An await has failed: the catch block, an alert.
LoginFails(op, rest) ==
  /\ ops' = rest
  /\ EndAttempt(op.by)
  /\ UNCHANGED store

\* The store is set: the log-in is through. The screen is replaced at once, or
\* when the credentials have been saved.
LoggedIn(op, rest, savePass) ==
  /\ store' = op.by
  /\ IF ~op.first /\ savePass
     THEN /\ ops' = Append(rest, [op EXCEPT !.do = "info"])
          /\ UNCHANGED screenVars
     ELSE /\ ops' = rest
          /\ ReplaceLogin(op.by, IF op.first THEN "FirstLoginPassword" ELSE "Main")

UserSaved(op, rest, ok) ==
  /\ savedUser' = IF ok THEN op.by ELSE savedUser
  /\ IF ok
     THEN /\ ops' = Append(rest, [op EXCEPT !.do = "flag"])
          /\ UNCHANGED <<store, screenVars>>
     ELSE LoginFails(op, rest)
  /\ UNCHANGED <<token, firstLogin, sent, clearing, latchVars>>

\* A log-in without a token writes none and is through all the same.
FlagSaved(op, rest, ok, savePass) ==
  /\ firstLogin' = IF ok THEN op.first ELSE firstLogin
  /\ \/ ~ok /\ LoginFails(op, rest)
     \/ ok /\ op.by \in tokenless /\ LoggedIn(op, rest, savePass)
     \/ /\ ok /\ op.by \notin tokenless
        /\ ops' = Append(rest, [op EXCEPT !.do = "token"])
        /\ UNCHANGED <<store, screenVars>>
  /\ UNCHANGED <<token, savedUser, sent, clearing, latchVars>>

\* Mutant of TokenSaved: the store is set whether or not the token is kept.
TokenSavedOrNot(op, rest, ok, savePass) ==
  /\ token' = IF ok THEN op.by ELSE token
  /\ LoggedIn(op, rest, savePass)
  /\ UNCHANGED <<savedUser, firstLogin, sent, clearing, latchVars>>

TokenSaved(op, rest, ok, savePass) ==
  /\ token' = IF ok THEN op.by ELSE token
  /\ IF ok THEN LoggedIn(op, rest, savePass) ELSE LoginFails(op, rest)
  /\ UNCHANGED <<savedUser, firstLogin, sent, clearing, latchVars>>

InfoSaved(op, rest) ==
  /\ ops' = rest
  /\ ReplaceLogin(op.by, "Main")
  /\ UNCHANGED <<token, savedUser, firstLogin, store, sent, clearing,
                 latchVars>>

-----------------------------------------------------------------------------
(***************************************************************************)
(* The API client.                                                         *)
(***************************************************************************)

\* A screen sends a request; the interceptor asks for the token first. Whose token
\* it is then matters only to the server, which may refuse it at any time.
RequestSent ==
  /\ LoopIsFree /\ MainMounted
  /\ Len(SelectSeq(ops, LAMBDA op : op.do = "read")) < MaxReads
  /\ ops' = Append(ops, [do |-> "read", by |-> 0, first |-> FALSE])
  /\ UNCHANGED <<up, token, savedUser, firstLogin, store, screenVars, tried,
                 posting, sent, tokenless, clearing, latchVars>>

TokenRead(rest, ok) ==
  /\ ops' = rest
  /\ sent' = (ok \/ sent)
  /\ UNCHANGED <<token, savedUser, firstLogin, store, screenVars, clearing,
                 latchVars>>

\* An answer of the server; other requests may be on their way.
Answered == sent /\ sent' \in BOOLEAN

\* Any answer but 401 leaves the session alone.
RequestAccepted ==
  /\ LoopIsFree /\ Answered
  /\ UNCHANGED <<up, storageVars, store, screenVars, tried, posting, tokenless,
                 clearing, latchVars>>

\* 401, to a request without a token or with one that has expired: clearSession()
\* begins, unless the latch is closed.
RequestRefused ==
  /\ LoopIsFree /\ Answered
  /\ IF loggingOut
     THEN UNCHANGED <<ops, loggingOut>>
     ELSE /\ loggingOut' = TRUE
          /\ ops' = Append(ops, [do |-> "remove", by |-> 0, first |-> FALSE])
  /\ UNCHANGED <<up, token, savedUser, firstLogin, store, screenVars, tried,
                 posting, tokenless, clearing, latchTimer>>

\* Mutant of SessionRemoved: the failure ends the function.
SessionRemovedOrStops(rest, ok) ==
  /\ ops' = rest
  /\ token' = IF ok THEN 0 ELSE token
  /\ savedUser' = IF ok THEN 0 ELSE savedUser
  /\ store' = IF ok THEN 0 ELSE store
  /\ clearing' = ok
  /\ UNCHANGED <<firstLogin, screenVars, sent, latchVars>>

\* clearSession() goes on: the store is emptied, and what shows it rendered. When
\* the removal fails the store keeps its session.
SessionRemoved(rest, ok) ==
  /\ ops' = rest
  /\ token' = IF ok THEN 0 ELSE token
  /\ savedUser' = IF ok THEN 0 ELSE savedUser
  /\ store' = IF ok THEN 0 ELSE store
  /\ clearing' = TRUE
  /\ UNCHANGED <<firstLogin, screenVars, sent, latchVars>>

\* Mutant of ScreensReset: the log-in screen is shown over the others.
ScreensCovered ==
  /\ clearing
  /\ clearing' = FALSE
  /\ top' = "Login"
  /\ below' = IF top = "Main" THEN below + 1 ELSE below
  /\ here' = {}
  /\ latchTimer' = TRUE
  /\ UNCHANGED <<up, storageVars, store, tried, posting, sent, tokenless,
                 loggingOut>>

\* In any case the screens are reset to a new log-in screen, and the timer is set.
ScreensReset ==
  /\ clearing
  /\ clearing' = FALSE
  /\ top' = "Login" /\ below' = 0 /\ here' = {}
  /\ latchTimer' = TRUE
  /\ UNCHANGED <<up, storageVars, store, tried, posting, sent, tokenless,
                 loggingOut>>

LatchOpens ==
  /\ LoopIsFree /\ latchTimer
  /\ latchTimer' = FALSE
  /\ loggingOut' = FALSE
  /\ UNCHANGED <<up, storageVars, store, screenVars, tried, posting, sent,
                 tokenless, clearing>>

-----------------------------------------------------------------------------
(***************************************************************************)
(* The storage, the server and the process.                                *)
(***************************************************************************)

\* The storage answers its oldest operation; "savePass" is the user's choice.
StorageAnswers(ok, savePass) ==
  /\ LoopIsFree /\ ops # <<>>
  /\ LET op == Head(ops) IN
       CASE op.do = "read" -> TokenRead(Tail(ops), ok)
         [] op.do = "user" -> UserSaved(op, Tail(ops), ok)
         [] op.do = "flag" -> FlagSaved(op, Tail(ops), ok, savePass)
         [] op.do = "token" -> TokenSaved(op, Tail(ops), ok, savePass)
         [] op.do = "info" -> InfoSaved(op, Tail(ops))
         [] op.do = "remove" -> SessionRemoved(Tail(ops), ok)
  /\ UNCHANGED <<up, tried, posting, tokenless>>

\* The process is killed with operations under way.
Kill ==
  /\ up
  /\ up' = FALSE
  /\ store' = 0
  /\ top' = "Splash" /\ below' = 0 /\ here' = {}
  /\ posting' = {} /\ sent' = FALSE
  /\ clearing' = FALSE /\ loggingOut' = FALSE /\ latchTimer' = FALSE
  /\ UNCHANGED <<storageVars, tried, tokenless>>

\* The storage had still executed the oldest of them.
StorageActs ==
  /\ ~up /\ ops # <<>>
  /\ ops' = Tail(ops)
  /\ LET op == Head(ops) IN
       /\ token' = CASE op.do = "token" -> op.by [] op.do = "remove" -> 0 [] OTHER -> token
       /\ savedUser' = CASE op.do = "user" -> op.by [] op.do = "remove" -> 0 [] OTHER -> savedUser
       /\ firstLogin' = IF op.do = "flag" THEN op.first ELSE firstLogin
  /\ UNCHANGED <<up, store, screenVars, tried, posting, sent, tokenless,
                 clearing, latchVars>>

\* The application starts again; what was not executed by then never is.
Boot ==
  /\ ~up
  /\ up' = TRUE
  /\ ops' = <<>>
  /\ UNCHANGED <<token, savedUser, firstLogin, store, screenVars, tried,
                 posting, sent, tokenless, clearing, latchVars>>

-----------------------------------------------------------------------------
SessionNext ==
  \/ \E readable \in BOOLEAN : SplashRoutes(readable)
  \/ Logout
  \/ Back
  \/ GoBackToLogin
  \/ LoginPressed
  \/ \E n \in posting, success, first, bearing \in BOOLEAN :
       LoginAnswered(n, success, first, bearing)
  \/ RequestSent
  \/ RequestAccepted
  \/ RequestRefused
  \/ ScreensReset
  \/ LatchOpens
  \/ \E ok \in BOOLEAN, savePass \in BOOLEAN : StorageAnswers(ok, savePass)
  \/ Kill
  \/ StorageActs
  \/ Boot

SessionSpec == SessionInit /\ [][SessionNext]_sessionVars

\* The storage answers, a callback runs to its end and timers fire. The server
\* and the user owe nothing.
SessionFairness ==
  /\ WF_sessionVars(\E ok \in BOOLEAN, savePass \in BOOLEAN : StorageAnswers(ok, savePass))
  /\ WF_sessionVars(ScreensReset)
  /\ WF_sessionVars(LatchOpens)

FairSessionSpec == SessionSpec /\ SessionFairness

-----------------------------------------------------------------------------
(***************************************************************************)
(* Safety.                                                                 *)
(***************************************************************************)

\* Whoever is logged in by the store, by an answer that had a token, is the one
\* whose token every request carries: log-ins that overlap, with and without
\* token, a removal between two steps of a log-in and operations that fail leave
\* the two in agreement.
TokenIsOfStore == store \notin {0} \cup tokenless => token = store

\* The home screen reads its user when it is mounted (HomeTab.js:71,150): a Main
\* screen, on top or below, has its session and the saved user, whatever expires,
\* fails, comes late or is gone back to, but while clearSession() is between the
\* store and the screens. Then the mounted ones are rendered once without a
\* session, which TODO.md:362-373 made HomeTab safe for.
HomeHasSession == MainMounted /\ ~clearing => store # 0 /\ savedUser # 0

-----------------------------------------------------------------------------
(***************************************************************************)
(* Liveness.                                                               *)
(***************************************************************************)

\* The answer 401 is never lost on the app: a removal that has begun ends at the
\* log-in screen, whether or not the storage does its part, and the latch, which
\* keeps further answers 401 out, opens again.
ExpiryIsHandled ==
  /\ (\E i \in 1 .. Len(ops) : ops[i].do = "remove") ~> (top = "Login" \/ ~up)
  /\ loggingOut ~> ~loggingOut

-----------------------------------------------------------------------------
(***************************************************************************)
(* What the documentation says and the code does not do.                   *)
(***************************************************************************)

\* "Log-out really deletes the session and goes to Login; Back does not return to
\* Main" (TODO.md:110, in Vietnamese, ticked off). A step from the log-in screen
\* to Main that is no log-in, with the session of before.
LogoutIsFinal == [][~(top = "Login" /\ top' = "Main" /\ here = {})]_sessionVars
=============================================================================
