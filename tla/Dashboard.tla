----------------------------- MODULE Dashboard ------------------------------
(***************************************************************************)
(* The dashboard (frontend/app.js) as a client of Accounts: it keeps one   *)
(* pair of tokens in the browser's storage, sends several requests at      *)
(* once, and answers a 401 by exchanging the stored refresh token and      *)
(* repeating the request.                                                  *)
(*                                                                         *)
(* An access token is named by the refresh token issued with it.  The      *)
(* browser runs one callback at a time, so a step is what a callback does  *)
(* up to its next await.                                                   *)
(***************************************************************************)
EXTENDS Accounts

CONSTANTS
    Call,       \* the requests that one page sends at once
    MaxLost     \* bound on the number of lost answers

ASSUME DashboardAssumption == MaxLost \in Nat /\ None \notin Call

VARIABLES
    stored,     \* the pair of tokens in local storage
    stale,      \* access tokens past their thirty minutes
    phase,      \* phase[c]: what call c awaits
    carries,    \* carries[c]: the token it has sent
    serving,    \* serving[t]: the call whose request thread t handles
    answer,     \* answer[c]: the answer on its way to call c
    lost        \* answers lost so far

client == <<stored, stale, phase, carries, serving, answer, lost>>
allVars == <<vars, client>>

NoAnswer == [kind |-> "none", token |-> None]
Granted(k) == [kind |-> "granted", token |-> k]
Refused == [kind |-> "refused", token |-> None]

Quiet == \A c \in Call : phase[c] = "idle"

(* Call c waits for the server and no thread has its request yet.          *)
Unserved(c) == answer[c] = NoAnswer /\ \A t \in Thread : serving[t] # c

-----------------------------------------------------------------------------
DashboardInit ==
    /\ Init
    /\ stored = None
    /\ stale = {}
    /\ phase = [c \in Call |-> "idle"]
    /\ carries = [c \in Call |-> None]
    /\ serving = [t \in Thread |-> None]
    /\ answer = [c \in Call |-> NoAnswer]
    /\ lost = 0

Await(c, p, k) ==
    /\ phase' = [phase EXCEPT ![c] = p]
    /\ carries' = [carries EXCEPT ![c] = k]

Settle(c) == Await(c, "idle", None)

(* authRegister and authLogin.                                             *)
SignInCall(c, t, e) ==
    /\ Quiet
    /\ stored = None
    /\ SignUp(t, e) \/ SignIn(t, e)
    /\ Await(c, "signing", None)
    /\ serving' = [serving EXCEPT ![t] = c]
    /\ UNCHANGED <<stored, stale, answer, lost>>

(* refreshAll: the lists are fetched in parallel.                          *)
OpenPage ==
    /\ Quiet
    /\ stored # None
    /\ phase' = [c \in Call |-> "fetching"]
    /\ carries' = [c \in Call |-> stored]
    /\ UNCHANGED <<vars, stored, stale, serving, answer, lost>>

(* The access token was accepted.                                          *)
Fetched(c) ==
    /\ phase[c] \in {"fetching", "retrying"}
    /\ carries[c] \notin stale
    /\ Settle(c)
    /\ UNCHANGED <<vars, stored, stale, serving, answer, lost>>

(* 401 on the first try: the stored refresh token, as it is by now, is     *)
(* presented; without one, or on the second try, the call fails.           *)
Unauthorized(c) ==
    /\ phase[c] \in {"fetching", "retrying"}
    /\ carries[c] \in stale
    /\ IF phase[c] = "fetching" /\ stored # None
       THEN Await(c, "refreshing", stored)
       ELSE Settle(c)
    /\ UNCHANGED <<vars, stored, stale, serving, answer, lost>>

(* A thread takes the exchange up.                                         *)
RefreshCall(c, t) ==
    /\ phase[c] = "refreshing"
    /\ Unserved(c)
    /\ Refresh(t, carries[c]) \/ RefreshRotated(t, carries[c])
    /\ serving' = [serving EXCEPT ![t] = c]
    /\ UNCHANGED <<stored, stale, phase, carries, answer, lost>>

(* A thread refuses it at once.                                            *)
RefreshRefused(c, t) ==
    /\ phase[c] = "refreshing"
    /\ Unserved(c)
    /\ \/ RefreshExpired(t, carries[c])
       \/ pc[t] = "idle" /\ Unknown(carries[c]) /\ UNCHANGED vars
    /\ answer' = [answer EXCEPT ![c] = Refused]
    /\ UNCHANGED <<stored, stale, phase, carries, serving, lost>>

(* authLogout.                                                             *)
SignOutCall(c, t) ==
    /\ phase[c] = "idle"
    /\ stored # None
    /\ SignOut(t, stored)
    /\ Await(c, "leaving", stored)
    /\ serving' = [serving EXCEPT ![t] = c]
    /\ UNCHANGED <<stored, stale, answer, lost>>

(* The server works on a request.                                          *)
Work(t) ==
    /\ \/ \E a \in Account : InsertAccount(t, a) \/ FindAccount(t, a)
       \/ \E n \in Token : Issue(t, n)
       \/ Rotate(t)
       \/ Revoke(t)
       \/ WalkAccounts(t)
       \/ WalkTokens(t)
       \/ ReplaceFile(t) /\ pc'[t] # "idle"
    /\ UNCHANGED client

(* The server answers: with a token, or with something else.               *)
Answer(t) ==
    /\ \/ ReplaceFile(t) /\ pc'[t] = "idle"
       \/ PersistFails(t)
       \/ UnknownEmail(t)
    /\ answer' = [answer EXCEPT ![serving[t]] =
                     IF new[t] \in granted' THEN Granted(new[t]) ELSE Refused]
    /\ serving' = [serving EXCEPT ![t] = None]
    /\ UNCHANGED <<stored, stale, phase, carries, lost>>

(* A fault: only the access token of an answer is stored.                  *)
ReceiveHalf(c) ==
    /\ answer[c] # NoAnswer
    /\ answer' = [answer EXCEPT ![c] = NoAnswer]
    /\ IF answer[c].kind = "granted"
       THEN /\ stored' = IF stored = None THEN answer[c].token ELSE stored
            /\ IF phase[c] = "refreshing"
               THEN Await(c, "retrying", answer[c].token)
               ELSE Settle(c)
       ELSE /\ stored' = None
            /\ Settle(c)
    /\ UNCHANGED <<vars, stale, serving, lost>>

(* saveTokens and, for a refresh, the second try; any other answer to a    *)
(* refresh or a sign-out is followed by clearTokens.                       *)
Receive(c) ==
    /\ answer[c] # NoAnswer
    /\ answer' = [answer EXCEPT ![c] = NoAnswer]
    /\ IF answer[c].kind = "granted"
       THEN /\ stored' = answer[c].token
            /\ IF phase[c] = "refreshing"
               THEN Await(c, "retrying", answer[c].token)
               ELSE Settle(c)
       ELSE /\ stored' = None
            /\ Settle(c)
    /\ UNCHANGED <<vars, stale, serving, lost>>

(* The connection breaks: fetch rejects and the tokens stay as they are,   *)
(* except that a sign-out clears them all the same.                        *)
LoseAnswer(c) ==
    /\ answer[c] # NoAnswer
    /\ lost < MaxLost
    /\ lost' = lost + 1
    /\ answer' = [answer EXCEPT ![c] = NoAnswer]
    /\ stored' = IF phase[c] = "leaving" THEN None ELSE stored
    /\ Settle(c)
    /\ UNCHANGED <<vars, stale, serving>>

(* Thirty minutes pass for the stored access token.                        *)
AccessExpires ==
    /\ stored \notin stale \cup {None}
    /\ stale' = stale \cup {stored}
    /\ UNCHANGED <<vars, stored, phase, carries, serving, answer, lost>>

ServerClock == (\E k \in Token : Expire(k)) /\ UNCHANGED client

(* The server dies: the requests it was serving are rejected.              *)
ServerRestarts ==
    /\ Restart
    /\ serving' = [t \in Thread |-> None]
    /\ LET cut == {serving[t] : t \in Thread} IN
       /\ phase' = [c \in Call |-> IF c \in cut THEN "idle" ELSE phase[c]]
       /\ carries' = [c \in Call |-> IF c \in cut THEN None ELSE carries[c]]
       /\ stored' = IF \E c \in cut \ {None} : phase[c] = "leaving"
                    THEN None ELSE stored
    /\ UNCHANGED <<stale, answer, lost>>

DashboardNext ==
    \/ \E c \in Call, t \in Thread : \/ \E e \in Email : SignInCall(c, t, e)
                                     \/ RefreshCall(c, t)
                                     \/ RefreshRefused(c, t)
                                     \/ SignOutCall(c, t)
    \/ \E c \in Call : \/ Fetched(c)
                       \/ Unauthorized(c)
                       \/ Receive(c)
                       \/ LoseAnswer(c)
    \/ \E t \in Thread : Work(t) \/ Answer(t)
    \/ OpenPage
    \/ AccessExpires
    \/ ServerClock
    \/ ServerRestarts

DashboardSpec == DashboardInit /\ [][DashboardNext]_allVars

-----------------------------------------------------------------------------
(* Every answer has arrived and the server has not restarted.              *)
Undisturbed == lost = 0 /\ restarts = 0

(* The server never takes the owner of a session for a thief: as long as   *)
(* no answer is lost, the dashboard, which is the only client here, does   *)
(* not present a token it has already exchanged.                           *)
NoFalseTheft == Undisturbed => \A t \in Thread : pc[t] # "revoke"

(* When nothing is under way, client and server agree on the session: the  *)
(* stored token is usable, and it is the only one of those given out that  *)
(* still is.                                                               *)
Agreement ==
    Quiet /\ Undisturbed => Live(tokens) \cap granted = {stored} \ {None}
=============================================================================
