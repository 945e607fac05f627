------------------------------ MODULE Accounts ------------------------------
(***************************************************************************)
(* Accounts and refresh tokens (auth.py): signing up, signing in,          *)
(* exchanging a refresh token for the next of its family, revoking a       *)
(* family when an exchanged token comes back, signing out.  The handlers   *)
(* run in the threads of the request pool without a lock; each ends by     *)
(* saving the accounts and the tokens with the snapshot store.             *)
(*                                                                         *)
(* A step is the code between two points at which the interpreter may      *)
(* switch threads and another thread can tell the difference.  persist()   *)
(* walks a section in one step, because a walk that an insertion or a      *)
(* removal disturbs raises (PersistFails).  Passwords, access tokens and   *)
(* the throttling of sign-ins are left out.  A token stands for its hash,  *)
(* and a family is named by its first token.                               *)
(***************************************************************************)
EXTENDS Naturals, FiniteSets

CONSTANTS
    Thread,        \* threads of the request pool
    Account,       \* user identifiers
    Email,         \* email addresses
    Token,         \* refresh tokens
    None,          \* no account, email or token
    Expiring,      \* the tokens whose expiry date a run may reach
    MaxRestarts    \* bound on the number of process restarts

ASSUME AccountsAssumption ==
    /\ IsFiniteSet(Thread)
    /\ None \notin Account \cup Email \cup Token
    /\ Expiring \subseteq Token
    /\ MaxRestarts \in Nat

VARIABLES
    accounts,       \* accounts[a]: the email of account a, or None
    tokens,         \* tokens[k]: state, family and account of token k
    diskAccounts,   \* the same two sections in the snapshot file
    diskTokens,
    expired,        \* tokens past their expiry date
    drawn,          \* account identifiers and tokens drawn so far
    pc,             \* pc[t]: where thread t stands in its handler
    goal,           \* goal[t]: the handler it runs
    email,          \* email[t]: the email of a sign-up or sign-in
    hold,           \* hold[t]: the token presented to the handler
    family,         \* family[t]: the family in hand, None for a new one
    owner,          \* owner[t]: the account in hand
    new,            \* new[t]: the token it has issued
    snapAccounts,   \* what the running persist() has serialised
    snapTokens,
    granted,        \* tokens given to clients
    exchanges,      \* exchanges[k]: how often k was exchanged with success
    revoked,        \* families whose revocation was answered
    closed,         \* tokens whose sign-out was answered
    restarts        \* restarts so far

memory == <<accounts, tokens>>
disk == <<diskAccounts, diskTokens>>
locals == <<goal, email, hold, family, owner, new>>
snapshots == <<snapAccounts, snapTokens>>
answers == <<granted, exchanges, revoked, closed>>
vars == <<memory, disk, expired, drawn, pc, locals, snapshots, answers,
          restarts>>

NoToken == [state |-> "absent", family |-> None, account |-> None]
NoAccounts == [a \in Account |-> None]
NoTokens == [k \in Token |-> NoToken]

Live(section) == {k \in Token : section[k].state = "live"}
Members(section, f) == {k \in Token : section[k].family = f}
AccountsOf(section, e) == {a \in Account : section[a] = e}

-----------------------------------------------------------------------------
Init ==
    /\ accounts = NoAccounts
    /\ tokens = NoTokens
    /\ diskAccounts = NoAccounts
    /\ diskTokens = NoTokens
    /\ expired = {}
    /\ drawn = {}
    /\ pc = [t \in Thread |-> "idle"]
    /\ goal = [t \in Thread |-> "none"]
    /\ email = [t \in Thread |-> None]
    /\ hold = [t \in Thread |-> None]
    /\ family = [t \in Thread |-> None]
    /\ owner = [t \in Thread |-> None]
    /\ new = [t \in Thread |-> None]
    /\ snapAccounts = [t \in Thread |-> NoAccounts]
    /\ snapTokens = [t \in Thread |-> NoTokens]
    /\ granted = {}
    /\ exchanges = [k \in Token |-> 0]
    /\ revoked = {}
    /\ closed = {}
    /\ restarts = 0

Goto(t, to) == pc' = [pc EXCEPT ![t] = to]

(* Thread t takes a request for handler g that goes on at `to'.            *)
Begin(t, g, to) ==
    /\ pc[t] = "idle"
    /\ goal' = [goal EXCEPT ![t] = g]
    /\ Goto(t, to)

(* The handler is over: the thread goes back to the pool.                  *)
Leave(t) ==
    /\ Goto(t, "idle")
    /\ goal' = [goal EXCEPT ![t] = "none"]
    /\ email' = [email EXCEPT ![t] = None]
    /\ hold' = [hold EXCEPT ![t] = None]
    /\ family' = [family EXCEPT ![t] = None]
    /\ owner' = [owner EXCEPT ![t] = None]
    /\ new' = [new EXCEPT ![t] = None]

(* Tokens ks are removed from the dict.                                    *)
Pop(ks) == tokens' = [k \in Token |-> IF k \in ks THEN NoToken ELSE tokens[k]]

(********************************* Signing up ******************************)

(* register() up to the check that the email is free.                      *)
SignUp(t, e) ==
    /\ AccountsOf(accounts, e) = {}
    /\ Begin(t, "signup", "insert")
    /\ email' = [email EXCEPT ![t] = e]
    /\ UNCHANGED <<memory, disk, expired, drawn, hold, family, owner, new,
                   snapshots, answers, restarts>>

(* Once the keys are made and the password is hashed, the account is       *)
(* inserted and saved.                                                     *)
InsertAccount(t, a) ==
    /\ pc[t] = "insert"
    /\ a \notin drawn
    /\ drawn' = drawn \cup {a}
    /\ accounts' = [accounts EXCEPT ![a] = email[t]]
    /\ Goto(t, "walk_accounts")
    /\ UNCHANGED <<tokens, disk, expired, locals, snapshots, answers,
                   restarts>>

(* login() with the right password; auth_register calls it too.            *)
SignIn(t, e) ==
    /\ Begin(t, "signin", "find")
    /\ email' = [email EXCEPT ![t] = e]
    /\ UNCHANGED <<memory, disk, expired, drawn, hold, family, owner, new,
                   snapshots, answers, restarts>>

FindAccount(t, a) ==
    /\ pc[t] = "find"
    /\ a \in AccountsOf(accounts, email[t])
    /\ owner' = [owner EXCEPT ![t] = a]
    /\ Goto(t, "issue")
    /\ UNCHANGED <<memory, disk, expired, drawn, goal, email, hold, family, new,
                   snapshots, answers, restarts>>

(* No such account: 401.                                                   *)
UnknownEmail(t) ==
    /\ pc[t] = "find"
    /\ AccountsOf(accounts, email[t]) = {}
    /\ Leave(t)
    /\ UNCHANGED <<memory, disk, expired, drawn, snapshots, answers, restarts>>

(* _issue_tokens: a fresh token joins the family in hand or starts one.    *)
Issue(t, n) ==
    /\ pc[t] = "issue"
    /\ n \notin drawn
    /\ drawn' = drawn \cup {n}
    /\ tokens' = [tokens EXCEPT ![n] =
                     [state   |-> "live",
                      family  |-> IF family[t] = None THEN n ELSE family[t],
                      account |-> owner[t]]]
    /\ new' = [new EXCEPT ![t] = n]
    /\ Goto(t, "walk_accounts")
    /\ UNCHANGED <<accounts, disk, expired, goal, email, hold, family, owner,
                   snapshots, answers, restarts>>

(******************************** Refreshing *******************************)

(* The handler has the record of token k in hand.                          *)
Present(t, k, to) ==
    /\ k \in granted
    /\ Begin(t, "refresh", to)
    /\ hold' = [hold EXCEPT ![t] = k]
    /\ family' = [family EXCEPT ![t] = tokens[k].family]
    /\ owner' = [owner EXCEPT ![t] = tokens[k].account]

(* refresh() up to the last check: the token is in use and its account     *)
(* exists.                                                                 *)
Refresh(t, k) ==
    /\ tokens[k].state = "live"
    /\ k \notin expired
    /\ accounts[tokens[k].account] # None
    /\ Present(t, k, "rotate")
    /\ UNCHANGED <<memory, disk, expired, drawn, email, new, snapshots, answers,
                   restarts>>

(* A token that was exchanged before: the family is to be revoked.         *)
RefreshRotated(t, k) ==
    /\ tokens[k].state = "rotated"
    /\ Present(t, k, "revoke")
    /\ UNCHANGED <<memory, disk, expired, drawn, email, new, snapshots, answers,
                   restarts>>

(* A fault: an expired token is kept under a state of its own.             *)
MarkExpired(t, k) ==
    /\ pc[t] = "idle"
    /\ k \in granted \cap expired
    /\ tokens[k].state = "live"
    /\ tokens' = [tokens EXCEPT ![k].state = "expired"]
    /\ UNCHANGED <<accounts, disk, expired, drawn, pc, locals, snapshots,
                   answers, restarts>>

(* An expired token is dropped, without a save, and answered 401.          *)
RefreshExpired(t, k) ==
    /\ pc[t] = "idle"
    /\ k \in granted \cap expired
    /\ tokens[k].state = "live"
    /\ Pop({k})
    /\ UNCHANGED <<accounts, disk, expired, drawn, pc, locals, snapshots,
                   answers, restarts>>

(* The other refusals change nothing.                                      *)
Unknown(k) ==
    \/ tokens[k].state = "absent"
    \/ /\ tokens[k].state = "live"
       /\ k \notin expired
       /\ accounts[tokens[k].account] = None

(* A fault: the token presented is not marked.                             *)
LeaveUnmarked(t) ==
    /\ pc[t] = "rotate"
    /\ Goto(t, "issue")
    /\ UNCHANGED <<memory, disk, expired, drawn, locals, snapshots, answers,
                   restarts>>

(* The record in hand is marked, whether or not the store still has it.    *)
Rotate(t) ==
    /\ pc[t] = "rotate"
    /\ tokens' = [k \in Token |->
                     IF k = hold[t] /\ tokens[k].state = "live"
                     THEN [tokens[k] EXCEPT !.state = "rotated"]
                     ELSE tokens[k]]
    /\ Goto(t, "issue")
    /\ UNCHANGED <<accounts, disk, expired, drawn, locals, snapshots, answers,
                   restarts>>

(* A fault: only the token presented is removed.                           *)
RevokeOne(t) ==
    /\ pc[t] = "revoke"
    /\ Pop({hold[t]})
    /\ goal' = [goal EXCEPT ![t] = "revoke"]
    /\ Goto(t, "walk_accounts")
    /\ UNCHANGED <<accounts, disk, expired, drawn, email, hold, family, owner,
                   new, snapshots, answers, restarts>>

(* Every token of the family is removed; the answer follows the save.      *)
Revoke(t) ==
    /\ pc[t] = "revoke"
    /\ Pop(Members(tokens, family[t]))
    /\ goal' = [goal EXCEPT ![t] = "revoke"]
    /\ Goto(t, "walk_accounts")
    /\ UNCHANGED <<accounts, disk, expired, drawn, email, hold, family, owner,
                   new, snapshots, answers, restarts>>

(* A fault: signing out leaves the token.                                  *)
SignOutInName(t, k) ==
    /\ k \in granted
    /\ Begin(t, "signout", "walk_accounts")
    /\ hold' = [hold EXCEPT ![t] = k]
    /\ UNCHANGED <<memory, disk, expired, drawn, email, family, owner, new,
                   snapshots, answers, restarts>>

(* logout().                                                               *)
SignOut(t, k) ==
    /\ k \in granted
    /\ Begin(t, "signout", "walk_accounts")
    /\ Pop({k})
    /\ hold' = [hold EXCEPT ![t] = k]
    /\ UNCHANGED <<accounts, disk, expired, drawn, email, family, owner, new,
                   snapshots, answers, restarts>>

(* Any other handler that saves.                                           *)
OtherRequest(t) ==
    /\ Begin(t, "other", "walk_accounts")
    /\ UNCHANGED <<memory, disk, expired, drawn, email, hold, family, owner,
                   new, snapshots, answers, restarts>>

(* The clock reaches the expiry date of token k.                           *)
Expire(k) ==
    /\ k \in (Expiring \cap drawn) \ expired
    /\ expired' = expired \cup {k}
    /\ UNCHANGED <<memory, disk, drawn, pc, locals, snapshots, answers,
                   restarts>>

(********************************** persist() ******************************)

WalkAccounts(t) ==
    /\ pc[t] = "walk_accounts"
    /\ snapAccounts' = [snapAccounts EXCEPT ![t] = accounts]
    /\ Goto(t, "walk_tokens")
    /\ UNCHANGED <<memory, disk, expired, drawn, locals, snapTokens, answers,
                   restarts>>

(* The snapshot holds the dict of tokens itself; json.dump walks it.       *)
WalkTokens(t) ==
    /\ pc[t] = "walk_tokens"
    /\ snapTokens' = [snapTokens EXCEPT ![t] = tokens]
    /\ Goto(t, "replace")
    /\ UNCHANGED <<memory, disk, expired, drawn, locals, snapAccounts, answers,
                   restarts>>

Forget(t) ==
    /\ snapAccounts' = [snapAccounts EXCEPT ![t] = NoAccounts]
    /\ snapTokens' = [snapTokens EXCEPT ![t] = NoTokens]

(* os.replace, then the handler answers; a sign-up goes on to sign in.     *)
ReplaceFile(t) ==
    /\ pc[t] = "replace"
    /\ diskAccounts' = snapAccounts[t]
    /\ diskTokens' = snapTokens[t]
    /\ Forget(t)
    /\ granted' = granted \cup ({new[t]} \ {None})
    /\ exchanges' = [k \in Token |->
                        IF goal[t] = "refresh" /\ k = hold[t]
                        THEN exchanges[k] + 1 ELSE exchanges[k]]
    /\ revoked' = IF goal[t] = "revoke" THEN revoked \cup {family[t]}
                                       ELSE revoked
    /\ closed' = IF goal[t] = "signout" THEN closed \cup {hold[t]} ELSE closed
    /\ IF goal[t] = "signup"
       THEN /\ Goto(t, "find")
            /\ goal' = [goal EXCEPT ![t] = "signin"]
            /\ UNCHANGED <<email, hold, family, owner, new>>
       ELSE Leave(t)
    /\ UNCHANGED <<memory, expired, drawn, restarts>>

(* persist() raises: 500, and what was changed in memory stays.            *)
PersistFails(t) ==
    /\ pc[t] \in {"walk_accounts", "walk_tokens", "replace"}
    /\ Forget(t)
    /\ Leave(t)
    /\ UNCHANGED <<memory, disk, expired, drawn, answers, restarts>>

(* The process dies and starts again from the snapshot file.               *)
Restart ==
    /\ restarts < MaxRestarts
    /\ restarts' = restarts + 1
    /\ accounts' = diskAccounts
    /\ tokens' = diskTokens
    /\ pc' = [t \in Thread |-> "idle"]
    /\ goal' = [t \in Thread |-> "none"]
    /\ email' = [t \in Thread |-> None]
    /\ hold' = [t \in Thread |-> None]
    /\ family' = [t \in Thread |-> None]
    /\ owner' = [t \in Thread |-> None]
    /\ new' = [t \in Thread |-> None]
    /\ snapAccounts' = [t \in Thread |-> NoAccounts]
    /\ snapTokens' = [t \in Thread |-> NoTokens]
    /\ UNCHANGED <<disk, expired, drawn, answers>>

-----------------------------------------------------------------------------
Request(t) ==
    \/ \E e \in Email : SignUp(t, e) \/ SignIn(t, e)
    \/ \E k \in Token : \/ Refresh(t, k)
                        \/ RefreshRotated(t, k)
                        \/ RefreshExpired(t, k)
                        \/ SignOut(t, k)
    \/ OtherRequest(t)

Continue(t) ==
    \/ \E a \in Account : InsertAccount(t, a) \/ FindAccount(t, a)
    \/ UnknownEmail(t)
    \/ \E n \in Token : Issue(t, n)
    \/ Rotate(t)
    \/ Revoke(t)
    \/ WalkAccounts(t)
    \/ WalkTokens(t)
    \/ ReplaceFile(t)
    \/ PersistFails(t)

Next ==
    \/ \E t \in Thread : Request(t) \/ Continue(t)
    \/ \E k \in Token : Expire(k)
    \/ Restart

Spec == Init /\ [][Next]_vars

-----------------------------------------------------------------------------
TokenRecord == [state   : {"absent", "live", "rotated"},
                family  : Token \cup {None},
                account : Account \cup {None}]

Place == {"idle", "insert", "find", "issue", "rotate", "revoke",
          "walk_accounts", "walk_tokens", "replace"}

Handler ==
    {"none", "signup", "signin", "refresh", "revoke", "signout", "other"}

(* Every variable keeps to its domain.                                     *)
TypeOK ==
    /\ accounts \in [Account -> Email \cup {None}]
    /\ tokens \in [Token -> TokenRecord]
    /\ diskAccounts \in [Account -> Email \cup {None}]
    /\ diskTokens \in [Token -> TokenRecord]
    /\ expired \in SUBSET Token
    /\ drawn \in SUBSET (Account \cup Token)
    /\ pc \in [Thread -> Place]
    /\ goal \in [Thread -> Handler]
    /\ email \in [Thread -> Email \cup {None}]
    /\ hold \in [Thread -> Token \cup {None}]
    /\ family \in [Thread -> Token \cup {None}]
    /\ owner \in [Thread -> Account \cup {None}]
    /\ new \in [Thread -> Token \cup {None}]
    /\ snapAccounts \in [Thread -> [Account -> Email \cup {None}]]
    /\ snapTokens \in [Thread -> [Token -> TokenRecord]]
    /\ granted \in SUBSET Token
    /\ exchanges \in [Token -> Nat]
    /\ revoked \in SUBSET Token
    /\ closed \in SUBSET Token
    /\ restarts \in 0 .. MaxRestarts

(* A family has one token in use at a time: holding it is what proves that *)
(* nobody else continued the session.                                      *)
OneLivePerFamily ==
    \A k, l \in Live(tokens) : tokens[k].family = tokens[l].family => k = l

(* A token that a client has exchanged is never usable again, not even     *)
(* after a restart: the exchange is saved before it is answered.           *)
ExchangedNeverLive ==
    \A k \in Token :
        exchanges[k] > 0 => k \notin Live(tokens) \cup Live(diskTokens)

(* What a client was told is over stays over, restarts included: of a      *)
(* revoked session no token is left, in memory or in the file, and a token *)
(* that was signed out is usable nowhere.                                  *)
RevocationHolds ==
    /\ \A f \in revoked : Members(tokens, f) \cup Members(diskTokens, f) = {}
    /\ \A k \in closed : k \notin Live(tokens) \cup Live(diskTokens)

(* A token that was exchanged or signed out is not in use again before the *)
(* process restarts, whatever handlers interleave and whichever saves fail:*)
(* a handler that has lost the race for it cannot bring it back.           *)
SpentStaysSpent ==
    restarts = 0 => \A k \in Token :
        exchanges[k] > 0 \/ k \in closed => k \notin Live(tokens)

(* Every refresh rotates the token; as the mark comes after the check, two *)
(* handlers may both exchange it.  No more do: until a restart each thread *)
(* exchanges a token at most once, because a thread that comes again finds *)
(* the mark that it left.                                                  *)
ExchangesBounded ==
    restarts = 0 => \A k \in Token : exchanges[k] <= Cardinality(Thread)
=============================================================================
