---------------------------- MODULE PlatformVault ----------------------------
(***************************************************************************)
(* Connections to media platforms (integrations/oauth.py and               *)
(* services/connectors.py): the pending authorizations, the connectors     *)
(* they become, and the encrypted entry of each connector with the         *)
(* platform's refresh token, under concurrent handlers, failing saves,     *)
(* lost answers of the platform and restarts.                              *)
(*                                                                         *)
(* A platform token is the number of the generation it belongs to: the     *)
(* platform grants generation 1 with the authorization code.  A rotating   *)
(* platform answers every refresh with the next generation and accepts the *)
(* one before no longer; the others answer without a new refresh token.    *)
(* persist() is two steps: the connectors are serialised into a picture,   *)
(* and later the picture replaces the file.  Handlers that save at once    *)
(* may replace the file in the other order, so that an older picture stays *)
(* in it.  That the sections of a picture are of different moments is the  *)
(* subject of SnapshotStore.                                               *)
(***************************************************************************)
EXTENDS Naturals, FiniteSets

CONSTANTS
    Thread,        \* threads that run handlers
    Provider,      \* the providers of providers.py that are configured
    Rotating,      \* the ones whose platform rotates refresh tokens
    State,         \* values of the one-time state parameter
    Connector,     \* identifiers of connectors
    Existing,      \* connectors that may be on file before the first start
    None,          \* stands for no connector, no state and no provider
    MaxTokens,     \* bound on the generations of one grant
    MaxRequests,   \* bound on the number of requests
    MaxRestarts    \* bound on the number of restarts

ASSUME VaultAssumption ==
    /\ Rotating \subseteq Provider
    /\ Existing \subseteq Connector
    /\ None \notin State \cup Connector \cup Provider
    /\ MaxTokens \in Nat \ {0}
    /\ MaxRequests \in Nat
    /\ MaxRestarts \in Nat

VARIABLES
    flow,        \* states with an entry in OAuthManager._states
    asked,       \* asked[s]: the provider state s was drawn for
    aged,        \* states older than STATE_TTL_SECONDS
    connected,   \* connectors in memory
    provider,    \* provider[c]: the platform of connector c
    origin,      \* origin[c]: the state whose callback made c
    vault,       \* vault[c]: the generation in c's entry, 0 if no token
    file,        \* the picture of connectors and entries in the snapshot file
    picture,     \* picture[t]: the one that the save of thread t has taken
    live,        \* live[c]: the generation the platform accepts
    broken,      \* connectors whose newest token never reached the file
    pc,          \* pc[t]: the next step of thread t
    job,         \* job[t]: what its handler has in its local variables
    served,      \* requests taken up so far
    restarts     \* restarts so far

flows == <<flow, asked, aged>>
accounts == <<connected, provider, origin>>
disk == <<file, picture>>
grants == <<live, broken>>
vaultVars == <<flows, accounts, vault, disk, grants, pc, job, served, restarts>>

NoJob == [conn |-> None, state |-> None, prov |-> None, token |-> 0,
          next |-> "idle"]

(* A picture says whether no later save has begun, or failed.              *)
Outdated(p) == [p EXCEPT !.newest = FALSE]
NoPicture == [connected |-> {}, vault |-> [c \in Connector |-> 0],
              newest |-> FALSE]

Idle(t) == pc[t] = "idle"
Goto(t, step) == pc' = [pc EXCEPT ![t] = step]

(* Thread t takes up a request.                                            *)
Arrives(t) ==
    /\ Idle(t)
    /\ served < MaxRequests
    /\ served' = served + 1

(* The handler returns, or an exception ends it.                           *)
End(t) == Goto(t, "idle") /\ job' = [job EXCEPT ![t] = NoJob]

(* The handler goes on to save, and then to step.                          *)
SaveThen(t, step) ==
    /\ Goto(t, "save")
    /\ job' = [job EXCEPT ![t].next = step]

Used == {c \in Connector : provider[c] # None}

-----------------------------------------------------------------------------
VaultInit ==
    /\ flow = {}
    /\ asked = [s \in State |-> None]
    /\ aged = {}
    /\ connected \in SUBSET Existing
    /\ provider \in {f \in [Connector -> Provider \cup {None}] :
                        \A c \in Connector : f[c] # None <=> c \in connected}
    /\ origin = [c \in Connector |-> None]
    /\ vault = [c \in Connector |-> IF c \in connected THEN 1 ELSE 0]
    /\ file = [connected |-> connected, vault |-> vault, newest |-> TRUE]
    /\ picture = [t \in Thread |-> NoPicture]
    /\ live = vault
    /\ broken = {}
    /\ pc = [t \in Thread |-> "idle"]
    /\ job = [t \in Thread |-> NoJob]
    /\ served = 0
    /\ restarts = 0

(* start(): the state is drawn and stored, then old entries are pruned.    *)
Start(t, p, s) ==
    /\ Arrives(t)
    /\ asked[s] = None
    /\ asked' = [asked EXCEPT ![s] = p]
    /\ flow' = flow \cup {s}
    /\ Goto(t, "prune")
    /\ UNCHANGED <<aged, accounts, vault, disk, grants, job, restarts>>

(* _prune_states.  The walk over the dict raises when another handler      *)
(* stores or takes an entry meanwhile: nothing is pruned, and start() ends *)
(* with a 500 although its entry is stored.                                *)
Prune(t) ==
    /\ pc[t] = "prune"
    /\ \/ flow' = flow \ aged
       \/ (\E u \in Thread \ {t} : ~Idle(u)) /\ UNCHANGED flow
    /\ End(t)
    /\ UNCHANGED <<asked, aged, accounts, vault, disk, grants, served,
                   restarts>>

(* Ten minutes have passed since state s was drawn.                        *)
Age(s) ==
    /\ s \in flow \ aged
    /\ aged' = aged \cup {s}
    /\ UNCHANGED <<flow, asked, accounts, vault, disk, grants, pc, job,
                   served, restarts>>

(* A fault: the entry is read and not taken out.                           *)
TakeNothing(s) == UNCHANGED flow

(* _states.pop: the entry is gone, whatever the callback does next.        *)
TakeState(s) == flow' = flow \ {s}

(* The checks of callback() on the entry it has taken out.                 *)
Accepts(p, s) == asked[s] = p /\ s \notin aged

(* callback() for provider p with state s.  Without an entry it refuses    *)
(* and changes nothing.                                                    *)
Callback(t, p, s) ==
    /\ Arrives(t)
    /\ s \in flow
    /\ TakeState(s)
    /\ IF Accepts(p, s)
       THEN /\ Goto(t, "exchange")
            /\ job' = [job EXCEPT ![t].state = s, ![t].prov = p]
       ELSE UNCHANGED <<pc, job>>
    /\ UNCHANGED <<asked, aged, accounts, vault, disk, grants,
                   restarts>>

(* The platform exchanges the code, or the call fails and the handler with *)
(* it.  The answer becomes a connector with an identifier of its own.      *)
Exchange(t, c) ==
    /\ pc[t] = "exchange"
    /\ provider[c] = None
    /\ connected' = connected \cup {c}
    /\ provider' = [provider EXCEPT ![c] = job[t].prov]
    /\ origin' = [origin EXCEPT ![c] = job[t].state]
    /\ vault' = [vault EXCEPT ![c] = 1]
    /\ live' = [live EXCEPT ![c] = 1]
    /\ SaveThen(t, "idle")
    /\ UNCHANGED <<flows, disk, broken, served, restarts>>

ExchangeFails(t) ==
    /\ pc[t] = "exchange"
    /\ End(t)
    /\ UNCHANGED <<flows, accounts, vault, disk, grants, served,
                   restarts>>

(* connect_account: a connector without a platform token.                  *)
Connect(t, c, p) ==
    /\ Arrives(t)
    /\ provider[c] = None
    /\ connected' = connected \cup {c}
    /\ provider' = [provider EXCEPT ![c] = p]
    /\ SaveThen(t, "idle")
    /\ UNCHANGED <<flows, origin, vault, disk, grants, restarts>>

(* disconnect_account.                                                     *)
Disconnect(t, c) ==
    /\ Arrives(t)
    /\ c \in connected
    /\ connected' = connected \ {c}
    /\ SaveThen(t, "idle")
    /\ UNCHANGED <<flows, provider, origin, vault, disk, grants,
                   restarts>>

-----------------------------------------------------------------------------
(* access_token(account).  The handler holds the account itself, so it     *)
(* goes on with one that is disconnected meanwhile.                        *)

(* The stored token has more than a minute left.                           *)
TokenFresh(t) ==
    /\ pc[t] = "vault"
    /\ vault[job[t].conn] # 0
    /\ Goto(t, "token")
    /\ UNCHANGED <<flows, accounts, vault, disk, grants, job, served,
                   restarts>>

(* It has not, and the refresh token of the entry will be presented.       *)
TokenStale(t) ==
    /\ pc[t] = "vault"
    /\ vault[job[t].conn] # 0
    /\ job' = [job EXCEPT ![t].token = vault[job[t].conn]]
    /\ Goto(t, "refresh")
    /\ UNCHANGED <<flows, accounts, vault, disk, grants, served,
                   restarts>>

(* The entry of connect_account cannot be decrypted.                       *)
TokenMissing(t) ==
    /\ pc[t] = "vault"
    /\ vault[job[t].conn] = 0
    /\ End(t)
    /\ UNCHANGED <<flows, accounts, vault, disk, grants, served,
                   restarts>>

(* What the platform of c has as live generation after it served a refresh.*)
Served(c) == IF provider[c] \in Rotating THEN live[c] + 1 ELSE live[c]

(* The platform accepts the refresh token and the answer arrives.          *)
Refreshed(t) ==
    LET c == job[t].conn IN
    /\ pc[t] = "refresh"
    /\ job[t].token = live[c]
    /\ Served(c) <= MaxTokens
    /\ live' = [live EXCEPT ![c] = Served(c)]
    /\ job' = [job EXCEPT ![t].token = Served(c)]
    /\ Goto(t, "refreshed")
    /\ UNCHANGED <<flows, accounts, vault, disk, broken, served,
                   restarts>>

(* The platform accepts it and the answer is lost on the way (a timeout,   *)
(* a broken connection, a body without a token).                           *)
RefreshLost(t) ==
    LET c == job[t].conn IN
    /\ pc[t] = "refresh"
    /\ job[t].token = live[c]
    /\ Served(c) <= MaxTokens
    /\ live' = [live EXCEPT ![c] = Served(c)]
    /\ broken' = IF provider[c] \in Rotating THEN broken \cup {c} ELSE broken
    /\ End(t)
    /\ UNCHANGED <<flows, accounts, vault, disk, served, restarts>>

(* The platform rejects it or is not reached.                              *)
RefreshFails(t) ==
    /\ pc[t] = "refresh"
    /\ End(t)
    /\ UNCHANGED <<flows, accounts, vault, disk, grants, served,
                   restarts>>

(* A fault: the refresh token of the answer is not taken over.             *)
KeepOldToken(t) == vault

(* The entry with the answer's tokens.                                     *)
NewEntry(t) == [vault EXCEPT ![job[t].conn] = job[t].token]

StoreToken(t) ==
    /\ pc[t] = "refreshed"
    /\ vault' = NewEntry(t)
    /\ SaveThen(t, "token")
    /\ UNCHANGED <<flows, accounts, disk, grants, served, restarts>>

-----------------------------------------------------------------------------
(* persist() serialises what there is in memory.                           *)
Capture(t) ==
    /\ pc[t] = "save"
    /\ picture' = [u \in Thread |->
                      IF u = t
                      THEN [connected |-> connected, vault |-> vault,
                            newest |-> TRUE]
                      ELSE Outdated(picture[u])]
    /\ file' = Outdated(file)
    /\ Goto(t, "write")
    /\ UNCHANGED <<flows, accounts, vault, grants, job, served, restarts>>

(* os.replace: the picture is the file, whichever was there.               *)
Replace(t) ==
    /\ pc[t] = "write"
    /\ file' = picture[t]
    /\ picture' = [picture EXCEPT ![t] = NoPicture]
    /\ IF job[t].next = "idle"
       THEN End(t)
       ELSE Goto(t, job[t].next) /\ UNCHANGED job
    /\ UNCHANGED <<flows, accounts, vault, grants, served, restarts>>

(* persist() raises: the walk over a section that another handler changes, *)
(* or the disk.                                                            *)
SaveFails(t) ==
    /\ \/ /\ pc[t] = "save"
          /\ picture' = [u \in Thread |-> Outdated(picture[u])]
          /\ file' = Outdated(file)
       \/ /\ pc[t] = "write"
          /\ picture' = [picture EXCEPT ![t] = NoPicture]
          /\ UNCHANGED file
    /\ End(t)
    /\ UNCHANGED <<flows, accounts, vault, grants, served, restarts>>

(* The process dies and a new one loads the file; the states are lost.     *)
Restart ==
    /\ restarts < MaxRestarts
    /\ restarts' = restarts + 1
    /\ flow' = {}
    /\ connected' = file.connected
    /\ vault' = file.vault
    /\ broken' = broken \cup {c \in file.connected : file.vault[c] # live[c]}
    /\ file' = [file EXCEPT !.newest = TRUE]
    /\ picture' = [t \in Thread |-> NoPicture]
    /\ pc' = [t \in Thread |-> "idle"]
    /\ job' = [t \in Thread |-> NoJob]
    /\ UNCHANGED <<asked, aged, provider, origin, live, served>>

-----------------------------------------------------------------------------
(* A state authorizes one connector at most, of the provider it was drawn  *)
(* for, however often and for whatever provider the callback is repeated,  *)
(* by two handlers at once or after the entry has aged (callback()).       *)
OneConnectorPerState ==
    \A c, d \in Used :
        /\ origin[c] = origin[d] /\ origin[c] # None => c = d
        /\ origin[c] # None => provider[c] = asked[origin[c]]

(* The entry of a connector holds the token its platform accepts, in       *)
(* memory and in the file, unless an answer was lost or the process died   *)
(* before it was saved.  Handlers that refresh one connector at once do    *)
(* not spoil it (access_token()).  Of the file this holds while it is of   *)
(* the newest save that was begun: one that fails, or whose picture an     *)
(* older one replaces, leaves a spent token there.                         *)
VaultFollowsPlatform ==
    /\ \A c \in connected :
          \/ vault[c] = live[c]
          \/ c \in broken
          \/ \E t \in Thread : job[t].conn = c /\ pc[t] = "refreshed"
    /\ file.newest =>
          \A c \in file.connected :
             \/ file.vault[c] = live[c]
             \/ c \in broken
             \/ \E t \in Thread :
                   job[t].conn = c /\ pc[t] \in {"refreshed", "save"}
=============================================================================
