--------------------------- MODULE AccountsProofs ---------------------------
(***************************************************************************)
(* Theorems about Accounts, and about the dashboard as its client, for any *)
(* number of threads, accounts, tokens and restarts.                       *)
(***************************************************************************)
EXTENDS Dashboard, FiniteSetTheorems, TLAPS

USE AccountsAssumption

(* A token that is kept belongs to a family.                               *)
Owned(section) ==
    \A k \in Token : section[k].state # "absent" => section[k].family \in Token

(* What a handler has in hand fits the place it has reached.               *)
LocalsFit ==
    \A t \in Thread :
        /\ pc[t] = "rotate" => goal[t] = "refresh"
        /\ pc[t] = "revoke" \/ goal[t] = "revoke" => family[t] \in Token
        /\ goal[t] \in {"refresh", "signout"} => hold[t] \in Token

TypeInv ==
    /\ TypeOK
    /\ LocalsFit
    /\ Owned(tokens)
    /\ Owned(diskTokens)
    /\ \A t \in Thread : Owned(snapTokens[t])

-----------------------------------------------------------------------------
(* The empty store of tokens.                                              *)
LEMMA Empty ==
    /\ NoAccounts \in [Account -> Email \cup {None}]
    /\ NoTokens \in [Token -> TokenRecord]
    /\ Owned(NoTokens)
BY DEF NoAccounts, NoTokens, NoToken, TokenRecord, Owned

(* The store starts empty.                                                 *)
LEMMA TypeInit == Init => TypeInv
BY Empty DEF Init, TypeInv, TypeOK, LocalsFit, Place, Handler

(* Removing tokens, or marking one that is in use, keeps the others.       *)
LEMMA Popped ==
    ASSUME tokens \in [Token -> TokenRecord], Owned(tokens), NEW ks, Pop(ks)
    PROVE  tokens' \in [Token -> TokenRecord] /\ Owned(tokens)'
BY DEF Pop, NoToken, TokenRecord, Owned

(* Marking a token that is in use keeps the others.                        *)
LEMMA Rotated ==
    ASSUME tokens \in [Token -> TokenRecord], Owned(tokens),
           NEW t \in Thread, Rotate(t)
    PROVE  tokens' \in [Token -> TokenRecord] /\ Owned(tokens)'
BY DEF Rotate, TokenRecord, Owned

(* Issuing a token that was not there before.                              *)
LEMMA Issued ==
    ASSUME TypeOK, Owned(tokens), NEW t \in Thread, NEW n \in Token,
           Issue(t, n)
    PROVE  tokens' \in [Token -> TokenRecord] /\ Owned(tokens)'
<1>1. tokens \in [Token -> TokenRecord] /\ owner[t] \in Account \cup {None}
      /\ family[t] \in Token \cup {None}
  BY DEF TypeOK
<1>2. DEFINE r == [state   |-> "live",
                   family  |-> IF family[t] = None THEN n ELSE family[t],
                   account |-> owner[t]]
<1>3. r \in TokenRecord /\ r.family \in Token
  BY <1>1 DEF TokenRecord
<1>4. tokens' = [tokens EXCEPT ![n] = r]
  BY DEF Issue
<1>. QED  BY <1>1, <1>3, <1>4 DEF Owned

(* Types are kept by every step.                                           *)
LEMMA TypeNext == TypeInv /\ [Next]_vars => TypeInv'
<1> SUFFICES ASSUME TypeInv, [Next]_vars PROVE TypeInv'
  OBVIOUS
<1> USE DEF TypeInv, TypeOK, LocalsFit, Goto, Begin, Leave, memory, disk,
            locals, snapshots, answers, Place, Handler
<1>1. ASSUME NEW t \in Thread, NEW e \in Email, SignUp(t, e) \/ SignIn(t, e)
      PROVE  TypeInv'
  <2>1. CASE SignUp(t, e)
    BY <2>1 DEF SignUp, Owned
  <2>2. CASE SignIn(t, e)
    BY <2>2 DEF SignIn, Owned
  <2>. QED  BY <1>1, <2>1, <2>2
<1>2. ASSUME NEW t \in Thread, NEW k \in Token,
             Refresh(t, k) \/ RefreshRotated(t, k)
      PROVE  TypeInv'
  <2>1. tokens[k] \in TokenRecord /\ tokens[k].family \in Token
    BY <1>2 DEF Refresh, RefreshRotated, Owned
  <2>2. tokens[k].account \in Account \cup {None}
    BY <2>1 DEF TokenRecord
  <2>3. CASE Refresh(t, k)
    BY <2>1, <2>2, <2>3 DEF Refresh, Present, Owned
  <2>4. CASE RefreshRotated(t, k)
    BY <2>1, <2>2, <2>4 DEF RefreshRotated, Present, Owned
  <2>. QED  BY <1>2, <2>3, <2>4
<1>3. ASSUME NEW t \in Thread, NEW k \in Token, RefreshExpired(t, k)
      PROVE  TypeInv'
  BY <1>3, Popped DEF RefreshExpired, Owned
<1>4. ASSUME NEW t \in Thread, NEW k \in Token, SignOut(t, k) PROVE TypeInv'
  BY <1>4, Popped DEF SignOut, Owned
<1>5. ASSUME NEW t \in Thread, OtherRequest(t) PROVE TypeInv'
  BY <1>5 DEF OtherRequest, Owned
<1>6. ASSUME NEW t \in Thread, NEW a \in Account,
             InsertAccount(t, a) \/ FindAccount(t, a)
      PROVE  TypeInv'
  <2>1. CASE InsertAccount(t, a)
    BY <2>1 DEF InsertAccount, Owned
  <2>2. CASE FindAccount(t, a)
    BY <2>2 DEF FindAccount, Owned
  <2>. QED  BY <1>6, <2>1, <2>2
<1>7. ASSUME NEW t \in Thread, UnknownEmail(t) PROVE TypeInv'
  BY <1>7 DEF UnknownEmail, Owned
<1>8. ASSUME NEW t \in Thread, NEW n \in Token, Issue(t, n) PROVE TypeInv'
  <2>1. tokens' \in [Token -> TokenRecord] /\ Owned(tokens)'
    BY <1>8, Issued
  <2>2. UNCHANGED <<diskTokens, snapTokens>>
    BY <1>8 DEF Issue
  <2>3. Owned(diskTokens)' /\ \A u \in Thread : Owned(snapTokens[u])'
    BY <2>2 DEF Owned
  <2>4. LocalsFit'
    BY <1>8 DEF Issue
  <2>5. TypeOK'
    BY <1>8, <2>1 DEF Issue
  <2>. QED  BY <2>1, <2>3, <2>4, <2>5
<1>9. ASSUME NEW t \in Thread, Rotate(t) PROVE TypeInv'
  BY <1>9, Rotated DEF Rotate, Owned
<1>10. ASSUME NEW t \in Thread, Revoke(t) PROVE TypeInv'
  BY <1>10, Popped DEF Revoke, Owned
<1>11. ASSUME NEW t \in Thread, WalkAccounts(t) \/ WalkTokens(t)
       PROVE  TypeInv'
  <2>1. CASE WalkAccounts(t)
    BY <2>1 DEF WalkAccounts, Owned
  <2>2. CASE WalkTokens(t)
    BY <2>2 DEF WalkTokens, Owned
  <2>. QED  BY <1>11, <2>1, <2>2
<1>12. ASSUME NEW t \in Thread, Forget(t)
       PROVE  /\ snapAccounts' \in [Thread -> [Account -> Email \cup {None}]]
              /\ snapTokens' \in [Thread -> [Token -> TokenRecord]]
              /\ \A u \in Thread : Owned(snapTokens[u])'
  BY <1>12, Empty DEF Forget, Owned
<1>13. ASSUME NEW t \in Thread, ReplaceFile(t) PROVE TypeInv'
  <2>1. /\ granted' \in SUBSET Token
        /\ exchanges' \in [Token -> Nat]
        /\ revoked' \in SUBSET Token
        /\ closed' \in SUBSET Token
    BY <1>13 DEF ReplaceFile
  <2>2. /\ diskAccounts' \in [Account -> Email \cup {None}]
        /\ diskTokens' \in [Token -> TokenRecord]
        /\ Owned(diskTokens)'
    BY <1>13 DEF ReplaceFile, Owned
  <2>3. UNCHANGED <<accounts, tokens, expired, drawn, restarts>>
        /\ Owned(tokens)'
    BY <1>13 DEF ReplaceFile, Owned
  <2>4. /\ pc' \in [Thread -> Place]
        /\ goal' \in [Thread -> Handler]
        /\ email' \in [Thread -> Email \cup {None}]
        /\ hold' \in [Thread -> Token \cup {None}]
        /\ family' \in [Thread -> Token \cup {None}]
        /\ owner' \in [Thread -> Account \cup {None}]
        /\ new' \in [Thread -> Token \cup {None}]
        /\ LocalsFit'
    <3>1. CASE goal[t] = "signup"
      <4>1. /\ pc' = [pc EXCEPT ![t] = "find"]
            /\ goal' = [goal EXCEPT ![t] = "signin"]
            /\ UNCHANGED <<email, hold, family, owner, new>>
        BY <1>13, <3>1 DEF ReplaceFile
      <4>. QED  BY <4>1
    <3>2. CASE goal[t] # "signup"
      <4>1. Leave(t)
        BY <1>13, <3>2 DEF ReplaceFile
      <4>. QED  BY <4>1
    <3>. QED  BY <3>1, <3>2
  <2>5. TypeOK'
    BY <1>12, <1>13, <2>1, <2>2, <2>3, <2>4 DEF ReplaceFile
  <2>. QED  BY <1>12, <1>13, <2>2, <2>3, <2>4, <2>5 DEF ReplaceFile
<1>14. ASSUME NEW t \in Thread, PersistFails(t) PROVE TypeInv'
  BY <1>12, <1>14 DEF PersistFails, Owned
<1>15. ASSUME NEW k \in Token, Expire(k) PROVE TypeInv'
  BY <1>15 DEF Expire, Owned
<1>16. ASSUME Restart PROVE TypeInv'
  BY <1>16, Empty DEF Restart, Owned
<1>17. CASE UNCHANGED vars
  BY <1>17 DEF vars, Owned
<1>. QED
  BY <1>1, <1>2, <1>3, <1>4, <1>5, <1>6, <1>7, <1>8, <1>9, <1>10, <1>11,
     <1>13, <1>14, <1>15, <1>16, <1>17
  DEF Next, Request, Continue

(* Every variable keeps to its domain: in particular what is recorded as   *)
(* revoked is a family, and what is recorded as signed out is a token.     *)
THEOREM TypeCorrect == Spec => []TypeOK
<1>1. TypeInv => TypeOK
  BY DEF TypeInv
<1>. QED  BY <1>1, TypeInit, TypeNext, PTL DEF Spec

-----------------------------------------------------------------------------
(* A token is drawn once, and every token that a client or a handler has   *)
(* was drawn: it cannot be issued again.                                   *)
DrawnInv ==
    /\ granted \cup closed \subseteq drawn
    /\ \A k \in Token : exchanges[k] > 0 => k \in drawn
    /\ \A t \in Thread :
          /\ new[t] \in drawn \cup {None}
          /\ goal[t] \in {"refresh", "signout"} => hold[t] \in drawn

(* A token that was exchanged or signed out, or is about to be, is no      *)
(* longer in use.                                                          *)
SpentInv ==
    /\ \A k \in Token : exchanges[k] > 0 \/ k \in closed
                             => tokens[k].state # "live"
    /\ \A t \in Thread :
          (\/ goal[t] = "signout"
           \/ goal[t] = "refresh" /\ pc[t] \notin {"rotate", "revoke"})
              => tokens[hold[t]].state # "live"

SessionInv == TypeInv /\ DrawnInv /\ (restarts = 0 => SpentInv)

(* There is no session at the start.                                       *)
LEMMA SessionInit == Init => SessionInv
BY TypeInit DEF Init, SessionInv, DrawnInv, SpentInv

(* Tokens and families are drawn once.                                     *)
LEMMA DrawnNext == SessionInv /\ [Next]_vars => DrawnInv'
<1> SUFFICES ASSUME SessionInv, [Next]_vars PROVE DrawnInv'
  OBVIOUS
<1>1. TypeOK /\ LocalsFit /\ DrawnInv
  BY DEF SessionInv, TypeInv
<1> USE <1>1 DEF TypeOK, DrawnInv, Goto, Begin, Leave, memory, disk, locals,
                 snapshots, answers
<1>2. ASSUME NEW t \in Thread, Request(t) PROVE DrawnInv'
  <2>1. ASSUME NEW e \in Email, SignUp(t, e) \/ SignIn(t, e) PROVE DrawnInv'
    BY <2>1 DEF SignUp, SignIn
  <2>2. ASSUME NEW k \in Token, Refresh(t, k) \/ RefreshRotated(t, k)
        PROVE  DrawnInv'
    BY <2>2 DEF Refresh, RefreshRotated, Present
  <2>3. ASSUME NEW k \in Token, RefreshExpired(t, k) \/ SignOut(t, k)
        PROVE  DrawnInv'
    BY <2>3 DEF RefreshExpired, SignOut
  <2>4. CASE OtherRequest(t)
    BY <2>4 DEF OtherRequest
  <2>. QED  BY <1>2, <2>1, <2>2, <2>3, <2>4 DEF Request
<1>3. ASSUME NEW t \in Thread, NEW a \in Account,
             InsertAccount(t, a) \/ FindAccount(t, a)
      PROVE  DrawnInv'
  BY <1>3 DEF InsertAccount, FindAccount
<1>4. ASSUME NEW t \in Thread, NEW n \in Token, Issue(t, n) PROVE DrawnInv'
  BY <1>4 DEF Issue
<1>5. ASSUME NEW t \in Thread, Rotate(t) \/ Revoke(t) PROVE DrawnInv'
  BY <1>5 DEF Rotate, Revoke
<1>6. ASSUME NEW t \in Thread, WalkAccounts(t) \/ WalkTokens(t)
      PROVE  DrawnInv'
  BY <1>6 DEF WalkAccounts, WalkTokens
<1>7. ASSUME NEW t \in Thread, ReplaceFile(t) PROVE DrawnInv'
  <2>1. granted' \cup closed' \subseteq drawn
    BY <1>7 DEF ReplaceFile
  <2>2. \A k \in Token : exchanges'[k] > 0 => k \in drawn
    BY <1>7 DEF ReplaceFile
  <2>3. CASE goal[t] = "signup"
    BY <1>7, <2>1, <2>2, <2>3 DEF ReplaceFile
  <2>4. CASE goal[t] # "signup"
    <3>1. Leave(t) /\ drawn' = drawn
      BY <1>7, <2>4 DEF ReplaceFile
    <3>. QED  BY <2>1, <2>2, <3>1
  <2>. QED  BY <2>3, <2>4
<1>8. ASSUME NEW t \in Thread, UnknownEmail(t) \/ PersistFails(t)
      PROVE  DrawnInv'
  BY <1>8 DEF UnknownEmail, PersistFails
<1>9. CASE Restart \/ \E k \in Token : Expire(k)
  BY <1>9 DEF Restart, Expire
<1>10. CASE UNCHANGED vars
  BY <1>10 DEF vars
<1>. QED
  BY <1>2, <1>3, <1>4, <1>5, <1>6, <1>7, <1>8, <1>9, <1>10
  DEF Next, Continue

(* What was spent is not issued, kept or written again.                    *)
LEMMA SpentNext ==
    SessionInv /\ [Next]_vars => (restarts = 0 => SpentInv)'
<1> SUFFICES ASSUME SessionInv, [Next]_vars, restarts' = 0 PROVE SpentInv'
  OBVIOUS
<1>1. TypeOK /\ LocalsFit /\ DrawnInv
  BY DEF SessionInv, TypeInv
<1> USE <1>1 DEF TypeOK, SpentInv, Goto, Begin, Leave, Pop, memory, disk,
                 locals, snapshots, answers
<1>2. ~Restart
  BY DEF Restart
<1>3. restarts' = restarts => SpentInv
  BY DEF SessionInv
<1>4. ASSUME NEW t \in Thread, NEW e \in Email, SignUp(t, e) \/ SignIn(t, e)
      PROVE  SpentInv'
  <2>1. CASE SignUp(t, e)
    BY <1>3, <2>1 DEF SignUp
  <2>2. CASE SignIn(t, e)
    BY <1>3, <2>2 DEF SignIn
  <2>. QED  BY <1>4, <2>1, <2>2
<1>5. ASSUME NEW t \in Thread, NEW k \in Token,
             Refresh(t, k) \/ RefreshRotated(t, k)
      PROVE  SpentInv'
  <2>1. CASE Refresh(t, k)
    BY <1>3, <2>1 DEF Refresh, Present
  <2>2. CASE RefreshRotated(t, k)
    BY <1>3, <2>2 DEF RefreshRotated, Present
  <2>. QED  BY <1>5, <2>1, <2>2
<1>6. ASSUME NEW t \in Thread, NEW k \in Token,
             RefreshExpired(t, k) \/ SignOut(t, k)
      PROVE  SpentInv'
  <2>1. SpentInv /\ \A l \in Token : tokens'[l].state = "live"
                                       => l # k /\ tokens[l].state = "live"
    BY <1>3, <1>6 DEF RefreshExpired, SignOut, NoToken
  <2>2. \A u \in Thread : goal[u] \in {"refresh", "signout"}
                              => hold[u] \in Token
    BY DEF LocalsFit
  <2>3. CASE RefreshExpired(t, k)
    BY <2>1, <2>2, <2>3 DEF RefreshExpired
  <2>4. CASE SignOut(t, k)
    BY <2>1, <2>2, <2>4 DEF SignOut
  <2>. QED  BY <1>6, <2>3, <2>4
<1>7. ASSUME NEW t \in Thread, OtherRequest(t) \/ UnknownEmail(t)
                               \/ PersistFails(t)
      PROVE  SpentInv'
  <2>1. CASE OtherRequest(t)
    BY <1>3, <2>1 DEF OtherRequest
  <2>2. CASE UnknownEmail(t)
    BY <1>3, <2>2 DEF UnknownEmail
  <2>3. CASE PersistFails(t)
    BY <1>3, <2>3 DEF PersistFails
  <2>. QED  BY <1>7, <2>1, <2>2, <2>3
<1>8. ASSUME NEW t \in Thread, NEW a \in Account,
             InsertAccount(t, a) \/ FindAccount(t, a)
      PROVE  SpentInv'
  BY <1>3, <1>8 DEF InsertAccount, FindAccount
<1>9. ASSUME NEW t \in Thread, NEW n \in Token, Issue(t, n) PROVE SpentInv'
  <2>1. SpentInv /\ n \notin drawn
    BY <1>3, <1>9 DEF Issue
  <2>2. \A k \in Token : k # n => tokens'[k] = tokens[k]
    BY <1>9 DEF Issue
  <2>3. \A u \in Thread : goal[u] \in {"refresh", "signout"}
                              => hold[u] # n /\ hold[u] \in Token
    BY <2>1 DEF DrawnInv, LocalsFit
  <2>4. UNCHANGED <<goal, hold, closed, exchanges>>
        /\ \A u \in Thread : u # t => pc'[u] = pc[u]
    BY <1>9 DEF Issue
  <2>5. pc[t] = "issue"
    BY <1>9 DEF Issue
  <2>. QED  BY <2>1, <2>2, <2>3, <2>4, <2>5 DEF DrawnInv
<1>10. ASSUME NEW t \in Thread, Rotate(t) PROVE SpentInv'
  <2>1. \A k \in Token : tokens'[k].state = "live"
                             => k # hold[t] /\ tokens[k].state = "live"
    BY <1>10 DEF Rotate
  <2>2. \A u \in Thread : goal[u] \in {"refresh", "signout"}
                              => hold[u] \in Token
    BY DEF LocalsFit
  <2>. QED  BY <1>3, <1>10, <2>1, <2>2 DEF Rotate
<1>11. ASSUME NEW t \in Thread, Revoke(t) PROVE SpentInv'
  <2>1. \A k \in Token : tokens'[k].state = "live"
                             => tokens[k].state = "live"
    BY <1>11 DEF Revoke, NoToken
  <2>2. \A u \in Thread : goal[u] \in {"refresh", "signout"}
                              => hold[u] \in Token
    BY DEF LocalsFit
  <2>. QED  BY <1>3, <1>11, <2>1, <2>2 DEF Revoke
<1>12. ASSUME NEW t \in Thread, WalkAccounts(t) \/ WalkTokens(t)
       PROVE  SpentInv'
  BY <1>3, <1>12 DEF WalkAccounts, WalkTokens
<1>13. ASSUME NEW t \in Thread, ReplaceFile(t) PROVE SpentInv'
  <2>1. tokens' = tokens /\ SpentInv /\ pc[t] = "replace"
    BY <1>3, <1>13 DEF ReplaceFile
  <2>2. \A k \in Token : exchanges'[k] > 0 \/ k \in closed'
                             => tokens[k].state # "live"
    <3>1. ASSUME NEW k \in Token, exchanges'[k] > 0
          PROVE  exchanges[k] > 0 \/ (goal[t] = "refresh" /\ k = hold[t])
      BY <1>13, <3>1 DEF ReplaceFile
    <3>2. ASSUME NEW k \in Token, k \in closed'
          PROVE  k \in closed \/ (goal[t] = "signout" /\ k = hold[t])
      BY <1>13, <3>2 DEF ReplaceFile
    <3>. QED  BY <2>1, <3>1, <3>2
  <2>3. CASE goal[t] = "signup"
    BY <1>13, <2>1, <2>2, <2>3 DEF ReplaceFile
  <2>4. CASE goal[t] # "signup"
    <3>1. Leave(t)
      BY <1>13, <2>4 DEF ReplaceFile
    <3>. QED  BY <2>1, <2>2, <3>1
  <2>. QED  BY <2>3, <2>4
<1>14. ASSUME NEW k \in Token, Expire(k) PROVE SpentInv'
  BY <1>3, <1>14 DEF Expire
<1>15. CASE UNCHANGED vars
  BY <1>3, <1>15 DEF vars
<1>. QED
  BY <1>2, <1>4, <1>5, <1>6, <1>7, <1>8, <1>9, <1>10, <1>11, <1>12, <1>13,
     <1>14, <1>15
  DEF Next, Request, Continue

(* Both parts of the invariant together.                                   *)
LEMMA SessionNext == SessionInv /\ [Next]_vars => SessionInv'
BY TypeNext, DrawnNext, SpentNext DEF SessionInv

(* Until the process restarts, a refresh token that was exchanged or whose *)
(* session was closed is never in use again (refresh(), logout()).         *)
THEOREM SpentIsFinal == Spec => []SpentStaysSpent
<1>1. SessionInv => SpentStaysSpent
  BY DEF SessionInv, SpentInv, SpentStaysSpent, Live
<1>. QED  BY <1>1, SessionInit, SessionNext, PTL DEF Spec

-----------------------------------------------------------------------------
(* The handlers that are about to exchange token k.                        *)
Exchanging(k) ==
    {t \in Thread : goal[t] = "refresh" /\ pc[t] # "revoke" /\ hold[t] = k}

(* What has been exchanged and what is about to be.                        *)
CountInv ==
    \A k \in Token :
        exchanges[k] + Cardinality(Exchanging(k)) <= Cardinality(Thread)

(* The handlers that are exchanging a token are finitely many.             *)
LEMMA ExchangingFinite ==
    \A k \in Token :
        /\ IsFiniteSet(Exchanging(k))
        /\ Cardinality(Exchanging(k)) \in Nat
        /\ Cardinality(Exchanging(k)) <= Cardinality(Thread)
        /\ Cardinality(Thread) \in Nat
BY FS_Subset, FS_CardinalityType DEF Exchanging

(* Nothing was exchanged at the start.                                     *)
LEMMA CountInit == Init => CountInv
BY ExchangingFinite DEF Init, CountInv

(* A step that lets no further handler exchange a token.                   *)
LEMMA CountKept ==
    ASSUME TypeOK, CountInv, exchanges' = exchanges,
           \A k \in Token : Exchanging(k)' \subseteq Exchanging(k)
    PROVE  CountInv'
<1> SUFFICES ASSUME NEW k \in Token
             PROVE  exchanges'[k] + Cardinality(Exchanging(k)')
                        <= Cardinality(Thread)
  BY DEF CountInv
<1>1. /\ Cardinality(Exchanging(k)') <= Cardinality(Exchanging(k))
      /\ Cardinality(Exchanging(k)') \in Nat
  BY ExchangingFinite, FS_Subset, FS_CardinalityType
<1>2. exchanges[k] \in Nat
  BY DEF TypeOK
<1>. QED  BY <1>1, <1>2, ExchangingFinite DEF CountInv

(* Every exchange of a token is paid for by a handler that passed the      *)
(* check of its mark.                                                      *)
LEMMA CountNext ==
    ASSUME SessionInv, restarts = 0 => CountInv, [Next]_vars, restarts' = 0
    PROVE  CountInv'
<1>1. TypeOK /\ LocalsFit
  BY DEF SessionInv, TypeInv
<1>2. ~Restart
  BY <1>1 DEF Restart, TypeOK
<1> USE <1>1 DEF TypeOK, Goto, Begin, Leave, memory, disk, locals, snapshots,
                 answers
<1>3. ASSUME restarts' = restarts, exchanges' = exchanges,
             \A t \in Thread : goal'[t] = "refresh" /\ pc'[t] # "revoke" =>
                 /\ goal[t] = "refresh" /\ pc[t] # "revoke"
                 /\ hold'[t] = hold[t]
      PROVE  CountInv'
  BY <1>3, CountKept DEF Exchanging
<1>4. ASSUME NEW t \in Thread, NEW e \in Email, SignUp(t, e) \/ SignIn(t, e)
      PROVE  CountInv'
  BY <1>3, <1>4 DEF SignUp, SignIn
<1>5. ASSUME NEW t \in Thread, NEW k \in Token, Refresh(t, k)
      PROVE  CountInv'
  <2>1. SpentInv /\ CountInv /\ restarts' = restarts
    BY <1>5 DEF Refresh, SessionInv
  <2>2. exchanges[k] = 0 /\ exchanges' = exchanges
    BY <1>5, <2>1 DEF Refresh, SpentInv
  <2>3. \A l \in Token : l # k => Exchanging(l)' \subseteq Exchanging(l)
    BY <1>5 DEF Refresh, Present, Exchanging
  <2>4. ASSUME NEW l \in Token
        PROVE  exchanges'[l] + Cardinality(Exchanging(l)')
                   <= Cardinality(Thread)
    <3>1. CASE l = k
      <4>1. /\ Cardinality(Exchanging(k)') <= Cardinality(Thread)
            /\ Cardinality(Exchanging(k)') \in Nat
        BY FS_Subset, FS_CardinalityType DEF Exchanging
      <4>. QED  BY <2>2, <3>1, <4>1
    <3>2. CASE l # k
      <4>1. /\ Cardinality(Exchanging(l)') <= Cardinality(Exchanging(l))
            /\ Cardinality(Exchanging(l)') \in Nat
        BY <2>3, <3>2, ExchangingFinite, FS_Subset, FS_CardinalityType
      <4>2. exchanges[l] \in Nat /\ exchanges'[l] = exchanges[l]
        BY <2>2
      <4>. QED  BY <2>1, <4>1, <4>2, ExchangingFinite DEF CountInv
    <3>. QED  BY <3>1, <3>2
  <2>. QED  BY <2>4 DEF CountInv
<1>6. ASSUME NEW t \in Thread, NEW k \in Token, RefreshRotated(t, k)
      PROVE  CountInv'
  BY <1>3, <1>6 DEF RefreshRotated, Present
<1>7. ASSUME NEW t \in Thread, NEW k \in Token,
             RefreshExpired(t, k) \/ SignOut(t, k)
      PROVE  CountInv'
  BY <1>3, <1>7 DEF RefreshExpired, SignOut
<1>8. ASSUME NEW t \in Thread, OtherRequest(t) \/ UnknownEmail(t)
                               \/ PersistFails(t)
      PROVE  CountInv'
  BY <1>3, <1>8 DEF OtherRequest, UnknownEmail, PersistFails
<1>9. ASSUME NEW t \in Thread, NEW a \in Account,
             InsertAccount(t, a) \/ FindAccount(t, a)
      PROVE  CountInv'
  BY <1>3, <1>9 DEF InsertAccount, FindAccount
<1>10. ASSUME NEW t \in Thread, NEW n \in Token, Issue(t, n) PROVE CountInv'
  BY <1>3, <1>10 DEF Issue
<1>11. ASSUME NEW t \in Thread, Rotate(t) \/ Revoke(t) PROVE CountInv'
  BY <1>3, <1>11 DEF Rotate, Revoke
<1>12. ASSUME NEW t \in Thread, WalkAccounts(t) \/ WalkTokens(t)
       PROVE  CountInv'
  BY <1>3, <1>12 DEF WalkAccounts, WalkTokens
<1>13. ASSUME NEW t \in Thread, ReplaceFile(t) PROVE CountInv'
  <2>1. CountInv /\ pc[t] = "replace"
    BY <1>13 DEF ReplaceFile
  <2>2. CASE goal[t] = "refresh"
    <3>1. /\ Leave(t)
          /\ \A k \in Token : exchanges'[k] = IF k = hold[t]
                                               THEN exchanges[k] + 1
                                               ELSE exchanges[k]
      BY <1>13, <2>2 DEF ReplaceFile
    <3>2. ASSUME NEW k \in Token
          PROVE  exchanges'[k] + Cardinality(Exchanging(k)')
                     <= Cardinality(Thread)
      <4>1. CASE k = hold[t]
        <5>1. t \in Exchanging(k) /\ Exchanging(k)' = Exchanging(k) \ {t}
          BY <2>1, <2>2, <3>1, <4>1 DEF Exchanging
        <5>2. Cardinality(Exchanging(k)') = Cardinality(Exchanging(k)) - 1
          <6>1. t \in Exchanging(k) /\ IsFiniteSet(Exchanging(k))
            BY <5>1, ExchangingFinite
          <6>2. Cardinality(Exchanging(k) \ {t})
                    = Cardinality(Exchanging(k)) - 1
            BY ONLY <6>1, FS_RemoveElement, Zenon
          <6>. QED  BY <5>1, <6>2
        <5>3. exchanges[k] \in Nat /\ exchanges'[k] = exchanges[k] + 1
          BY <3>1, <4>1
        <5>4. /\ exchanges[k] + Cardinality(Exchanging(k)) <= Cardinality(Thread)
              /\ Cardinality(Exchanging(k)) \in Nat
          BY <2>1, ExchangingFinite DEF CountInv
        <5>. QED  BY <5>2, <5>3, <5>4, ExchangingFinite
      <4>2. CASE k # hold[t]
        <5>1. Exchanging(k)' = Exchanging(k)
          BY <3>1, <4>2 DEF Exchanging
        <5>. QED  BY <2>1, <3>1, <4>2, <5>1 DEF CountInv
      <4>. QED  BY <4>1, <4>2
    <3>. QED  BY <3>2 DEF CountInv
  <2>3. CASE goal[t] # "refresh"
    <3>1. exchanges' = exchanges /\ restarts' = restarts
      BY <1>13, <2>3 DEF ReplaceFile
    <3>2. CASE goal[t] = "signup"
      BY <1>3, <1>13, <3>1, <3>2 DEF ReplaceFile
    <3>3. CASE goal[t] # "signup"
      <4>1. Leave(t)
        BY <1>13, <3>3 DEF ReplaceFile
      <4>. QED  BY <1>3, <3>1, <4>1
    <3>. QED  BY <3>2, <3>3
  <2>. QED  BY <2>2, <2>3
<1>14. ASSUME NEW k \in Token, Expire(k) PROVE CountInv'
  BY <1>3, <1>14 DEF Expire
<1>15. CASE UNCHANGED vars
  BY <1>3, <1>15 DEF vars
<1>. QED
  BY <1>2, <1>4, <1>5, <1>6, <1>7, <1>8, <1>9, <1>10, <1>11, <1>12, <1>13,
     <1>14, <1>15
  DEF Next, Request, Continue

(* No refresh token is exchanged more often than there are threads before  *)
(* the process restarts: only handlers that passed the check of refresh()  *)
(* before the first mark can exchange it.                                  *)
THEOREM ExchangesAreBounded == Spec => []ExchangesBounded
<1>1. Init => SessionInv /\ (restarts = 0 => CountInv)
  BY SessionInit, CountInit
<1>2. SessionInv /\ (restarts = 0 => CountInv) /\ [Next]_vars
        => (SessionInv /\ (restarts = 0 => CountInv))'
  BY SessionNext, CountNext
<1>3. SessionInv /\ (restarts = 0 => CountInv) => ExchangesBounded
  <2> SUFFICES ASSUME SessionInv, restarts = 0, CountInv, NEW k \in Token
               PROVE  exchanges[k] <= Cardinality(Thread)
    BY DEF ExchangesBounded
  <2>1. exchanges[k] \in Nat
    BY DEF SessionInv, TypeInv, TypeOK
  <2>. QED  BY <2>1, ExchangingFinite DEF CountInv
<1>. QED  BY <1>1, <1>2, <1>3, PTL DEF Spec

-----------------------------------------------------------------------------
(* Requests are served one at a time.                                      *)
Serial == \A t, u \in Thread : t = u

(* What a section of tokens keeps to, in memory and in the file: one token *)
(* of a family in use, families drawn once, nothing that is spent in use   *)
(* and nothing left of a revoked family.                                   *)
Sound(section) ==
    /\ \A k, l \in Live(section) : section[k].family = section[l].family
                                      => k = l
    /\ \A k \in Token : section[k].family \in drawn \cup {None}
    /\ \A k \in Token : exchanges[k] > 0 \/ k \in closed
                           => section[k].state # "live"
    /\ \A f \in revoked : Members(section, f) = {}

Persisting == {"walk_accounts", "walk_tokens", "replace"}

(* What the handler at work has in hand: a token in use of its family      *)
(* until it is rotated, then a family without one until the next is        *)
(* issued, and nothing in use of what it is about to call over.            *)
AtWork(t) ==
    /\ family[t] \in drawn \cup {None}
    /\ goal[t] \notin {"refresh", "revoke"} => family[t] = None
    /\ pc[t] = "idle" => goal[t] = "none"
    /\ pc[t] = "insert" => goal[t] = "signup"
    /\ pc[t] = "find" => goal[t] = "signin"
    /\ pc[t] = "issue" => goal[t] \in {"signin", "refresh"}
    /\ goal[t] = "refresh" /\ pc[t] \in {"rotate", "issue"} =>
          hold[t] \in Members(tokens, family[t])
    /\ goal[t] = "refresh" /\ pc[t] = "rotate" =>
          tokens[hold[t]].state = "live" /\ family[t] \in Token
    /\ goal[t] = "refresh" /\ pc[t] = "issue" =>
          family[t] \in Token /\ Live(tokens) \cap Members(tokens, family[t]) = {}
    /\ pc[t] \in Persisting =>
          /\ goal[t] \in {"refresh", "signout"} => tokens[hold[t]].state # "live"
          /\ goal[t] = "revoke" => Members(tokens, family[t]) = {}
    /\ pc[t] = "replace" => snapTokens[t] = tokens

SerialInv ==
    /\ revoked \subseteq drawn
    /\ Sound(tokens)
    /\ Sound(diskTokens)
    /\ \A t \in Thread : AtWork(t)

-----------------------------------------------------------------------------
(* At the start nothing is kept, and no handler works.                     *)
LEMMA SerialInit == Init => SerialInv
BY DEF Init, SerialInv, Sound, AtWork, Live, Members, NoTokens, NoToken,
       Persisting

(* A step that puts no token in use and adds none to a family.             *)
LEMMA SoundStays ==
    ASSUME TypeInv, SerialInv, UNCHANGED <<diskTokens, exchanges, closed, revoked>>,
           drawn \subseteq drawn',
           \A k \in Token :
              /\ tokens'[k].state = "live" => tokens'[k] = tokens[k]
              /\ tokens'[k].family \in {tokens[k].family, None}
    PROVE  /\ revoked' \subseteq drawn'
           /\ Sound(tokens)'
           /\ Sound(diskTokens)'
           /\ \A f \in Token : Members(tokens, f)' \subseteq Members(tokens, f)
           /\ Live(tokens)' \subseteq Live(tokens)
<1>1. Sound(tokens)'
  <2>1. \A k, l \in Live(tokens') : tokens'[k].family = tokens'[l].family
                                       => k = l
    BY DEF SerialInv, Sound, Live
  <2>2. /\ \A k \in Token : tokens'[k].family \in drawn' \cup {None}
        /\ \A k \in Token : exchanges'[k] > 0 \/ k \in closed'
                               => tokens'[k].state # "live"
    BY DEF SerialInv, Sound
  <2>3. \A f \in revoked' : Members(tokens', f) = {}
    <3> SUFFICES ASSUME NEW f \in revoked, NEW k \in Token,
                        tokens'[k].family = f
                 PROVE  FALSE
      BY DEF Members
    <3>1. tokens[k].family # f
      BY DEF SerialInv, Sound, Members
    <3>2. f \in Token
      BY DEF TypeInv, TypeOK
    <3>. QED  BY <3>1, <3>2
  <2>. QED  BY <2>1, <2>2, <2>3 DEF Sound
<1>2. Sound(diskTokens)' /\ revoked' \subseteq drawn'
  BY DEF SerialInv, Sound, Live, Members
<1>. QED  BY <1>1, <1>2 DEF Live, Members

(* A step of the one handler at work.                                      *)
LEMMA SerialStep ==
    ASSUME Serial, TypeInv, DrawnInv, SerialInv, NEW t \in Thread,
           Request(t) \/ Continue(t)
    PROVE  SerialInv'
<1> DEFINE Kept == SerialInv'
<1>1. TypeOK /\ LocalsFit
  BY DEF TypeInv
<1>2. AtWork(t)
  BY DEF SerialInv
<1>3. ASSUME revoked' \subseteq drawn', Sound(tokens)', Sound(diskTokens)',
             AtWork(t)'
      PROVE  Kept
  <2>1. \A u \in Thread : u = t
    BY DEF Serial
  <2>2. \A u \in Thread : AtWork(u)'
    BY <1>3, <2>1
  <2>. QED  BY <1>3, <2>2 DEF SerialInv
<1>4. ASSUME UNCHANGED <<tokens, diskTokens, exchanges, closed, revoked>>,
             drawn \subseteq drawn', AtWork(t)'
      PROVE  Kept
  BY <1>3, <1>4, SoundStays
<1> USE DEF Goto, Begin, Leave, memory, disk, locals, snapshots, answers
<1>5. ASSUME NEW e \in Email, SignUp(t, e) PROVE Kept
  <2>1. AtWork(t)'
    BY <1>1, <1>5, <1>2 DEF SignUp, AtWork, TypeOK, Persisting
  <2>. QED  BY <1>5, <1>4, <2>1 DEF SignUp
<1>6. ASSUME NEW e \in Email, SignIn(t, e) PROVE Kept
  <2>1. AtWork(t)'
    BY <1>1, <1>6, <1>2 DEF SignIn, AtWork, TypeOK, Persisting
  <2>. QED  BY <1>6, <1>4, <2>1 DEF SignIn
<1>7. ASSUME NEW k \in Token, Refresh(t, k) PROVE Kept
  <2>1. tokens[k].family \in Token /\ tokens[k].family \in drawn
    BY <1>7 DEF Refresh, TypeInv, Owned, SerialInv, Sound
  <2>2. /\ pc'[t] = "rotate" /\ goal'[t] = "refresh" /\ hold'[t] = k
        /\ family'[t] = tokens[k].family
        /\ UNCHANGED <<tokens, diskTokens, exchanges, closed, revoked, drawn>>
        /\ tokens[k].state = "live"
    BY <1>1, <1>7 DEF Refresh, Present, TypeOK
  <2>3. AtWork(t)'
    BY <2>1, <2>2 DEF AtWork, Persisting, Members
  <2>. QED  BY <1>4, <2>2, <2>3
<1>8. ASSUME NEW k \in Token, RefreshRotated(t, k) PROVE Kept
  <2>1. tokens[k].family \in drawn
    BY <1>8 DEF RefreshRotated, TypeInv, Owned, SerialInv, Sound
  <2>2. /\ pc'[t] = "revoke" /\ goal'[t] = "refresh"
        /\ family'[t] = tokens[k].family
        /\ UNCHANGED <<tokens, diskTokens, exchanges, closed, revoked, drawn>>
    BY <1>1, <1>8 DEF RefreshRotated, Present, TypeOK
  <2>3. AtWork(t)'
    BY <2>1, <2>2 DEF AtWork, Persisting
  <2>. QED  BY <1>4, <2>2, <2>3
<1>9. ASSUME NEW k \in Token, RefreshExpired(t, k) PROVE Kept
  <2>1. /\ \A l \in Token : tokens'[l] \in {tokens[l], NoToken}
        /\ UNCHANGED <<diskTokens, exchanges, closed, revoked, drawn, pc, goal,
                       family>>
        /\ pc[t] = "idle"
    BY <1>9 DEF RefreshExpired, Pop
  <2>2. AtWork(t)'
    BY <1>2, <2>1 DEF AtWork, Persisting
  <2>. QED  BY <1>3, <2>1, <2>2, SoundStays DEF NoToken
<1>10. ASSUME NEW k \in Token, SignOut(t, k) PROVE Kept
  <2>1. /\ \A l \in Token : tokens'[l] \in {tokens[l], NoToken}
        /\ tokens'[k] = NoToken
        /\ UNCHANGED <<diskTokens, exchanges, closed, revoked, drawn, family>>
        /\ pc[t] = "idle" /\ pc'[t] = "walk_accounts"
        /\ goal'[t] = "signout" /\ hold'[t] = k
    BY <1>1, <1>10 DEF SignOut, Pop, TypeOK
  <2>2. AtWork(t)'
    BY <1>2, <2>1 DEF AtWork, Persisting, NoToken
  <2>. QED  BY <1>3, <2>1, <2>2, SoundStays DEF NoToken
<1>11. CASE OtherRequest(t)
  <2>1. AtWork(t)'
    BY <1>1, <1>11, <1>2 DEF OtherRequest, AtWork, TypeOK, Persisting
  <2>. QED  BY <1>11, <1>4, <2>1 DEF OtherRequest
<1>12. ASSUME NEW a \in Account, InsertAccount(t, a) PROVE Kept
  <2>1. AtWork(t)'
    BY <1>1, <1>12, <1>2 DEF InsertAccount, AtWork, TypeOK, Persisting
  <2>. QED  BY <1>12, <1>4, <2>1 DEF InsertAccount
<1>13. ASSUME NEW a \in Account, FindAccount(t, a) PROVE Kept
  <2>1. AtWork(t)'
    BY <1>1, <1>13, <1>2 DEF FindAccount, AtWork, TypeOK, Persisting
  <2>. QED  BY <1>13, <1>4, <2>1 DEF FindAccount
<1>14. CASE UnknownEmail(t)
  <2>1. AtWork(t)'
    BY <1>1, <1>14 DEF UnknownEmail, AtWork, TypeOK, Persisting
  <2>. QED  BY <1>14, <1>4, <2>1 DEF UnknownEmail
<1>15. ASSUME NEW n \in Token, Issue(t, n) PROVE Kept
  <2> DEFINE f == IF family[t] = None THEN n ELSE family[t]
  <2>1. /\ n \notin drawn /\ drawn' = drawn \cup {n} /\ pc[t] = "issue"
        /\ tokens'[n].state = "live" /\ tokens'[n].family = f
        /\ \A k \in Token : k # n => tokens'[k] = tokens[k]
        /\ UNCHANGED <<diskTokens, exchanges, closed, revoked, goal, hold,
                       family>>
        /\ pc'[t] = "walk_accounts"
    BY <1>1, <1>15 DEF Issue, TypeOK
  <2>2. f \in Token /\ f \in drawn'
    BY <1>1, <1>2, <2>1 DEF AtWork, TypeOK
  <2>3. \A k \in Token \ {n} : ~ (tokens[k].state = "live"
                                    /\ tokens[k].family = f)
    <3>1. CASE family[t] = None
      BY <2>1, <3>1 DEF SerialInv, Sound
    <3>2. CASE family[t] # None
      BY <1>2, <2>1, <3>2 DEF AtWork, Live, Members
    <3>. QED  BY <3>1, <3>2
  <2>4. f \notin revoked
    <3>1. CASE family[t] = None
      BY <2>1, <3>1 DEF SerialInv
    <3>2. CASE family[t] # None
      BY <1>2, <2>1, <3>2 DEF AtWork, SerialInv, Sound
    <3>. QED  BY <3>1, <3>2
  <2>5. ~(exchanges[n] > 0) /\ n \notin closed
    BY <1>1, <2>1 DEF DrawnInv, TypeOK
  <2>6. Sound(tokens)'
    <3>1. \A k, l \in Live(tokens') : tokens'[k].family = tokens'[l].family
                                         => k = l
      BY <2>1, <2>3 DEF SerialInv, Sound, Live
    <3>2. \A k \in Token : tokens'[k].family \in drawn' \cup {None}
      BY <2>1, <2>2 DEF SerialInv, Sound
    <3>3. \A k \in Token : exchanges[k] > 0 \/ k \in closed
                              => tokens'[k].state # "live"
      BY <1>1, <2>1, <2>5 DEF SerialInv, Sound, TypeOK
    <3>4. \A g \in revoked : Members(tokens', g) = {}
      BY <2>1, <2>4 DEF SerialInv, Sound, Members
    <3>. QED  BY <2>1, <3>1, <3>2, <3>3, <3>4 DEF Sound
  <2>7. Sound(diskTokens)' /\ revoked' \subseteq drawn'
    BY <2>1 DEF SerialInv, Sound, Live, Members
  <2>8. goal[t] = "refresh" => tokens'[hold[t]].state # "live"
    <3> SUFFICES ASSUME goal[t] = "refresh" PROVE tokens'[hold[t]].state # "live"
      OBVIOUS
    <3>1. hold[t] \in Token /\ hold[t] # n
      BY <1>1, <2>1 DEF LocalsFit, DrawnInv
    <3>2. tokens[hold[t]].state # "live"
      BY <1>2, <2>1, <3>1 DEF AtWork, Live, Members
    <3>. QED  BY <2>1, <3>1, <3>2
  <2>9. AtWork(t)'
    <3>1. goal[t] \in {"signin", "refresh"}
      BY <1>2, <2>1 DEF AtWork
    <3>. QED  BY <1>2, <2>1, <2>8, <3>1 DEF AtWork, Persisting
  <2>. QED  BY <1>3, <2>6, <2>7, <2>9
<1>16. CASE Rotate(t)
  <2>1. /\ pc[t] = "rotate" /\ goal[t] = "refresh" /\ hold[t] \in Token
        /\ tokens[hold[t]].state = "live" /\ family[t] \in Token
        /\ tokens[hold[t]].family = family[t]
    BY <1>1, <1>16, <1>2 DEF Rotate, LocalsFit, AtWork, Members
  <2>2. /\ \A k \in Token : k # hold[t] => tokens'[k] = tokens[k]
        /\ tokens'[hold[t]] = [tokens[hold[t]] EXCEPT !.state = "rotated"]
        /\ tokens[hold[t]] \in TokenRecord
        /\ UNCHANGED <<diskTokens, exchanges, closed, revoked, drawn, family,
                       goal, hold>>
        /\ pc'[t] = "issue"
    BY <1>1, <1>16, <2>1 DEF Rotate, TypeOK
  <2>3. tokens'[hold[t]].state = "rotated" /\ tokens'[hold[t]].family = family[t]
    BY <2>1, <2>2 DEF TokenRecord
  <2>4. Live(tokens') \cap Members(tokens', family[t]) = {}
    <3> SUFFICES ASSUME NEW k \in Token, tokens'[k].state = "live",
                        tokens'[k].family = family[t]
                 PROVE  FALSE
      BY DEF Live, Members
    <3>1. k # hold[t]
      BY <2>3
    <3>2. tokens[k].state = "live" /\ tokens[k].family = family[t]
      BY <2>2, <3>1
    <3>. QED  BY <2>1, <3>1, <3>2 DEF SerialInv, Sound, Live
  <2>5. hold[t] \in Members(tokens', family[t])
    BY <2>1, <2>3 DEF Members
  <2>6. AtWork(t)'
    BY <1>2, <2>1, <2>2, <2>4, <2>5 DEF AtWork, Persisting
  <2>. QED  BY <1>3, <2>1, <2>2, <2>3, <2>6, SoundStays
<1>17. CASE Revoke(t)
  <2>1. /\ \A l \in Token : tokens'[l] \in {tokens[l], NoToken}
        /\ \A l \in Members(tokens, family[t]) : tokens'[l] = NoToken
        /\ UNCHANGED <<diskTokens, exchanges, closed, revoked, drawn, family>>
        /\ pc'[t] = "walk_accounts" /\ goal'[t] = "revoke"
        /\ family[t] \in Token
    BY <1>1, <1>17 DEF Revoke, Pop, TypeOK, LocalsFit, Members
  <2>2. Members(tokens', family[t]) = {}
    BY <2>1 DEF Members, NoToken
  <2>3. AtWork(t)'
    BY <1>2, <2>1, <2>2 DEF AtWork, Persisting
  <2>. QED  BY <1>3, <2>1, <2>3, SoundStays DEF NoToken
<1>18. CASE WalkAccounts(t)
  <2>1. AtWork(t)'
    BY <1>1, <1>18, <1>2 DEF WalkAccounts, AtWork, TypeOK, Persisting
  <2>. QED  BY <1>18, <1>4, <2>1 DEF WalkAccounts
<1>19. CASE WalkTokens(t)
  <2>1. AtWork(t)'
    BY <1>1, <1>19, <1>2 DEF WalkTokens, AtWork, TypeOK, Persisting
  <2>. QED  BY <1>19, <1>4, <2>1 DEF WalkTokens
<1>20. CASE ReplaceFile(t)
  <2>1. /\ pc[t] = "replace" /\ diskTokens' = tokens
        /\ UNCHANGED <<tokens, drawn>>
        /\ revoked' = IF goal[t] = "revoke" THEN revoked \cup {family[t]}
                                           ELSE revoked
        /\ closed' = IF goal[t] = "signout" THEN closed \cup {hold[t]} ELSE closed
        /\ \A k \in Token : exchanges'[k] =
              IF goal[t] = "refresh" /\ k = hold[t]
              THEN exchanges[k] + 1 ELSE exchanges[k]
    BY <1>1, <1>20, <1>2 DEF ReplaceFile, AtWork
  <2>2. /\ goal[t] \in {"refresh", "signout"} => tokens[hold[t]].state # "live"
        /\ goal[t] = "revoke" => Members(tokens, family[t]) = {}
        /\ family[t] \in drawn \cup {None}
        /\ goal[t] = "revoke" => family[t] \in Token
    BY <1>1, <1>2, <2>1 DEF AtWork, Persisting, LocalsFit
  <2>3. revoked' \subseteq drawn'
    BY <2>1, <2>2 DEF SerialInv
  <2>4. \A k \in Token : exchanges'[k] > 0 \/ k \in closed'
                            => tokens[k].state # "live"
    BY <2>1, <2>2 DEF SerialInv, Sound
  <2>5. \A g \in revoked' : Members(tokens, g) = {}
    BY <2>1, <2>2 DEF SerialInv, Sound
  <2>6. Sound(tokens)' /\ Sound(diskTokens)'
    BY <2>1, <2>4, <2>5 DEF SerialInv, Sound
  <2>7. AtWork(t)'
    <3>1. CASE goal[t] = "signup"
      <4>1. /\ pc'[t] = "find" /\ goal'[t] = "signin" /\ UNCHANGED family
        BY <1>1, <1>20, <3>1 DEF ReplaceFile, TypeOK
      <4>2. family[t] = None
        BY <1>2, <3>1 DEF AtWork
      <4>. QED  BY <4>1, <4>2 DEF AtWork, Persisting
    <3>2. CASE goal[t] # "signup"
      <4>1. Leave(t)
        BY <1>20, <3>2 DEF ReplaceFile
      <4>. QED  BY <1>1, <4>1 DEF AtWork, Persisting, TypeOK
    <3>. QED  BY <3>1, <3>2
  <2>. QED  BY <1>3, <2>3, <2>6, <2>7
<1>21. CASE PersistFails(t)
  <2>1. AtWork(t)'
    BY <1>1, <1>21 DEF PersistFails, AtWork, TypeOK, Persisting
  <2>. QED  BY <1>21, <1>4, <2>1 DEF PersistFails
<1>. HIDE DEF Kept
<1>. QED
  BY <1>5, <1>6, <1>7, <1>8, <1>9, <1>10, <1>11, <1>12, <1>13, <1>14, <1>15,
     <1>16, <1>17, <1>18, <1>19, <1>20, <1>21
  DEF Request, Continue, Kept

(* With one request at a time, every step keeps what is kept sound.        *)
LEMMA SerialNext ==
    ASSUME Serial
    PROVE  SessionInv /\ SerialInv /\ [Next]_vars => SerialInv'
<1> SUFFICES ASSUME SessionInv, SerialInv, [Next]_vars PROVE SerialInv'
  OBVIOUS
<1>1. CASE Restart
  <2>1. \A t \in Thread : AtWork(t)'
    BY <1>1 DEF Restart, AtWork, Persisting
  <2>2. /\ tokens' = diskTokens
        /\ UNCHANGED <<diskTokens, drawn, exchanges, closed, revoked>>
    BY <1>1 DEF Restart, disk, answers
  <2>. QED  BY <2>1, <2>2 DEF SerialInv, Sound
<1>2. ASSUME NEW k \in Token, Expire(k) PROVE SerialInv'
  <2>1. UNCHANGED <<tokens, diskTokens, drawn, exchanges, closed, revoked, pc,
                    goal, hold, family, snapTokens>>
    BY <1>2 DEF Expire, memory, disk, locals, snapshots, answers
  <2>2. Sound(tokens)' /\ Sound(diskTokens)' /\ revoked' \subseteq drawn'
    BY <2>1 DEF SerialInv, Sound
  <2>3. \A t \in Thread : AtWork(t)'
    BY <2>1 DEF SerialInv, AtWork
  <2>. QED  BY <2>2, <2>3 DEF SerialInv
<1>3. CASE UNCHANGED vars
  <2>1. UNCHANGED <<tokens, diskTokens, drawn, exchanges, closed, revoked, pc,
                    goal, hold, family, snapTokens>>
    BY <1>3 DEF vars, memory, disk, locals, snapshots, answers
  <2>2. Sound(tokens)' /\ Sound(diskTokens)' /\ revoked' \subseteq drawn'
    BY <2>1 DEF SerialInv, Sound
  <2>3. \A t \in Thread : AtWork(t)'
    BY <2>1 DEF SerialInv, AtWork
  <2>. QED  BY <2>2, <2>3 DEF SerialInv
<1>. QED  BY <1>1, <1>2, <1>3, SerialStep DEF Next, SessionInv

(* When requests are served one at a time, a family has one token in use:  *)
(* an exchange takes the old token out of use before the next is issued.   *)
THEOREM SerialOneLivePerFamily ==
    ASSUME Serial PROVE Spec => []OneLivePerFamily
<1>1. SerialInv => OneLivePerFamily
  BY DEF SerialInv, Sound, OneLivePerFamily
<1>. QED  BY <1>1, SessionInit, SessionNext, SerialInit, SerialNext, PTL
          DEF Spec

(* When requests are served one at a time, a token that was exchanged is   *)
(* never in use again, restarts and failed saves included.                 *)
THEOREM SerialExchangedNeverLive ==
    ASSUME Serial PROVE Spec => []ExchangedNeverLive
<1>1. SerialInv => ExchangedNeverLive
  BY DEF SerialInv, Sound, ExchangedNeverLive, Live
<1>. QED  BY <1>1, SessionInit, SessionNext, SerialInit, SerialNext, PTL
          DEF Spec

(* When requests are served one at a time, of a revoked family no token is *)
(* left, and a token that was signed out is not in use, in memory or in    *)
(* the file, restarts and failed saves included.                           *)
THEOREM SerialRevocationHolds ==
    ASSUME Serial PROVE Spec => []RevocationHolds
<1>1. SerialInv /\ TypeOK => RevocationHolds
  BY DEF SerialInv, Sound, RevocationHolds, Live, TypeOK
<1>2. SessionInv => TypeOK
  BY DEF SessionInv, TypeInv
<1>. QED  BY <1>1, <1>2, SessionInit, SessionNext, SerialInit, SerialNext, PTL
          DEF Spec
-----------------------------------------------------------------------------
(* The page has one request in flight at a time.                           *)
OneCall == \A c, d \in Call : c = d

(* The variables of the dashboard keep to their domains.                   *)
ClientTypes ==
    /\ stored \in Token \cup {None}
    /\ phase \in [Call -> {"idle", "signing", "fetching", "refreshing",
                           "retrying", "leaving"}]
    /\ carries \in [Call -> Token \cup {None}]
    /\ serving \in [Thread -> Call \cup {None}]
    /\ answer \in [Call -> {NoAnswer, Refused} \cup {Granted(k) : k \in Token}]
    /\ lost \in Nat

(* Whoever a token belongs to has an account: none is removed while the    *)
(* process runs.                                                           *)
HasAccount(a) == a \in Account /\ accounts[a] # None

OwnersExist ==
    /\ \A k \in Live(tokens) : HasAccount(tokens[k].account)
    /\ \A t \in Thread :
          /\ pc[t] \in {"insert", "find"} \/ goal[t] = "signup"
                => email[t] \in Email
          /\ pc[t] \in {"rotate", "issue"} => HasAccount(owner[t])

(* No thread is at work; no answer is on its way.                          *)
Resting == \A t \in Thread : pc[t] = "idle"
Answered == \A c \in Call : answer[c] = NoAnswer

(* What the clients were given and may still use.                          *)
Usable == Live(tokens) \cap granted

(* A thread at work serves the call; what the client may use is at most    *)
(* the token that is about to be rotated, and what was issued for it is in *)
(* use but not given out.                                                  *)
Serving(t) ==
    /\ goal[t] = "signup" => new[t] = None
    /\ pc[t] \in {"find", "rotate", "issue"} => goal[t] # "signup"
    /\ new[t] # None =>
          pc[t] \in Persisting /\ new[t] \in Live(tokens) \ granted
    /\ pc[t] # "idle" =>
          /\ serving[t] \in Call
          /\ phase[serving[t]] \in {"signing", "refreshing", "leaving"}
          /\ pc[t] # "revoke"
          /\ Usable \subseteq IF pc[t] = "rotate" THEN {hold[t]} ELSE {}

(* A call that awaits the exchange of a token carries the stored one.      *)
Awaiting(c) ==
    /\ phase[c] \in {"idle", "fetching", "retrying"} =>
          Resting /\ answer[c] = NoAnswer
    /\ phase[c] = "refreshing" /\ Resting /\ answer[c] = NoAnswer =>
          carries[c] = stored /\ stored # None
    /\ answer[c] # NoAnswer =>
          Resting /\ Usable = {answer[c].token} \ {None}

(* One thread at most is at work, for the call, and when nothing is under  *)
(* way the client has stored what it may use.                              *)
CallInv ==
    /\ \A t, u \in Thread : pc[t] # "idle" /\ pc[u] # "idle" => t = u
    /\ \A t \in Thread : Serving(t)
    /\ \A c \in Call : Awaiting(c)
    /\ Resting /\ Answered => Usable = {stored} \ {None}
-----------------------------------------------------------------------------
(* A step of the dashboard is a step of the account service, or none.      *)
LEMMA StepOfAccounts ==
    ASSUME TypeOK, [DashboardNext]_allVars PROVE [Next]_vars
<1>1. ASSUME NEW t \in Thread, Request(t) \/ Continue(t) PROVE Next
  BY <1>1 DEF Next
<1>2. ASSUME NEW c \in Call, NEW t \in Thread, NEW e \in Email,
             SignInCall(c, t, e)
      PROVE  Next
  <2>1. Request(t)
    BY <1>2 DEF SignInCall, Request
  <2>. QED  BY <2>1, <1>1
<1>3. ASSUME NEW t \in Thread, NEW k,
             \/ Refresh(t, k) \/ RefreshRotated(t, k)
             \/ RefreshExpired(t, k) \/ SignOut(t, k)
      PROVE  Next
  <2>1. k \in granted
    BY <1>3 DEF Refresh, RefreshRotated, RefreshExpired, SignOut, Present
  <2>2. k \in Token
    BY <2>1 DEF TypeOK
  <2>3. Request(t)
    BY <1>3, <2>2 DEF Request
  <2>. QED  BY <2>3, <1>1
<1>4. ASSUME NEW c \in Call, NEW t \in Thread,
             RefreshCall(c, t) \/ RefreshRefused(c, t) \/ SignOutCall(c, t)
      PROVE  Next \/ UNCHANGED vars
  BY <1>3, <1>4 DEF RefreshCall, RefreshRefused, SignOutCall
<1>5. ASSUME NEW t \in Thread, Work(t) \/ Answer(t) PROVE Next
  <2>1. Continue(t)
    BY <1>5 DEF Work, Answer, Continue
  <2>. QED  BY <2>1, <1>1
<1>6. ASSUME NEW c \in Call,
             Fetched(c) \/ Unauthorized(c) \/ Receive(c) \/ LoseAnswer(c)
      PROVE  UNCHANGED vars
  BY <1>6 DEF Fetched, Unauthorized, Receive, LoseAnswer
<1>7. CASE OpenPage \/ AccessExpires
  BY <1>7 DEF OpenPage, AccessExpires
<1>8. CASE ServerClock \/ ServerRestarts
  BY <1>8 DEF ServerClock, ServerRestarts, Next
<1>9. CASE UNCHANGED allVars
  BY <1>9 DEF allVars
<1>. QED
  BY <1>2, <1>4, <1>5, <1>6, <1>7, <1>8, <1>9 DEF DashboardNext

(* Restarts are only counted up.                                           *)
LEMMA RestartsStay ==
    ASSUME TypeOK, [Next]_vars, restarts' = 0 PROVE restarts = 0
<1>1. ASSUME NEW t \in Thread, Request(t) PROVE restarts' = restarts
  BY <1>1 DEF Request, SignUp, SignIn, Refresh, RefreshRotated, RefreshExpired,
              SignOut, OtherRequest
<1>2. ASSUME NEW t \in Thread, Continue(t) PROVE restarts' = restarts
  <2>1. ASSUME NEW a \in Account, InsertAccount(t, a) \/ FindAccount(t, a)
        PROVE  restarts' = restarts
    BY <2>1 DEF InsertAccount, FindAccount
  <2>2. ASSUME NEW n \in Token, Issue(t, n) PROVE restarts' = restarts
    BY <2>2 DEF Issue
  <2>3. CASE UnknownEmail(t) \/ Rotate(t) \/ Revoke(t)
    BY <2>3 DEF UnknownEmail, Rotate, Revoke
  <2>4. CASE WalkAccounts(t) \/ WalkTokens(t)
    BY <2>4 DEF WalkAccounts, WalkTokens
  <2>5. CASE ReplaceFile(t) \/ PersistFails(t)
    BY <2>5 DEF ReplaceFile, PersistFails
  <2>. QED  BY <1>2, <2>1, <2>2, <2>3, <2>4, <2>5 DEF Continue
<1>3. CASE (\E k \in Token : Expire(k)) \/ UNCHANGED vars
  BY <1>3 DEF Expire, vars
<1>4. ~Restart
  BY DEF Restart, TypeOK
<1>. QED  BY <1>1, <1>2, <1>3, <1>4 DEF Next

(* The variables of the dashboard keep to their domains.                   *)
LEMMA ClientNext ==
    ASSUME TypeOK, ClientTypes, [DashboardNext]_allVars PROVE ClientTypes'
<1> USE DashboardAssumption
    DEF ClientTypes, Await, Settle, NoAnswer, Refused, Granted, client
<1>1. granted \subseteq Token
  BY DEF TypeOK
<1>2. ASSUME NEW c \in Call, NEW t \in Thread, NEW e \in Email,
             SignInCall(c, t, e)
      PROVE  ClientTypes'
  BY <1>2 DEF SignInCall
<1>3. ASSUME NEW c \in Call, NEW t \in Thread,
             RefreshCall(c, t) \/ RefreshRefused(c, t)
      PROVE  ClientTypes'
  BY <1>3 DEF RefreshCall, RefreshRefused
<1>4. ASSUME NEW c \in Call, NEW t \in Thread, SignOutCall(c, t)
      PROVE  ClientTypes'
  BY <1>4 DEF SignOutCall
<1>5. ASSUME NEW c \in Call, Fetched(c) \/ Unauthorized(c) PROVE ClientTypes'
  BY <1>5 DEF Fetched, Unauthorized
<1>6. ASSUME NEW c \in Call, Receive(c) PROVE ClientTypes'
  <2>1. answer[c].token \in Token \/ answer[c].kind # "granted"
    OBVIOUS
  <2>. QED  BY <1>6, <2>1 DEF Receive
<1>7. ASSUME NEW c \in Call, LoseAnswer(c) PROVE ClientTypes'
  BY <1>7 DEF LoseAnswer
<1>8. ASSUME NEW t \in Thread, Work(t) PROVE ClientTypes'
  BY <1>8 DEF Work
<1>9. ASSUME NEW t \in Thread, Answer(t) PROVE ClientTypes'
  <2>1. granted' \subseteq Token
    BY <1>9 DEF Answer, ReplaceFile, PersistFails, UnknownEmail, answers,
                TypeOK
  <2>. QED  BY <1>9, <2>1 DEF Answer
<1>10. CASE OpenPage
  BY <1>10 DEF OpenPage
<1>11. CASE AccessExpires \/ ServerClock
  BY <1>11 DEF AccessExpires, ServerClock
<1>12. CASE ServerRestarts
  BY <1>12 DEF ServerRestarts
<1>13. CASE UNCHANGED allVars
  BY <1>13 DEF allVars
<1>. QED
  BY <1>2, <1>3, <1>4, <1>5, <1>6, <1>7, <1>8, <1>9, <1>10, <1>11, <1>12,
     <1>13 DEF DashboardNext

(* While the process runs no account is removed, and a token is issued     *)
(* only for an account that was found.                                     *)
LEMMA OwnersNext ==
    ASSUME TypeOK, LocalsFit, OwnersExist, [Next]_vars, restarts' = 0
    PROVE  OwnersExist'
<1> USE DEF TypeOK, OwnersExist, HasAccount, Live, Goto, Begin, Leave, memory,
            disk, locals, snapshots, answers
<1>1. ASSUME NEW t \in Thread, NEW e \in Email, SignUp(t, e) \/ SignIn(t, e)
      PROVE  OwnersExist'
  BY <1>1 DEF SignUp, SignIn
<1>2. ASSUME NEW t \in Thread, NEW k \in Token, Refresh(t, k)
      PROVE  OwnersExist'
  BY <1>2 DEF Refresh, Present
<1>3. ASSUME NEW t \in Thread, NEW k \in Token, RefreshRotated(t, k)
      PROVE  OwnersExist'
  BY <1>3 DEF RefreshRotated, Present
<1>4. ASSUME NEW t \in Thread, NEW k \in Token,
             RefreshExpired(t, k) \/ SignOut(t, k)
      PROVE  OwnersExist'
  <2>1. /\ \A l \in Live(tokens') :
              l \in Live(tokens) /\ tokens'[l] = tokens[l]
        /\ UNCHANGED <<accounts, email, owner>>
    BY <1>4 DEF RefreshExpired, SignOut, Pop, NoToken
  <2>2. \A u \in Thread :
           \/ pc'[u] = pc[u] /\ goal'[u] = goal[u]
           \/ pc'[u] = "walk_accounts" /\ goal'[u] = "signout"
    BY <1>4 DEF RefreshExpired, SignOut
  <2>. QED  BY <2>1, <2>2
<1>5. ASSUME NEW t \in Thread, OtherRequest(t) PROVE OwnersExist'
  BY <1>5 DEF OtherRequest
<1>6. ASSUME NEW t \in Thread, NEW a \in Account, InsertAccount(t, a)
      PROVE  OwnersExist'
  <2>1. email[t] \in Email /\ accounts' = [accounts EXCEPT ![a] = email[t]]
    BY <1>6 DEF InsertAccount
  <2>2. \A b \in Account : accounts[b] # None => accounts'[b] # None
    BY <2>1
  <2>. QED  BY <1>6, <2>2 DEF InsertAccount
<1>7. ASSUME NEW t \in Thread, NEW a \in Account, FindAccount(t, a)
      PROVE  OwnersExist'
  <2>1. accounts[a] # None
    BY <1>7 DEF FindAccount, AccountsOf
  <2>. QED  BY <1>7, <2>1 DEF FindAccount
<1>8. ASSUME NEW t \in Thread, NEW n \in Token, Issue(t, n)
      PROVE  OwnersExist'
  BY <1>8 DEF Issue
<1>9. ASSUME NEW t \in Thread, Rotate(t) PROVE OwnersExist'
  BY <1>9 DEF Rotate
<1>10. ASSUME NEW t \in Thread, Revoke(t) PROVE OwnersExist'
  BY <1>10 DEF Revoke, Pop, NoToken
<1>11. ASSUME NEW t \in Thread, WalkAccounts(t) \/ WalkTokens(t)
       PROVE  OwnersExist'
  BY <1>11 DEF WalkAccounts, WalkTokens
<1>12. ASSUME NEW t \in Thread, ReplaceFile(t) PROVE OwnersExist'
  <2>1. CASE goal[t] = "signup"
    BY <1>12, <2>1 DEF ReplaceFile
  <2>2. CASE goal[t] # "signup"
    <3>1. Leave(t) /\ UNCHANGED <<accounts, tokens>>
      BY <1>12, <2>2 DEF ReplaceFile
    <3>. QED  BY <3>1
  <2>. QED  BY <2>1, <2>2
<1>13. ASSUME NEW t \in Thread, UnknownEmail(t) \/ PersistFails(t)
       PROVE  OwnersExist'
  <2>1. Leave(t) /\ UNCHANGED <<accounts, tokens>>
    BY <1>13 DEF UnknownEmail, PersistFails
  <2>. QED  BY <2>1
<1>14. ASSUME NEW k \in Token, Expire(k) PROVE OwnersExist'
  BY <1>14 DEF Expire
<1>15. ~Restart
  BY DEF Restart
<1>16. CASE UNCHANGED vars
  BY <1>16 DEF vars
<1>. QED
  BY <1>1, <1>2, <1>3, <1>4, <1>5, <1>6, <1>7, <1>8, <1>9, <1>10, <1>11, <1>12,
     <1>13, <1>14, <1>15, <1>16 DEF Next, Request, Continue

-----------------------------------------------------------------------------
(* A thread is at work and stays so.                                       *)
LEMMA StaysAtWork ==
    ASSUME OneCall, ClientTypes, CallInv, NEW t \in Thread,
           pc[t] # "idle", pc'[t] # "idle", Serving(t)', UNCHANGED client,
           \A u \in Thread \ {t} : pc'[u] = pc[u] /\ new'[u] = new[u]
    PROVE  CallInv'
<1>1. \A u \in Thread \ {t} : pc'[u] = "idle" /\ new'[u] = None
  BY DEF CallInv, Serving, Persisting
<1>2. \A u \in Thread : Serving(u)'
  BY <1>1 DEF Serving
<1>3. \A c \in Call : c = serving[t]
  BY DEF OneCall, CallInv, Serving
<1>4. \A c \in Call : Awaiting(c)'
  BY <1>3 DEF CallInv, Serving, Awaiting, Resting, client
<1>. QED  BY <1>1, <1>2, <1>4 DEF CallInv, Resting

(* A thread takes up the request of the call.                              *)
LEMMA TakesUp ==
    ASSUME OneCall, ClientTypes, CallInv, NEW t \in Thread, NEW c \in Call,
           Resting, Answered, pc'[t] # "idle", Serving(t)',
           phase'[c] \in {"signing", "refreshing", "leaving"},
           UNCHANGED answer,
           \A u \in Thread \ {t} : pc'[u] = pc[u] /\ new'[u] = new[u]
    PROVE  CallInv'
<1>1. \A u \in Thread \ {t} : pc'[u] = "idle" /\ new'[u] = None
  BY DEF CallInv, Serving, Persisting, Resting
<1>2. \A u \in Thread : Serving(u)'
  BY <1>1 DEF Serving
<1>3. \A d \in Call : d = c
  BY DEF OneCall
<1>4. \A d \in Call : Awaiting(d)'
  BY <1>3 DEF Awaiting, Resting, Answered
<1>. QED  BY <1>1, <1>2, <1>4 DEF CallInv, Resting

(* The answer to the call is on its way: nobody works.                     *)
LEMMA IsAnswered ==
    ASSUME OneCall, ClientTypes, CallInv, NEW c \in Call,
           phase[c] \in {"signing", "refreshing", "leaving"}, UNCHANGED phase,
           \A t \in Thread : pc'[t] = "idle" /\ new'[t] = None,
           answer'[c] # NoAnswer, Usable' = {answer'[c].token} \ {None}
    PROVE  CallInv'
<1>1. \A t \in Thread : Serving(t)'
  BY DEF Serving
<1>2. \A d \in Call : Awaiting(d)'
  BY DEF OneCall, Awaiting, Resting
<1>. QED  BY <1>1, <1>2 DEF CallInv, Answered

(* A step of the client while nobody works for it.                         *)
LEMMA ClientMoves ==
    ASSUME CallInv, Resting, UNCHANGED <<pc, new, tokens, granted>>,
           \A c \in Call : answer'[c] = NoAnswer,
           \A c \in Call : phase'[c] = "refreshing" =>
                              carries'[c] = stored' /\ stored' # None,
           Usable = {stored'} \ {None}
    PROVE  CallInv'
<1>1. Usable' = Usable /\ Resting'
  BY DEF Usable, Live, Resting
<1>2. \A t \in Thread : Serving(t)'
  BY <1>1 DEF CallInv, Serving, Resting, Persisting
<1>3. \A c \in Call : Awaiting(c)'
  BY <1>1 DEF Awaiting
<1>. QED  BY <1>1, <1>2, <1>3 DEF CallInv, Resting

-----------------------------------------------------------------------------
(* The call is taken up by a thread.                                       *)
LEMMA CallBegins ==
    ASSUME OneCall, SessionInv, ClientTypes, OwnersExist, CallInv,
           NEW c \in Call, NEW t \in Thread,
           \/ \E e \in Email : SignInCall(c, t, e)
           \/ RefreshCall(c, t)
           \/ RefreshRefused(c, t)
           \/ SignOutCall(c, t)
    PROVE  CallInv'
<1>1. \A d \in Call : d = c
  BY DEF OneCall
<1>2. TypeOK /\ Awaiting(c) /\ \A u \in Thread : Serving(u)
  BY DEF SessionInv, TypeInv, CallInv
<1> USE DEF Goto, Begin, Await, memory, disk, locals, snapshots, answers
<1>3. Resting /\ Answered => Usable = {stored} \ {None}
  BY DEF CallInv
<1>4. ASSUME NEW e \in Email, SignInCall(c, t, e) PROVE CallInv'
  <2>1. Resting /\ Answered /\ stored = None
    BY <1>1, <1>2, <1>4 DEF SignInCall, Quiet, Awaiting, Answered
  <2>2. /\ pc'[t] \in {"insert", "find"}
        /\ pc'[t] = "find" => goal'[t] = "signin"
        /\ \A u \in Thread \ {t} : pc'[u] = pc[u]
        /\ UNCHANGED <<tokens, granted, new, answer>>
        /\ serving'[t] = c /\ phase'[c] = "signing"
    BY <1>2, <1>4 DEF SignInCall, SignUp, SignIn, TypeOK, ClientTypes
  <2>3. new[t] = None
    BY <1>2, <2>1 DEF Serving, Resting, Persisting
  <2>4. Serving(t)'
    BY <1>3, <2>1, <2>2, <2>3 DEF Serving, Usable, Live
  <2>. QED  BY <2>1, <2>2, <2>4, TakesUp
<1>5. ASSUME RefreshCall(c, t) \/ RefreshRefused(c, t)
      PROVE  /\ Resting /\ Answered /\ carries[c] = stored
             /\ stored \in Token \cap granted /\ tokens[stored].state = "live"
  <2>1. phase[c] = "refreshing" /\ Unserved(c)
    BY <1>5 DEF RefreshCall, RefreshRefused
  <2>2. Resting
    BY <1>1, <1>2, <2>1 DEF Unserved, Serving, Resting
  <2>3. Answered
    BY <1>1, <2>1 DEF Unserved, Answered
  <2>4. carries[c] = stored /\ stored # None
    BY <1>2, <2>1, <2>2 DEF Awaiting, Unserved
  <2>5. stored \in Usable
    BY <1>3, <2>2, <2>3, <2>4
  <2>. QED  BY <2>2, <2>3, <2>4, <2>5 DEF Usable, Live
<1>6. ASSUME RefreshCall(c, t) PROVE CallInv'
  <2>1. Refresh(t, stored)
    BY <1>5, <1>6 DEF RefreshCall, RefreshRotated
  <2>2. /\ pc'[t] = "rotate" /\ goal'[t] = "refresh" /\ hold'[t] = stored
        /\ \A u \in Thread \ {t} : pc'[u] = pc[u]
        /\ UNCHANGED <<tokens, granted, new, answer, phase>>
        /\ serving'[t] = c /\ phase[c] = "refreshing"
    BY <1>2, <1>6, <2>1
    DEF RefreshCall, Refresh, Present, TypeOK, ClientTypes
  <2>3. new[t] = None
    BY <1>2, <1>5, <1>6 DEF Serving, Resting, Persisting
  <2>4. Serving(t)'
    BY <1>3, <1>5, <1>6, <2>2, <2>3 DEF Serving, Usable, Live
  <2>. QED  BY <1>5, <1>6, <2>2, <2>4, TakesUp
<1>7. ASSUME RefreshRefused(c, t) PROVE CallInv'
  <2>1. ~Unknown(stored)
    BY <1>5, <1>7 DEF Unknown, OwnersExist, HasAccount, Live
  <2>2. RefreshExpired(t, stored)
    BY <1>5, <1>7, <2>1 DEF RefreshRefused
  <2>3. /\ Usable' = Usable \ {stored}
        /\ UNCHANGED <<pc, new>>
    BY <2>2 DEF RefreshExpired, Pop, Usable, Live, NoToken
  <2>4. Usable' = {}
    BY <1>3, <1>5, <1>7, <2>3
  <2>5. \A u \in Thread : pc'[u] = "idle" /\ new'[u] = None
    BY <1>2, <1>5, <1>7, <2>3 DEF Serving, Resting, Persisting
  <2>6. answer'[c] = Refused /\ phase[c] = "refreshing" /\ phase' = phase
    BY <1>7 DEF RefreshRefused, ClientTypes
  <2>7. Refused # NoAnswer /\ Refused.token = None
    BY DEF Refused, NoAnswer
  <2>. QED  BY <2>4, <2>5, <2>6, <2>7, IsAnswered
<1>8. ASSUME SignOutCall(c, t) PROVE CallInv'
  <2>1. Resting /\ Answered /\ stored # None
    BY <1>1, <1>2, <1>8 DEF SignOutCall, Awaiting, Answered
  <2>2. /\ pc'[t] = "walk_accounts"
        /\ \A u \in Thread \ {t} : pc'[u] = pc[u]
        /\ UNCHANGED <<granted, new, answer>>
        /\ serving'[t] = c /\ phase'[c] = "leaving"
    BY <1>2, <1>8 DEF SignOutCall, SignOut, TypeOK, ClientTypes
  <2>3. Usable' = Usable \ {stored}
    BY <1>8 DEF SignOutCall, SignOut, Pop, Usable, Live, NoToken
  <2>4. new[t] = None
    BY <1>2, <2>1 DEF Serving, Resting, Persisting
  <2>5. Serving(t)'
    BY <1>3, <2>1, <2>2, <2>3, <2>4 DEF Serving
  <2>. QED  BY <2>1, <2>2, <2>5, TakesUp
<1>. QED  BY <1>4, <1>6, <1>7, <1>8

(* The server works for the call.                                          *)
LEMMA CallGoesOn ==
    ASSUME OneCall, SessionInv, ClientTypes, CallInv, NEW t \in Thread, Work(t)
    PROVE  CallInv'
<1>1. TypeOK /\ Serving(t) /\ granted \subseteq drawn
  BY DEF SessionInv, TypeInv, CallInv, DrawnInv
<1> USE DEF Goto, memory, disk, locals, snapshots, answers
<1>2. UNCHANGED client
  BY DEF Work
<1>3. ASSUME pc[t] # "idle", pc'[t] # "idle", Serving(t)',
             \A u \in Thread \ {t} : pc'[u] = pc[u] /\ new'[u] = new[u]
      PROVE  CallInv'
  BY <1>2, <1>3, StaysAtWork
<1>4. UNCHANGED <<phase, serving>>
  BY <1>2 DEF client
<1>5. ASSUME NEW a \in Account, InsertAccount(t, a) \/ FindAccount(t, a)
      PROVE  CallInv'
  <2>1. /\ \/ pc[t] = "insert" /\ pc'[t] = "walk_accounts"
           \/ pc[t] = "find" /\ pc'[t] = "issue"
        /\ \A u \in Thread \ {t} : pc'[u] = pc[u]
        /\ UNCHANGED <<tokens, granted, goal, new>>
    BY <1>1, <1>5 DEF InsertAccount, FindAccount, TypeOK
  <2>2. Serving(t)'
    BY <1>1, <1>4, <2>1 DEF Serving, Usable, Live, Persisting
  <2>. QED  BY <1>3, <2>1, <2>2
<1>6. ASSUME NEW n \in Token, Issue(t, n) PROVE CallInv'
  <2>1. /\ pc[t] = "issue" /\ pc'[t] = "walk_accounts" /\ new'[t] = n
        /\ \A u \in Thread \ {t} : pc'[u] = pc[u] /\ new'[u] = new[u]
        /\ UNCHANGED <<goal, granted>> /\ n \notin granted
        /\ Live(tokens)' = Live(tokens) \cup {n}
    BY <1>1, <1>6 DEF Issue, TypeOK, Live
  <2>2. Usable' = {}
    BY <1>1, <2>1 DEF Serving, Usable
  <2>3. Serving(t)'
    BY <1>1, <1>4, <2>1, <2>2 DEF Serving, Persisting
  <2>. QED  BY <1>3, <2>1, <2>3
<1>7. CASE Rotate(t)
  <2>1. /\ pc[t] = "rotate" /\ pc'[t] = "issue"
        /\ \A u \in Thread \ {t} : pc'[u] = pc[u]
        /\ UNCHANGED <<goal, granted, new>>
        /\ Live(tokens)' = Live(tokens) \ {hold[t]}
    BY <1>1, <1>7 DEF Rotate, TypeOK, Live
  <2>2. Usable' = {}
    BY <1>1, <2>1 DEF Serving, Usable
  <2>3. Serving(t)'
    BY <1>1, <1>4, <2>1, <2>2 DEF Serving, Persisting
  <2>. QED  BY <1>3, <2>1, <2>3
<1>8. ~Revoke(t)
  BY <1>1 DEF Revoke, Serving
<1>9. CASE WalkAccounts(t) \/ WalkTokens(t)
  <2>1. /\ pc[t] \in Persisting /\ pc'[t] \in {"walk_tokens", "replace"}
        /\ \A u \in Thread \ {t} : pc'[u] = pc[u]
        /\ UNCHANGED <<tokens, goal, granted, new>>
    BY <1>1, <1>9 DEF WalkAccounts, WalkTokens, TypeOK, Persisting
  <2>2. Serving(t)'
    BY <1>1, <1>4, <2>1 DEF Serving, Usable, Live, Persisting
  <2>. QED  BY <1>3, <2>1, <2>2 DEF Persisting
<1>10. CASE ReplaceFile(t) /\ pc'[t] # "idle"
  <2>1. goal[t] = "signup"
    BY <1>1, <1>10 DEF ReplaceFile, Leave, TypeOK
  <2>2. new[t] = None
    BY <1>1, <2>1 DEF Serving
  <2>3. /\ pc[t] = "replace" /\ pc'[t] = "find" /\ goal'[t] = "signin"
        /\ \A u \in Thread \ {t} : pc'[u] = pc[u]
        /\ UNCHANGED <<tokens, new>>
    BY <1>1, <1>10, <2>1 DEF ReplaceFile, TypeOK
  <2>4. granted' = granted
    BY <1>10, <2>2 DEF ReplaceFile
  <2>5. Serving(t)'
    BY <1>1, <1>4, <2>2, <2>3, <2>4 DEF Serving, Usable, Live, Persisting
  <2>. QED  BY <1>3, <2>3, <2>5
<1>. QED  BY <1>5, <1>6, <1>7, <1>8, <1>9, <1>10 DEF Work

(* The server answers: the client gets the one token it may use, or none   *)
(* is left.                                                                *)
LEMMA CallEnds ==
    ASSUME OneCall, SessionInv, ClientTypes, CallInv, NEW t \in Thread,
           Answer(t)
    PROVE  CallInv'
<1>1. TypeOK /\ Serving(t) /\ pc[t] # "idle" /\ pc[t] # "rotate"
  BY DEF SessionInv, TypeInv, CallInv, Answer, ReplaceFile, PersistFails,
         UnknownEmail
<1>2. \A u \in Thread \ {t} : pc[u] = "idle" /\ new[u] = None
  BY <1>1 DEF CallInv, Serving, Persisting
<1>3. Leave(t) /\ tokens' = tokens
  BY <1>1 DEF Answer, ReplaceFile, PersistFails, UnknownEmail, Goto, TypeOK,
              memory
<1>4. granted' \in {granted, granted \cup ({new[t]} \ {None})}
  BY DEF Answer, ReplaceFile, PersistFails, UnknownEmail, answers
<1>5. \A u \in Thread : pc'[u] = "idle" /\ new'[u] = None
  BY <1>1, <1>2, <1>3 DEF Leave, Goto, TypeOK
<1>6. /\ answer'[serving[t]] = IF new[t] \in granted' THEN Granted(new[t])
                                                      ELSE Refused
      /\ phase' = phase
  BY <1>1 DEF Answer, Serving, ClientTypes
<1>7. new[t] # None => new[t] \in Live(tokens) \ granted
  BY <1>1 DEF Serving
<1>8. Live(tokens) \cap granted = {} /\ Live(tokens)' = Live(tokens)
  BY <1>1, <1>3 DEF Serving, Usable, Live
<1>9. None \notin granted
  BY <1>1 DEF TypeOK
<1>10. Usable' = {answer'[serving[t]].token} \ {None}
       /\ answer'[serving[t]] # NoAnswer
  <2>1. CASE new[t] \in granted'
    <3>1. new[t] # None /\ granted' = granted \cup {new[t]}
      BY <1>4, <1>7, <1>9, <2>1
    <3>. QED  BY <1>6, <1>7, <1>8, <2>1, <3>1 DEF Usable, Granted, NoAnswer
  <2>2. CASE new[t] \notin granted'
    <3>1. granted' = granted
      BY <1>4, <2>2
    <3>. QED  BY <1>6, <1>8, <2>2, <3>1 DEF Usable, Refused, NoAnswer
  <2>. QED  BY <2>1, <2>2
<1>11. /\ serving[t] \in Call
       /\ phase[serving[t]] \in {"signing", "refreshing", "leaving"}
  BY <1>1 DEF Serving
<1>. QED  BY <1>5, <1>6, <1>10, <1>11, IsAnswered

(* The client moves on while nobody works for it.                          *)
LEMMA CallMoves ==
    ASSUME OneCall, SessionInv, ClientTypes, CallInv, NEW c \in Call,
           Fetched(c) \/ Unauthorized(c) \/ Receive(c)
    PROVE  CallInv'
<1>1. \A d \in Call : d = c
  BY DEF OneCall
<1>2. Awaiting(c) /\ (Resting /\ Answered => Usable = {stored} \ {None})
  BY DEF CallInv
<1>3. UNCHANGED <<pc, new, tokens, granted>>
  BY DEF Fetched, Unauthorized, Receive, vars, memory, locals, answers
<1> USE DEF Await, Settle, ClientTypes
<1>4. CASE Fetched(c) \/ Unauthorized(c)
  <2>1. Resting /\ answer[c] = NoAnswer /\ UNCHANGED <<stored, answer>>
    BY <1>2, <1>4 DEF Awaiting, Fetched, Unauthorized
  <2>2. Usable = {stored} \ {None}
    BY <1>1, <1>2, <2>1 DEF Answered
  <2>3. phase'[c] = "refreshing" => carries'[c] = stored /\ stored # None
    BY <1>4 DEF Fetched, Unauthorized
  <2>. QED  BY <1>1, <1>3, <2>1, <2>2, <2>3, ClientMoves
<1>5. CASE Receive(c)
  <2>1. answer[c] # NoAnswer /\ answer'[c] = NoAnswer
    BY <1>5 DEF Receive
  <2>2. Resting /\ Usable = {answer[c].token} \ {None}
    BY <1>2, <2>1 DEF Awaiting
  <2>3. stored' = answer[c].token /\ phase'[c] # "refreshing"
    BY <1>5, <2>1 DEF Receive, NoAnswer, Refused, Granted
  <2>. QED  BY <1>1, <1>3, <2>1, <2>2, <2>3, ClientMoves
<1>. QED  BY <1>4, <1>5

(* What a page with one call in flight keeps to until an answer is lost or *)
(* the server restarts.                                                    *)
LEMMA CallNext ==
    ASSUME OneCall, SessionInv, ClientTypes, ClientTypes', Undisturbed',
           restarts = 0 => OwnersExist, Undisturbed => CallInv,
           [DashboardNext]_allVars
    PROVE  CallInv'
<1>1. lost \in Nat /\ lost' \in Nat /\ restarts \in Nat /\ TypeOK
  BY DEF ClientTypes, SessionInv, TypeInv, TypeOK
<1>2. ~ServerRestarts /\ \A c \in Call : ~LoseAnswer(c)
  BY <1>1 DEF ServerRestarts, Restart, LoseAnswer, Undisturbed
<1>3. restarts = 0
  <2>1. [Next]_vars
    BY <1>1, StepOfAccounts
  <2>. QED  BY <1>1, <2>1, RestartsStay DEF Undisturbed
<1>4. lost = 0
  <2>1. lost' = lost
    BY <1>2 DEF DashboardNext, allVars, client, SignInCall, RefreshCall,
       RefreshRefused, SignOutCall, Fetched, Unauthorized, Receive, Work,
       Answer, OpenPage, AccessExpires, ServerClock
  <2>. QED  BY <2>1 DEF Undisturbed
<1>5. CallInv /\ OwnersExist
  BY <1>3, <1>4 DEF Undisturbed
<1>6. ASSUME UNCHANGED <<pc, goal, hold, new, tokens, granted, stored, phase,
                         carries, serving, answer>>
      PROVE  CallInv'
  BY <1>5, <1>6 DEF CallInv, Serving, Awaiting, Resting, Answered, Usable, Live
<1>7. CASE OpenPage
  <2>1. UNCHANGED <<pc, new, tokens, granted, stored, answer>>
        /\ \A c \in Call : phase'[c] = "fetching"
    BY <1>7 DEF OpenPage, vars, memory, locals, answers
  <2>2. CASE Call = {}
    <3>1. \A t \in Thread : pc[t] = "idle" /\ new[t] = None
      BY <1>5, <2>2 DEF CallInv, Serving, Persisting
    <3>. QED  BY <1>5, <2>1, <2>2, <3>1, ClientMoves
              DEF CallInv, Resting, Answered
  <2>3. CASE Call # {}
    <3>1. Resting /\ Answered
      BY <1>5, <1>7, <2>3 DEF OpenPage, Quiet, CallInv, Awaiting, Answered
    <3>. QED  BY <1>5, <2>1, <3>1, ClientMoves DEF CallInv, Answered
  <2>. QED  BY <2>2, <2>3
<1>8. CASE AccessExpires \/ ServerClock \/ UNCHANGED allVars
  BY <1>6, <1>8 DEF AccessExpires, ServerClock, Expire, allVars, vars, client,
     memory, locals, answers
<1>. QED
  BY <1>2, <1>5, <1>7, <1>8, CallBegins, CallGoesOn, CallEnds, CallMoves
  DEF DashboardNext

(* Nothing is stored and nobody works at the start.                        *)
LEMMA DashboardStarts ==
    DashboardInit => SessionInv /\ ClientTypes /\ OwnersExist /\ CallInv
<1> SUFFICES ASSUME DashboardInit
             PROVE  SessionInv /\ ClientTypes /\ OwnersExist /\ CallInv
  OBVIOUS
<1>1. SessionInv
  BY SessionInit DEF DashboardInit
<1>2. ClientTypes
  BY DEF DashboardInit, ClientTypes
<1>3. Live(tokens) = {}
  BY DEF DashboardInit, Init, NoTokens, NoToken, Live
<1>4. OwnersExist
  BY <1>3 DEF DashboardInit, Init, OwnersExist
<1>5. CallInv
  BY <1>3 DEF DashboardInit, Init, CallInv, Serving, Awaiting, Resting, Usable
<1>. QED  BY <1>1, <1>2, <1>4, <1>5

(* The invariant of the dashboard with one request in flight at a time.    *)
SessionOfCall ==
    /\ SessionInv
    /\ ClientTypes
    /\ restarts = 0 => OwnersExist
    /\ Undisturbed => CallInv

(* Every step of the dashboard keeps it.                                   *)
LEMMA SessionOfCallNext ==
    ASSUME OneCall, SessionOfCall, [DashboardNext]_allVars
    PROVE  SessionOfCall'
<1> USE DEF SessionOfCall
<1>1. TypeOK /\ LocalsFit
  BY DEF SessionInv, TypeInv
<1>2. [Next]_vars
  BY <1>1, StepOfAccounts
<1>3. SessionInv'
  BY <1>2, SessionNext
<1>4. ClientTypes'
  BY <1>1, ClientNext
<1>5. ASSUME restarts' = 0 PROVE restarts = 0
  BY <1>1, <1>2, <1>5, RestartsStay
<1>6. (restarts = 0 => OwnersExist)'
  BY <1>1, <1>2, <1>5, OwnersNext
<1>7. (Undisturbed => CallInv)'
  BY <1>4, CallNext
<1>. QED  BY <1>3, <1>4, <1>6, <1>7

(* A page with one request in flight at a time is never taken for a thief: *)
(* for any number of threads, accounts and tokens, and whatever expires or *)
(* fails to be saved, request() presents the token it was given last, and  *)
(* refresh() finds it unmarked.                                            *)
THEOREM OneCallNoFalseTheft ==
    ASSUME OneCall PROVE DashboardSpec => []NoFalseTheft
<1>1. DashboardInit => SessionOfCall
  BY DashboardStarts DEF SessionOfCall
<1>2. SessionOfCall /\ [DashboardNext]_allVars => SessionOfCall'
  BY SessionOfCallNext
<1>3. SessionOfCall => NoFalseTheft
  BY DEF SessionOfCall, NoFalseTheft, CallInv, Serving
<1>. QED  BY <1>1, <1>2, <1>3, PTL DEF DashboardSpec

(* Whenever the page of one request at a time has nothing under way, it    *)
(* has stored the one token of those it was given that the server still    *)
(* accepts, or none when there is none.                                    *)
THEOREM OneCallAgreement ==
    ASSUME OneCall PROVE DashboardSpec => []Agreement
<1>1. DashboardInit => SessionOfCall
  BY DashboardStarts DEF SessionOfCall
<1>2. SessionOfCall /\ [DashboardNext]_allVars => SessionOfCall'
  BY SessionOfCallNext
<1>3. SessionOfCall => Agreement
  <2> SUFFICES ASSUME CallInv, Quiet PROVE Usable = {stored} \ {None}
    BY DEF SessionOfCall, Agreement, Usable
  <2>1. \A c \in Call : Resting /\ answer[c] = NoAnswer
    BY DEF CallInv, Awaiting, Quiet
  <2>2. Resting
    BY <2>1 DEF CallInv, Serving, Resting
  <2>. QED  BY <2>1, <2>2 DEF CallInv, Answered
<1>. QED  BY <1>1, <1>2, <1>3, PTL DEF DashboardSpec
=============================================================================
