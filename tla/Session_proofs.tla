--------------------------- MODULE Session_proofs ---------------------------
(***************************************************************************)
(* Theorems about Session, for every value of its constants.                *)
(***************************************************************************)
EXTENDS Session, FiniteSetTheorems, TLAPS

-----------------------------------------------------------------------------
(* Type correctness *)

PairRec == [user : User, revoked : BOOLEAN]
CallRec == [pc : {"idle", "done"} \cup Busy, token : Id, retried : BOOLEAN]
RefreshRec ==
  [pc : {"sent", "checked", "refused", "issued", "lost"}, token : Id \ {0},
   issued : Id, waiters : SUBSET Call, stale : BOOLEAN]

Types ==
  /\ pairs \in Seq(PairRec)
  /\ enabled \subseteq User
  /\ applied \in [Tab -> [Req -> Nat]]
  /\ stored \in Id
  /\ saver \in Tab \cup {NoTab}
  /\ view \in [Tab -> {"login", "loading", "dashboard"}]
  /\ call \in [Tab -> [Call -> CallRec]]
  /\ \A t \in Tab : refreshing[t] \subseteq RefreshRec
  /\ DOMAIN refreshing = Tab
  /\ account \in User \cup {NoUser}
  /\ late \in BOOLEAN
  /\ lost \in Nat

\* The type invariant, by the names of its records.
LEMMA TypeParts == (TypeOK <=> Types) /\ (TypeOK' <=> Types')
BY DEF TypeOK, Types, PairRec, CallRec, RefreshRec

\* One more pair keeps the pairs there are, and their numbers.
LEMMA PairsGrow ==
  ASSUME NEW q \in Seq(PairRec), NEW p \in PairRec
  PROVE  /\ Append(q, p) \in Seq(PairRec)
         /\ Len(q) \in Nat
         /\ Len(Append(q, p)) = Len(q) + 1
         /\ \A i \in 1 .. Len(q) : Append(q, p)[i] = q[i]
         /\ Append(q, p)[Len(q) + 1] = p
OBVIOUS

\* Revoking a pair leaves its user.
LEMMA PairRevoked ==
  ASSUME NEW q \in Seq(PairRec), NEW i \in 1 .. Len(q)
  PROVE  LET new == [q EXCEPT ![i].revoked = TRUE]
         IN /\ new \in Seq(PairRec)
            /\ Len(new) = Len(q)
            /\ \A j \in 1 .. Len(q) : new[j].user = q[j].user
                 /\ (q[j].revoked => new[j].revoked)
<1> DEFINE new == [q EXCEPT ![i].revoked = TRUE]
<1>1. q \in [1 .. Len(q) -> PairRec] /\ Len(q) \in Nat
  OBVIOUS
<1>2. [q[i] EXCEPT !.revoked = TRUE] \in PairRec
  BY <1>1 DEF PairRec
<1>3. new \in [1 .. Len(q) -> PairRec]
  BY <1>1, <1>2
<1>4. new \in Seq(PairRec) /\ Len(new) = Len(q)
  BY <1>1, <1>3
<1>5. \A j \in 1 .. Len(q) : new[j].user = q[j].user
                               /\ (q[j].revoked => new[j].revoked)
  BY <1>1 DEF PairRec
<1>6. QED
  BY <1>4, <1>5

\* What performRequest sends and what a settled call is are calls.
LEMMA CallValues ==
  ASSUME TypeOK
  PROVE  /\ \A p \in {"idle", "done"} \cup Busy : At(p) \in CallRec
         /\ \A i \in Id, b \in BOOLEAN : performRequest(i, b) \in CallRec
         /\ \A x \in CallRec : [x EXCEPT !.pc = "unauthorized", !.token = 0] \in CallRec
<1>1. 0 \in Id
  BY TypeParts DEF Types, Id
<1>2. QED
  BY <1>1 DEF At, performRequest, CallRec, Busy

\* A sign-in, a sign-up or a sign-out leaves refreshes.
LEMMA NewSessionType ==
  ASSUME TypeOK, NEW u \in User \cup {NoUser}, NewSession(u)
  PROVE  /\ account' \in User \cup {NoUser}
         /\ DOMAIN refreshing' = Tab
         /\ \A t \in Tab : refreshing'[t] \subseteq RefreshRec
<1>1. \A f \in RefreshRec : [f EXCEPT !.stale = TRUE] \in RefreshRec
  BY DEF RefreshRec
<1>2. QED
  BY <1>1, TypeParts DEF Types, NewSession

\* Whatever expires a session leaves calls and pages.
LEMMA ExpireType ==
  ASSUME TypeOK, NEW t \in Tab, NEW cs \in SUBSET Call, expireSession(t, cs)
  PROVE  /\ stored' = 0 /\ saver' = saver
         /\ view' \in [Tab -> {"login", "loading", "dashboard"}]
         /\ view'[t] = "login"
         /\ call' \in [Tab -> [Call -> CallRec]]
<1>1. \A ds \in SUBSET Call : Failed(t, ds) \in [Call -> CallRec]
  BY CallValues, TypeParts DEF Types, Failed, Idle
<1>2. BusyCalls(t) \in SUBSET Call
  BY DEF BusyCalls
<1>3. QED
  BY <1>1, <1>2, TypeParts DEF Types, expireSession, clearTokens

\* While the pairs stay, so do their numbers and the records that hold them.
LEMMA SameIds ==
  ASSUME UNCHANGED pairs
  PROVE  Id' = Id /\ CallRec' = CallRec /\ RefreshRec' = RefreshRec
BY DEF Id, CallRec, RefreshRec

\* More pairs only add numbers.
LEMMA MoreIds ==
  ASSUME TypeOK, pairs' \in Seq(PairRec), Len(pairs') >= Len(pairs)
  PROVE  /\ Id \subseteq Id'
         /\ CallRec \subseteq CallRec'
         /\ RefreshRec \subseteq RefreshRec'
<1>1. Len(pairs) \in Nat /\ Len(pairs') \in Nat
  BY TypeParts DEF Types
<1>2. Id \subseteq Id'
  BY <1>1 DEF Id
<1>3. QED
  BY <1>2 DEF CallRec, RefreshRec

\* An empty browser has the types.
LEMMA InitType == Init => TypeOK
<1> SUFFICES ASSUME Init PROVE Types
  BY TypeParts
<1>1. pairs \in Seq(PairRec) /\ Len(pairs) = 0
  BY DEF Init
<1>2. Idle \in CallRec /\ 0 \in Id
  BY <1>1 DEF Idle, At, CallRec, Id
<1>3. QED
  BY <1>1, <1>2 DEF Init, Types

\* The steps of a single call keep the types.
LEMMA CallStepType ==
  ASSUME TypeOK, NEW t \in Tab, NEW c \in Call,
         CallStep(t, c) \/ LoseCall(t, c) \/ (c \in Req /\ Send(t, c))
  PROVE  TypeOK'
<1>0. /\ CallRec' = CallRec /\ RefreshRec' = RefreshRec /\ Id' = Id
      /\ UNCHANGED pairs
  BY SameIds DEF CallStep, LoseCall, Send, Serve, TurnAway, Succeed, Fail, GiveUp,
     getRefreshedAccessToken, ShowDashboard, ShellCatch, server
<1>1. CASE c \in Req /\ Send(t, c)
  BY <1>0, <1>1, TypeParts, CallValues DEF Types, Send, server, history
<1>2. CASE Serve(t, c)
  <2>1. applied' \in [Tab -> [Req -> Nat]]
    BY <1>2, TypeParts DEF Types, Serve, Call
  <2>2. At("ok") \in CallRec
    BY CallValues DEF Busy
  <2>3. QED
    BY <1>0, <1>2, <2>1, <2>2, TypeParts DEF Types, Serve, history
<1>3. CASE TurnAway(t, c)
  BY <1>0, <1>3, TypeParts, CallValues DEF Types, TurnAway, server, history
<1>4. CASE LoseCall(t, c)
  <2>1. At("lost") \in CallRec
    BY CallValues DEF Busy
  <2>2. QED
    BY <1>0, <1>4, <2>1, TypeParts DEF Types, LoseCall, server, history
<1>5. CASE getRefreshedAccessToken(t, c)
  <2>1. At("waiting") \in CallRec
    BY CallValues DEF Busy
  <2>2. \A f \in RefreshRec : [f EXCEPT !.waiters = @ \cup {c}] \in RefreshRec
    BY DEF RefreshRec
  <2>3. stored # 0 =>
          [pc |-> "sent", token |-> stored, issued |-> 0, waiters |-> {c},
           stale |-> FALSE] \in RefreshRec
    BY TypeParts DEF Types, RefreshRec, Id
  <2>4. DOMAIN refreshing' = Tab /\ \A s \in Tab : refreshing'[s] \subseteq RefreshRec
    <3>1. CASE refreshing[t] # {}
      BY <1>5, <2>2, <3>1, TypeParts DEF Types, getRefreshedAccessToken
    <3>2. CASE refreshing[t] = {}
      BY <1>5, <2>3, <3>2, TypeParts DEF Types, getRefreshedAccessToken
    <3>3. QED
      BY <3>1, <3>2
  <2>5. call' \in [Tab -> [Call -> CallRec]]
    BY <1>5, <2>1, TypeParts DEF Types, getRefreshedAccessToken
  <2>6. QED
    BY <1>0, <1>5, <2>4, <2>5, TypeParts DEF Types, getRefreshedAccessToken, server, history
<1>6. CASE GiveUp(t, c)
  <2>1. expireSession(t, {c}) /\ {c} \in SUBSET Call
    BY <1>6 DEF GiveUp
  <2>2. DOMAIN refreshing' = Tab /\ \A s \in Tab : refreshing'[s] \subseteq RefreshRec
    BY <1>6, TypeParts DEF Types, GiveUp
  <2>3. 0 \in Id
    BY TypeParts DEF Types, Id
  <2>4. QED
    BY <1>0, <1>6, <2>1, <2>2, <2>3, ExpireType, TypeParts DEF Types, GiveUp, server, history
<1>7. CASE c = Me /\ ShowDashboard(t)
  <2>1. Idle \in CallRec
    BY CallValues DEF Idle
  <2>2. QED
    BY <1>0, <1>7, <2>1, TypeParts DEF Types, ShowDashboard, server, history, Call
<1>8. CASE c = Me /\ ShellCatch(t)
  <2>1. Idle \in CallRec
    BY CallValues DEF Idle
  <2>0. 0 \in Id
    BY TypeParts DEF Types, Id
  <2>2. QED
    BY <1>0, <1>8, <2>1, <2>0, TypeParts DEF Types, ShellCatch, clearTokens, server, history, Call
<1>9. CASE Succeed(t, c) \/ Fail(t, c)
  <2>1. At("done") \in CallRec
    BY CallValues
  <2>2. call' = [call EXCEPT ![t][c] = At("done")]
    BY <1>9 DEF Succeed, Fail
  <2>3. UNCHANGED <<server, stored, saver, view, refreshing, history, lost>>
    BY <1>9 DEF Succeed, Fail
  <2>4. call' \in [Tab -> [Call -> CallRec]]
    BY <2>1, <2>2, TypeParts DEF Types
  <2>5. QED
    BY <1>0, <2>3, <2>4, TypeParts DEF Types, server, history
<1>10. QED
  BY <1>1, <1>2, <1>3, <1>4, <1>5, <1>6, <1>7, <1>8, <1>9 DEF CallStep

\* So do the steps of a refresh.
LEMMA RefreshStepType ==
  ASSUME TypeOK, NEW t \in Tab, NEW f \in refreshing[t],
         \/ RefreshCheck(t, f) \/ RefreshCommit(t, f) \/ LoseRefresh(t, f)
         \/ RefreshResolve(t, f) \/ RefreshReject(t, f)
  PROVE  TypeOK'
<1>0. f \in RefreshRec
  BY TypeParts DEF Types
<1>a. ASSUME NEW g \in RefreshRec, Replace(t, f, g)
      PROVE  DOMAIN refreshing' = Tab /\ \A s \in Tab : refreshing'[s] \subseteq RefreshRec
  BY <1>a, TypeParts DEF Types, Replace
<1>b. \A p \in {"sent", "checked", "refused", "issued", "lost"} :
        [f EXCEPT !.pc = p] \in RefreshRec
  BY <1>0 DEF RefreshRec
<1>1. CASE RefreshCheck(t, f)
  <2>1. DOMAIN refreshing' = Tab /\ \A s \in Tab : refreshing'[s] \subseteq RefreshRec
    BY <1>1, <1>a, <1>b DEF RefreshCheck
  <2>2. QED
    BY <1>1, <2>1, SameIds, TypeParts DEF Types, RefreshCheck, server, history
<1>2. CASE LoseRefresh(t, f)
  <2>1. DOMAIN refreshing' = Tab /\ \A s \in Tab : refreshing'[s] \subseteq RefreshRec
    BY <1>2, <1>a, <1>b DEF LoseRefresh
  <2>2. QED
    BY <1>2, <2>1, SameIds, TypeParts DEF Types, LoseRefresh, server, history
<1>3. CASE RefreshCommit(t, f) /\ Len(pairs) = MaxPairs
  <2>1. DOMAIN refreshing' = Tab /\ \A s \in Tab : refreshing'[s] \subseteq RefreshRec
    BY <1>3, <1>a, <1>b DEF RefreshCommit
  <2>2. QED
    BY <1>3, <2>1, SameIds, TypeParts DEF Types, RefreshCommit, history
<1>4. CASE RefreshCommit(t, f) /\ Len(pairs) # MaxPairs
  <2>1. f.token \in 1 .. Len(pairs)
    BY <1>0 DEF RefreshRec, Id
  <2>2. /\ pairs' \in Seq(PairRec)
        /\ Len(pairs') = Len(pairs) + 1
        /\ Len(pairs) \in Nat
    <3> DEFINE q == [pairs EXCEPT ![f.token].revoked = TRUE]
               p == Pair(pairs[f.token].user)
    <3>1. q \in Seq(PairRec) /\ Len(q) = Len(pairs) /\ Len(pairs) \in Nat
      BY <2>1, PairRevoked, TypeParts DEF Types
    <3>2. p \in PairRec
      <4>1. pairs[f.token] \in PairRec
        BY <2>1, TypeParts DEF Types
      <4>2. QED
        BY <4>1 DEF Pair, PairRec
    <3>3. pairs' = Append(q, p)
      BY <1>4 DEF RefreshCommit
    <3> HIDE DEF q, p
    <3>4. QED
      BY <3>1, <3>2, <3>3, PairsGrow
  <2>3. /\ Id \subseteq Id' /\ CallRec \subseteq CallRec'
        /\ RefreshRec \subseteq RefreshRec'
    BY <2>2, MoreIds
  <2>4. [f EXCEPT !.pc = "issued", !.issued = Len(pairs) + 1] \in RefreshRec'
    <3>1. Len(pairs) + 1 \in Id'
      BY <2>2 DEF Id
    <3>2. QED
      BY <1>0, <2>3, <3>1 DEF RefreshRec
  <2>5. DOMAIN refreshing' = Tab /\ \A s \in Tab : refreshing'[s] \subseteq RefreshRec'
    <3> DEFINE g == [f EXCEPT !.pc = "issued", !.issued = Len(pairs) + 1]
    <3>1. Replace(t, f, g)
      BY <1>4 DEF RefreshCommit
    <3>2. g \in RefreshRec'
      BY <2>4
    <3>3. DOMAIN refreshing = Tab /\ \A s \in Tab : refreshing[s] \subseteq RefreshRec'
      BY <2>3, TypeParts DEF Types
    <3> HIDE DEF g
    <3>4. QED
      BY <3>1, <3>2, <3>3 DEF Replace
  <2>6. call' \in [Tab -> [Call -> CallRec']]
    BY <1>4, <2>3, TypeParts DEF Types, RefreshCommit
  <2>7. QED
    BY <1>4, <2>2, <2>3, <2>5, <2>6, TypeParts DEF Types, RefreshCommit, history
<1>5. CASE RefreshResolve(t, f)
  <2>1. f.issued \in Id
    BY <1>0 DEF RefreshRec
  <2>2. performRequest(f.issued, TRUE) \in CallRec
    BY <2>1, CallValues
  <2>3. call' \in [Tab -> [Call -> CallRec]]
    BY <1>5, <2>2, TypeParts DEF Types, RefreshResolve
  <2>4. DOMAIN refreshing' = Tab /\ \A s \in Tab : refreshing'[s] \subseteq RefreshRec
    BY <1>5, TypeParts DEF Types, RefreshResolve
  <2>5. late' \in BOOLEAN
    BY <1>0, <1>5, TypeParts DEF Types, RefreshResolve, RefreshRec
  <2>6. QED
    BY <1>5, <2>1, <2>3, <2>4, <2>5, SameIds, TypeParts
       DEF Types, RefreshResolve, saveTokens, server
<1>6. CASE RefreshReject(t, f)
  <2>1. expireSession(t, f.waiters) /\ f.waiters \in SUBSET Call
    BY <1>0, <1>6 DEF RefreshReject, RefreshRec
  <2>2. DOMAIN refreshing' = Tab /\ \A s \in Tab : refreshing'[s] \subseteq RefreshRec
    BY <1>6, TypeParts DEF Types, RefreshReject
  <2>3. 0 \in Id
    BY TypeParts DEF Types, Id
  <2>4. QED
    BY <1>6, <2>1, <2>2, <2>3, ExpireType, SameIds, TypeParts
       DEF Types, RefreshReject, server, history
<1>7. QED
  BY <1>1, <1>2, <1>3, <1>4, <1>5, <1>6

\* The steps of the pages and of the server.
PageStep ==
  \/ \E t \in Tab, u \in User : login(t, u)
  \/ \E t \in Tab : signup(t) \/ OpenDashboard(t) \/ handleLogout(t)
  \/ \E u \in User : reset_password(u) \/ DisableUser(u)

\* So do those of the pages and the server.
LEMMA PageStepType ==
  ASSUME TypeOK, PageStep
  PROVE  TypeOK'
<1>0. 0 \in Id /\ Len(pairs) \in Nat
  BY TypeParts DEF Types, Id
<1>1. ASSUME NEW t \in Tab, NEW u \in User, login(t, u) PROVE TypeOK'
  <2>1. Pair(u) \in PairRec
    BY DEF Pair, PairRec
  <2>2. pairs' \in Seq(PairRec) /\ Len(pairs') = Len(pairs) + 1
    BY <1>1, <2>1, PairsGrow, TypeParts DEF Types, login
  <2>3. /\ Id \subseteq Id' /\ CallRec \subseteq CallRec'
        /\ RefreshRec \subseteq RefreshRec'
    BY <1>0, <2>2, MoreIds
  <2>4. Len(pairs) + 1 \in Id'
    BY <1>0, <2>2 DEF Id
  <2>5. /\ account' \in User \cup {NoUser}
        /\ DOMAIN refreshing' = Tab
        /\ \A s \in Tab : refreshing'[s] \subseteq RefreshRec
    BY <1>1, NewSessionType DEF login
  <2>6. call' \in [Tab -> [Call -> CallRec']]
    BY <1>1, <2>3, TypeParts DEF Types, login
  <2>7. QED
    BY <1>1, <2>2, <2>3, <2>4, <2>5, <2>6, TypeParts DEF Types, login, saveTokens
<1>2. ASSUME NEW t \in Tab, signup(t) PROVE TypeOK'
  <2>1. account \in User \cup {NoUser}
    BY TypeParts DEF Types
  <2>2. /\ account' \in User \cup {NoUser}
        /\ DOMAIN refreshing' = Tab
        /\ \A s \in Tab : refreshing'[s] \subseteq RefreshRec
    BY <1>2, <2>1, NewSessionType DEF signup
  <2>3. QED
    BY <1>0, <1>2, <2>2, SameIds, TypeParts DEF Types, signup, clearTokens, server
<1>3. ASSUME NEW t \in Tab, OpenDashboard(t) PROVE TypeOK'
  <2>1. performRequest(stored, FALSE) \in CallRec
    BY CallValues, TypeParts DEF Types
  <2>2. call' \in [Tab -> [Call -> CallRec]]
    BY <1>3, <2>1, TypeParts DEF Types, OpenDashboard
  <2>3. QED
    BY <1>3, <2>2, SameIds, TypeParts DEF Types, OpenDashboard, server, history
<1>4. ASSUME NEW t \in Tab, handleLogout(t) PROVE TypeOK'
  <2>1. /\ account' \in User \cup {NoUser}
        /\ DOMAIN refreshing' = Tab
        /\ \A s \in Tab : refreshing'[s] \subseteq RefreshRec
    BY <1>4, NewSessionType DEF handleLogout
  <2>2. QED
    BY <1>0, <1>4, <2>1, SameIds, TypeParts DEF Types, handleLogout, clearTokens, server
<1>5. ASSUME NEW u \in User, reset_password(u) PROVE TypeOK'
  <2>1. \A i \in 1 .. Len(pairs) :
          [pairs[i] EXCEPT !.revoked = @ \/ pairs[i].user = u] \in PairRec
    <3>1. ASSUME NEW i \in 1 .. Len(pairs)
          PROVE  [pairs[i] EXCEPT !.revoked = @ \/ pairs[i].user = u] \in PairRec
      <4>1. pairs[i] \in PairRec
        BY TypeParts DEF Types
      <4>2. (pairs[i].revoked \/ pairs[i].user = u) \in BOOLEAN
        OBVIOUS
      <4>3. \A b \in BOOLEAN : [pairs[i] EXCEPT !.revoked = b] \in PairRec
        BY <4>1 DEF PairRec
      <4>4. QED
        BY <4>2, <4>3
    <3>2. QED
      BY <3>1
  <2>2. pairs' \in [1 .. Len(pairs) -> PairRec]
    BY <1>5, <2>1, TypeParts DEF Types, reset_password
  <2>3. pairs' \in Seq(PairRec) /\ Len(pairs') = Len(pairs)
    BY <1>0, <2>2
  <2>4. Id' = Id /\ CallRec' = CallRec /\ RefreshRec' = RefreshRec
    BY <2>3 DEF Id, CallRec, RefreshRec
  <2>5. QED
    BY <1>5, <2>3, <2>4, TypeParts DEF Types, reset_password, history
<1>6. ASSUME NEW u \in User, DisableUser(u) PROVE TypeOK'
  BY <1>6, SameIds, TypeParts DEF Types, DisableUser, history
<1>7. QED
  BY <1>1, <1>2, <1>3, <1>4, <1>5, <1>6 DEF PageStep

\* A step that leaves every variable keeps the types.
LEMMA StutterType ==
  ASSUME TypeOK, UNCHANGED vars
  PROVE  TypeOK'
BY SameIds, TypeParts DEF Types, vars, server, history

\* Every step is one of a call, of a refresh, or of a page or the server.
LEMMA NextStep ==
  ASSUME Next
  PROVE  \/ \E t \in Tab, c \in Call :
              CallStep(t, c) \/ LoseCall(t, c) \/ (c \in Req /\ Send(t, c))
         \/ \E t \in Tab : \E f \in refreshing[t] :
              \/ RefreshCheck(t, f) \/ RefreshCommit(t, f) \/ LoseRefresh(t, f)
              \/ RefreshResolve(t, f) \/ RefreshReject(t, f)
         \/ PageStep
BY DEF Next, RefreshStep, PageStep, Call

\* Types, with the tokens in use among those issued, are an invariant.
THEOREM TypeCorrect == Spec => []TypeOK
<1>1. ASSUME TypeOK, [Next]_vars PROVE TypeOK'
  BY <1>1, NextStep, CallStepType, RefreshStepType, PageStepType, StutterType
<1>2. QED
  BY InitType, <1>1, PTL DEF Spec

-----------------------------------------------------------------------------
(* Calls and the refreshes they wait for *)

\* Of tab t: the shell's request is under way only while the shell loads; there
\* is one refresh at most, and it holds exactly the calls that wait; and what
\* the server has done for a call it has done once, and has answered.
TabInv(t) ==
  /\ view[t] # "loading" => call[t][Me].pc = "idle"
  /\ call[t][Me].pc # "done"
  /\ \A f, g \in refreshing[t] : f = g
  /\ \A f \in refreshing[t] : \A c \in f.waiters : call[t][c].pc = "waiting"
  /\ \A c \in Call : call[t][c].pc = "waiting" => \E f \in refreshing[t] : c \in f.waiters
  /\ \A r \in Req : /\ applied[t][r] <= 1
                    /\ applied[t][r] # 0 => call[t][r].pc \in {"ok", "lost", "done"}

CallInv == TypeOK /\ \A t \in Tab : TabInv(t)

\* What TabInv says of a tab that a step leaves alone.
Untouched(t) ==
  /\ view'[t] = view[t] /\ call'[t] = call[t]
  /\ refreshing'[t] = refreshing[t] /\ applied'[t] = applied[t]

\* A step is one of a tab that keeps TabInv and leaves the others alone.
LEMMA OneTab ==
  ASSUME \A s \in Tab : TabInv(s), NEW t \in Tab, TabInv(t)',
         \A s \in Tab \ {t} : Untouched(s)
  PROVE  (\A s \in Tab : TabInv(s))'
<1>1. ASSUME NEW s \in Tab \ {t} PROVE TabInv(s)'
  BY <1>1 DEF TabInv, Untouched
<1>2. QED
  BY <1>1

\* The empty browser has no calls and no refreshes.
LEMMA InitCalls == Init => \A t \in Tab : TabInv(t)
BY SessionAssumption DEF Init, TabInv, Idle, At, Call

\* An expired session fails the calls it ends with, and off the login page
\* every call there is.
LEMMA ExpireCalls ==
  ASSUME TypeOK, NEW t \in Tab, TabInv(t), NEW cs \in SUBSET Call,
         expireSession(t, cs)
  PROVE  /\ \A s \in Tab \ {t} : call'[s] = call[s] /\ view'[s] = view[s]
         /\ view'[t] = "login" /\ call'[t][Me].pc = "idle"
         /\ \A c \in cs : call'[t][c].pc \in {"idle", "done"}
         /\ \A r \in Req : call'[t][r].pc \in {call[t][r].pc, "done"}
         /\ view[t] = "login" => \A c \in Call \ cs : call'[t][c] = call[t][c]
         /\ view[t] # "login" => \A c \in Call : call'[t][c].pc \in {"idle", "done"}
<1>0. /\ call \in [Tab -> [Call -> CallRec]]
      /\ view \in [Tab -> {"login", "loading", "dashboard"}]
  BY TypeParts DEF Types
<1>1. CASE view[t] = "login"
  <2>1. /\ call' = [call EXCEPT ![t] = Failed(t, cs)] /\ UNCHANGED view
    BY <1>1 DEF expireSession
  <2>2. call'[t] = Failed(t, cs)
    BY <1>0, <2>1
  <2>3. QED
    BY <1>0, <1>1, <2>1, <2>2, SessionAssumption DEF Failed, Idle, At, Call, TabInv
<1>2. CASE view[t] # "login"
  <2>1. /\ call' = [call EXCEPT ![t] = Failed(t, BusyCalls(t))]
        /\ view' = [view EXCEPT ![t] = "login"]
    BY <1>2 DEF expireSession
  <2>2. call'[t] = Failed(t, BusyCalls(t))
    BY <1>0, <2>1
  <2>3. \A c \in Call : c \notin BusyCalls(t) => call[t][c].pc \in {"idle", "done"}
    BY <1>0 DEF BusyCalls, CallRec
  <2>4. call[t][Me].pc # "done"
    BY DEF TabInv
  <2>5. /\ call'[t][Me].pc = "idle"
        /\ \A c \in Call : call'[t][c].pc \in {"idle", "done"}
        /\ \A r \in Req : call'[t][r].pc \in {call[t][r].pc, "done"}
    BY <2>2, <2>3, <2>4, SessionAssumption DEF Failed, Idle, At, Call
  <2>6. QED
    BY <1>0, <1>2, <2>1, <2>5 DEF BusyCalls
<1>3. QED
  BY <1>1, <1>2

\* The steps of a single call.
LEMMA CallStepCalls ==
  ASSUME CallInv, NEW t \in Tab, NEW c \in Call,
         CallStep(t, c) \/ LoseCall(t, c) \/ (c \in Req /\ Send(t, c))
  PROVE  (\A s \in Tab : TabInv(s))'
<1>0. /\ call \in [Tab -> [Call -> CallRec]]
      /\ applied \in [Tab -> [Req -> Nat]]
      /\ view \in [Tab -> {"login", "loading", "dashboard"}]
      /\ DOMAIN refreshing = Tab
      /\ \A s \in Tab : refreshing[s] \subseteq RefreshRec
      /\ TypeOK /\ TabInv(t)
  BY TypeParts DEF CallInv, Types
<1>a. SUFFICES TabInv(t)' /\ \A s \in Tab \ {t} : Untouched(s)
  BY OneTab DEF CallInv
<1>b. Me \in Call /\ Req \subseteq Call /\ Me \notin Req
  BY SessionAssumption DEF Call
<1>1. CASE c \in Req /\ Send(t, c)
  BY <1>0, <1>1, <1>b DEF Send, performRequest, TabInv, Untouched, server
<1>2. CASE Serve(t, c)
  <2>1. /\ call' = [call EXCEPT ![t][c] = At("ok")] /\ call[t][c].pc = "sent"
        /\ UNCHANGED <<view, refreshing>>
        /\ applied' = IF c = Me THEN applied ELSE [applied EXCEPT ![t][c] = @ + 1]
    BY <1>2 DEF Serve
  <2>2. c = Me => view[t] = "loading"
    BY <1>0, <2>1 DEF TabInv
  <2>3. \A r \in Req : /\ applied'[t][r] <= 1
                       /\ applied'[t][r] # 0 => call'[t][r].pc \in {"ok", "lost", "done"}
    BY <1>0, <1>b, <2>1 DEF TabInv, At, Call
  <2>4. QED
    BY <1>0, <1>b, <2>1, <2>2, <2>3 DEF TabInv, Untouched, At
<1>3. CASE TurnAway(t, c)
  <2>1. /\ call' = [call EXCEPT ![t][c] = [@ EXCEPT !.pc = "unauthorized", !.token = 0]]
        /\ call[t][c].pc = "sent" /\ UNCHANGED <<view, refreshing, applied>>
    BY <1>3 DEF TurnAway, server
  <2>2. /\ call'[t][c].pc = "unauthorized"
        /\ \A d \in Call \ {c} : call'[t][d] = call[t][d]
        /\ \A s \in Tab \ {t} : call'[s] = call[s]
    BY <1>0, <2>1 DEF CallRec
  <2>3. QED
    BY <1>0, <1>b, <2>1, <2>2 DEF TabInv, Untouched
<1>4. CASE LoseCall(t, c)
  BY <1>0, <1>4, <1>b DEF LoseCall, At, TabInv, Untouched, server
<1>5. CASE getRefreshedAccessToken(t, c)
  <2>1. /\ call' = [call EXCEPT ![t][c] = At("waiting")]
        /\ call[t][c].pc = "unauthorized"
        /\ UNCHANGED <<view, applied>>
        /\ \A s \in Tab \ {t} : refreshing'[s] = refreshing[s]
    BY <1>0, <1>5 DEF getRefreshedAccessToken, server
  <2>2. \A f \in RefreshRec : [f EXCEPT !.waiters = @ \cup {c}].waiters = f.waiters \cup {c}
    BY DEF RefreshRec
  <2>3. /\ \A f, g \in refreshing'[t] : f = g
        /\ \A f \in refreshing'[t] : \A d \in f.waiters : d = c \/ call[t][d].pc = "waiting"
        /\ \A d \in Call : call[t][d].pc = "waiting" \/ d = c
                           => \E f \in refreshing'[t] : d \in f.waiters
    <3>1. CASE refreshing[t] # {}
      <4>1. refreshing'[t] = {[f EXCEPT !.waiters = @ \cup {c}] : f \in refreshing[t]}
        BY <1>0, <1>5, <3>1 DEF getRefreshedAccessToken
      <4>2. PICK f \in refreshing[t] : TRUE
        BY <3>1
      <4>3. refreshing[t] = {f} /\ f \in RefreshRec
        BY <1>0, <4>2 DEF TabInv
      <4>4. refreshing'[t] = {[f EXCEPT !.waiters = @ \cup {c}]}
        BY <4>1, <4>3
      <4>5. \A d \in Call : call[t][d].pc = "waiting" => d \in f.waiters
        BY <1>0, <4>3 DEF TabInv
      <4>6. \A d \in f.waiters : call[t][d].pc = "waiting"
        BY <1>0 DEF TabInv
      <4>7. [f EXCEPT !.waiters = @ \cup {c}].waiters = f.waiters \cup {c}
        BY <2>2, <4>3
      <4>8. QED
        BY <4>4, <4>5, <4>6, <4>7
    <3>2. CASE refreshing[t] = {}
      <4>1. refreshing'[t] = {[pc |-> "sent", token |-> stored, issued |-> 0,
                               waiters |-> {c}, stale |-> FALSE]}
        BY <1>0, <1>5, <3>2 DEF getRefreshedAccessToken
      <4>2. QED
        BY <1>0, <3>2, <4>1 DEF TabInv
    <3>3. QED
      BY <3>1, <3>2
  <2>4. /\ call'[t][c].pc = "waiting"
        /\ \A d \in Call \ {c} : call'[t][d] = call[t][d]
        /\ \A s \in Tab \ {t} : call'[s] = call[s]
    BY <1>0, <2>1 DEF At
  <2>5. refreshing'[t] \subseteq RefreshRec'
    BY CallStepType, <1>0, <1>5, TypeParts DEF Types, CallStep
  <2>6. \A f \in refreshing'[t] : f.waiters \subseteq Call
    BY <2>5 DEF RefreshRec
  <2>7. QED
    BY <1>0, <1>b, <2>1, <2>3, <2>4, <2>6 DEF TabInv, Untouched
<1>6. CASE GiveUp(t, c)
  <2>1. /\ expireSession(t, {c}) /\ {c} \in SUBSET Call
        /\ call[t][c].pc = "unauthorized"
        /\ UNCHANGED applied
        /\ refreshing' = IF view[t] = "login" THEN refreshing
                         ELSE [refreshing EXCEPT ![t] = {}]
    BY <1>6 DEF GiveUp, server
  <2>2. /\ \A s \in Tab \ {t} : call'[s] = call[s] /\ view'[s] = view[s]
        /\ view'[t] = "login" /\ call'[t][Me].pc = "idle"
        /\ call'[t][c].pc \in {"idle", "done"}
        /\ \A r \in Req : call'[t][r].pc \in {call[t][r].pc, "done"}
        /\ view[t] = "login" => \A d \in Call \ {c} : call'[t][d] = call[t][d]
        /\ view[t] # "login" => \A d \in Call : call'[t][d].pc \in {"idle", "done"}
    BY <1>0, <2>1, ExpireCalls
  <2>3. \A f \in refreshing[t] : c \notin f.waiters /\ f.waiters \subseteq Call
    BY <1>0, <2>1 DEF TabInv, RefreshRec
  <2>4. CASE view[t] = "login"
    <3>1. UNCHANGED refreshing
      BY <2>1, <2>4
    <3>2. \A f \in refreshing[t] : \A d \in f.waiters : call'[t][d].pc = "waiting"
      BY <1>0, <2>2, <2>3, <2>4 DEF TabInv
    <3>3. \A d \in Call : call'[t][d].pc = "waiting" => call[t][d].pc = "waiting"
      BY <2>2, <2>4
    <3>4. \A r \in Req : applied[t][r] # 0 => call'[t][r].pc \in {"ok", "lost", "done"}
      BY <1>0, <2>2 DEF TabInv
    <3>5. QED
      BY <1>0, <1>b, <2>1, <2>2, <3>1, <3>2, <3>3, <3>4 DEF TabInv, Untouched
  <2>5. CASE view[t] # "login"
    <3>1. refreshing'[t] = {} /\ \A s \in Tab \ {t} : refreshing'[s] = refreshing[s]
      BY <1>0, <2>1, <2>5
    <3>2. QED
      BY <1>0, <1>b, <2>1, <2>2, <2>5, <3>1 DEF TabInv, Untouched
  <2>6. QED
    BY <2>4, <2>5
<1>7. CASE c = Me /\ ShowDashboard(t)
  <2>1. /\ call' = [call EXCEPT ![t][Me] = Idle] /\ call[t][Me].pc = "ok"
        /\ view' = [view EXCEPT ![t] = "dashboard"]
        /\ UNCHANGED <<applied, refreshing>>
    BY <1>7 DEF ShowDashboard, server
  <2>2. QED
    BY <1>0, <1>b, <2>1 DEF TabInv, Untouched, Idle, At
<1>8. CASE c = Me /\ ShellCatch(t)
  <2>1. /\ call' = [call EXCEPT ![t][Me] = Idle] /\ call[t][Me].pc = "lost"
        /\ view' = [view EXCEPT ![t] = "login"]
        /\ UNCHANGED <<applied, refreshing>>
    BY <1>8 DEF ShellCatch, server
  <2>2. QED
    BY <1>0, <1>b, <2>1 DEF TabInv, Untouched, Idle, At
<1>9. CASE c # Me /\ (Succeed(t, c) \/ Fail(t, c))
  <2>1. /\ call' = [call EXCEPT ![t][c] = At("done")]
        /\ call[t][c].pc \in {"ok", "lost"}
        /\ UNCHANGED <<view, applied, refreshing>>
    BY <1>9 DEF Succeed, Fail, server
  <2>2. QED
    BY <1>0, <1>b, <1>9, <2>1 DEF TabInv, Untouched, At
<1>10. QED
  BY <1>1, <1>2, <1>3, <1>4, <1>5, <1>6, <1>7, <1>8, <1>9 DEF CallStep

\* The steps of a refresh.
LEMMA RefreshStepCalls ==
  ASSUME CallInv, NEW t \in Tab, NEW f \in refreshing[t],
         \/ RefreshCheck(t, f) \/ RefreshCommit(t, f) \/ LoseRefresh(t, f)
         \/ RefreshResolve(t, f) \/ RefreshReject(t, f)
  PROVE  (\A s \in Tab : TabInv(s))'
<1>0. /\ call \in [Tab -> [Call -> CallRec]]
      /\ view \in [Tab -> {"login", "loading", "dashboard"}]
      /\ DOMAIN refreshing = Tab
      /\ f \in RefreshRec
      /\ TypeOK /\ TabInv(t)
  BY TypeParts DEF CallInv, Types
<1>a. SUFFICES TabInv(t)' /\ \A s \in Tab \ {t} : Untouched(s)
  BY OneTab DEF CallInv
<1>b. Me \in Call /\ Req \subseteq Call /\ Me \notin Req
  BY SessionAssumption DEF Call
<1>c. refreshing[t] = {f} /\ f.waiters \subseteq Call
  BY <1>0 DEF TabInv, RefreshRec
<1>1. ASSUME NEW g, Replace(t, f, g), g.waiters = f.waiters,
             UNCHANGED <<call, view, applied>>
      PROVE  TabInv(t)' /\ \A s \in Tab \ {t} : Untouched(s)
  <2>1. refreshing'[t] = {g} /\ \A s \in Tab \ {t} : refreshing'[s] = refreshing[s]
    BY <1>0, <1>1, <1>c DEF Replace
  <2>2. QED
    BY <1>0, <1>1, <1>c, <2>1 DEF TabInv, Untouched
<1>2. CASE RefreshCheck(t, f) \/ LoseRefresh(t, f)
  <2>1. PICK p \in {"lost", "checked", "refused"} : Replace(t, f, [f EXCEPT !.pc = p])
    BY <1>2 DEF RefreshCheck, LoseRefresh
  <2>2. [f EXCEPT !.pc = p].waiters = f.waiters
    BY <1>0 DEF RefreshRec
  <2>3. QED
    BY <1>1, <1>2, <2>1, <2>2 DEF RefreshCheck, LoseRefresh, server
<1>3. CASE RefreshCommit(t, f)
  <2>1. /\ [f EXCEPT !.pc = "lost"].waiters = f.waiters
        /\ [f EXCEPT !.pc = "issued", !.issued = Len(pairs) + 1].waiters = f.waiters
    BY <1>0 DEF RefreshRec
  <2>2. QED
    BY <1>1, <1>3, <2>1 DEF RefreshCommit
<1>4. CASE RefreshResolve(t, f)
  <2>1. /\ UNCHANGED <<view, applied>>
        /\ call' = [call EXCEPT ![t] =
             [c \in Call |-> IF c \in f.waiters
                             THEN performRequest(f.issued, TRUE)
                             ELSE call[t][c]]]
        /\ refreshing' = [refreshing EXCEPT ![t] = @ \ {f}]
    BY <1>4 DEF RefreshResolve, server
  <2>2. refreshing'[t] = {} /\ \A s \in Tab \ {t} : refreshing'[s] = refreshing[s]
    BY <1>0, <1>c, <2>1
  <2>3. /\ \A c \in f.waiters : call'[t][c].pc = "sent"
        /\ \A c \in Call \ f.waiters : call'[t][c] = call[t][c]
        /\ \A s \in Tab \ {t} : call'[s] = call[s]
    BY <1>0, <1>c, <2>1 DEF performRequest
  <2>4. \A c \in f.waiters : call[t][c].pc = "waiting"
    BY <1>0 DEF TabInv
  <2>5. \A c \in Call : call[t][c].pc = "waiting" => c \in f.waiters
    BY <1>0, <1>c DEF TabInv
  <2>6. QED
    BY <1>0, <1>b, <1>c, <2>1, <2>2, <2>3, <2>4, <2>5 DEF TabInv, Untouched
<1>5. CASE RefreshReject(t, f)
  <2>1. /\ expireSession(t, f.waiters) /\ UNCHANGED applied
        /\ refreshing' = [refreshing EXCEPT ![t] =
             IF view[t] = "login" THEN @ \ {f} ELSE {}]
    BY <1>5 DEF RefreshReject, server
  <2>2. refreshing'[t] = {} /\ \A s \in Tab \ {t} : refreshing'[s] = refreshing[s]
    BY <1>0, <1>c, <2>1
  <2>3. /\ \A s \in Tab \ {t} : call'[s] = call[s] /\ view'[s] = view[s]
        /\ view'[t] = "login" /\ call'[t][Me].pc = "idle"
        /\ \A c \in f.waiters : call'[t][c].pc \in {"idle", "done"}
        /\ \A r \in Req : call'[t][r].pc \in {call[t][r].pc, "done"}
        /\ view[t] = "login" => \A c \in Call \ f.waiters : call'[t][c] = call[t][c]
        /\ view[t] # "login" => \A c \in Call : call'[t][c].pc \in {"idle", "done"}
    BY <1>0, <1>c, <2>1, ExpireCalls
  <2>4. \A c \in Call : call[t][c].pc = "waiting" => c \in f.waiters
    BY <1>0, <1>c DEF TabInv
  <2>5. \A c \in Call : call'[t][c].pc # "waiting"
    BY <2>3, <2>4
  <2>6. QED
    BY <1>0, <1>b, <2>1, <2>2, <2>3, <2>5 DEF TabInv, Untouched
<1>6. QED
  BY <1>2, <1>3, <1>4, <1>5

\* A new session marks the refreshes in flight and changes nothing else in them.
LEMMA NewSessionCalls ==
  ASSUME CallInv, NEW u, NewSession(u), UNCHANGED <<call, applied>>,
         NEW t \in Tab,
         view'[t] = view[t] \/ (call[t][Me].pc = "idle" /\ view'[t] = "login")
  PROVE  TabInv(t)'
<1>1. /\ refreshing'[t] = {[f EXCEPT !.stale = TRUE] : f \in refreshing[t]}
      /\ TabInv(t) /\ refreshing[t] \subseteq RefreshRec
  BY TypeParts DEF NewSession, CallInv, Types
<1>2. \A f \in RefreshRec : [f EXCEPT !.stale = TRUE].waiters = f.waiters
  BY DEF RefreshRec
<1>3. /\ \A f, g \in refreshing'[t] : f = g
      /\ \A f \in refreshing'[t] : \A c \in f.waiters : call[t][c].pc = "waiting"
      /\ \A c \in Call : call[t][c].pc = "waiting" => \E f \in refreshing'[t] : c \in f.waiters
  <2>1. CASE refreshing[t] = {}
    BY <1>1, <2>1 DEF TabInv
  <2>2. CASE refreshing[t] # {}
    <3>1. PICK f \in refreshing[t] : TRUE
      BY <2>2
    <3>2. refreshing[t] = {f} /\ f \in RefreshRec
      BY <1>1, <3>1 DEF TabInv
    <3>3. refreshing'[t] = {[f EXCEPT !.stale = TRUE]}
      BY <1>1, <3>2
    <3>4. [f EXCEPT !.stale = TRUE].waiters = f.waiters
      BY <1>2, <3>2
    <3>5. \A c \in Call : call[t][c].pc = "waiting" => c \in f.waiters
      BY <1>1, <3>2 DEF TabInv
    <3>6. \A c \in f.waiters : call[t][c].pc = "waiting"
      BY <1>1 DEF TabInv
    <3>7. QED
      BY <3>3, <3>4, <3>5, <3>6
  <2>3. QED
    BY <2>1, <2>2
<1>4. /\ view'[t] # "loading" => call[t][Me].pc = "idle"
      /\ call[t][Me].pc # "done"
  BY <1>1 DEF TabInv
<1>5. QED
  BY <1>1, <1>3, <1>4 DEF TabInv

\* The steps of the pages and of the server.
LEMMA PageStepCalls ==
  ASSUME CallInv, PageStep
  PROVE  (\A s \in Tab : TabInv(s))'
<1>0. /\ call \in [Tab -> [Call -> CallRec]]
      /\ view \in [Tab -> {"login", "loading", "dashboard"}]
      /\ \A s \in Tab : TabInv(s)
  BY TypeParts DEF CallInv, Types
<1>b. Me \in Call /\ Req \subseteq Call /\ Me \notin Req
  BY SessionAssumption DEF Call
<1>1. ASSUME NEW t \in Tab, NEW u \in User, login(t, u)
      PROVE  (\A s \in Tab : TabInv(s))'
  BY <1>1, NewSessionCalls DEF login
<1>2. ASSUME NEW t \in Tab, signup(t) PROVE (\A s \in Tab : TabInv(s))'
  BY <1>2, NewSessionCalls DEF signup, server
<1>3. ASSUME NEW t \in Tab, handleLogout(t) PROVE (\A s \in Tab : TabInv(s))'
  <2>1. /\ NewSession(NoUser) /\ UNCHANGED <<call, applied>>
        /\ view' = [view EXCEPT ![t] = "login"] /\ view[t] = "dashboard"
    BY <1>3 DEF handleLogout, server
  <2>2. call[t][Me].pc = "idle"
    BY <1>0, <2>1 DEF TabInv
  <2>3. QED
    BY <1>0, <2>1, <2>2, NewSessionCalls
<1>4. ASSUME NEW t \in Tab, OpenDashboard(t) PROVE (\A s \in Tab : TabInv(s))'
  <2>1. /\ view[t] = "login" /\ view' = [view EXCEPT ![t] = "loading"]
        /\ call' = [call EXCEPT ![t][Me] = performRequest(stored, FALSE)]
        /\ UNCHANGED <<applied, refreshing>>
    BY <1>4 DEF OpenDashboard, server
  <2>2. TabInv(t)' /\ \A s \in Tab \ {t} : Untouched(s)
    BY <1>0, <1>b, <2>1 DEF TabInv, Untouched, performRequest
  <2>3. QED
    BY <1>0, <2>2, OneTab
<1>5. ASSUME NEW u \in User, reset_password(u) \/ DisableUser(u)
      PROVE  (\A s \in Tab : TabInv(s))'
  BY <1>0, <1>5 DEF reset_password, DisableUser, TabInv
<1>6. QED
  BY <1>1, <1>2, <1>3, <1>4, <1>5 DEF PageStep

\* What a tab's calls and its refresh say of each other is an invariant.
THEOREM CallsHeld == Spec => []CallInv
<1>1. Init => CallInv
  BY InitType, InitCalls DEF CallInv
<1>2. ASSUME CallInv, [Next]_vars PROVE CallInv'
  <2>1. TypeOK'
    BY <1>2, NextStep, CallStepType, RefreshStepType, PageStepType, StutterType
       DEF CallInv
  <2>2. CASE Next
    BY <1>2, <2>1, <2>2, NextStep, CallStepCalls, RefreshStepCalls, PageStepCalls
       DEF CallInv
  <2>3. CASE UNCHANGED vars
    BY <1>2, <2>1, <2>3 DEF CallInv, TabInv, vars, server
  <2>4. QED
    BY <1>2, <2>2, <2>3
<1>3. QED
  BY <1>1, <1>2, PTL DEF Spec

\* A change is made at most once, however often its call is turned away,
\* waits for a refresh and is sent again.
THEOREM MadeAtMostOnce == Spec => []AppliedOnce
<1>1. CallInv => AppliedOnce
  BY DEF CallInv, TabInv, AppliedOnce
<1>2. QED
  BY <1>1, CallsHeld, PTL

\* A call that waits belongs to the one refresh of its tab.
THEOREM NoWaiterForgotten == Spec => []WaitersHeld
<1>1. ASSUME CallInv, NEW t \in Tab PROVE Cardinality(refreshing[t]) <= 1
  <2>1. CASE refreshing[t] = {}
    BY <2>1, FS_EmptySet
  <2>2. CASE refreshing[t] # {}
    <3>1. PICK f \in refreshing[t] : TRUE
      BY <2>2
    <3>2. refreshing[t] = {f}
      BY <1>1, <3>1 DEF CallInv, TabInv
    <3>3. Cardinality({f}) = 1
      BY FS_Singleton
    <3>4. QED
      BY <3>2, <3>3
  <2>3. QED
    BY <2>1, <2>2
<1>2. CallInv => WaitersHeld
  BY <1>1 DEF CallInv, TabInv, WaitersHeld
<1>3. QED
  BY <1>2, CallsHeld, PTL

-----------------------------------------------------------------------------
(* Whose session the browser holds *)

\* Unless a refresh has already stored a late answer, the stored pair and what
\* every refresh of the present session starts from and gets are the user's.
OwnerInv ==
  ~late =>
    /\ stored # 0 => pairs[stored].user = account
    /\ \A t \in Tab : \A f \in refreshing[t] :
         ~f.stale => /\ pairs[f.token].user = account
                     /\ f.pc = "issued" => f.issued # 0 /\ pairs[f.issued].user = account

\* The pairs there are keep their users, and those revoked stay so.
PairsKeep ==
  /\ Len(pairs') >= Len(pairs)
  /\ \A i \in 1 .. Len(pairs) : /\ pairs'[i].user = pairs[i].user
                                /\ pairs[i].revoked => pairs'[i].revoked

\* A new pair is of the user whose pair it replaces, or who signed in.
LEMMA PairsKept ==
  ASSUME TypeOK, [Next]_vars
  PROVE  PairsKeep
<1>1. pairs \in Seq(PairRec) /\ Len(pairs) \in Nat
  BY TypeParts DEF Types
<1>2. CASE UNCHANGED pairs
  BY <1>1, <1>2 DEF PairsKeep
<1>3. ASSUME NEW t \in Tab, NEW f \in refreshing[t], RefreshCommit(t, f),
             Len(pairs) # MaxPairs
      PROVE  PairsKeep
  <2> DEFINE q == [pairs EXCEPT ![f.token].revoked = TRUE]
             p == Pair(pairs[f.token].user)
  <2>1. f.token \in 1 .. Len(pairs)
    BY TypeParts DEF Types, RefreshRec, Id
  <2>2. /\ q \in Seq(PairRec) /\ Len(q) = Len(pairs)
        /\ \A j \in 1 .. Len(pairs) : q[j].user = pairs[j].user
                                      /\ (pairs[j].revoked => q[j].revoked)
    BY <1>1, <2>1, PairRevoked
  <2>3. p \in PairRec
    <3>1. pairs[f.token] \in PairRec
      BY <1>1, <2>1
    <3>2. QED
      BY <3>1 DEF Pair, PairRec
  <2>4. pairs' = Append(q, p)
    BY <1>3 DEF RefreshCommit
  <2> HIDE DEF q, p
  <2>5. QED
    BY <1>1, <2>2, <2>3, <2>4, PairsGrow DEF PairsKeep
<1>4. ASSUME NEW t \in Tab, NEW u \in User, login(t, u) PROVE PairsKeep
  <2>1. Pair(u) \in PairRec
    BY DEF Pair, PairRec
  <2>2. QED
    BY <1>1, <1>4, <2>1, PairsGrow DEF PairsKeep, login
<1>5. ASSUME NEW u \in User, reset_password(u) PROVE PairsKeep
  <2>1. pairs' = [i \in 1 .. Len(pairs) |->
                   [pairs[i] EXCEPT !.revoked = @ \/ pairs[i].user = u]]
    BY <1>1, <1>5 DEF reset_password
  <2>2. Len(pairs') = Len(pairs)
    BY <1>1, <2>1
  <2>3. \A i \in 1 .. Len(pairs) : /\ pairs'[i].user = pairs[i].user
                                   /\ pairs[i].revoked => pairs'[i].revoked
    <3>1. \A i \in 1 .. Len(pairs) : pairs[i] \in PairRec
      BY <1>1
    <3>2. QED
      BY <2>1, <3>1 DEF PairRec
  <2>4. QED
    BY <1>1, <2>2, <2>3 DEF PairsKeep
<1>6. CASE Next
  <2>1. ASSUME NEW t \in Tab, NEW c \in Call,
               CallStep(t, c) \/ LoseCall(t, c) \/ (c \in Req /\ Send(t, c))
        PROVE  UNCHANGED pairs
    BY <2>1 DEF CallStep, LoseCall, Send, Serve, TurnAway, Succeed, Fail, GiveUp,
       getRefreshedAccessToken, ShowDashboard, ShellCatch, server
  <2>2. ASSUME NEW t \in Tab, NEW f \in refreshing[t],
               \/ RefreshCheck(t, f) \/ RefreshCommit(t, f) \/ LoseRefresh(t, f)
               \/ RefreshResolve(t, f) \/ RefreshReject(t, f)
        PROVE  PairsKeep
    <3>1. CASE RefreshCommit(t, f)
      BY <1>2, <1>3, <3>1 DEF RefreshCommit
    <3>2. CASE ~RefreshCommit(t, f)
      BY <1>2, <2>2, <3>2
         DEF RefreshCheck, LoseRefresh, RefreshResolve, RefreshReject, server
    <3>3. QED
      BY <3>1, <3>2
  <2>3. ASSUME PageStep PROVE PairsKeep
    BY <1>2, <1>4, <1>5, <2>3
       DEF PageStep, signup, OpenDashboard, handleLogout, DisableUser, server
  <2>4. QED
    BY <1>2, <1>6, <2>1, <2>2, <2>3, NextStep
<1>7. QED
  BY <1>2, <1>6 DEF vars, server

\* A refresh goes on, or a new one begins with the stored token.
Continues(t, g) ==
  \/ \E f \in refreshing[t] :
       /\ g.token = f.token /\ g.stale = f.stale
       /\ g.pc = "issued" => f.pc = "issued" /\ g.issued = f.issued
  \/ stored # 0 /\ g.token = stored /\ g.pc = "sent"

\* Steps of which the user and the stored pair notice nothing but its removal.
LEMMA OwnerStays ==
  ASSUME TypeOK, OwnerInv, PairsKeep, UNCHANGED <<account, late>>,
         stored' \in {0, stored},
         \A t \in Tab : \A g \in refreshing'[t] : Continues(t, g)
  PROVE  OwnerInv'
<1>1. /\ \A t \in Tab : refreshing[t] \subseteq RefreshRec
      /\ stored \in Id /\ Len(pairs) \in Nat
  BY TypeParts DEF Types
<1>2. \A i \in Id : i # 0 => pairs'[i].user = pairs[i].user
  BY <1>1 DEF PairsKeep, Id
<1>3. \A t \in Tab : \A f \in refreshing[t] :
        f.token \in Id /\ f.token # 0 /\ f.issued \in Id
  BY <1>1 DEF RefreshRec
<1>4. ASSUME ~late, NEW t \in Tab, NEW g \in refreshing'[t], ~g.stale
      PROVE  /\ pairs'[g.token].user = account
             /\ g.pc = "issued" => g.issued # 0 /\ pairs'[g.issued].user = account
  BY <1>1, <1>2, <1>3, <1>4 DEF Continues, OwnerInv
<1>5. ~late /\ stored' # 0 => pairs'[stored'].user = account
  BY <1>1, <1>2 DEF OwnerInv
<1>6. QED
  BY <1>4, <1>5 DEF OwnerInv

\* The steps of a single call.
LEMMA CallStepOwner ==
  ASSUME TypeOK, OwnerInv, PairsKeep, NEW t \in Tab, NEW c \in Call,
         CallStep(t, c) \/ LoseCall(t, c) \/ (c \in Req /\ Send(t, c))
  PROVE  OwnerInv'
<1>1. \A s \in Tab : refreshing[s] \subseteq RefreshRec
  BY TypeParts DEF Types
<1>2. DOMAIN refreshing = Tab
  BY TypeParts DEF Types
<1>3. UNCHANGED <<account, late>> /\ stored' \in {0, stored}
  BY DEF CallStep, LoseCall, Send, Serve, TurnAway, Succeed, Fail, GiveUp,
     getRefreshedAccessToken, ShowDashboard, ShellCatch, server, history,
     expireSession, clearTokens
<1>4. CASE getRefreshedAccessToken(t, c)
  <2>1. \A f \in RefreshRec :
          LET g == [f EXCEPT !.waiters = @ \cup {c}]
          IN g.token = f.token /\ g.stale = f.stale /\ g.pc = f.pc /\ g.issued = f.issued
    BY DEF RefreshRec
  <2>2. CASE refreshing[t] # {}
    <3>1. /\ refreshing'[t] = {[f EXCEPT !.waiters = @ \cup {c}] : f \in refreshing[t]}
          /\ \A s \in Tab \ {t} : refreshing'[s] = refreshing[s]
      BY <1>2, <1>4, <2>2 DEF getRefreshedAccessToken
    <3>2. ASSUME NEW s \in Tab, NEW g \in refreshing'[s] PROVE Continues(s, g)
      <4>1. CASE s = t
        <5>1. PICK f \in refreshing[t] : g = [f EXCEPT !.waiters = @ \cup {c}]
          BY <3>1, <3>2, <4>1
        <5>2. /\ g.token = f.token /\ g.stale = f.stale /\ g.pc = f.pc
              /\ g.issued = f.issued
          BY <1>1, <2>1, <5>1
        <5>3. QED
          BY <4>1, <5>2 DEF Continues
      <4>2. CASE s # t
        BY <3>1, <3>2, <4>2 DEF Continues
      <4>3. QED
        BY <4>1, <4>2
    <3>3. QED
      BY <1>3, <3>2, OwnerStays
  <2>3. CASE refreshing[t] = {}
    <3>1. /\ refreshing'[t] = {[pc |-> "sent", token |-> stored, issued |-> 0,
                                waiters |-> {c}, stale |-> FALSE]}
          /\ stored # 0
          /\ \A s \in Tab \ {t} : refreshing'[s] = refreshing[s]
      BY <1>2, <1>4, <2>3 DEF getRefreshedAccessToken
    <3>2. \A s \in Tab : \A g \in refreshing'[s] : Continues(s, g)
      BY <3>1 DEF Continues
    <3>3. QED
      BY <1>3, <3>2, OwnerStays
  <2>4. QED
    BY <2>2, <2>3
<1>5. CASE ~getRefreshedAccessToken(t, c)
  <2>1. \A s \in Tab : refreshing'[s] \subseteq refreshing[s]
    BY <1>2, <1>5 DEF CallStep, LoseCall, Send, Serve, TurnAway, Succeed, Fail,
       GiveUp, ShowDashboard, ShellCatch
  <2>2. \A s \in Tab : \A g \in refreshing'[s] : Continues(s, g)
    BY <2>1 DEF Continues
  <2>3. QED
    BY <1>3, <2>2, OwnerStays
<1>6. QED
  BY <1>4, <1>5

\* The steps of a refresh.
LEMMA RefreshStepOwner ==
  ASSUME CallInv, OwnerInv, PairsKeep, NEW t \in Tab, NEW f \in refreshing[t],
         \/ RefreshCheck(t, f) \/ RefreshCommit(t, f) \/ LoseRefresh(t, f)
         \/ RefreshResolve(t, f) \/ RefreshReject(t, f)
  PROVE  OwnerInv'
<1>0. /\ TypeOK /\ DOMAIN refreshing = Tab
      /\ pairs \in Seq(PairRec) /\ Len(pairs) \in Nat
      /\ \A s \in Tab : refreshing[s] \subseteq RefreshRec
      /\ f \in RefreshRec
  BY TypeParts DEF CallInv, Types
<1>1. refreshing[t] = {f}
  BY DEF CallInv, TabInv
<1>2. CASE RefreshCheck(t, f) \/ LoseRefresh(t, f)
           \/ (RefreshCommit(t, f) /\ Len(pairs) = MaxPairs)
  <2>1. PICK p \in {"lost", "checked", "refused"} : Replace(t, f, [f EXCEPT !.pc = p])
    BY <1>2 DEF RefreshCheck, LoseRefresh, RefreshCommit
  <2> DEFINE g == [f EXCEPT !.pc = p]
  <2>2. g.token = f.token /\ g.stale = f.stale /\ g.pc # "issued"
    BY <1>0 DEF RefreshRec
  <2> HIDE DEF g
  <2>3. /\ refreshing'[t] = {g}
        /\ \A s \in Tab \ {t} : refreshing'[s] = refreshing[s]
    BY <1>0, <1>1, <2>1 DEF Replace, g
  <2>4. \A s \in Tab : \A h \in refreshing'[s] : Continues(s, h)
    BY <2>2, <2>3 DEF Continues
  <2>5. UNCHANGED <<account, late, stored>>
    BY <1>2 DEF RefreshCheck, LoseRefresh, RefreshCommit, history
  <2>6. QED
    BY <1>0, <2>4, <2>5, OwnerStays
<1>3. CASE RefreshCommit(t, f) /\ Len(pairs) # MaxPairs
  <2> DEFINE g == [f EXCEPT !.pc = "issued", !.issued = Len(pairs) + 1]
             q == [pairs EXCEPT ![f.token].revoked = TRUE]
             p == Pair(pairs[f.token].user)
  <2>1. g.token = f.token /\ g.stale = f.stale /\ g.issued = Len(pairs) + 1
    BY <1>0 DEF RefreshRec
  <2>2. f.token \in 1 .. Len(pairs)
    BY <1>0 DEF RefreshRec, Id
  <2>3. q \in Seq(PairRec) /\ Len(q) = Len(pairs)
    BY <1>0, <2>2, PairRevoked
  <2>4. p \in PairRec /\ p.user = pairs[f.token].user
    <3>1. pairs[f.token] \in PairRec
      BY <1>0, <2>2
    <3>2. QED
      BY <3>1 DEF Pair, PairRec
  <2>5. pairs' = Append(q, p) /\ Replace(t, f, g)
        /\ UNCHANGED <<account, late, stored>>
    BY <1>3 DEF RefreshCommit, history
  <2> HIDE DEF g, q, p
  <2>6. pairs'[Len(pairs) + 1] = p
    BY <2>3, <2>4, <2>5, PairsGrow
  <2>7. /\ refreshing'[t] = {g}
        /\ \A s \in Tab \ {t} : refreshing'[s] = refreshing[s]
    BY <1>0, <1>1, <2>5 DEF Replace
  <2>8. \A i \in 1 .. Len(pairs) : pairs'[i].user = pairs[i].user
    BY DEF PairsKeep
  <2>9. ASSUME ~late, ~g.stale
        PROVE  /\ pairs'[g.token].user = account
               /\ g.issued # 0 /\ pairs'[g.issued].user = account
    <3>1. pairs[f.token].user = account
      BY <2>1, <2>9 DEF OwnerInv
    <3>2. QED
      BY <1>0, <2>1, <2>2, <2>4, <2>6, <2>8, <3>1
  <2>10. ASSUME ~late, NEW s \in Tab \ {t}, NEW h \in refreshing'[s], ~h.stale
         PROVE  /\ pairs'[h.token].user = account
                /\ h.pc = "issued" => h.issued # 0 /\ pairs'[h.issued].user = account
    <3>1. h \in refreshing[s] /\ h.token \in 1 .. Len(pairs) /\ h.issued \in 0 .. Len(pairs)
      BY <1>0, <2>7, <2>10 DEF RefreshRec, Id
    <3>2. QED
      BY <1>0, <2>8, <2>10, <3>1 DEF OwnerInv
  <2>11. ~late /\ stored # 0 => pairs'[stored].user = account
    <3>1. stored \in 0 .. Len(pairs)
      BY <1>0, TypeParts DEF Types, Id
    <3>2. QED
      BY <1>0, <2>8, <3>1 DEF OwnerInv
  <2>12. QED
    BY <2>5, <2>7, <2>9, <2>10, <2>11 DEF OwnerInv
<1>4. CASE RefreshResolve(t, f)
  <2>1. /\ stored' = f.issued /\ late' = (late \/ f.stale)
        /\ f.pc = "issued"
        /\ UNCHANGED <<pairs, account>>
        /\ \A s \in Tab : refreshing'[s] \subseteq refreshing[s]
    BY <1>0, <1>4 DEF RefreshResolve, saveTokens, server
  <2>2. QED
    BY <2>1 DEF OwnerInv
<1>5. CASE RefreshReject(t, f)
  <2>1. UNCHANGED <<account, late>> /\ stored' = 0
        /\ \A s \in Tab : refreshing'[s] \subseteq refreshing[s]
    BY <1>0, <1>5 DEF RefreshReject, expireSession, clearTokens, history
  <2>2. \A s \in Tab : \A g \in refreshing'[s] : Continues(s, g)
    BY <2>1 DEF Continues
  <2>3. QED
    BY <1>0, <2>1, <2>2, OwnerStays
<1>6. QED
  BY <1>2, <1>3, <1>4, <1>5

\* The steps of the pages and of the server.
LEMMA PageStepOwner ==
  ASSUME TypeOK, OwnerInv, PairsKeep, PageStep
  PROVE  OwnerInv'
<1>0. /\ pairs \in Seq(PairRec) /\ Len(pairs) \in Nat
      /\ \A s \in Tab : refreshing[s] \subseteq RefreshRec
  BY TypeParts DEF Types
<1>1. \A f \in RefreshRec : [f EXCEPT !.stale = TRUE].stale
  BY DEF RefreshRec
<1>2. ASSUME NEW u, NewSession(u)
      PROVE  \A t \in Tab : \A g \in refreshing'[t] : g.stale
  BY <1>0, <1>1, <1>2 DEF NewSession
<1>3. ASSUME NEW t \in Tab, NEW u \in User, login(t, u) PROVE OwnerInv'
  <2>1. Pair(u) \in PairRec
    BY DEF Pair, PairRec
  <2>2. pairs'[Len(pairs) + 1] = Pair(u)
    BY <1>0, <1>3, <2>1, PairsGrow DEF login
  <2>3. stored' = Len(pairs) + 1 /\ account' = u /\ NewSession(u)
    BY <1>3 DEF login, saveTokens, NewSession
  <2>4. Pair(u).user = u
    BY DEF Pair
  <2>5. QED
    BY <1>2, <2>2, <2>3, <2>4 DEF OwnerInv
<1>4. ASSUME NEW t \in Tab, signup(t) \/ handleLogout(t) PROVE OwnerInv'
  <2>1. stored' = 0 /\ (\E u : NewSession(u))
    BY <1>4 DEF signup, handleLogout, clearTokens
  <2>2. QED
    BY <1>2, <2>1 DEF OwnerInv
<1>5. ASSUME UNCHANGED <<stored, refreshing, account, late>> PROVE OwnerInv'
  <2>1. \A s \in Tab : \A g \in refreshing'[s] : Continues(s, g)
    BY <1>5 DEF Continues
  <2>2. QED
    BY <1>5, <2>1, OwnerStays
<1>6. ASSUME NEW t \in Tab, OpenDashboard(t) PROVE OwnerInv'
  BY <1>5, <1>6 DEF OpenDashboard, history
<1>7. ASSUME NEW u \in User, reset_password(u) \/ DisableUser(u) PROVE OwnerInv'
  BY <1>5, <1>7 DEF reset_password, DisableUser, history
<1>8. QED
  BY <1>3, <1>4, <1>6, <1>7 DEF PageStep

\* The invariant behind StoredFollowsLogin is one.
THEOREM OwnerKnown == Spec => [](CallInv /\ OwnerInv)
<1>1. Init => OwnerInv
  BY DEF Init, OwnerInv
<1>2. ASSUME CallInv, OwnerInv, [Next]_vars PROVE OwnerInv'
  <2>1. TypeOK /\ PairsKeep
    BY <1>2, PairsKept DEF CallInv
  <2>2. CASE Next
    BY <1>2, <2>1, <2>2, NextStep, CallStepOwner, RefreshStepOwner, PageStepOwner
  <2>3. CASE UNCHANGED vars
    BY <1>2, <2>3 DEF OwnerInv, vars, server, history
  <2>4. QED
    BY <1>2, <2>2, <2>3
<1>3. QED
  BY <1>1, <1>2, CallsHeld, PTL DEF Spec

\* The browser holds the session of the account that signed in last, unless a
\* refresh begun before has stored its answer since.
THEOREM OwnSession == Spec => []StoredFollowsLogin
<1>1. OwnerInv => StoredFollowsLogin
  BY DEF OwnerInv, StoredFollowsLogin
<1>2. QED
  BY <1>1, OwnerKnown, PTL

-----------------------------------------------------------------------------
(* What ends a session the server honours *)

\* A refused refresh had a token that is honoured no more; while what a tab
\* stored itself is still there, its refresh is one of just that token; and a
\* call that was turned away a second time was one of a disabled account.
CauseInv ==
  /\ \A t \in Tab : \A f \in refreshing[t] :
       /\ f.pc = "refused" => ~Honoured(f.token)
       /\ f.pc = "issued" => f.issued # 0
       /\ saver = t /\ stored # 0 => f.token = stored
  /\ \A t \in Tab, c \in Call :
       call[t][c].retried =>
         /\ call[t][c].pc = "sent" => call[t][c].token # 0
         /\ call[t][c].pc = "unauthorized" => enabled # User

\* No account becomes active again.
LEMMA EnabledShrinks ==
  ASSUME [Next]_vars
  PROVE  enabled' \subseteq enabled
<1>1. ASSUME NEW t \in Tab, NEW c \in Call,
             CallStep(t, c) \/ LoseCall(t, c) \/ (c \in Req /\ Send(t, c))
      PROVE  UNCHANGED enabled
  BY <1>1 DEF CallStep, LoseCall, Send, Serve, TurnAway, Succeed, Fail, GiveUp,
     getRefreshedAccessToken, ShowDashboard, ShellCatch, server
<1>2. ASSUME NEW t \in Tab, NEW f \in refreshing[t],
             \/ RefreshCheck(t, f) \/ RefreshCommit(t, f) \/ LoseRefresh(t, f)
             \/ RefreshResolve(t, f) \/ RefreshReject(t, f)
      PROVE  UNCHANGED enabled
  BY <1>2 DEF RefreshCheck, RefreshCommit, LoseRefresh, RefreshResolve,
     RefreshReject, server
<1>3. ASSUME PageStep PROVE enabled' \subseteq enabled
  BY <1>3 DEF PageStep, login, signup, OpenDashboard, handleLogout,
     reset_password, DisableUser, server
<1>4. QED
  BY <1>1, <1>2, <1>3, NextStep DEF vars, server

\* A token that is not honoured never is again.
LEMMA HonouredNever ==
  ASSUME TypeOK, [Next]_vars, NEW i \in Id, ~Honoured(i)
  PROVE  ~Honoured(i)'
<1>1. PairsKeep
  BY PairsKept
<1>2. enabled' \subseteq enabled
  BY EnabledShrinks
<1>3. Len(pairs) \in Nat
  BY TypeParts DEF Types
<1>4. QED
  BY <1>1, <1>2, <1>3 DEF PairsKeep, Honoured, Id

\* What CauseInv says of a refresh and of a call.
RefreshCause(t, f) ==
  /\ f.pc = "refused" => ~Honoured(f.token)
  /\ f.pc = "issued" => f.issued # 0
  /\ saver = t /\ stored # 0 => f.token = stored

CallCause(x) ==
  x.retried => /\ x.pc = "sent" => x.token # 0
               /\ x.pc = "unauthorized" => enabled # User

\* The invariant, by these names.
LEMMA CauseParts ==
  CauseInv <=> /\ \A t \in Tab : \A f \in refreshing[t] : RefreshCause(t, f)
               /\ \A t \in Tab, c \in Call : CallCause(call[t][c])
BY DEF CauseInv, RefreshCause, CallCause

\* A refresh that goes on, refused or issued no more than before, keeps its
\* cause while the stored token stays, goes, or is another tab's.
LEMMA RefreshKeeps ==
  ASSUME TypeOK, CauseInv, [Next]_vars, NEW t \in Tab, NEW f \in refreshing[t],
         NEW g, g.token = f.token, g.pc = f.pc, g.issued = f.issued,
         \/ saver' = saver /\ stored' = stored
         \/ stored' = 0
         \/ saver' # t
  PROVE  RefreshCause(t, g)'
<1>1. f.token \in Id
  BY TypeParts DEF Types, RefreshRec
<1>2. ~Honoured(f.token) => ~Honoured(f.token)'
  BY <1>1, HonouredNever
<1>3. RefreshCause(t, f)
  BY CauseParts
<1>4. g.pc = "refused" => ~(Honoured(g.token)')
  BY <1>2, <1>3 DEF RefreshCause
<1>5. Honoured(g.token)' <=> (g.token # 0 /\ ~pairs'[g.token].revoked
                              /\ pairs'[g.token].user \in enabled')
  BY DEF Honoured
<1>6. QED
  BY <1>3, <1>4, <1>5 DEF RefreshCause, Honoured

\* The steps of a single call.
LEMMA CallStepCause ==
  ASSUME CallInv, CauseInv, Next, NEW t \in Tab, NEW c \in Call,
         CallStep(t, c) \/ LoseCall(t, c) \/ (c \in Req /\ Send(t, c))
  PROVE  CauseInv'
<1>0. /\ call \in [Tab -> [Call -> CallRec]]
      /\ DOMAIN refreshing = Tab
      /\ \A s \in Tab : refreshing[s] \subseteq RefreshRec
      /\ TypeOK /\ [Next]_vars
  BY TypeParts DEF CallInv, Types
<1>1. \/ saver' = saver /\ stored' = stored
      \/ stored' = 0
  BY DEF CallStep, LoseCall, Send, Serve, TurnAway, Succeed, Fail, GiveUp,
     getRefreshedAccessToken, ShowDashboard, ShellCatch, expireSession, clearTokens
<1>2. ASSUME NEW s \in Tab, NEW g \in refreshing'[s] PROVE RefreshCause(s, g)'
  <2>1. CASE \E f \in refreshing[s] : g.token = f.token /\ g.pc = f.pc /\ g.issued = f.issued
    BY <1>0, <1>1, <2>1, RefreshKeeps
  <2>2. CASE getRefreshedAccessToken(t, c) /\ refreshing[t] # {}
    <3>1. CASE s = t
      <4>1. PICK f \in refreshing[t] : g = [f EXCEPT !.waiters = @ \cup {c}]
        BY <1>0, <1>2, <2>2, <3>1 DEF getRefreshedAccessToken
      <4>2. g.token = f.token /\ g.pc = f.pc /\ g.issued = f.issued
        BY <1>0, <4>1 DEF RefreshRec
      <4>3. QED
        BY <2>1, <3>1, <4>2
    <3>2. CASE s # t
      <4>1. g \in refreshing[s]
        BY <1>0, <1>2, <2>2, <3>2 DEF getRefreshedAccessToken
      <4>2. QED
        BY <2>1, <4>1
    <3>3. QED
      BY <3>1, <3>2
  <2>3. CASE getRefreshedAccessToken(t, c) /\ refreshing[t] = {}
    <3>1. CASE s = t
      <4>1. g = [pc |-> "sent", token |-> stored, issued |-> 0,
                 waiters |-> {c}, stale |-> FALSE] /\ UNCHANGED stored
        BY <1>0, <1>2, <2>3, <3>1 DEF getRefreshedAccessToken
      <4>2. QED
        BY <4>1 DEF RefreshCause
    <3>2. CASE s # t
      <4>1. g \in refreshing[s]
        BY <1>0, <1>2, <2>3, <3>2 DEF getRefreshedAccessToken
      <4>2. QED
        BY <2>1, <4>1
    <3>3. QED
      BY <3>1, <3>2
  <2>4. CASE ~getRefreshedAccessToken(t, c)
    <3>1. refreshing'[s] \subseteq refreshing[s]
      BY <1>0, <2>4 DEF CallStep, LoseCall, Send, Serve, TurnAway, Succeed, Fail,
         GiveUp, ShowDashboard, ShellCatch
    <3>2. QED
      BY <1>2, <2>1, <3>1
  <2>5. QED
    BY <2>2, <2>3, <2>4
<1>3. ASSUME NEW s \in Tab, NEW d \in Call PROVE CallCause(call[s][d])'
  <2>0. CallCause(call[s][d]) /\ UNCHANGED enabled
    BY CauseParts DEF CallStep, LoseCall, Send, Serve, TurnAway, Succeed, Fail,
       GiveUp, getRefreshedAccessToken, ShowDashboard, ShellCatch, server
  <2>1. CASE call'[s][d] = call[s][d]
    BY <2>0, <2>1 DEF CallCause
  <2>2. CASE ~call'[s][d].retried
    BY <2>2 DEF CallCause
  <2>3. CASE TurnAway(t, c) /\ s = t /\ d = c
    <3>1. /\ call'[t][c] = [call[t][c] EXCEPT !.pc = "unauthorized", !.token = 0]
          /\ call[t][c].pc = "sent"
          /\ Accepted(call[t][c].token) => ~call[t][c].retried
      BY <1>0, <2>3 DEF TurnAway
    <3>2. call'[t][c].pc = "unauthorized" /\ call'[t][c].retried = call[t][c].retried
      BY <1>0, <3>1 DEF CallRec
    <3>3. call[t][c].token \in Id /\ pairs \in Seq(PairRec)
      BY <1>0, TypeParts DEF Types, CallRec
    <3>4. ASSUME call[t][c].retried PROVE enabled # User
      <4>1. call[t][c].token # 0
        BY <2>0, <2>3, <3>1, <3>4 DEF CallCause
      <4>2. pairs[call[t][c].token].user \in User
        <5>1. call[t][c].token \in 1 .. Len(pairs)
          BY <3>3, <4>1 DEF Id
        <5>2. pairs[call[t][c].token] \in PairRec
          BY <3>3, <5>1
        <5>3. QED
          BY <5>2 DEF PairRec
      <4>3. QED
        BY <3>1, <3>4, <4>1, <4>2 DEF Accepted
    <3>5. QED
      BY <2>0, <2>3, <3>2, <3>4 DEF CallCause
  <2>4. CASE ~TurnAway(t, c)
    <3>1. ASSUME expireSession(t, {c})
          PROVE  call'[s][d] = call[s][d] \/ ~call'[s][d].retried
      BY <1>0, <3>1 DEF expireSession, Failed, BusyCalls, Idle, At
    <3>2. QED
      BY <1>0, <2>1, <2>2, <2>4, <3>1
         DEF CallStep, LoseCall, Send, Serve, Succeed, Fail, GiveUp, performRequest,
             getRefreshedAccessToken, ShowDashboard, ShellCatch, At, Idle
  <2>5. CASE TurnAway(t, c) /\ ~(s = t /\ d = c)
    BY <1>0, <2>1, <2>5 DEF TurnAway
  <2>6. QED
    BY <2>3, <2>4, <2>5
<1>4. QED
  <2>1. (\A s \in Tab : \A g \in refreshing[s] : RefreshCause(s, g))'
    BY <1>2
  <2>2. (\A s \in Tab, d \in Call : CallCause(call[s][d]))'
    BY <1>3
  <2>3. QED
    BY <2>1, <2>2 DEF CauseInv, RefreshCause, CallCause

\* The steps of a refresh.
LEMMA RefreshStepCause ==
  ASSUME CallInv, CauseInv, Next, NEW t \in Tab, NEW f \in refreshing[t],
         \/ RefreshCheck(t, f) \/ RefreshCommit(t, f) \/ LoseRefresh(t, f)
         \/ RefreshResolve(t, f) \/ RefreshReject(t, f)
  PROVE  CauseInv'
<1>0. /\ call \in [Tab -> [Call -> CallRec]]
      /\ DOMAIN refreshing = Tab /\ Len(pairs) \in Nat
      /\ f \in RefreshRec
      /\ TypeOK /\ [Next]_vars
      /\ refreshing[t] = {f}
      /\ RefreshCause(t, f)
      /\ \A s \in Tab, c \in Call : CallCause(call[s][c])
  BY TypeParts, CauseParts DEF CallInv, TabInv, Types
<1>1. UNCHANGED enabled
  BY DEF RefreshCheck, RefreshCommit, LoseRefresh, RefreshResolve, RefreshReject, server
<1>2. ASSUME \A s \in Tab : \A g \in refreshing'[s] : RefreshCause(s, g)',
             \A s \in Tab, c \in Call : call'[s][c] = call[s][c] \/ ~call'[s][c].retried
                                        \/ CallCause(call[s][c])'
      PROVE  CauseInv'
  BY <1>0, <1>1, <1>2 DEF CauseInv, RefreshCause, CallCause
<1>3. CASE RefreshCheck(t, f) \/ RefreshCommit(t, f) \/ LoseRefresh(t, f)
  <2>1. UNCHANGED <<stored, saver, call>>
    BY <1>3 DEF RefreshCheck, RefreshCommit, LoseRefresh
  <2>2. PICK g : /\ Replace(t, f, g) /\ g.token = f.token
                 /\ g.pc = "issued" => g.issued # 0
                 /\ g.pc = "refused" => ~Honoured(f.token)'
    <3>1. CASE RefreshCheck(t, f)
      <4>1. PICK p \in {"lost", "checked", "refused"} :
              /\ Replace(t, f, [f EXCEPT !.pc = p])
              /\ p = "refused" => ~Honoured(f.token)
              /\ UNCHANGED <<pairs, enabled>>
        BY <3>1 DEF RefreshCheck, server
      <4>2. /\ [f EXCEPT !.pc = p].token = f.token
            /\ [f EXCEPT !.pc = p].pc = p
        BY <1>0 DEF RefreshRec
      <4>3. p = "refused" => ~Honoured(f.token)'
        BY <4>1 DEF Honoured
      <4>4. QED
        BY <4>1, <4>2, <4>3
    <3>2. CASE LoseRefresh(t, f) \/ (RefreshCommit(t, f) /\ Len(pairs) = MaxPairs)
      <4>1. Replace(t, f, [f EXCEPT !.pc = "lost"])
        BY <3>2 DEF LoseRefresh, RefreshCommit
      <4>2. /\ [f EXCEPT !.pc = "lost"].token = f.token
            /\ [f EXCEPT !.pc = "lost"].pc = "lost"
        BY <1>0 DEF RefreshRec
      <4>3. QED
        BY <4>1, <4>2
    <3>3. CASE RefreshCommit(t, f) /\ Len(pairs) # MaxPairs
      <4> DEFINE h == [f EXCEPT !.pc = "issued", !.issued = Len(pairs) + 1]
      <4>1. Replace(t, f, h)
        BY <3>3 DEF RefreshCommit
      <4>2. h.token = f.token /\ h.pc = "issued" /\ h.issued = Len(pairs) + 1
        BY <1>0 DEF RefreshRec
      <4>3. h.issued # 0
        BY <1>0, <4>2
      <4> HIDE DEF h
      <4>4. QED
        BY <4>1, <4>2, <4>3
    <3>4. QED
      BY <1>3, <3>1, <3>2, <3>3
  <2>3. /\ refreshing'[t] = {g}
        /\ \A s \in Tab \ {t} : refreshing'[s] = refreshing[s]
    BY <1>0, <2>2 DEF Replace
  <2>4. RefreshCause(t, g)'
    <3>1. (Honoured(g.token)') <=> (Honoured(f.token)')
      BY <2>2 DEF Honoured
    <3>2. saver' = t /\ stored' # 0 => g.token = stored'
      BY <1>0, <2>1, <2>2 DEF RefreshCause
    <3>3. QED
      BY <2>2, <3>1, <3>2 DEF RefreshCause, Honoured
  <2>5. ASSUME NEW s \in Tab \ {t}, NEW h \in refreshing'[s] PROVE RefreshCause(s, h)'
    <3>1. h \in refreshing[s]
      BY <2>3, <2>5
    <3>2. QED
      BY <1>0, <2>1, <3>1, RefreshKeeps
  <2>6. QED
    BY <1>2, <2>1, <2>3, <2>4, <2>5
<1>4. CASE RefreshResolve(t, f)
  <2>1. /\ f.pc = "issued" /\ f.issued # 0 /\ saver' = t
        /\ refreshing'[t] = {}
        /\ \A s \in Tab \ {t} : refreshing'[s] = refreshing[s]
    BY <1>0, <1>4 DEF RefreshResolve, saveTokens, RefreshCause
  <2>2. ASSUME NEW s \in Tab, NEW h \in refreshing'[s] PROVE RefreshCause(s, h)'
    <3>1. s # t /\ h \in refreshing[s]
      BY <2>1, <2>2
    <3>2. QED
      BY <1>0, <2>1, <3>1, RefreshKeeps
  <2>3. ASSUME NEW s \in Tab, NEW c \in Call
        PROVE  call'[s][c] = call[s][c] \/ CallCause(call[s][c])'
    BY <1>0, <1>4, <2>1 DEF RefreshResolve, performRequest, CallCause
  <2>4. QED
    BY <1>2, <2>2, <2>3
<1>5. CASE RefreshReject(t, f)
  <2>1. /\ expireSession(t, f.waiters) /\ stored' = 0
        /\ \A s \in Tab : refreshing'[s] \subseteq refreshing[s]
    BY <1>0, <1>5 DEF RefreshReject, expireSession, clearTokens
  <2>2. ASSUME NEW s \in Tab, NEW h \in refreshing'[s] PROVE RefreshCause(s, h)'
    <3>1. h \in refreshing[s]
      BY <2>1, <2>2
    <3>2. QED
      BY <1>0, <2>1, <3>1, RefreshKeeps
  <2>3. ASSUME NEW s \in Tab, NEW c \in Call
        PROVE  call'[s][c] = call[s][c] \/ ~call'[s][c].retried
    BY <1>0, <2>1 DEF expireSession, Failed, BusyCalls, Idle, At
  <2>4. QED
    BY <1>2, <2>2, <2>3
<1>6. QED
  BY <1>3, <1>4, <1>5

\* A new session changes no token of a refresh.
LEMMA NewSessionCause ==
  ASSUME CallInv, CauseInv, Next, NEW u, NewSession(u),
         stored' = 0 \/ saver' = NoTab,
         NEW t \in Tab, NEW g \in refreshing'[t]
  PROVE  RefreshCause(t, g)'
<1>1. PICK f \in refreshing[t] : g = [f EXCEPT !.stale = TRUE]
  BY TypeParts DEF NewSession, CallInv, Types
<1>2. f \in RefreshRec /\ TypeOK /\ [Next]_vars
  BY <1>1, TypeParts DEF CallInv, Types
<1>3. g.token = f.token /\ g.pc = f.pc /\ g.issued = f.issued
  BY <1>1, <1>2 DEF RefreshRec
<1>4. NoTab # t
  BY SessionAssumption
<1>5. QED
  BY <1>2, <1>3, <1>4, RefreshKeeps

\* The steps of the pages and of the server.
LEMMA PageStepCause ==
  ASSUME CallInv, CauseInv, Next, PageStep
  PROVE  CauseInv'
<1>0. /\ call \in [Tab -> [Call -> CallRec]]
      /\ TypeOK /\ [Next]_vars
      /\ \A s \in Tab, c \in Call : CallCause(call[s][c])
      /\ enabled' \subseteq enabled /\ enabled \subseteq User
  BY TypeParts, CauseParts, EnabledShrinks DEF CallInv, Types
<1>1. ASSUME \A s \in Tab : \A g \in refreshing'[s] : RefreshCause(s, g)',
             \A s \in Tab, c \in Call : call'[s][c] = call[s][c] \/ ~call'[s][c].retried
      PROVE  CauseInv'
  <2>1. enabled # User => enabled' # User
    BY <1>0
  <2>2. ASSUME NEW s \in Tab, NEW c \in Call PROVE CallCause(call[s][c])'
    BY <1>0, <1>1, <2>1 DEF CallCause
  <2>3. QED
    BY <1>1, <2>2 DEF CauseInv, RefreshCause, CallCause
<1>2. ASSUME NEW u, NewSession(u), stored' = 0 \/ saver' = NoTab, UNCHANGED call
      PROVE  CauseInv'
  <2>1. ASSUME NEW s \in Tab, NEW g \in refreshing'[s] PROVE RefreshCause(s, g)'
    BY <1>2, <2>1, NewSessionCause
  <2>2. QED
    BY <1>1, <1>2, <2>1
<1>3. ASSUME UNCHANGED <<stored, saver, refreshing>>,
             \A s \in Tab, c \in Call : call'[s][c] = call[s][c] \/ ~call'[s][c].retried
      PROVE  CauseInv'
  <2>1. ASSUME NEW s \in Tab, NEW g \in refreshing'[s] PROVE RefreshCause(s, g)'
    BY <1>0, <1>3, <2>1, RefreshKeeps
  <2>2. QED
    BY <1>1, <1>3, <2>1
<1>4. ASSUME NEW t \in Tab, NEW u \in User, login(t, u) PROVE CauseInv'
  BY <1>2, <1>4 DEF login, saveTokens
<1>5. ASSUME NEW t \in Tab, signup(t) \/ handleLogout(t) PROVE CauseInv'
  BY <1>2, <1>5 DEF signup, handleLogout, clearTokens
<1>6. ASSUME NEW t \in Tab, OpenDashboard(t) PROVE CauseInv'
  <2>1. \A s \in Tab, c \in Call : call'[s][c] = call[s][c] \/ ~call'[s][c].retried
    BY <1>0, <1>6 DEF OpenDashboard, performRequest
  <2>2. QED
    BY <1>3, <1>6, <2>1 DEF OpenDashboard
<1>7. ASSUME NEW u \in User, reset_password(u) \/ DisableUser(u) PROVE CauseInv'
  BY <1>3, <1>7 DEF reset_password, DisableUser
<1>8. QED
  BY <1>4, <1>5, <1>6, <1>7 DEF PageStep

\* The invariant behind ExpiredForCause is one.
THEOREM CauseKnown == Spec => [](CallInv /\ CauseInv)
<1>1. Init => CauseInv
  BY SessionAssumption DEF Init, CauseInv, Idle, At, Call
<1>2. ASSUME CallInv, CauseInv, [Next]_vars PROVE CauseInv'
  <2>1. CASE Next
    BY <1>2, <2>1, NextStep, CallStepCause, RefreshStepCause, PageStepCause
  <2>2. CASE UNCHANGED vars
    BY <1>2, <2>2 DEF CauseInv, Honoured, vars, server, history
  <2>3. QED
    BY <1>2, <2>1, <2>2
<1>3. QED
  BY <1>1, <1>2, CallsHeld, PTL DEF Spec

\* A session the server honours is ended only by a sign-out or a sign-up, by a
\* call or a refresh without an answer, by a call of a disabled account, or by
\* a refresh whose token another tab or a sign-in has replaced since.
THEOREM SessionEndsForCause == Spec => ExpiredForCause
<1> DEFINE Cause ==
      \E t \in Tab :
         \/ handleLogout(t) \/ signup(t)
         \/ call[t][Me].pc = "lost"
         \/ enabled # User /\ \E c \in Call : GiveUp(t, c) /\ call[t][c].retried
         \/ \E f \in refreshing[t] \ refreshing'[t] :
              \/ f.pc = "lost"
              \/ f.pc = "refused" /\ f.token # stored /\ saver # t
<1>1. ASSUME CallInv, CauseInv, [Next]_vars, stored # 0, stored' = 0, Honoured(stored)
      PROVE  Cause
  <2>0. Next
    BY <1>1 DEF vars
  <2>1. ASSUME NEW t \in Tab, NEW c \in Call,
               CallStep(t, c) \/ LoseCall(t, c) \/ (c \in Req /\ Send(t, c))
        PROVE  Cause
    <3>1. GiveUp(t, c) \/ ShellCatch(t)
      BY <1>1, <2>1 DEF CallStep, LoseCall, Send, Serve, TurnAway, Succeed, Fail,
         getRefreshedAccessToken, ShowDashboard
    <3>2. CASE ShellCatch(t)
      BY <3>2 DEF ShellCatch
    <3>3. CASE GiveUp(t, c)
      <4>1. call[t][c].retried /\ call[t][c].pc = "unauthorized"
        BY <1>1, <3>3 DEF GiveUp
      <4>2. enabled # User
        BY <1>1, <4>1 DEF CauseInv
      <4>3. QED
        BY <3>3, <4>1, <4>2
    <3>4. QED
      BY <3>1, <3>2, <3>3
  <2>2. ASSUME NEW t \in Tab, NEW f \in refreshing[t],
               \/ RefreshCheck(t, f) \/ RefreshCommit(t, f) \/ LoseRefresh(t, f)
               \/ RefreshResolve(t, f) \/ RefreshReject(t, f)
        PROVE  Cause
    <3>1. f.pc = "issued" => f.issued # 0
      BY <1>1 DEF CauseInv
    <3>2. RefreshReject(t, f)
      BY <1>1, <2>2, <3>1 DEF RefreshCheck, RefreshCommit, LoseRefresh, RefreshResolve,
         saveTokens
    <3>3. f \in refreshing[t] \ refreshing'[t]
      BY <1>1, <3>2, TypeParts DEF RefreshReject, CallInv, Types
    <3>4. f.pc = "refused" => f.token # stored /\ saver # t
      BY <1>1 DEF CauseInv
    <3>5. f.pc \in {"refused", "lost"}
      BY <3>2 DEF RefreshReject
    <3>6. QED
      BY <3>3, <3>4, <3>5
  <2>3. ASSUME PageStep PROVE Cause
    <3>1. Len(pairs) + 1 # 0
      BY <1>1, TypeParts DEF CallInv, Types
    <3>2. QED
      BY <1>1, <2>3, <3>1 DEF PageStep, login, saveTokens, OpenDashboard,
         reset_password, DisableUser
  <2>4. QED
    BY <2>0, <2>1, <2>2, <2>3, NextStep
<1>2. ASSUME CallInv, CauseInv, [Next]_vars
      PROVE  [stored # 0 /\ stored' = 0 /\ Honoured(stored) => Cause]_vars
  BY <1>1, <1>2
<1>3. QED
  BY <1>2, CauseKnown, PTL DEF Spec, ExpiredForCause
=============================================================================
