------------------------------ MODULE Session ------------------------------
(***************************************************************************)
(* The browser's session with the API: tabs that share one localStorage,    *)
(* requests that refresh an expired access token and are sent once more,    *)
(* the dashboard shell, sign-in and sign-out, and the server that issues,   *)
(* rotates and revokes token pairs.  A pair is the access token and the     *)
(* refresh token of one answer; its number is its position in pairs, and 0  *)
(* stands for no token.                                                     *)
(***************************************************************************)
EXTENDS Naturals, Sequences, FiniteSets

CONSTANTS
  Tab,        \* the browser's tabs: each runs its own copy of lib/api.ts
  User,       \* accounts
  Req,        \* changes a page asks for: each by one tab, once
  Me,         \* the shell's GET /api/auth/me
  MaxPairs,   \* bound: pairs the server issues
  LossLimit,  \* bound: calls that time out or lose their answer
  NoUser,     \* nobody is signed in
  NoTab       \* the stored pair comes from a sign-in

ASSUME SessionAssumption ==
  /\ Me \notin Req
  /\ NoUser \notin User
  /\ NoTab \notin Tab
  /\ MaxPairs \in Nat
  /\ LossLimit \in Nat

VARIABLES
  pairs,       \* server: the pairs issued, in order
  enabled,     \* server: the accounts that are active
  applied,     \* server: applied[t][r], how often a change was made
  stored,      \* localStorage: the pair under the two token keys, 0 when cleared
  saver,       \* history: the tab whose refresh stored it, NoTab after a sign-in
  view,        \* view[t]: the page of tab t
  call,        \* call[t][c]: the requests of tab t
  refreshing,  \* refreshing[t]: the refreshes tab t has in flight
  account,     \* history: who signed in last, NoUser after a sign-out
  late,        \* history: a refresh stored its answer after a later sign-in or sign-out
  lost         \* bound: calls lost so far

server == <<pairs, enabled, applied>>
history == <<account, late>>
vars == <<server, stored, saver, view, call, refreshing, history, lost>>

Call == Req \cup {Me}
Id == 0 .. Len(pairs)

\* A call that is not on its way carries no token.
At(p) == [pc |-> p, token |-> 0, retried |-> FALSE]
Idle == At("idle")
Busy == {"sent", "ok", "unauthorized", "waiting", "lost"}

\* lib/token-storage.ts: both keys are written, or removed, by one task.
saveTokens(i, t) == stored' = i /\ saver' = t
clearTokens == stored' = 0 /\ UNCHANGED saver

\* The access token may be accepted, the refresh token is.
Accepted(i) == i # 0 /\ pairs[i].user \in enabled
Honoured(i) == i # 0 /\ ~pairs[i].revoked /\ pairs[i].user \in enabled

Pair(u) == [user |-> u, revoked |-> FALSE]

\* A sign-in, a sign-up or a sign-out: what a refresh in flight was started
\* for is over.
NewSession(u) ==
  /\ account' = u
  /\ refreshing' = [t \in Tab |-> {[f EXCEPT !.stale = TRUE] : f \in refreshing[t]}]

----------------------------------------------------------------------------
(* Requests: lib/api.ts, apiRequest and performRequest. *)

\* The access token is read when the request is sent.
performRequest(token, retried) ==
  [pc |-> "sent", token |-> token, retried |-> retried]

Send(t, r) ==
  /\ view[t] = "dashboard"
  /\ \A s \in Tab : call[s][r].pc = "idle"
  /\ call' = [call EXCEPT ![t][r] = performRequest(stored, FALSE)]
  /\ UNCHANGED <<server, stored, saver, view, refreshing, history, lost>>

\* The server authenticates the call before it does anything for it.
Serve(t, c) ==
  /\ call[t][c].pc = "sent"
  /\ Accepted(call[t][c].token)
  /\ call' = [call EXCEPT ![t][c] = At("ok")]
  /\ applied' = IF c = Me THEN applied ELSE [applied EXCEPT ![t][c] = @ + 1]
  /\ UNCHANGED <<pairs, enabled, stored, saver, view, refreshing, history, lost>>

\* 401: there is no token, its account is disabled, or it has expired, which
\* is left open for every token but one just issued.
TurnAway(t, c) ==
  /\ call[t][c].pc = "sent"
  /\ Accepted(call[t][c].token) => ~call[t][c].retried
  /\ call' = [call EXCEPT ![t][c] = [@ EXCEPT !.pc = "unauthorized", !.token = 0]]
  /\ UNCHANGED <<server, stored, saver, view, refreshing, history, lost>>

\* The request or its answer is lost, or the 15 seconds pass.
LoseCall(t, c) ==
  /\ lost < LossLimit
  /\ call[t][c].pc \in {"sent", "ok", "unauthorized"}
  /\ call' = [call EXCEPT ![t][c] = At("lost")]
  /\ lost' = lost + 1
  /\ UNCHANGED <<server, stored, saver, view, refreshing, history>>

\* The caller of apiRequest gets its answer.
Succeed(t, r) ==
  /\ call[t][r].pc = "ok"
  /\ call' = [call EXCEPT ![t][r] = At("done")]
  /\ UNCHANGED <<server, stored, saver, view, refreshing, history, lost>>

\* Mutant of Fail: an unanswered request is sent again.
FailResend(t, r) ==
  /\ call[t][r].pc = "lost"
  /\ call' = [call EXCEPT ![t][r] = performRequest(stored, FALSE)]
  /\ UNCHANGED <<server, stored, saver, view, refreshing, history, lost>>

\* An aborted request or one that never reached the server is not sent again.
Fail(t, r) ==
  /\ call[t][r].pc = "lost"
  /\ call' = [call EXCEPT ![t][r] = At("done")]
  /\ UNCHANGED <<server, stored, saver, view, refreshing, history, lost>>

\* What is left of tab t's calls when some of them have failed, and when the
\* tab leaves for the login page.
Failed(t, cs) ==
  [c \in Call |-> IF c \notin cs THEN call[t][c]
                  ELSE IF c = Me THEN Idle ELSE At("done")]
BusyCalls(t) == {c \in Call : call[t][c].pc \in Busy}

\* The tokens go, whoever stored them.  Off the login page the tab is sent
\* there, which abandons whatever else it was waiting for.
expireSession(t, cs) ==
  /\ clearTokens
  /\ IF view[t] = "login"
     THEN /\ call' = [call EXCEPT ![t] = Failed(t, cs)]
          /\ UNCHANGED view
     ELSE /\ call' = [call EXCEPT ![t] = Failed(t, BusyCalls(t))]
          /\ view' = [view EXCEPT ![t] = "login"]

\* Mutant of getRefreshedAccessToken: each 401 starts a refresh of its own.
RefreshPerCall(t, c) ==
  /\ call[t][c].pc = "unauthorized"
  /\ ~call[t][c].retried
  /\ stored # 0
  /\ call' = [call EXCEPT ![t][c] = At("waiting")]
  /\ refreshing' = [refreshing EXCEPT ![t] = @ \cup
       {[pc |-> "sent", token |-> stored, issued |-> 0, waiters |-> {c},
         stale |-> FALSE]}]
  /\ UNCHANGED <<server, stored, saver, view, history, lost>>

\* A 401 for the first time: the call waits for the tab's refresh, and starts
\* one when none is in flight.
getRefreshedAccessToken(t, c) ==
  /\ call[t][c].pc = "unauthorized"
  /\ ~call[t][c].retried
  /\ refreshing[t] # {} \/ stored # 0
  /\ call' = [call EXCEPT ![t][c] = At("waiting")]
  /\ refreshing' = [refreshing EXCEPT ![t] =
       IF @ # {} THEN {[f EXCEPT !.waiters = @ \cup {c}] : f \in @}
       ELSE {[pc |-> "sent", token |-> stored, issued |-> 0,
              waiters |-> {c}, stale |-> FALSE]}]
  /\ UNCHANGED <<server, stored, saver, view, history, lost>>

\* Mutant of GiveUp: every 401 ends the session while no refresh is in flight.
GiveUpAtOnce(t, c) ==
  /\ call[t][c].pc = "unauthorized"
  /\ call[t][c].retried \/ refreshing[t] = {}
  /\ expireSession(t, {c})
  /\ refreshing' = IF view[t] = "login" THEN refreshing
                   ELSE [refreshing EXCEPT ![t] = {}]
  /\ UNCHANGED <<server, history, lost>>

\* A 401 with nothing to refresh from, or after the call was sent again.
GiveUp(t, c) ==
  /\ call[t][c].pc = "unauthorized"
  /\ call[t][c].retried \/ (refreshing[t] = {} /\ stored = 0)
  /\ expireSession(t, {c})
  /\ refreshing' = IF view[t] = "login" THEN refreshing
                   ELSE [refreshing EXCEPT ![t] = {}]
  /\ UNCHANGED <<server, history, lost>>

----------------------------------------------------------------------------
(* Rotation of the refresh token: lib/api.ts, refreshAccessToken, and the
   server's AuthService.refresh, which reads the token's row and commits the
   new one later, without a lock. *)

Replace(t, f, g) ==
  refreshing' = [refreshing EXCEPT ![t] = (@ \ {f}) \cup {g}]

RefreshCheck(t, f) ==
  /\ f.pc = "sent"
  /\ Replace(t, f, [f EXCEPT !.pc = IF Len(pairs) = MaxPairs THEN "lost"
                                    ELSE IF Honoured(f.token) THEN "checked"
                                    ELSE "refused"])
  /\ UNCHANGED <<server, stored, saver, view, call, history, lost>>

\* Mutant of RefreshCommit: the answer leaves before the row is committed.
RefreshAnswerFirst(t, f) ==
  /\ f.pc = "checked"
  /\ Replace(t, f, [f EXCEPT !.pc = "issued", !.issued = Len(pairs) + 1])
  /\ UNCHANGED <<server, stored, saver, view, call, history, lost>>

RefreshCommit(t, f) ==
  /\ f.pc = "checked"
  /\ IF Len(pairs) = MaxPairs
     THEN /\ Replace(t, f, [f EXCEPT !.pc = "lost"])
          /\ UNCHANGED pairs
     ELSE /\ Replace(t, f, [f EXCEPT !.pc = "issued", !.issued = Len(pairs) + 1])
          /\ pairs' = Append([pairs EXCEPT ![f.token].revoked = TRUE],
                             Pair(pairs[f.token].user))
  /\ UNCHANGED <<enabled, applied, stored, saver, view, call, history, lost>>

LoseRefresh(t, f) ==
  /\ lost < LossLimit
  /\ f.pc \in {"sent", "checked", "refused", "issued"}
  /\ Replace(t, f, [f EXCEPT !.pc = "lost"])
  /\ lost' = lost + 1
  /\ UNCHANGED <<server, stored, saver, view, call, history>>

\* The new pair is stored whatever the storage holds by now, and every call
\* that waited is sent again with the new access token.
RefreshResolve(t, f) ==
  /\ f.pc = "issued"
  /\ saveTokens(f.issued, t)
  /\ call' = [call EXCEPT ![t] =
       [c \in Call |-> IF c \in f.waiters
                       THEN performRequest(f.issued, TRUE)
                       ELSE call[t][c]]]
  /\ refreshing' = [refreshing EXCEPT ![t] = @ \ {f}]
  /\ late' = (late \/ f.stale)
  /\ UNCHANGED <<server, view, account, lost>>

\* Refused, unanswered or unreachable is the same to the calls that waited.
RefreshReject(t, f) ==
  /\ f.pc \in {"refused", "lost"}
  /\ expireSession(t, f.waiters)
  /\ refreshing' = [refreshing EXCEPT ![t] =
       IF view[t] = "login" THEN @ \ {f} ELSE {}]
  /\ UNCHANGED <<server, history, lost>>

----------------------------------------------------------------------------
(* Pages: app/login/page.tsx and components/dashboard-shell.tsx. *)

\* The form is signed in and its answer stored; the server issues a pair.
login(t, u) ==
  /\ view[t] = "login"
  /\ u \in enabled
  /\ Len(pairs) < MaxPairs
  /\ pairs' = Append(pairs, Pair(u))
  /\ saveTokens(Len(pairs) + 1, NoTab)
  /\ NewSession(u)
  /\ UNCHANGED <<enabled, applied, view, call, late, lost>>

\* The form of another tab creates an account: its tokens are stored and
\* removed again by one task, and with them whatever session there was.
signup(t) ==
  /\ view[t] = "login"
  /\ stored # 0
  /\ clearTokens
  /\ NewSession(account)
  /\ UNCHANGED <<server, view, call, late, lost>>

\* The shell is mounted: with a token in the storage it asks who is signed in.
OpenDashboard(t) ==
  /\ view[t] = "login"
  /\ stored # 0
  /\ view' = [view EXCEPT ![t] = "loading"]
  /\ call' = [call EXCEPT ![t][Me] = performRequest(stored, FALSE)]
  /\ UNCHANGED <<server, stored, saver, refreshing, history, lost>>

ShowDashboard(t) ==
  /\ call[t][Me].pc = "ok"
  /\ call' = [call EXCEPT ![t][Me] = Idle]
  /\ view' = [view EXCEPT ![t] = "dashboard"]
  /\ UNCHANGED <<server, stored, saver, refreshing, history, lost>>

\* Any error of the shell's request, a timeout as well, signs the browser out.
ShellCatch(t) ==
  /\ call[t][Me].pc = "lost"
  /\ clearTokens
  /\ call' = [call EXCEPT ![t][Me] = Idle]
  /\ view' = [view EXCEPT ![t] = "login"]
  /\ UNCHANGED <<server, refreshing, history, lost>>

\* Mutant of handleLogout: the tokens stay in the storage.
LogoutKeepsTokens(t) ==
  /\ view[t] = "dashboard"
  /\ view' = [view EXCEPT ![t] = "login"]
  /\ NewSession(NoUser)
  /\ UNCHANGED <<server, stored, saver, call, late, lost>>

\* The tokens are removed and nothing is sent; the page's calls stay in flight.
handleLogout(t) ==
  /\ view[t] = "dashboard"
  /\ clearTokens
  /\ view' = [view EXCEPT ![t] = "login"]
  /\ NewSession(NoUser)
  /\ UNCHANGED <<server, call, late, lost>>

----------------------------------------------------------------------------
(* The server by itself. *)

\* A password reset revokes every refresh token of the account.
reset_password(u) ==
  /\ \E i \in DOMAIN pairs : pairs[i].user = u /\ ~pairs[i].revoked
  /\ pairs' = [i \in DOMAIN pairs |->
                 [pairs[i] EXCEPT !.revoked = @ \/ pairs[i].user = u]]
  /\ UNCHANGED <<enabled, applied, stored, saver, view, call, refreshing,
                 history, lost>>

\* An administrator disables the account.
DisableUser(u) ==
  /\ u \in enabled
  /\ enabled' = enabled \ {u}
  /\ UNCHANGED <<pairs, applied, stored, saver, view, call, refreshing,
                 history, lost>>

----------------------------------------------------------------------------
Init ==
  /\ pairs = <<>>
  /\ enabled = User
  /\ applied = [t \in Tab |-> [r \in Req |-> 0]]
  /\ stored = 0
  /\ saver = NoTab
  /\ view = [t \in Tab |-> "login"]
  /\ call = [t \in Tab |-> [c \in Call |-> Idle]]
  /\ refreshing = [t \in Tab |-> {}]
  /\ account = NoUser
  /\ late = FALSE
  /\ lost = 0

CallStep(t, c) ==
  \/ Serve(t, c)
  \/ TurnAway(t, c)
  \/ getRefreshedAccessToken(t, c)
  \/ GiveUp(t, c)
  \/ c = Me /\ (ShowDashboard(t) \/ ShellCatch(t))
  \/ c # Me /\ (Succeed(t, c) \/ Fail(t, c))

RefreshStep(t) ==
  \E f \in refreshing[t] :
    RefreshCheck(t, f) \/ RefreshCommit(t, f)
      \/ RefreshResolve(t, f) \/ RefreshReject(t, f)

Next ==
  \/ \E t \in Tab :
       \/ \E r \in Req : Send(t, r)
       \/ \E c \in Call : CallStep(t, c) \/ LoseCall(t, c)
       \/ RefreshStep(t)
       \/ \E f \in refreshing[t] : LoseRefresh(t, f)
       \/ \E u \in User : login(t, u)
       \/ signup(t)
       \/ OpenDashboard(t)
       \/ handleLogout(t)
  \/ \E u \in User : reset_password(u) \/ DisableUser(u)

Spec == Init /\ [][Next]_vars

----------------------------------------------------------------------------
(* Properties. *)

\* Types of the variables: a token in use is one the server issued.
TypeOK ==
  /\ pairs \in Seq([user : User, revoked : BOOLEAN])
  /\ enabled \subseteq User
  /\ applied \in [Tab -> [Req -> Nat]]
  /\ stored \in Id
  /\ saver \in Tab \cup {NoTab}
  /\ view \in [Tab -> {"login", "loading", "dashboard"}]
  /\ call \in [Tab -> [Call ->
       [pc : {"idle", "done"} \cup Busy, token : Id, retried : BOOLEAN]]]
  /\ \A t \in Tab : refreshing[t] \subseteq
       [pc : {"sent", "checked", "refused", "issued", "lost"}, token : Id \ {0},
        issued : Id, waiters : SUBSET Call, stale : BOOLEAN]
  /\ DOMAIN refreshing = Tab
  /\ account \in User \cup {NoUser}
  /\ late \in BOOLEAN
  /\ lost \in Nat

\* A change is made at most once, although a call the server turned away is
\* sent a second time: apiRequest repeats a request only after a 401, which
\* the server answers before doing anything.
AppliedOnce == \A t \in Tab, r \in Req : applied[t][r] <= 1

\* The browser holds the session of the account that signed in last, and none
\* after a sign-out, unless a refresh begun before stored its answer since:
\* refreshAccessToken saves what it gets without looking at the storage.
StoredFollowsLogin ==
  ~late /\ stored # 0 => pairs[stored].user = account

\* The tokens of a session the server still honours are removed only by a
\* sign-out or a sign-up, by a call or a refresh that got no answer, by a call
\* that was sent again for an account disabled since, or by a refresh with a
\* token that something else has replaced in the shared storage meanwhile:
\* one tab alone never expires its own session, however many calls meet the
\* expired access token at once.
ExpiredForCause ==
  [][stored # 0 /\ stored' = 0 /\ Honoured(stored)
       => \E t \in Tab :
            \/ handleLogout(t) \/ signup(t)
            \/ call[t][Me].pc = "lost"
            \/ enabled # User /\ \E c \in Call : GiveUp(t, c) /\ call[t][c].retried
            \/ \E f \in refreshing[t] \ refreshing'[t] :
                 \/ f.pc = "lost"
                 \/ f.pc = "refused" /\ f.token # stored /\ saver # t]_vars

\* A call that waits is not forgotten: the one refresh its tab has in flight
\* will settle it.
WaitersHeld ==
  \A t \in Tab :
    /\ Cardinality(refreshing[t]) <= 1
    /\ \A c \in Call : call[t][c].pc = "waiting"
                       => \E f \in refreshing[t] : c \in f.waiters
=============================================================================
