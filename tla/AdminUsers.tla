---------------------------- MODULE AdminUsers ----------------------------
(***************************************************************************)
(* The pages on which administrators change other users' role and status,   *)
(* and the endpoints behind them: the users list and a user's own page ask   *)
(* the endpoint that keeps the last active administrator, the customers page *)
(* suspends and deletes.  One administrator, Me, has the pages open; the      *)
(* others' requests come in between.  ADMIN and SUPER_ADMIN are one here.     *)
(***************************************************************************)
EXTENDS Naturals, FiniteSets

CONSTANTS
  User,
  Me,         \* the user of the pages
  Admins,     \* the administrators at the beginning
  MaxFlight,  \* bound: calls in flight at once
  MaxCalls    \* bound: changes asked for

\* What the constants have to be.
AdminUsersAssumption ==
  Me \in Admins /\ Admins \subseteq User /\ MaxFlight \in Nat /\ MaxCalls \in Nat

VARIABLES
  admin,   \* server: the users that are administrators
  active,  \* server: the users that are active
  page,    \* "customers", "users" or "detail"
  shown,   \* the users shown, and which of them as active
  calls,   \* calls in flight
  asked,   \* changes asked for
  cause    \* history: changes that no count of administrators was asked about

vars == <<admin, active, page, shown, calls, asked, cause>>

Administrators == admin \cap active

Load == [op |-> "load", by |-> Me, user |-> Me, value |-> TRUE, from |-> page, pc |-> "sent",
         list |-> <<>>]

Ask(op, by, u, v) ==
  /\ Cardinality(calls) < MaxFlight /\ asked < MaxCalls
  /\ asked' = asked + 1
  /\ calls' = calls \cup {[op |-> op, by |-> by, user |-> u, value |-> v,
                           from |-> page, pc |-> "sent", list |-> <<>>]}
  /\ UNCHANGED <<admin, active, page, shown, cause>>

----------------------------------------------------------------------------
(* The pages. *)

\* A page opened; its list, or its one user, is loaded.
Open(p) ==
  /\ p # page
  /\ page' = p
  /\ shown' = <<>>
  /\ calls' = {c \in calls : c.op # "load"} \cup {[Load EXCEPT !.from = p]}
  /\ UNCHANGED <<admin, active, asked, cause>>

\* "Search" on the users list; what it finds is left open to the rows clicked.
loadUsers ==
  /\ page = "users" /\ Cardinality(calls) < MaxFlight
  /\ calls' = calls \cup {Load}
  /\ UNCHANGED <<admin, active, page, shown, asked, cause>>

\* "Disable" or "Enable", as the user is shown.
updateUserStatus(u) ==
  /\ u \in DOMAIN shown
  /\ Ask("status", Me, u, ~shown[u])

updateUserRole(u, makeAdmin) ==
  /\ u \in DOMAIN shown
  /\ Ask("role", Me, u, makeAdmin)

\* "Suspend" or "Reactivate" on the customers page, as the user is shown.
suspendOrReactivate(u) ==
  /\ page = "customers" /\ u \in DOMAIN shown
  /\ Ask("suspend", Me, u, ~shown[u])

deleteCustomer(u) ==
  /\ page = "customers" /\ u \in DOMAIN shown
  /\ Ask("delete", Me, u, FALSE)

\* The role and the button of a row, and of a user's page.
UserRow(u) ==
  page = "users" /\ (updateUserStatus(u) \/ \E v \in BOOLEAN : updateUserRole(u, v))

UserDetail(u) ==
  page = "detail" /\ (updateUserStatus(u) \/ \E v \in BOOLEAN : updateUserRole(u, v))

CustomerRow(u) == suspendOrReactivate(u) \/ deleteCustomer(u)

\* Another administrator changes a user's status.
OtherAsks(a, u, v) == a # Me /\ a \in Administrators /\ Ask("status", a, u, v)

----------------------------------------------------------------------------
(* The server.  Who asks must be an active administrator. *)

Allowed(c) == c.pc = "sent" /\ c.by \in Administrators
Reply(c, pc) == calls' = (calls \ {c}) \cup {[c EXCEPT !.pc = pc]}
Set(u, v) == active' = IF v THEN active \cup {u} ELSE active \ {u}

ServeLoad(c) ==
  /\ c.op = "load" /\ Allowed(c)
  /\ calls' = (calls \ {c}) \cup
       {[c EXCEPT !.pc = "served", !.list = [u \in User |-> u \in active]]}
  /\ UNCHANGED <<admin, active, page, shown, asked, cause>>

\* Mutant of CountAdmins: the last one counts as one too many.
CountAdminsOffByOne(c) ==
  /\ c.op = "status" /\ Allowed(c)
  /\ ~c.value /\ c.user \in admin => Cardinality(Administrators) > 0
  /\ Reply(c, "checked")
  /\ UNCHANGED <<admin, active, page, shown, asked, cause>>

\* admin_update_user_status: "Cannot disable the last active admin".
CountAdmins(c) ==
  /\ c.op = "status" /\ Allowed(c)
  /\ ~c.value /\ c.user \in admin => Cardinality(Administrators) > 1
  /\ Reply(c, "checked")
  /\ UNCHANGED <<admin, active, page, shown, asked, cause>>

\* The status is written.  Another status may be on its way past the count.
CommitStatus(c) ==
  /\ c.op = "status" /\ c.pc = "checked"
  /\ Set(c.user, c.value)
  /\ Reply(c, "served")
  /\ cause' = IF \E d \in calls \ {c} : d.op = "status" /\ d.pc = "checked"
              THEN cause \cup {"counted together"} ELSE cause
  /\ UNCHANGED <<admin, page, shown, asked>>

admin_update_user_role(c) ==
  /\ c.op = "role" /\ Allowed(c)
  /\ admin' = IF c.value THEN admin \cup {c.user} ELSE admin \ {c.user}
  /\ Reply(c, "served")
  /\ cause' = IF c.value THEN cause ELSE cause \cup {"role"}
  /\ UNCHANGED <<active, page, shown, asked>>

\* suspend_user, reactivate_user and admin_delete_user count nobody.
suspend_user(c) ==
  /\ c.op \in {"suspend", "delete"} /\ Allowed(c)
  /\ Set(c.user, c.value)
  /\ Reply(c, "served")
  /\ cause' = IF c.value THEN cause ELSE cause \cup {c.op}
  /\ UNCHANGED <<admin, page, shown, asked>>

----------------------------------------------------------------------------
(* The answers. *)

LoadDone(c) ==
  /\ c.op = "load" /\ c.pc = "served"
  /\ calls' = calls \ {c}
  /\ shown' = c.list
  /\ UNCHANGED <<admin, active, page, asked, cause>>

\* The users list is loaded again, if it is still shown; a user's page has the
\* whole tab loaded again, whatever it shows by then.
ReloadAfter(c) ==
  /\ c.op \in {"status", "role"} /\ c.pc = "served" /\ c.by = Me
  /\ calls' = (calls \ {c}) \cup
       IF c.from = "detail" \/ page = "users" THEN {Load} ELSE {}
  /\ shown' = IF c.from = "detail" THEN <<>> ELSE shown
  /\ UNCHANGED <<admin, active, page, asked, cause>>

\* The customers page turns round whatever it shows, or drops the row.
CustomerDone(c) ==
  /\ c.op \in {"suspend", "delete"} /\ c.pc = "served"
  /\ calls' = calls \ {c}
  /\ shown' = IF page # "customers" \/ c.user \notin DOMAIN shown THEN shown
              ELSE IF c.op = "suspend" THEN [shown EXCEPT ![c.user] = ~@]
              ELSE [u \in DOMAIN shown \ {c.user} |-> shown[u]]
  /\ UNCHANGED <<admin, active, page, asked, cause>>

\* Refused or not answered, or an answer to another administrator.  No button waits
\* for its call: one given up and carried out later is one that ends here then.
CallEnds(c) ==
  /\ calls' = calls \ {c}
  /\ UNCHANGED <<admin, active, page, shown, asked, cause>>

----------------------------------------------------------------------------
Init ==
  /\ admin = Admins /\ active = User
  /\ page = "users" /\ shown = <<>>
  /\ calls = {Load} /\ asked = 0
  /\ cause = {}

Next ==
  \/ \E p \in {"customers", "users", "detail"} : Open(p)
  \/ \E u \in User :
       \/ UserRow(u) \/ UserDetail(u) \/ CustomerRow(u)
       \/ \E a \in User, v \in BOOLEAN : OtherAsks(a, u, v)
  \/ loadUsers
  \/ \E c \in calls :
       \/ ServeLoad(c) \/ CountAdmins(c) \/ CommitStatus(c)
       \/ admin_update_user_role(c) \/ suspend_user(c)
       \/ LoadDone(c) \/ ReloadAfter(c) \/ CustomerDone(c) \/ CallEnds(c)

Spec == Init /\ [][Next]_vars

----------------------------------------------------------------------------
(* Properties. *)

\* Nobody is left to administer only by a change that is not held against the
\* number of administrators: a role taken away, a customer suspended or deleted,
\* or two users disabled who were counted together.
AdministratorLeft == Administrators = {} => cause # {}
=============================================================================
