---------------------------- MODULE AdminTables ----------------------------
(***************************************************************************)
(* Tables of the administration: one of them is open.  Some load their rows *)
(* once and correct a row when its change is answered, some load all rows    *)
(* again after a change, and some load them again whenever the search        *)
(* changes.  Answers arrive in any order and no table tells them apart.      *)
(* Rows are changed by others, too.                                          *)
(***************************************************************************)
EXTENDS Naturals, FiniteSets

CONSTANTS
  Row,        \* subscriptions, commissions, keys, workflows, runs or log entries
  Found,      \* the rows the search text finds
  MaxFlight,  \* bound: calls in flight at once
  MaxOthers   \* bound: changes by others

\* What the constants have to be.
AdminTablesAssumption ==
  Found \subseteq Row /\ MaxFlight \in Nat /\ MaxOthers \in Nat

VARIABLES
  page,      \* the table that is open
  table,     \* server: the rows and their status
  items,     \* the rows shown, with their status
  search,    \* the search of the page: the rows it is to find
  calls,     \* calls in flight
  others,    \* the number of changes by others
  outdated,  \* history: rows changed since they were loaded, by others or by a
             \* call given up
  unsure     \* history: calls were in flight together, or got lost

vars == <<page, table, items, search, calls, others, outdated, unsure>>

Status == {"on", "off", "ended"}
Searched == {"dead-letter", "failed-workflows", "workflow-runs"}
Page == Searched \cup {"subscriptions", "commissions", "api-keys", "workflows", "audit-logs"}

Only(f, S) == [r \in DOMAIN f \cap S |-> f[r]]

\* The failed runs are asked for with two question marks: a search of them asks
\* for a status that the database's enumeration has not, and the query fails.
Answerable(s) == page = "failed-workflows" => s = Row

Load(s) == [op |-> "load", pc |-> "sent", row |-> 0, value |-> "on", search |-> s, list |-> <<>>]
Change(op, r, v) == [Load(search) EXCEPT !.op = op, !.row = r, !.value = v]

\* The calls the page waits for; the others were given up.
Awaited == {c \in calls : c.pc # "late"}

\* A load on its own settles what is shown; any other two calls may not.
Send(c) ==
  /\ Cardinality(calls) < MaxFlight /\ c \notin calls
  /\ calls' = calls \cup {c}
  /\ unsure' = IF Awaited = {} THEN unsure /\ c.op # "load" ELSE TRUE
  /\ UNCHANGED <<page, table, items, others, outdated>>

----------------------------------------------------------------------------
(* The rows' buttons. *)

\* Pause and Cancel, or Reactivate, as the row is shown.
subscriptionAction(r, v) ==
  /\ page = "subscriptions" /\ r \in DOMAIN items
  /\ \/ items[r] = "on" /\ v \in {"off", "ended"}
     \/ items[r] = "off" /\ v = "on"
  /\ Send(Change("set", r, v)) /\ UNCHANGED search

\* Approve, Reject and Mark Paid, whatever the row shows.
commissionAction(r, v) ==
  /\ page = "commissions" /\ r \in DOMAIN items
  /\ Send(Change("change", r, v)) /\ UNCHANGED search

revoke(r) ==
  /\ page = "api-keys" /\ r \in DOMAIN items
  /\ Send(Change("change", r, "ended")) /\ UNCHANGED search

deleteWorkflow(r) ==
  /\ page = "workflows" /\ r \in DOMAIN items
  /\ Send(Change("delete", r, "ended")) /\ UNCHANGED search

----------------------------------------------------------------------------
(* The searches: an effect of the field, or a form to submit. *)

\* Mutant of the searches: the table is loaded with the text there was.
searchBehind(s) == s # search /\ search' = s /\ Send(Load(search))

searchNow(s) == s # search /\ search' = s /\ Send(Load(s))

searchDeadLetters(s) == page = "dead-letter" /\ searchNow(s)
searchFailedWorkflows(s) == page = "failed-workflows" /\ searchNow(s)
filterWorkflowRuns(s) == page = "workflow-runs" /\ searchNow(s)

typeAuditSearch(s) ==
  /\ page = "audit-logs" /\ s # search
  /\ search' = s
  /\ UNCHANGED <<page, table, items, calls, others, outdated, unsure>>

loadLogs == page = "audit-logs" /\ Send(Load(search)) /\ UNCHANGED search

----------------------------------------------------------------------------
(* The server, and the other administrators. *)

Serve(c) ==
  /\ c.pc = "sent"
  /\ LET reply(list) == calls' = (calls \ {c}) \cup {[c EXCEPT !.pc = "served", !.list = list]}
     IN \/ /\ c.op = "load"
           /\ Answerable(c.search)
           /\ reply(Only(table, c.search))
           /\ outdated' = {}
           /\ UNCHANGED table
        \/ /\ c.op \in {"set", "change"} /\ c.row \in DOMAIN table
           /\ table' = [table EXCEPT ![c.row] = c.value]
           /\ reply(<<>>)
           /\ outdated' = outdated \ {c.row}
        \/ /\ c.op = "delete" /\ c.row \in DOMAIN table
           /\ table' = Only(table, Row \ {c.row})
           /\ reply(<<>>)
           /\ outdated' = outdated \ {c.row}
  /\ UNCHANGED <<page, items, search, others, unsure>>

\* A change nobody waits for is made after all, or never.
ServeLate(c) ==
  /\ c.pc = "late"
  /\ calls' = calls \ {c}
  /\ \/ UNCHANGED <<table, outdated>>
     \/ /\ c.row \in DOMAIN table
        /\ table' = IF c.op = "delete" THEN Only(table, Row \ {c.row})
                    ELSE [table EXCEPT ![c.row] = c.value]
        /\ outdated' = outdated \cup {c.row}
  /\ UNCHANGED <<page, items, search, others, unsure>>

OthersChange(r) ==
  /\ others < MaxOthers /\ r \in DOMAIN table
  /\ others' = others + 1
  /\ \/ \E v \in Status \ {table[r]} : table' = [table EXCEPT ![r] = v]
     \/ table' = Only(table, Row \ {r})
  /\ outdated' = outdated \cup {r}
  /\ UNCHANGED <<page, items, search, calls, unsure>>

----------------------------------------------------------------------------
(* The answers. *)

LoadDone(c) ==
  /\ c.op = "load" /\ c.pc = "served"
  /\ calls' = calls \ {c}
  /\ items' = c.list
  /\ UNCHANGED <<page, table, search, others, outdated, unsure>>

\* A subscription takes the status asked for, a workflow deleted goes.
RowDone(c) ==
  /\ c.op \in {"set", "delete"} /\ c.pc = "served"
  /\ calls' = calls \ {c}
  /\ items' = IF c.op = "delete" THEN Only(items, Row \ {c.row})
              ELSE [r \in DOMAIN items |-> IF r = c.row THEN c.value ELSE items[r]]
  /\ UNCHANGED <<page, table, search, others, outdated, unsure>>

\* A commission or a key changed: the rows are loaded again.
ReloadAfter(c) ==
  /\ c.op = "change" /\ c.pc = "served"
  /\ calls' = (calls \ {c}) \cup {Load(search)}
  /\ unsure' = (unsure /\ Awaited # {c})
  /\ UNCHANGED <<page, table, items, search, others, outdated>>

\* Refused or not answered; a change given up may still be made.
CallFails(c) ==
  /\ c.pc # "late"
  /\ \/ calls' = calls \ {c}
     \/ /\ c.op # "load" /\ c.pc = "sent"
        /\ calls' = (calls \ {c}) \cup {[c EXCEPT !.pc = "late"]}
  /\ unsure' = TRUE
  /\ UNCHANGED <<page, table, items, search, others, outdated>>

----------------------------------------------------------------------------
Init ==
  /\ page \in Page
  /\ table = [r \in Row |-> "on"]
  /\ items = <<>> /\ search = Row
  /\ calls = {Load(Row)}
  /\ others = 0
  /\ outdated = {} /\ unsure = FALSE

Next ==
  \/ \E r \in Row :
       \/ revoke(r) \/ deleteWorkflow(r) \/ OthersChange(r)
       \/ \E v \in Status : subscriptionAction(r, v) \/ commissionAction(r, v)
  \/ \E s \in {Row, Found} :
       \/ searchDeadLetters(s) \/ searchFailedWorkflows(s) \/ filterWorkflowRuns(s)
       \/ typeAuditSearch(s)
  \/ loadLogs
  \/ \E c \in calls :
       \/ Serve(c) \/ ServeLate(c)
       \/ LoadDone(c) \/ RowDone(c) \/ ReloadAfter(c) \/ CallFails(c)

Spec == Init /\ [][Next]_vars

----------------------------------------------------------------------------
(* Properties. *)

\* With every answer in, each row shown is as the server has it and a search
\* shows what it finds, unless calls were in flight together, one failed and none
\* was answered on its own since, or the row was changed since by others or by a
\* call given up: the ways in which these tables go wrong.
TableCurrent ==
  Awaited = {} /\ ~unsure =>
    /\ \A r \in DOMAIN items \ outdated : r \in DOMAIN table /\ items[r] = table[r]
    /\ page \in Searched =>
         DOMAIN items \ outdated = (DOMAIN table \cap search) \ outdated
=============================================================================
