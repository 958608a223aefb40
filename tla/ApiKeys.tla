------------------------------ MODULE ApiKeys ------------------------------
(***************************************************************************)
(* The API keys page: creating a key, whose secret is in one answer only,    *)
(* revoking one, the list both handlers load again, and the explorer, which  *)
(* sends a pasted key and shows the status and then the body of the answer.  *)
(***************************************************************************)
EXTENDS Naturals, FiniteSets

CONSTANTS
  MaxKeys,     \* bound: keys ever created
  MaxFlight,   \* bound: calls in flight at once
  MaxTries     \* bound: requests the explorer sends

Key == 1 .. MaxKeys

\* What the constants have to be.
ApiKeysAssumption == MaxKeys \in Nat /\ MaxFlight \in Nat /\ MaxTries \in Nat

VARIABLES
  created,      \* server: the number of keys created
  revoked,      \* server: those revoked
  items,        \* the list shown: the keys, and which of them are active
  newKey,       \* the key whose secret is shown, or 0
  loading,      \* a key is being created
  calls,        \* calls in flight
  shown,        \* history: the keys whose secret has been shown
  lost,         \* history: the keys whose secret was in an answer that got lost
  explorerKey,  \* a key has been pasted
  requests,     \* explorer requests in flight: which, and how far they are
  explorer,     \* the status and the body shown: the requests they are of, or 0
  tries         \* the explorer requests sent

server == <<created, revoked>>
keys == <<server, items, newKey, loading, calls, shown, lost>>
explore == <<explorerKey, requests, explorer, tries>>
vars == <<keys, explore>>

Listed == {[key |-> k, is_active |-> k \notin revoked] : k \in 1 .. created}
explorerLoading == requests # {}

\* A handler begins with a change (pc "sent") or, when the page is mounted, with
\* the list (pc "load").
Send(op, k) ==
  LET c == [op |-> op, pc |-> "sent", key |-> k, list |-> {}]
  IN /\ Cardinality(calls) < MaxFlight /\ c \notin calls
     /\ calls' = calls \cup {c}

----------------------------------------------------------------------------
(* The keys. *)

\* "Create Key", with a name typed.
createKey ==
  /\ ~loading
  /\ Send("create", 0)
  /\ loading' = TRUE
  /\ UNCHANGED <<server, items, newKey, shown, lost, explore>>

\* "Revoke", confirmed, of a key shown as active.
revoke(k) ==
  /\ [key |-> k, is_active |-> TRUE] \in items
  /\ Send("revoke", k)
  /\ UNCHANGED <<server, items, newKey, loading, shown, lost, explore>>

\* The answer to a call given up, and the secret in it, is lost.
Serve(c) ==
  /\ c.pc \in {"sent", "late"}
  /\ \/ /\ c.op = "create" /\ created < MaxKeys
        /\ created' = created + 1
        /\ calls' = (calls \ {c}) \cup
             IF c.pc = "late" THEN {} ELSE {[c EXCEPT !.pc = "served", !.key = created']}
        /\ lost' = IF c.pc = "late" THEN lost \cup {created'} ELSE lost
        /\ UNCHANGED revoked
     \/ /\ c.op = "revoke"
        /\ revoked' = revoked \cup {c.key}
        /\ calls' = (calls \ {c}) \cup {[c EXCEPT !.pc = "served"]}
        /\ UNCHANGED <<created, lost>>
  /\ UNCHANGED <<items, newKey, loading, shown, explore>>

\* Mutant of Changed: a new secret waits for the list.
ChangedShowsLater(c) ==
  /\ c.pc = "served"
  /\ calls' = (calls \ {c}) \cup {[c EXCEPT !.pc = "load"]}
  /\ UNCHANGED <<server, items, newKey, loading, shown, lost, explore>>

\* The change is made: a new secret is shown, and the list loaded again.
Changed(c) ==
  /\ c.pc = "served"
  /\ calls' = (calls \ {c}) \cup {[c EXCEPT !.pc = "load"]}
  /\ IF c.op = "create" THEN newKey' = c.key /\ shown' = shown \cup {c.key}
     ELSE UNCHANGED <<newKey, shown>>
  /\ UNCHANGED <<server, items, loading, lost, explore>>

\* GET /api/api-keys
ServeLoad(c) ==
  /\ c.pc = "load"
  /\ calls' = (calls \ {c}) \cup {[c EXCEPT !.pc = "listed", !.list = Listed]}
  /\ UNCHANGED <<server, items, newKey, loading, shown, lost, explore>>

LoadDone(c) ==
  /\ c.pc = "listed"
  /\ calls' = calls \ {c}
  /\ items' = c.list
  /\ loading' = (loading /\ c.op # "create")
  /\ UNCHANGED <<server, newKey, shown, lost, explore>>

\* A request refused or not answered, of the change or of the list; a key not
\* answered may have been created, or may be while the next one is asked for.
CallFails(c) ==
  /\ \/ calls' = calls \ {c}
     \/ /\ c.op = "create" /\ c.pc = "sent"
        /\ calls' = (calls \ {c}) \cup {[c EXCEPT !.pc = "late"]}
  /\ loading' = (loading /\ c.op # "create")
  /\ lost' = IF c.pc = "served" /\ c.op = "create" THEN lost \cup {c.key} ELSE lost
  /\ UNCHANGED <<server, items, newKey, shown, explore>>

----------------------------------------------------------------------------
(* The explorer. *)

PasteKey ==
  /\ explorerKey' = ~explorerKey
  /\ UNCHANGED <<keys, requests, explorer, tries>>

\* "Clear", while a request may be in flight.
ClearExplorer ==
  /\ explorerKey' = FALSE
  /\ explorer' = <<0, 0>>
  /\ UNCHANGED <<keys, requests, tries>>

runApiExplorer ==
  /\ explorerKey /\ ~explorerLoading
  /\ tries < MaxTries
  /\ tries' = tries + 1
  /\ requests' = requests \cup {[try |-> tries', pc |-> "sent"]}
  /\ explorer' = <<0, 0>>
  /\ UNCHANGED <<keys, explorerKey>>

\* The status comes first, then the text.
ExplorerStatus(q) ==
  /\ q.pc = "sent"
  /\ requests' = (requests \ {q}) \cup {[q EXCEPT !.pc = "status"]}
  /\ explorer' = <<q.try, explorer[2]>>
  /\ UNCHANGED <<keys, explorerKey, tries>>

ExplorerText(q) ==
  /\ q.pc = "status"
  /\ requests' = requests \ {q}
  /\ explorer' = <<explorer[1], q.try>>
  /\ UNCHANGED <<keys, explorerKey, tries>>

\* Not reached: no status, and a text that says so.
ExplorerFails(q) ==
  /\ requests' = requests \ {q}
  /\ explorer' = <<0, q.try>>
  /\ UNCHANGED <<keys, explorerKey, tries>>

----------------------------------------------------------------------------
Init ==
  /\ created = 0 /\ revoked = {}
  /\ items = {} /\ newKey = 0 /\ loading = FALSE
  /\ calls = {[op |-> "mount", pc |-> "load", key |-> 0, list |-> {}]}
  /\ shown = {} /\ lost = {}
  /\ explorerKey = FALSE /\ requests = {} /\ explorer = <<0, 0>> /\ tries = 0

Next ==
  \/ createKey
  \/ \E k \in Key : revoke(k)
  \/ \E c \in calls :
       Serve(c) \/ Changed(c) \/ ServeLoad(c) \/ LoadDone(c) \/ CallFails(c)
  \/ PasteKey \/ ClearExplorer \/ runApiExplorer
  \/ \E q \in requests : ExplorerStatus(q) \/ ExplorerText(q) \/ ExplorerFails(q)

Spec == Init /\ [][Next]_vars

----------------------------------------------------------------------------
(* Properties. *)

\* What the page shows once is not lost on the way: the secret of a key that
\* exists has been shown, is in an answer still to come, or was in one that got
\* lost -- never gone because the list that is loaded after it failed.  The
\* explorer, too, never shows one request's status beside another's body.
NothingShownAmiss ==
  /\ \A k \in 1 .. created :
       \/ k \in shown \cup lost
       \/ \E c \in calls : c.op = "create" /\ c.key = k /\ c.pc = "served"
  /\ 0 \notin {explorer[1], explorer[2]} => explorer[1] = explorer[2]
=============================================================================
