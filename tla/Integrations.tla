---------------------------- MODULE Integrations ----------------------------
(***************************************************************************)
(* The integrations page: the status of each provider, connecting one by    *)
(* leaving for its consent page, and disconnecting it, with one flag for    *)
(* every kind of loading.  The server keeps one credential per account;     *)
(* what the provider's consent page does is external.                       *)
(***************************************************************************)
EXTENDS Naturals, FiniteSets

CONSTANTS
  Provider,    \* "google" and "slack"
  Account,     \* the accounts or workspaces a provider may be connected to
  MaxFlight,   \* bound: calls in flight at once
  None         \* nothing is loading

\* What the constants have to be.
IntegrationsAssumption == MaxFlight \in Nat /\ {None, "status"} \cap Provider = {}

VARIABLES
  connected,        \* server: the accounts connected, per provider
  profile,          \* the providers shown as connected
  loadingProvider,  \* "status", a provider, or None
  away,             \* the provider whose consent page is shown, or None
  calls,            \* calls in flight
  unsure            \* history: providers whose answers crossed, were lost or left
                    \* another account connected

vars == <<connected, profile, loadingProvider, away, calls, unsure>>

\* What a status call asks: one request per provider, answered at any time.
Status == [op |-> "status", waits |-> Provider, seen |-> {}]
Call(op, p) == [op |-> op, waits |-> {p}, seen |-> {}]
Targets(c) == IF c.op = "status" THEN Provider ELSE c.waits \cup c.seen

\* The providers of which answers to c and d may arrive in the wrong order.
Crossed(c, d) ==
  IF "disconnect" \in {c.op, d.op} THEN Targets(c) \cap Targets(d) ELSE {}

\* A call is sent; a status call on its own will show what is so.
Send(c, flag) ==
  /\ away = None
  /\ Cardinality(calls) < MaxFlight /\ c \notin calls
  /\ calls' = calls \cup {c}
  /\ loadingProvider' = flag
  /\ unsure' = IF calls = {} /\ c = Status THEN {}
               ELSE unsure \cup UNION {Crossed(c, d) : d \in calls}
  /\ UNCHANGED <<connected, profile, away>>

----------------------------------------------------------------------------
(* The user. *)

\* "Refresh status"
loadIntegrationStatus == loadingProvider = None /\ Send(Status, "status")

\* Reconnect asks only that this provider is not loading.
connect(p) ==
  /\ loadingProvider # p /\ (p \in profile \/ loadingProvider # "status")
  /\ Send(Call("connect", p), p)

\* Disconnect, confirmed.
disconnect(p) ==
  /\ p \in profile /\ loadingProvider # p
  /\ Send(Call("disconnect", p), p)

----------------------------------------------------------------------------
(* The server.  Each request of a status call is answered on its own. *)

ServeProfile(c, p) ==
  /\ c.op = "status" /\ p \in c.waits
  /\ \E seen \in {c.seen} \cup IF connected[p] # {} THEN {c.seen \cup {p}} ELSE {} :
       /\ calls' = (calls \ {c}) \cup {[c EXCEPT !.waits = c.waits \ {p}, !.seen = seen]}
       \* A profile that cannot be read counts as not connected.
       /\ unsure' = IF connected[p] # {} /\ seen = c.seen THEN unsure \cup {p} ELSE unsure
  /\ UNCHANGED <<connected, profile, loadingProvider, away>>

\* The first of the connected credentials, if there is one, is disconnected.  A
\* request that nobody waits for may get here or not.
disconnect_provider(c, p) ==
  /\ c.op \in {"disconnect", "abandoned"} /\ c.waits = {p}
  /\ \/ (connected[p] = {} \/ c.op = "abandoned") /\ UNCHANGED connected
     \/ \E a \in connected[p] : connected' = [connected EXCEPT ![p] = @ \ {a}]
  /\ calls' = (calls \ {c}) \cup
       IF c.op = "disconnect" THEN {[c EXCEPT !.waits = {}, !.seen = {p}]} ELSE {}
  /\ unsure' = IF Cardinality(connected[p]) > 1 THEN unsure \cup {p} ELSE unsure
  /\ UNCHANGED <<profile, loadingProvider, away>>

----------------------------------------------------------------------------
(* The answers. *)

StatusDone(c) ==
  /\ c.op = "status" /\ c.waits = {}
  /\ calls' = calls \ {c}
  /\ profile' = c.seen
  /\ loadingProvider' = None
  /\ UNCHANGED <<connected, away, unsure>>

\* Mutant of DisconnectDone: the profile is kept.
DisconnectKeeps(c) ==
  /\ c.op = "disconnect" /\ c.waits = {}
  /\ calls' = calls \ {c}
  /\ loadingProvider' = None
  /\ UNCHANGED <<connected, profile, away, unsure>>

\* The provider is shown as not connected, whatever credential is left.
DisconnectDone(c) ==
  /\ c.op = "disconnect" /\ c.waits = {}
  /\ calls' = calls \ {c}
  /\ profile' = profile \ c.seen
  /\ loadingProvider' = None
  /\ UNCHANGED <<connected, away, unsure>>

\* The answer to connect leaves the page for the consent page, and the other
\* calls without anyone to answer.
Leave(c, p) ==
  /\ c.op = "connect" /\ c.waits = {p}
  /\ calls' = {[d EXCEPT !.op = "abandoned"] :
                 d \in {e \in calls : e.op \in {"disconnect", "abandoned"} /\ e.waits # {}}}
  /\ away' = p
  /\ UNCHANGED <<connected, profile, loadingProvider, unsure>>

\* Refused or not answered: it was not carried out, or it was, or it may be later,
\* while the page is used again.
CallFails(c) ==
  /\ c.op \in {"connect", "disconnect"}
  /\ \/ c.waits # {} /\ calls' = calls \ {c} /\ UNCHANGED unsure
     \/ c.waits = {} /\ calls' = calls \ {c} /\ unsure' = unsure \cup c.seen
     \/ /\ c.op = "disconnect" /\ c.waits # {}
        /\ calls' = (calls \ {c}) \cup {[c EXCEPT !.op = "abandoned"]}
        /\ unsure' = unsure \cup c.waits
  /\ loadingProvider' = None
  /\ UNCHANGED <<connected, profile, away>>

----------------------------------------------------------------------------
(* The provider's consent page, and the page opened afresh. *)

Mount ==
  /\ away # None
  /\ away' = None
  /\ profile' = {} /\ loadingProvider' = "status" /\ calls' = calls \cup {Status}
  /\ unsure' = UNION {c.waits : c \in calls}

\* The callback stores the credential of the account chosen; the others of the
\* tenant stay connected.
Consent(p, a) == Mount /\ away = p /\ connected' = [connected EXCEPT ![p] = @ \cup {a}]

Decline == Mount /\ UNCHANGED connected

Init ==
  /\ connected \in [Provider -> {{}} \cup {{a} : a \in Account}]
  /\ profile = {} /\ loadingProvider = "status" /\ away = None
  /\ calls = {Status}
  /\ unsure = {}

Next ==
  \/ loadIntegrationStatus
  \/ \E p \in Provider :
       \/ connect(p) \/ disconnect(p)
       \/ \E c \in calls : ServeProfile(c, p) \/ disconnect_provider(c, p) \/ Leave(c, p)
       \/ \E a \in Account : Consent(p, a)
  \/ \E c \in calls : StatusDone(c) \/ DisconnectDone(c) \/ CallFails(c)
  \/ Decline

Spec == Init /\ [][Next]_vars

----------------------------------------------------------------------------
(* Properties. *)

\* With every answer in, a provider is shown as connected exactly when it is,
\* but for three causes: its answers crossed (each reset of the one flag by
\* another call enables the provider's buttons again), an answer was lost, or
\* only one of several connected accounts was disconnected.
ShownAsConnected ==
  calls = {} /\ away = None =>
    \A p \in Provider \ unsure : p \in profile <=> connected[p] # {}
=============================================================================
