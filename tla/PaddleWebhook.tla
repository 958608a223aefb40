--------------------------- MODULE PaddleWebhook ---------------------------
(***************************************************************************)
(* handle_webhook_event and what it dispatches to: the events that Paddle    *)
(* sends about one account, its subscription, its payments and its purchases *)
(* of agency products. Paddle is external: it sends an event until it is     *)
(* answered with 200, perhaps more often, and in any order. A transaction is *)
(* visible to others only when it commits.                                   *)
(***************************************************************************)
EXTENDS Naturals, Sequences

CONSTANTS
  Handler,    \* requests that are handled at the same time
  Plan,       \* the plans of a subscription
  Txn,        \* Paddle's transactions
  MaxEvents,  \* bound on events
  FailLimit,  \* bound on requests that die
  NoRow       \* no such row yet

ASSUME PaddleWebhookAssumption ==
  /\ MaxEvents \in Nat
  /\ FailLimit \in Nat

VARIABLES
  sent,        \* the events, in the order Paddle's data changed
  webhook_events,  \* received and processed, by event
  subscription,    \* the subscriptions row
  payment,     \* the status of the payments row of each transaction
  orders,      \* agency orders, with entitlement and fulfilment, by transaction
  pc,          \* control state of each handler
  event,       \* the event each handler has, by number, or 0
  loaded,      \* the rows each handler has read
  fails,       \* requests that died
  disordered   \* history: did two events overlap, or one overtake another?

tables == <<webhook_events, subscription, payment, orders>>
local == <<pc, event, loaded>>
vars == <<sent, tables, local, fails, disordered>>

\* PAUSED behaves as CANCELED does, and a payment that is past_due as one that failed.
Status == {"ACTIVE", "INCOMPLETE", "CANCELED"}
PaymentStatus == {"paid", "failed", "canceled"}

\* subscription.*, transaction.* of a plan, transaction.completed of an agency
\* product, and a type that _dispatch_webhook does not handle. What is refused at
\* every delivery: a transaction of an agency product that is not completed, which
\* has no approved plan, or whose amount is not the product's.
Event ==
  [kind: {"subscription"}, plan: Plan, status: Status]
    \cup [kind: {"transaction"}, txn: Txn, status: PaymentStatus]
    \cup [kind: {"agency"}, txn: Txn]
    \cup [kind: {"unhandled", "refused"}]

Row == [plan: Plan, status: Status]

\* The subscription, and the payment of each transaction.
Rows == [subscription: Row \cup {NoRow}, payment: [Txn -> PaymentStatus \cup {NoRow}]]

ASSUME NoRowAssumption == NoRow \notin Row \cup PaymentStatus

Processed(i) == webhook_events[i] = "processed"

-----------------------------------------------------------------------------
(* What an event changes *)

\* _handle_subscription_event
SubscriptionOf(e, row) == [plan |-> e.plan, status |-> e.status]

\* The end of _handle_transaction_event: a payment moves a subscription's status.
StatusAfter(e, row) ==
  CASE e.status = "paid" -> [row EXCEPT !.status = "ACTIVE"]
    [] e.status = "failed" -> [row EXCEPT !.status = "INCOMPLETE"]
    [] OTHER -> row

\* The subscription and the payments once e is applied to them.
Applied(rows, e) ==
  CASE e.kind = "subscription" ->
         [rows EXCEPT !.subscription = SubscriptionOf(e, @)]
    [] e.kind = "transaction" ->
         [subscription |-> IF rows.subscription = NoRow THEN NoRow
                           ELSE StatusAfter(e, rows.subscription),
          payment |-> [rows.payment EXCEPT ![e.txn] = e.status]]
    [] OTHER -> rows

\* A flush inserts a row that was not found and updates the columns that differ
\* from what was loaded.
Written(new, old, now) ==
  IF old = NoRow THEN new
  ELSE [c \in DOMAIN new |-> IF new[c] # old[c] THEN new[c] ELSE now[c]]

-----------------------------------------------------------------------------
(* One request *)

\* Mutant of Reply: the request keeps its event.
ReplyKeepsEvent(h) ==
  /\ pc' = [pc EXCEPT ![h] = "idle"]
  /\ loaded' = [loaded EXCEPT ![h] = NoRow]
  /\ UNCHANGED event

Reply(h) ==
  /\ pc' = [pc EXCEPT ![h] = "idle"]
  /\ event' = [event EXCEPT ![h] = 0]
  /\ loaded' = [loaded EXCEPT ![h] = NoRow]

\* An event is out of order if another is in hand or a later one was processed.
Disorders(h, i) ==
  \/ \E g \in Handler \ {h} : pc[g] # "idle"
  \/ \E j \in i + 1 .. Len(sent) : Processed(j)

\* Mutant of Receive: an event that was received is answered as a duplicate.
ReceiveOnce(h, i) ==
  /\ pc[h] = "idle"
  /\ webhook_events[i] = "none"
  /\ event' = [event EXCEPT ![h] = i]
  /\ pc' = [pc EXCEPT ![h] = "insert"]
  /\ disordered' = (disordered \/ Disorders(h, i))
  /\ UNCHANGED <<sent, tables, loaded, fails>>

\* The look-up of the event. One that is processed is answered as a duplicate,
\* which changes nothing.
Receive(h, i) ==
  /\ pc[h] = "idle"
  /\ ~Processed(i)
  /\ event' = [event EXCEPT ![h] = i]
  /\ pc' = [pc EXCEPT ![h] = IF webhook_events[i] = "none" THEN "insert" ELSE "dispatch"]
  /\ disordered' = (disordered \/ Disorders(h, i))
  /\ UNCHANGED <<sent, tables, loaded, fails>>

\* Mutant of Insert: the event counts as processed before it is.
InsertProcessed(h) ==
  /\ pc[h] = "insert"
  /\ webhook_events' = [webhook_events EXCEPT ![event[h]] = "processed"]
  /\ pc' = [pc EXCEPT ![h] = "dispatch"]
  /\ UNCHANGED <<sent, subscription, payment, orders, event, loaded, fails, disordered>>

\* The event is recorded and committed, unless another request just did that.
Insert(h) ==
  /\ pc[h] = "insert"
  /\ webhook_events' = [webhook_events EXCEPT ![event[h]] = IF @ = "none" THEN "received" ELSE @]
  /\ pc' = [pc EXCEPT ![h] = "dispatch"]
  /\ UNCHANGED <<sent, subscription, payment, orders, event, loaded, fails, disordered>>

\* _dispatch_webhook looks up the order of a purchase or the payment of a transaction.
Dispatch(h) ==
  LET e == sent[event[h]]
      next == CASE e.kind \in {"subscription", "transaction"} -> "read"
                [] e.kind = "agency" /\ orders[e.txn] = 0 -> "order"
                [] OTHER -> "write"
  IN /\ pc[h] = "dispatch"
     /\ e.kind # "refused"
     /\ loaded' = [loaded EXCEPT ![h] = [subscription |-> NoRow, payment |-> payment]]
     /\ pc' = [pc EXCEPT ![h] = next]
     /\ UNCHANGED <<sent, tables, event, fails, disordered>>

\* The subscription is read by a statement of its own, which may find a later row.
ReadSubscription(h) ==
  /\ pc[h] = "read"
  /\ loaded' = [loaded EXCEPT ![h].subscription = subscription]
  /\ pc' = [pc EXCEPT ![h] = "write"]
  /\ UNCHANGED <<sent, tables, event, fails, disordered>>

\* 400: what the handler did is rolled back, and the event stays as it was received.
Refuse(h) ==
  /\ pc[h] = "dispatch"
  /\ sent[event[h]].kind = "refused"
  /\ Reply(h)
  /\ UNCHANGED <<sent, tables, fails, disordered>>

\* Mutant of Order: a second order of the transaction is accepted.
OrderUnchecked(h) ==
  /\ pc[h] = "order"
  /\ orders' = [orders EXCEPT ![sent[event[h]].txn] = @ + 1]
  /\ pc' = [pc EXCEPT ![h] = "write"]
  /\ UNCHANGED <<sent, webhook_events, subscription, payment, event, loaded, fails, disordered>>

\* handle_completed_transaction commits order, entitlement and fulfilment by
\* itself. paddle_transaction_id is unique: the second of two requests gets 500.
Order(h) ==
  LET t == sent[event[h]].txn IN
  /\ pc[h] = "order"
  /\ IF orders[t] = 0
     THEN /\ orders' = [orders EXCEPT ![t] = 1]
          /\ pc' = [pc EXCEPT ![h] = "write"]
          /\ UNCHANGED <<event, loaded>>
     ELSE Reply(h) /\ UNCHANGED orders
  /\ UNCHANGED <<sent, webhook_events, subscription, payment, fails, disordered>>

\* Are both a row that was not found and another request's row to be inserted?
Conflict(h) ==
  LET e == sent[event[h]]
      old == loaded[h]
  IN \/ e.kind = "subscription" /\ old.subscription = NoRow /\ subscription # NoRow
     \/ e.kind = "transaction" /\ old.payment[e.txn] = NoRow /\ payment[e.txn] # NoRow

\* The changes and the processed flag are committed together; a unique key that
\* exists by now gives 500 and neither.
Commit(h) ==
  LET e == sent[event[h]]
      old == loaded[h]
      new == Applied(old, e)
  IN /\ pc[h] = "write"
     /\ IF Conflict(h) THEN UNCHANGED tables
        ELSE /\ webhook_events' = [webhook_events EXCEPT ![event[h]] = "processed"]
             /\ subscription' = IF new.subscription = NoRow THEN subscription
                  ELSE Written(new.subscription, old.subscription, subscription)
             /\ payment' = [t \in Txn |-> IF new.payment[t] # old.payment[t]
                                          THEN new.payment[t] ELSE payment[t]]
             /\ UNCHANGED orders
     /\ Reply(h)
     /\ UNCHANGED <<sent, fails, disordered>>

\* The process dies or the database does not answer.
Fail(h) ==
  /\ pc[h] # "idle"
  /\ fails < FailLimit
  /\ fails' = fails + 1
  /\ Reply(h)
  /\ UNCHANGED <<sent, tables, disordered>>

\* Paddle's data changes.
Send ==
  /\ Len(sent) < MaxEvents
  /\ \E e \in Event : sent' = Append(sent, e)
  /\ UNCHANGED <<tables, local, fails, disordered>>

Init ==
  /\ sent = <<>>
  /\ webhook_events = [i \in 1 .. MaxEvents |-> "none"]
  /\ subscription = NoRow
  /\ payment = [t \in Txn |-> NoRow]
  /\ orders = [t \in Txn |-> 0]
  /\ pc = [h \in Handler |-> "idle"]
  /\ event = [h \in Handler |-> 0]
  /\ loaded = [h \in Handler |-> NoRow]
  /\ fails = 0
  /\ disordered = FALSE

Handle(h) ==
  \/ Insert(h) \/ Dispatch(h) \/ ReadSubscription(h)
  \/ Refuse(h) \/ Order(h) \/ Commit(h)

Deliver(i) == i <= Len(sent) /\ \E h \in Handler : Receive(h, i)

Next ==
  \/ Send
  \/ \E i \in 1 .. MaxEvents : Deliver(i)
  \/ \E h \in Handler : Handle(h) \/ Fail(h)

Spec == Init /\ [][Next]_vars

\* A request ends, and Paddle sends an event that was not answered with 200 again.
\* Refused events come back for ever and may find every handler of the bound at work
\* again and again; a server takes the other events' requests all the same.
FairSpec ==
  /\ Spec
  /\ \A h \in Handler : WF_vars(Handle(h))
  /\ \A i \in 1 .. MaxEvents : SF_vars(Deliver(i))

-----------------------------------------------------------------------------
(* What must hold *)

\* Variables have their types, and an event is in hand from its look-up to its
\* answer.
TypeOK ==
  /\ sent \in Seq(Event) /\ Len(sent) <= MaxEvents
  /\ webhook_events \in [1 .. MaxEvents -> {"none", "received", "processed"}]
  /\ subscription \in Row \cup {NoRow}
  /\ payment \in [Txn -> PaymentStatus \cup {NoRow}]
  /\ orders \in [Txn -> Nat]
  /\ pc \in [Handler -> {"idle", "insert", "dispatch", "read", "order", "write"}]
  /\ event \in [Handler -> 0 .. Len(sent)]
  /\ loaded \in [Handler -> Rows \cup {NoRow}]
  /\ fails \in 0 .. FailLimit
  /\ disordered \in BOOLEAN
  /\ \A h \in Handler :
       /\ pc[h] = "idle" <=> event[h] = 0
       /\ pc[h] \in {"read", "order", "write"} => loaded[h] \in Rows

\* A purchase is recorded once: never twice, however often and at the same time
\* its event is delivered, and never lost, although the order is committed before
\* its event is marked and a request may die in between.
OneOrder ==
  /\ \A t \in Txn : orders[t] <= 1
  /\ \A i \in 1 .. Len(sent) :
       sent[i].kind = "agency" /\ Processed(i) => orders[sent[i].txn] = 1

\* The rows that the processed ones of the first n events make of none, in the order
\* sent, each applied once.
Replayed[n \in 0 .. MaxEvents] ==
  IF n = 0 THEN [subscription |-> NoRow, payment |-> [t \in Txn |-> NoRow]]
  ELSE IF Processed(n) THEN Applied(Replayed[n - 1], sent[n])
  ELSE Replayed[n - 1]

\* The rows are what the processed events make of none, in the order sent, each
\* applied once, whatever is delivered again and whichever request died, unless
\* two requests overlapped or an event came after a later one.
FollowsEvents ==
  ~disordered =>
    [subscription |-> subscription, payment |-> payment] = Replayed[MaxEvents]

\* Every event that is not refused is processed in the end, although requests that
\* collide on a unique key fail each other and refused ones come back for ever.
EveryEventProcessed ==
  \A i \in 1 .. MaxEvents :
    i <= Len(sent) /\ sent[i].kind # "refused" ~> Processed(i)
=============================================================================
