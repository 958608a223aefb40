------------------------ MODULE PaddleWebhook_proofs ------------------------
(***************************************************************************)
(* Theorems about PaddleWebhook, for every value of its constants.          *)
(***************************************************************************)
EXTENDS PaddleWebhook, TLAPS, WellFoundedInduction

-----------------------------------------------------------------------------
(* Rows and events *)

\* What an event makes of rows is rows.
LEMMA AppliedType ==
  ASSUME NEW rows \in Rows, NEW e \in Event
  PROVE  Applied(rows, e) \in Rows
<1>1. CASE e.kind = "subscription"
  <2>1. e.plan \in Plan /\ e.status \in Status
    BY <1>1 DEF Event
  <2>2. SubscriptionOf(e, rows.subscription) \in Row
    BY <2>1 DEF SubscriptionOf, Row
  <2>3. QED
    BY <1>1, <2>2 DEF Applied, Rows
<1>2. CASE e.kind = "transaction"
  <2>1. e.txn \in Txn /\ e.status \in PaymentStatus
    BY <1>2 DEF Event
  <2>2. ASSUME NEW row \in Row PROVE StatusAfter(e, row) \in Row
    BY <2>1 DEF StatusAfter, Row, Status, PaymentStatus
  <2>3. /\ (IF rows.subscription = NoRow THEN NoRow ELSE StatusAfter(e, rows.subscription))
             \in Row \cup {NoRow}
        /\ [rows.payment EXCEPT ![e.txn] = e.status] \in [Txn -> PaymentStatus \cup {NoRow}]
    BY <2>1, <2>2 DEF Rows
  <2>4. QED
    BY <1>2, <2>3 DEF Applied, Rows
<1>3. CASE e.kind \notin {"subscription", "transaction"}
  BY <1>3 DEF Applied
<1>4. QED
  BY <1>1, <1>2, <1>3

\* A flush leaves a row.
LEMMA WrittenType ==
  ASSUME NEW new \in Row, NEW old \in Row \cup {NoRow}, NEW now \in Row \cup {NoRow},
         old # NoRow => now # NoRow
  PROVE  Written(new, old, now) \in Row
<1>1. CASE old = NoRow
  BY <1>1 DEF Written
<1>2. CASE old # NoRow
  BY <1>2 DEF Written, Row
<1>3. QED
  BY <1>1, <1>2

\* The event in hand.
LEMMA InHand ==
  ASSUME TypeOK, NEW h \in Handler, pc[h] # "idle"
  PROVE  event[h] \in 1 .. Len(sent) /\ event[h] \in 1 .. MaxEvents /\ sent[event[h]] \in Event
<1>1. event[h] \in 0 .. Len(sent) /\ event[h] # 0 /\ sent \in Seq(Event) /\ Len(sent) <= MaxEvents
  BY DEF TypeOK
<1>2. Len(sent) \in Nat /\ MaxEvents \in Nat
  BY <1>1, PaddleWebhookAssumption
<1>3. event[h] \in 1 .. Len(sent) /\ event[h] \in 1 .. MaxEvents
  BY <1>1, <1>2
<1>4. QED
  BY <1>1, <1>3

-----------------------------------------------------------------------------
(* Type correctness *)

\* A subscription is never deleted: one that a handler has read is still there.
RowsStay ==
  \A h \in Handler :
    pc[h] \in {"read", "order", "write"} /\ loaded[h].subscription # NoRow =>
      subscription # NoRow

TypeInv == TypeOK /\ RowsStay

LEMMA InitType == Init => TypeInv
<1> SUFFICES ASSUME Init PROVE TypeInv
  OBVIOUS
<1>1. MaxEvents \in Nat /\ FailLimit \in Nat
  BY PaddleWebhookAssumption
<1>2. sent \in Seq(Event) /\ Len(sent) = 0
  BY DEF Init
<1>3. event \in [Handler -> 0 .. Len(sent)] /\ fails \in 0 .. FailLimit
  BY <1>1, <1>2 DEF Init
<1>4. TypeOK
  <2>1. /\ webhook_events \in [1 .. MaxEvents -> {"none", "received", "processed"}]
        /\ subscription \in Row \cup {NoRow}
        /\ payment \in [Txn -> PaymentStatus \cup {NoRow}]
        /\ orders \in [Txn -> Nat]
    BY DEF Init
  <2>2. /\ pc \in [Handler -> {"idle", "insert", "dispatch", "read", "order", "write"}]
        /\ loaded \in [Handler -> Rows \cup {NoRow}]
        /\ disordered \in BOOLEAN
        /\ \A h \in Handler : pc[h] = "idle" /\ event[h] = 0
    BY DEF Init
  <2>3. QED
    BY <1>1, <1>2, <1>3, <2>1, <2>2 DEF TypeOK
<1>5. QED
  BY <1>4 DEF Init, TypeInv, RowsStay

\* An answer leaves the tables to the step that gives it.
LEMMA ReplyType ==
  ASSUME TypeInv, NEW h \in Handler, Reply(h), UNCHANGED sent
  PROVE  /\ pc' \in [Handler -> {"idle", "insert", "dispatch", "read", "order", "write"}]
         /\ event' \in [Handler -> 0 .. Len(sent)]
         /\ loaded' \in [Handler -> Rows \cup {NoRow}]
         /\ \A g \in Handler :
              /\ pc'[g] = "idle" <=> event'[g] = 0
              /\ pc'[g] \in {"read", "order", "write"} =>
                   /\ pc[g] \in {"read", "order", "write"}
                   /\ loaded'[g] = loaded[g] /\ loaded'[g] \in Rows
<1>1. 0 \in 0 .. Len(sent)
  BY DEF TypeInv, TypeOK
<1>2. QED
  BY <1>1 DEF Reply, TypeInv, TypeOK

LEMMA NextType == TypeInv /\ [Next]_vars => TypeInv'
<1> SUFFICES ASSUME TypeInv, [Next]_vars PROVE TypeInv'
  OBVIOUS
<1>1. ASSUME NEW h \in Handler, NEW i \in 1 .. MaxEvents, i <= Len(sent), Receive(h, i)
      PROVE  TypeInv'
  <2>1. i \in 0 .. Len(sent) /\ i # 0
    BY <1>1, PaddleWebhookAssumption DEF TypeInv, TypeOK
  <2>2. disordered' \in BOOLEAN
    BY <1>1 DEF Receive, Disorders
  <2>3. TypeOK'
    BY <1>1, <2>1, <2>2 DEF Receive, TypeInv, TypeOK, tables
  <2>4. RowsStay'
    BY <1>1 DEF Receive, TypeInv, TypeOK, RowsStay, tables
  <2>5. QED
    BY <2>3, <2>4 DEF TypeInv
<1>2. ASSUME NEW h \in Handler, Insert(h) PROVE TypeInv'
  <2>1. event[h] \in 1 .. MaxEvents
    BY <1>2, InHand DEF Insert, TypeInv
  <2>2. QED
    BY <1>2, <2>1 DEF Insert, TypeInv, TypeOK, RowsStay
<1>3. ASSUME NEW h \in Handler, Dispatch(h) PROVE TypeInv'
  <2> DEFINE rows == [subscription |-> NoRow, payment |-> payment]
  <2>1. rows \in Rows /\ rows.subscription = NoRow
    BY DEF TypeInv, TypeOK, Rows
  <2>2. /\ loaded' = [loaded EXCEPT ![h] = rows]
        /\ UNCHANGED <<sent, tables, event, fails, disordered>>
    BY <1>3 DEF Dispatch
  <2>3. PICK k \in {"read", "order", "write"} : pc' = [pc EXCEPT ![h] = k]
    BY <1>3 DEF Dispatch
  <2>4. pc[h] = "dispatch" /\ event[h] # 0
    BY <1>3 DEF Dispatch, TypeInv, TypeOK
  <2> HIDE DEF rows
  <2>5. /\ pc' \in [Handler -> {"idle", "insert", "dispatch", "read", "order", "write"}]
        /\ loaded' \in [Handler -> Rows \cup {NoRow}]
    BY <2>1, <2>2, <2>3 DEF TypeInv, TypeOK
  <2>6. \A g \in Handler :
          /\ pc'[g] = "idle" <=> event[g] = 0
          /\ pc'[g] \in {"read", "order", "write"} =>
               loaded'[g] \in Rows /\ (loaded'[g].subscription # NoRow => subscription # NoRow)
    BY <2>1, <2>2, <2>3, <2>4 DEF TypeInv, TypeOK, RowsStay
  <2>7. TypeOK'
    BY <2>2, <2>5, <2>6 DEF TypeInv, TypeOK, tables
  <2>8. RowsStay'
    BY <2>2, <2>6 DEF RowsStay, tables
  <2>9. QED
    BY <2>7, <2>8 DEF TypeInv
<1>4. ASSUME NEW h \in Handler, Order(h) PROVE TypeInv'
  <2> DEFINE t == sent[event[h]].txn
  <2>1. UNCHANGED <<sent, webhook_events, subscription, payment, fails, disordered>>
    BY <1>4 DEF Order
  <2>2. CASE orders[t] = 0
    <3>1. /\ pc[h] = "order" /\ pc' = [pc EXCEPT ![h] = "write"]
          /\ UNCHANGED <<event, loaded>> /\ orders' = [orders EXCEPT ![t] = 1]
      BY <1>4, <2>2 DEF Order
    <3> HIDE DEF t
    <3>2. orders' \in [Txn -> Nat]
      BY <3>1 DEF TypeInv, TypeOK
    <3>3. pc' \in [Handler -> {"idle", "insert", "dispatch", "read", "order", "write"}]
      BY <3>1 DEF TypeInv, TypeOK
    <3>4. \A g \in Handler :
            /\ pc'[g] = "idle" <=> pc[g] = "idle"
            /\ pc'[g] \in {"read", "order", "write"} <=> pc[g] \in {"read", "order", "write"}
      BY <3>1 DEF TypeInv, TypeOK
    <3>5. QED
      BY <2>1, <3>1, <3>2, <3>3, <3>4 DEF TypeInv, TypeOK, RowsStay
  <2>3. CASE orders[t] # 0
    BY <1>4, <2>1, <2>3, ReplyType DEF Order, TypeInv, TypeOK, RowsStay
  <2>4. QED
    BY <2>2, <2>3
<1>5. ASSUME NEW h \in Handler, Commit(h) PROVE TypeInv'
  <2> DEFINE old == loaded[h]
             new == Applied(old, sent[event[h]])
  <2>1. /\ pc[h] = "write" /\ Reply(h) /\ UNCHANGED <<sent, fails, disordered>>
        /\ event[h] \in 1 .. MaxEvents /\ sent[event[h]] \in Event
    BY <1>5, InHand DEF Commit, TypeInv
  <2>2. old \in Rows /\ new \in Rows /\ (old.subscription # NoRow => subscription # NoRow)
    BY <2>1, AppliedType DEF TypeInv, TypeOK, RowsStay
  <2>3. CASE UNCHANGED tables
    BY <2>1, <2>3, ReplyType DEF TypeInv, TypeOK, RowsStay, tables
  <2>4. CASE /\ webhook_events' = [webhook_events EXCEPT ![event[h]] = "processed"]
             /\ subscription' = IF new.subscription = NoRow THEN subscription
                  ELSE Written(new.subscription, old.subscription, subscription)
             /\ payment' = [t \in Txn |-> IF new.payment[t] # old.payment[t]
                                          THEN new.payment[t] ELSE payment[t]]
             /\ UNCHANGED orders
    <3>1. /\ new.subscription \in Row \cup {NoRow} /\ old.subscription \in Row \cup {NoRow}
          /\ subscription \in Row \cup {NoRow}
          /\ new.payment \in [Txn -> PaymentStatus \cup {NoRow}]
      BY <2>2 DEF Rows, TypeInv, TypeOK
    <3> HIDE DEF old, new
    <3>2. subscription' \in Row \cup {NoRow} /\ (subscription # NoRow => subscription' # NoRow)
      <4>1. CASE new.subscription = NoRow
        BY <2>4, <3>1, <4>1
      <4>2. CASE new.subscription # NoRow
        BY <2>2, <2>4, <3>1, <4>2, WrittenType, NoRowAssumption
      <4>3. QED
        BY <4>1, <4>2
    <3>3. payment' \in [Txn -> PaymentStatus \cup {NoRow}]
      BY <2>4, <3>1 DEF TypeInv, TypeOK
    <3>4. webhook_events' \in [1 .. MaxEvents -> {"none", "received", "processed"}]
      BY <2>4 DEF TypeInv, TypeOK
    <3>5. QED
      BY <2>1, <2>4, <3>2, <3>3, <3>4, ReplyType DEF TypeInv, TypeOK, RowsStay
  <2>5. QED
    BY <1>5, <2>3, <2>4 DEF Commit
<1>6. ASSUME NEW h \in Handler, Fail(h) PROVE TypeInv'
  <2>1. fails' \in 0 .. FailLimit
    BY <1>6, PaddleWebhookAssumption DEF Fail, TypeInv, TypeOK
  <2>2. QED
    BY <1>6, <2>1, ReplyType DEF Fail, TypeInv, TypeOK, RowsStay, tables
<1>7. ASSUME Send PROVE TypeInv'
  <2>1. PICK e \in Event : sent' = Append(sent, e)
    BY <1>7 DEF Send
  <2>2. sent' \in Seq(Event) /\ Len(sent') <= MaxEvents /\ 0 .. Len(sent) \subseteq 0 .. Len(sent')
    BY <1>7, <2>1, PaddleWebhookAssumption DEF Send, TypeInv, TypeOK
  <2>3. QED
    BY <1>7, <2>2 DEF Send, TypeInv, TypeOK, RowsStay, tables, local
<1>8. ASSUME NEW h \in Handler, Refuse(h) PROVE TypeInv'
  BY <1>8, ReplyType DEF Refuse, TypeInv, TypeOK, RowsStay, tables
<1>9. ASSUME NEW h \in Handler, ReadSubscription(h) PROVE TypeInv'
  <2>1. /\ pc[h] = "read" /\ pc' = [pc EXCEPT ![h] = "write"]
        /\ loaded' = [loaded EXCEPT ![h].subscription = subscription]
        /\ UNCHANGED <<sent, tables, event, fails, disordered>>
    BY <1>9 DEF ReadSubscription
  <2>2. PICK rows \in Rows : rows = [loaded[h] EXCEPT !.subscription = subscription]
    BY <2>1 DEF TypeInv, TypeOK, Rows
  <2>3. loaded' = [loaded EXCEPT ![h] = rows]
    BY <2>1, <2>2
  <2>4. rows.subscription = subscription
    BY <2>1, <2>2 DEF TypeInv, TypeOK, Rows
  <2>5. TypeOK'
    BY <2>1, <2>3 DEF TypeInv, TypeOK, tables
  <2>6. RowsStay'
    BY <2>1, <2>3, <2>4 DEF TypeInv, TypeOK, RowsStay, tables
  <2>7. QED
    BY <2>5, <2>6 DEF TypeInv
<1>10. CASE UNCHANGED vars
  BY <1>10 DEF vars, tables, local, TypeInv, TypeOK, RowsStay
<1>11. QED
  BY <1>1, <1>2, <1>3, <1>4, <1>5, <1>6, <1>7, <1>8, <1>9, <1>10 DEF Next, Deliver, Handle

\* The tables and what the handlers hold keep their types, and a handler has an event
\* exactly from its look-up to its answer, for any number of each.
THEOREM TypeCorrect == Spec => []TypeOK
<1>1. Init => TypeInv
  BY InitType
<1>2. TypeInv /\ [Next]_vars => TypeInv'
  BY NextType
<1>3. TypeInv => TypeOK
  BY DEF TypeInv
<1>4. QED
  BY <1>1, <1>2, <1>3, PTL DEF Spec

-----------------------------------------------------------------------------
(* A purchase is recorded once *)

\* A handler that is about to mark the event of a purchase has its order, or another
\* one has committed it.
OrderInv ==
  /\ OneOrder
  /\ \A h \in Handler : pc[h] = "write" /\ sent[event[h]].kind = "agency" =>
       orders[sent[event[h]].txn] = 1
  /\ \A h \in Handler : pc[h] = "order" => sent[event[h]].kind = "agency"
  /\ \A h \in Handler : pc[h] = "read" =>
       sent[event[h]].kind \in {"subscription", "transaction"}
  /\ \A i \in 1 .. MaxEvents : i > Len(sent) => webhook_events[i] = "none"

LEMMA NextOrder == TypeInv /\ OrderInv /\ [Next]_vars => OrderInv'
<1> SUFFICES ASSUME TypeInv, OrderInv, [Next]_vars PROVE OrderInv'
  OBVIOUS
<1>1. ASSUME NEW h \in Handler, NEW i \in 1 .. MaxEvents, Receive(h, i) PROVE OrderInv'
  <2>1. UNCHANGED <<sent, webhook_events, orders>>
    BY <1>1 DEF Receive, tables
  <2>2. \A g \in Handler :
          pc'[g] \in {"read", "order", "write"} => pc'[g] = pc[g] /\ event'[g] = event[g]
    BY <1>1 DEF Receive, TypeInv, TypeOK
  <2>3. QED
    BY <2>1, <2>2 DEF OrderInv, OneOrder, Processed
<1>2. ASSUME NEW h \in Handler, Insert(h) PROVE OrderInv'
  <2>1. UNCHANGED <<sent, orders, event>>
    BY <1>2 DEF Insert
  <2>2. \A g \in Handler : pc'[g] \in {"read", "order", "write"} => pc'[g] = pc[g]
    BY <1>2 DEF Insert, TypeInv, TypeOK
  <2>3. event[h] \in 1 .. Len(sent)
    BY <1>2, InHand DEF Insert, TypeInv
  <2>4. \A i \in 1 .. MaxEvents :
          /\ Processed(i)' => Processed(i)
          /\ i # event[h] => webhook_events'[i] = webhook_events[i]
    BY <1>2 DEF Insert, Processed, TypeInv, TypeOK
  <2>5. \A i \in 1 .. Len(sent) : i \in 1 .. MaxEvents
    BY PaddleWebhookAssumption DEF TypeInv, TypeOK
  <2>6. QED
    BY <2>1, <2>2, <2>3, <2>4, <2>5 DEF OrderInv, OneOrder
<1>3. ASSUME NEW h \in Handler, Dispatch(h) PROVE OrderInv'
  <2>1. UNCHANGED <<sent, webhook_events, orders, event>>
    BY <1>3 DEF Dispatch, tables
  <2>2. sent[event[h]] \in Event
    BY <1>3, InHand DEF Dispatch, TypeInv
  <2>3. sent[event[h]].kind = "agency" => sent[event[h]].txn \in Txn
    BY <2>2 DEF Event
  <2>4. \A g \in Handler : pc'[g] = "write" =>
          \/ pc[g] = "write"
          \/ g = h /\ (sent[event[h]].kind = "agency" => orders[sent[event[h]].txn] # 0)
    BY <1>3 DEF Dispatch, TypeInv, TypeOK
  <2>6. \A g \in Handler : pc'[g] = "order" =>
          pc[g] = "order" \/ (g = h /\ sent[event[h]].kind = "agency")
    BY <1>3 DEF Dispatch, TypeInv, TypeOK
  <2>8. \A g \in Handler : pc'[g] = "read" =>
          \/ pc[g] = "read"
          \/ g = h /\ sent[event[h]].kind \in {"subscription", "transaction"}
    BY <1>3 DEF Dispatch, TypeInv, TypeOK
  <2>5. \A t \in Txn : orders[t] # 0 => orders[t] = 1
    BY DEF OrderInv, OneOrder, TypeInv, TypeOK
  <2>7. QED
    BY <2>1, <2>3, <2>4, <2>5, <2>6, <2>8 DEF OrderInv, OneOrder, Processed
<1>4. ASSUME NEW h \in Handler, Order(h) PROVE OrderInv'
  <2>1. pc[h] = "order" /\ UNCHANGED <<sent, webhook_events>>
    BY <1>4 DEF Order
  <2>2. PICK t \in Txn : t = sent[event[h]].txn
    <3>1. sent[event[h]] \in Event /\ sent[event[h]].kind = "agency"
      BY <2>1, InHand DEF TypeInv, OrderInv
    <3>2. QED
      BY <3>1 DEF Event
  <2>3. CASE orders[t] = 0
    <3>1. /\ orders' = [orders EXCEPT ![t] = 1] /\ pc' = [pc EXCEPT ![h] = "write"]
          /\ UNCHANGED event
      BY <1>4, <2>2, <2>3 DEF Order
    <3>2. \A u \in Txn : orders'[u] = IF u = t THEN 1 ELSE orders[u]
      BY <3>1 DEF TypeInv, TypeOK
    <3>3. \A g \in Handler : pc'[g] = IF g = h THEN "write" ELSE pc[g]
      BY <3>1 DEF TypeInv, TypeOK
    <3>4. ASSUME NEW g \in Handler, pc'[g] = "write", sent[event[g]].kind = "agency"
          PROVE  orders'[sent[event[g]].txn] = 1
      <4>1. CASE g = h
        BY <4>1, <2>2, <3>2
      <4>2. CASE g # h
        <5>1. pc[g] = "write" /\ orders[sent[event[g]].txn] = 1 /\ sent[event[g]] \in Event
          BY <3>3, <3>4, <4>2, InHand DEF OrderInv, TypeInv
        <5>2. sent[event[g]].txn \in Txn
          BY <3>4, <5>1 DEF Event
        <5>3. QED
          BY <5>1, <5>2, <3>2
      <4>3. QED
        BY <4>1, <4>2
    <3>5. \A i \in 1 .. Len(sent) : sent[i].kind = "agency" => sent[i].txn \in Txn
      <4>1. \A i \in 1 .. Len(sent) : sent[i] \in Event
        BY DEF TypeInv, TypeOK
      <4>2. QED
        BY <4>1 DEF Event
    <3>6. OneOrder'
      BY <2>1, <3>2, <3>5 DEF OrderInv, OneOrder, Processed
    <3>7. QED
      BY <2>1, <3>1, <3>3, <3>4, <3>6 DEF OrderInv
  <2>4. CASE orders[t] # 0
    <3>1. Reply(h) /\ UNCHANGED orders
      BY <1>4, <2>2, <2>4 DEF Order
    <3>2. \A g \in Handler :
            pc'[g] \in {"read", "order", "write"} => pc'[g] = pc[g] /\ event'[g] = event[g]
      BY <3>1 DEF Reply, TypeInv, TypeOK
    <3>3. QED
      BY <2>1, <3>1, <3>2 DEF OrderInv, OneOrder, Processed
  <2>5. QED
    BY <2>3, <2>4
<1>5. ASSUME NEW h \in Handler, Commit(h) PROVE OrderInv'
  <2>1. pc[h] = "write" /\ Reply(h) /\ UNCHANGED <<sent, orders>>
    BY <1>5 DEF Commit, tables
  <2>2. \A g \in Handler :
          pc'[g] \in {"read", "order", "write"} => pc'[g] = pc[g] /\ event'[g] = event[g]
    BY <2>1 DEF Reply, TypeInv, TypeOK
  <2>3. event[h] \in 1 .. Len(sent)
    BY <2>1, InHand DEF TypeInv
  <2>4. \A i \in 1 .. MaxEvents : i # event[h] => webhook_events'[i] = webhook_events[i]
    BY <1>5 DEF Commit, tables, TypeInv, TypeOK
  <2>5. \A i \in 1 .. Len(sent) : i \in 1 .. MaxEvents
    BY PaddleWebhookAssumption DEF TypeInv, TypeOK
  <2>6. OneOrder'
    <3>1. ASSUME NEW i \in 1 .. Len(sent), sent[i].kind = "agency", Processed(i)'
          PROVE  orders[sent[i].txn] = 1
      <4>1. CASE i = event[h]
        BY <2>1, <3>1, <4>1 DEF OrderInv
      <4>2. CASE i # event[h]
        BY <2>4, <2>5, <3>1, <4>2 DEF OrderInv, OneOrder, Processed
      <4>3. QED
        BY <4>1, <4>2
    <3>2. QED
      BY <2>1, <3>1 DEF OrderInv, OneOrder
  <2>7. \A i \in 1 .. MaxEvents : i > Len(sent) => webhook_events'[i] = "none"
    BY <2>3, <2>4 DEF OrderInv, TypeInv, TypeOK
  <2>8. QED
    BY <2>1, <2>2, <2>6, <2>7 DEF OrderInv
<1>6. ASSUME NEW h \in Handler, Fail(h) PROVE OrderInv'
  <2>1. UNCHANGED <<sent, webhook_events, orders>>
    BY <1>6 DEF Fail, tables
  <2>2. \A g \in Handler :
          pc'[g] \in {"read", "order", "write"} => pc'[g] = pc[g] /\ event'[g] = event[g]
    BY <1>6 DEF Fail, Reply, TypeInv, TypeOK
  <2>3. QED
    BY <2>1, <2>2 DEF OrderInv, OneOrder, Processed
<1>7. ASSUME Send PROVE OrderInv'
  <2>1. PICK e \in Event : sent' = Append(sent, e)
    BY <1>7 DEF Send
  <2>2. UNCHANGED <<webhook_events, orders, pc, event>>
    BY <1>7 DEF Send, tables, local
  <2>3. /\ Len(sent) \in Nat /\ Len(sent') = Len(sent) + 1 /\ Len(sent') <= MaxEvents
        /\ MaxEvents \in Nat /\ \A i \in 1 .. Len(sent) : sent'[i] = sent[i]
    BY <1>7, <2>1, PaddleWebhookAssumption DEF Send, TypeInv, TypeOK
  <2>4. \A i \in 1 .. Len(sent') : i \in 1 .. Len(sent) \/ ~Processed(i)
    BY <2>3 DEF OrderInv, Processed
  <2>5. OneOrder'
    BY <2>2, <2>3, <2>4 DEF OrderInv, OneOrder, Processed
  <2>6. \A g \in Handler : pc[g] # "idle" => sent'[event[g]] = sent[event[g]]
    BY <2>3, InHand DEF TypeInv
  <2>7. QED
    BY <2>2, <2>3, <2>5, <2>6 DEF OrderInv
<1>8. ASSUME NEW h \in Handler, Refuse(h) PROVE OrderInv'
  <2>1. UNCHANGED <<sent, webhook_events, orders>>
    BY <1>8 DEF Refuse, tables
  <2>2. \A g \in Handler :
          pc'[g] \in {"read", "order", "write"} => pc'[g] = pc[g] /\ event'[g] = event[g]
    BY <1>8 DEF Refuse, Reply, TypeInv, TypeOK
  <2>3. QED
    BY <2>1, <2>2 DEF OrderInv, OneOrder, Processed
<1>9. ASSUME NEW h \in Handler, ReadSubscription(h) PROVE OrderInv'
  <2>1. UNCHANGED <<sent, webhook_events, orders, event>>
    BY <1>9 DEF ReadSubscription, tables
  <2>2. \A g \in Handler :
          /\ pc'[g] \in {"read", "order"} => pc'[g] = pc[g]
          /\ pc'[g] = "write" => pc[g] = "write" \/ g = h
    BY <1>9 DEF ReadSubscription, TypeInv, TypeOK
  <2>3. sent[event[h]].kind # "agency"
    BY <1>9 DEF ReadSubscription, OrderInv
  <2>4. QED
    BY <2>1, <2>2, <2>3 DEF OrderInv, OneOrder, Processed
<1>10. CASE UNCHANGED vars
  BY <1>10 DEF vars, tables, local, OrderInv, OneOrder, Processed
<1>11. QED
  BY <1>1, <1>2, <1>3, <1>4, <1>5, <1>6, <1>7, <1>8, <1>9, <1>10 DEF Next, Deliver, Handle

\* However often and at the same time the event of a purchase is delivered, and whoever
\* dies in between, its order exists once, and exists if the event counts as processed.
THEOREM OrderedOnce == Spec => []OneOrder
<1>1. Init => TypeInv /\ OrderInv
  <2>1. Init => OrderInv
    BY DEF Init, OrderInv, OneOrder
  <2>2. QED
    BY <2>1, InitType
<1>2. TypeInv /\ OrderInv /\ [Next]_vars => (TypeInv /\ OrderInv)'
  BY NextType, NextOrder
<1>3. OrderInv => OneOrder
  BY DEF OrderInv
<1>4. QED
  BY <1>1, <1>2, <1>3, PTL DEF Spec

-----------------------------------------------------------------------------
(* The rows follow the events *)

Current == [subscription |-> subscription, payment |-> payment]

NoRows == [subscription |-> NoRow, payment |-> [t \in Txn |-> NoRow]]

\* What Dispatch has read.
PaymentsRead == [subscription |-> NoRow, payment |-> payment]

\* Does the event change a subscription or a payment?
Moves(e) == e.kind \in {"subscription", "transaction"}

\* r is the rows after each of the events, of which the processed ones count.
Replay(r) ==
  r = [n \in 0 .. MaxEvents |->
         IF n = 0 THEN NoRows
         ELSE IF Processed(n) THEN Applied(r[n - 1], sent[n]) ELSE r[n - 1]]

\* After the last processed event they are what the tables hold.
Arrived(r) ==
  \A n \in 0 .. MaxEvents :
    (\A j \in n + 1 .. MaxEvents : ~Processed(j)) => r[n] = Current

\* As long as no two events overlap and none comes after a later one: one request is
\* at work, on an event after those that are processed, and what it has read is what
\* the tables hold, but for a subscription that its event does not touch; and these
\* are the rows that a replay arrives at.
FollowInv ==
  ~disordered =>
    /\ \A g, h \in Handler : pc[g] # "idle" /\ pc[h] # "idle" => g = h
    /\ \A h \in Handler : pc[h] # "idle" =>
         \A j \in event[h] .. MaxEvents : ~Processed(j)
    /\ \A h \in Handler : pc[h] \in {"read", "order"} => loaded[h] = PaymentsRead
    /\ \A h \in Handler : pc[h] = "write" =>
         loaded[h] = IF Moves(sent[event[h]]) THEN Current ELSE PaymentsRead
    /\ \E r : Replay(r) /\ Arrived(r)

\* Of natural numbers there is a least.
LEMMA LeastNumber ==
  ASSUME NEW T, T \subseteq Nat, T # {}
  PROVE  \E x \in T : \A y \in T : x <= y
<1> DEFINE R == OpToRel(<, Nat)
<1>1. IsWellFoundedOn(R, Nat)
  BY NatLessThanWellFounded
<1>2. PICK x \in T : \A y \in T : ~(<<y, x>> \in R)
  <2> HIDE DEF R
  <2>1. QED
    BY <1>1, WFMin
<1>3. R = {ss \in Nat \X Nat : ss[1] < ss[2]}
  BY DEF OpToRel
<1> HIDE DEF R
<1>4. \A y \in T : <<y, x>> \in Nat \X Nat /\ ~(<<y, x>> \in R)
  BY <1>2
<1>5. \A y \in T : ~(y < x)
  BY <1>3, <1>4
<1>6. \A y \in T : x \in Nat /\ y \in Nat
  OBVIOUS
<1>7. QED
  BY <1>5, <1>6

\* Two replays are the same: there is no least number at which they differ.
LEMMA ReplayOnce ==
  ASSUME NEW r, NEW s, Replay(r), Replay(s)
  PROVE  r = s
<1>1. MaxEvents \in Nat
  BY PaddleWebhookAssumption
<1>2. /\ \A n \in 0 .. MaxEvents : r[n] =
           IF n = 0 THEN NoRows
           ELSE IF Processed(n) THEN Applied(r[n - 1], sent[n]) ELSE r[n - 1]
      /\ \A n \in 0 .. MaxEvents : s[n] =
           IF n = 0 THEN NoRows
           ELSE IF Processed(n) THEN Applied(s[n - 1], sent[n]) ELSE s[n - 1]
  BY DEF Replay
<1> DEFINE T == {n \in 0 .. MaxEvents : r[n] # s[n]}
<1>3. T = {}
  <2> SUFFICES ASSUME T # {} PROVE FALSE
    OBVIOUS
  <2>1. T \subseteq Nat
    BY <1>1
  <2>2. PICK n \in T : \A m \in T : n <= m
    <3> HIDE DEF T
    <3>1. QED
      BY <2>1, LeastNumber
  <2>3. n \in 0 .. MaxEvents /\ r[n] # s[n]
    OBVIOUS
  <2>4. n # 0
    BY <1>2, <2>3
  <2>5. n - 1 \in 0 .. MaxEvents /\ ~(n <= n - 1)
    BY <1>1, <2>3, <2>4
  <2>6. r[n - 1] = s[n - 1]
    BY <2>2, <2>5
  <2>7. QED
    BY <1>2, <2>3, <2>6
<1>4. r = [n \in 0 .. MaxEvents |-> r[n]] /\ s = [n \in 0 .. MaxEvents |-> s[n]]
  BY DEF Replay
<1>5. \A n \in 0 .. MaxEvents : r[n] = s[n]
  BY <1>3
<1>6. QED
  BY <1>4, <1>5

LEMMA FollowsReplay == FollowInv => FollowsEvents
<1> SUFFICES ASSUME FollowInv, ~disordered PROVE Current = Replayed[MaxEvents]
  BY DEF FollowsEvents, Current
<1>1. PICK r : Replay(r) /\ Arrived(r)
  BY DEF FollowInv
<1>2. Replay(Replayed)
  <2>1. Replayed = CHOOSE s : Replay(s)
    BY DEF Replayed, Replay, NoRows
  <2>2. QED
    BY <1>1, <2>1
<1>3. Replayed = r
  BY <1>1, <1>2, ReplayOnce
<1>4. MaxEvents \in 0 .. MaxEvents /\ \A j \in MaxEvents + 1 .. MaxEvents : ~Processed(j)
  BY PaddleWebhookAssumption
<1>5. QED
  BY <1>1, <1>3, <1>4 DEF Arrived

LEMMA InitFollow == Init => FollowInv
<1> SUFFICES ASSUME Init PROVE FollowInv
  OBVIOUS
<1> DEFINE r == [n \in 0 .. MaxEvents |-> NoRows]
<1>1. \A n \in 1 .. MaxEvents : ~Processed(n)
  BY DEF Init, Processed
<1>2. MaxEvents \in Nat
  BY PaddleWebhookAssumption
<1>3. Replay(r)
  <2>1. \A n \in 0 .. MaxEvents : n # 0 => n - 1 \in 0 .. MaxEvents /\ ~Processed(n)
    BY <1>1, <1>2
  <2>2. QED
    BY <2>1 DEF Replay
<1>4. Arrived(r)
  BY DEF Arrived, Current, NoRows, Init
<1>5. QED
  BY <1>3, <1>4 DEF FollowInv, Init

\* A step that changes neither a row nor what is processed.
LEMMA SameRows ==
  ASSUME FollowInv, ~disordered, UNCHANGED <<subscription, payment>>,
         \A n \in 1 .. MaxEvents : Processed(n)' <=> Processed(n),
         \A n \in 1 .. MaxEvents : Processed(n) => sent'[n] = sent[n]
  PROVE  \E r : Replay(r)' /\ Arrived(r)'
<1>1. PICK r : Replay(r) /\ Arrived(r)
  BY DEF FollowInv
<1>2. MaxEvents \in Nat
  BY PaddleWebhookAssumption
<1>3. \A n \in 0 .. MaxEvents : n # 0 => n \in 1 .. MaxEvents
  BY <1>2
<1>4. Replay(r)'
  BY <1>1, <1>3 DEF Replay, NoRows
<1>5. Arrived(r)'
  <2>1. \A n \in 0 .. MaxEvents : \A j \in n + 1 .. MaxEvents : j \in 1 .. MaxEvents
    BY <1>2
  <2>2. Current' = Current
    BY DEF Current
  <2>3. QED
    BY <1>1, <2>1, <2>2 DEF Arrived
<1>6. QED
  BY <1>4, <1>5

\* An event does not delete a subscription.
LEMMA AppliedKeeps ==
  ASSUME NEW rows \in Rows, NEW e \in Event, rows.subscription # NoRow
  PROVE  Applied(rows, e).subscription # NoRow
<1>1. CASE e.kind = "subscription"
  <2>1. SubscriptionOf(e, rows.subscription) \in Row
    BY <1>1 DEF Event, SubscriptionOf, Row
  <2>2. Applied(rows, e).subscription = SubscriptionOf(e, rows.subscription)
    BY <1>1 DEF Applied, Rows
  <2>3. QED
    BY <2>1, <2>2, NoRowAssumption
<1>2. CASE e.kind = "transaction"
  <2>1. rows.subscription \in Row
    BY DEF Rows
  <2>2. StatusAfter(e, rows.subscription) \in Row
    BY <1>2, <2>1 DEF StatusAfter, Row, Status, Event, PaymentStatus
  <2>3. Applied(rows, e).subscription = StatusAfter(e, rows.subscription)
    BY <1>2 DEF Applied
  <2>4. QED
    BY <2>2, <2>3, NoRowAssumption
<1>3. CASE e.kind \notin {"subscription", "transaction"}
  BY <1>3 DEF Applied
<1>4. QED
  BY <1>1, <1>2, <1>3

\* A flush of what was loaded just now leaves what the event makes of it.
LEMMA FreshFlush ==
  ASSUME NEW new \in Row, NEW old \in Row \cup {NoRow}
  PROVE  Written(new, old, old) = new
<1>1. CASE old = NoRow
  BY <1>1 DEF Written
<1>2. CASE old # NoRow
  BY <1>2 DEF Written, Row
<1>3. QED
  BY <1>1, <1>2

\* The handlers other than the one at work are idle.
LEMMA OthersIdle ==
  ASSUME FollowInv, ~disordered, NEW h \in Handler, pc[h] # "idle",
         NEW g \in Handler \ {h}
  PROVE  pc[g] = "idle"
BY DEF FollowInv

LEMMA NextFollow == TypeInv /\ OrderInv /\ FollowInv /\ [Next]_vars => FollowInv'
<1> SUFFICES ASSUME TypeInv, OrderInv, FollowInv, [Next]_vars, ~disordered' PROVE FollowInv'
  BY DEF FollowInv
<1> USE DEF TypeInv
<1>1. ASSUME NEW h \in Handler, NEW i \in 1 .. MaxEvents, i <= Len(sent), Receive(h, i)
      PROVE  FollowInv'
  <2>1. /\ ~disordered /\ ~Disorders(h, i) /\ ~Processed(i)
        /\ UNCHANGED <<sent, webhook_events, subscription, payment, loaded>>
    BY <1>1 DEF Receive, tables
  <2>2. /\ \A g \in Handler : pc'[g] # "idle" => g = h /\ pc'[g] \in {"insert", "dispatch"}
        /\ event'[h] = i
    BY <1>1, <2>1 DEF Receive, Disorders, TypeOK
  <2>3. \A j \in i .. MaxEvents : ~Processed(j)
    <3>1. SUFFICES ASSUME NEW j \in i .. MaxEvents, j # i PROVE ~Processed(j)
      BY <2>1
    <3>2. j \in 1 .. MaxEvents /\ (j <= Len(sent) => j \in i + 1 .. Len(sent)) /\ Len(sent) \in Nat
      BY <3>1, PaddleWebhookAssumption DEF TypeOK
    <3>3. CASE j <= Len(sent)
      BY <2>1, <3>2, <3>3 DEF Disorders
    <3>4. CASE j > Len(sent)
      BY <3>2, <3>4 DEF OrderInv, Processed
    <3>5. QED
      BY <3>2, <3>3, <3>4
  <2>4. \E r : Replay(r)' /\ Arrived(r)'
    BY <2>1, SameRows DEF Processed
  <2>5. QED
    BY <2>1, <2>2, <2>3, <2>4 DEF FollowInv, Processed
<1>2. ASSUME NEW h \in Handler, Insert(h) PROVE FollowInv'
  <2>1. /\ ~disordered /\ pc[h] = "insert" /\ event[h] \in 1 .. MaxEvents
        /\ UNCHANGED <<sent, event, subscription, payment, loaded>>
    BY <1>2, InHand DEF Insert
  <2>2. \A n \in 1 .. MaxEvents : Processed(n)' <=> Processed(n)
    BY <1>2, <2>1 DEF Insert, Processed, TypeOK
  <2>3. \A g \in Handler : pc'[g] # "idle" => g = h /\ pc'[g] = "dispatch"
    BY <1>2, <2>1, OthersIdle DEF Insert, TypeOK
  <2>4. \A j \in event[h] .. MaxEvents : j \in 1 .. MaxEvents /\ ~Processed(j)
    BY <2>1, PaddleWebhookAssumption DEF FollowInv
  <2>5. \E r : Replay(r)' /\ Arrived(r)'
    BY <2>1, <2>2, SameRows
  <2>6. QED
    BY <2>1, <2>2, <2>3, <2>4, <2>5 DEF FollowInv
<1>3. ASSUME NEW h \in Handler, Dispatch(h) PROVE FollowInv'
  <2>1. /\ ~disordered /\ pc[h] = "dispatch"
        /\ UNCHANGED <<sent, webhook_events, event, subscription, payment>>
        /\ loaded' = [loaded EXCEPT ![h] = PaymentsRead]
    BY <1>3 DEF Dispatch, tables, PaymentsRead
  <2>2. \A g \in Handler : pc'[g] # "idle" => g = h /\ loaded'[g] = PaymentsRead
    BY <1>3, <2>1, OthersIdle DEF Dispatch, TypeOK
  <2>5. pc'[h] = "write" => ~Moves(sent[event[h]])
    BY <1>3 DEF Dispatch, Moves, TypeOK
  <2>3. \E r : Replay(r)' /\ Arrived(r)'
    BY <2>1, SameRows DEF Processed
  <2>4. QED
    BY <2>1, <2>2, <2>3, <2>5 DEF FollowInv, Processed, PaymentsRead
<1>4. ASSUME NEW h \in Handler, Order(h) PROVE FollowInv'
  <2>1. /\ ~disordered /\ pc[h] = "order"
        /\ UNCHANGED <<sent, webhook_events, subscription, payment>>
    BY <1>4 DEF Order
  <2>2. \A g \in Handler : pc'[g] # "idle" =>
          g = h /\ pc'[g] = "write" /\ event'[h] = event[h] /\ loaded'[h] = loaded[h]
    BY <1>4, <2>1, OthersIdle DEF Order, Reply, TypeOK
  <2>5. ~Moves(sent[event[h]]) /\ loaded[h] = PaymentsRead
    BY <2>1 DEF OrderInv, FollowInv, Moves
  <2>3. \E r : Replay(r)' /\ Arrived(r)'
    BY <2>1, SameRows DEF Processed
  <2>4. QED
    BY <2>1, <2>2, <2>3, <2>5 DEF FollowInv, Processed, PaymentsRead
<1>5. ASSUME NEW h \in Handler, Commit(h) PROVE FollowInv'
  <2>1. /\ ~disordered /\ pc[h] = "write" /\ Reply(h) /\ UNCHANGED sent
        /\ event[h] \in 1 .. MaxEvents /\ sent[event[h]] \in Event
        /\ loaded[h] = (IF Moves(sent[event[h]]) THEN Current ELSE PaymentsRead)
        /\ MaxEvents \in Nat
        /\ \A j \in event[h] .. MaxEvents : ~Processed(j)
    BY <1>5, InHand, PaddleWebhookAssumption DEF Commit, FollowInv
  <2>2. \A g \in Handler : pc'[g] = "idle"
    BY <2>1, OthersIdle DEF Reply, TypeOK
  <2>3. CASE UNCHANGED tables
    <3>1. \E r : Replay(r)' /\ Arrived(r)'
      BY <2>1, <2>3, SameRows DEF Processed, tables
    <3>2. QED
      BY <2>2, <3>1 DEF FollowInv
  <2>4. CASE ~ UNCHANGED tables
    <3> DEFINE i == event[h]
               new == Applied(Current, sent[i])
    <3>1. /\ webhook_events' = [webhook_events EXCEPT ![i] = "processed"]
          /\ Moves(sent[i]) =>
               /\ subscription' = IF new.subscription = NoRow THEN subscription
                                  ELSE Written(new.subscription, subscription, subscription)
               /\ payment' = [t \in Txn |-> IF new.payment[t] # payment[t]
                                            THEN new.payment[t] ELSE payment[t]]
      BY <1>5, <2>1, <2>4 DEF Commit, Current
    <3>12. ~Moves(sent[i]) => new = Current /\ UNCHANGED <<subscription, payment>>
      <4>1. SUFFICES ASSUME ~Moves(sent[i])
                     PROVE  new = Current /\ UNCHANGED <<subscription, payment>>
        OBVIOUS
      <4>2. \A rows : Applied(rows, sent[i]) = rows
        BY <4>1 DEF Applied, Moves
      <4>3. /\ loaded[h].subscription = NoRow /\ loaded[h].payment = payment
            /\ Applied(loaded[h], sent[i]) = loaded[h]
        BY <2>1, <4>1, <4>2 DEF PaymentsRead
      <4>4. subscription' = subscription /\ payment' = [t \in Txn |-> payment[t]]
        BY <1>5, <2>4, <4>3 DEF Commit
      <4>5. payment = [t \in Txn |-> payment[t]]
        BY DEF TypeOK
      <4>6. QED
        BY <4>2, <4>4, <4>5
    <3>2. Current \in Rows /\ Current.subscription = subscription
      BY DEF Current, TypeOK, Rows
    <3>3. new \in Rows /\ (subscription # NoRow => new.subscription # NoRow)
      BY <2>1, <3>2, AppliedType, AppliedKeeps
    <3>4. Current' = new
      <4>5. ~Moves(sent[i]) => Current' = new
        BY <3>12 DEF Current
      <4> HIDE DEF new
      <4> SUFFICES ASSUME Moves(sent[i]) PROVE Current' = new
        BY <4>5
      <4>1. subscription' = new.subscription
        <5>1. CASE new.subscription = NoRow
          BY <3>1, <3>3, <5>1
        <5>2. CASE new.subscription # NoRow
          <6>1. new.subscription \in Row /\ subscription \in Row \cup {NoRow}
            BY <3>3, <5>2 DEF Rows, TypeOK
          <6>2. QED
            BY <3>1, <5>2, <6>1, FreshFlush
        <5>3. QED
          BY <5>1, <5>2
      <4>2. payment' = new.payment
        <5>1. new.payment \in [Txn -> PaymentStatus \cup {NoRow}]
          BY <3>3 DEF Rows
        <5>2. payment' = [t \in Txn |-> new.payment[t]]
          BY <3>1
        <5>3. QED
          BY <5>1, <5>2
      <4>3. QED
        BY <3>3, <4>1, <4>2 DEF Current, Rows
    <3> HIDE DEF new
    <3>5. \A n \in 1 .. MaxEvents : Processed(n)' <=> n = i \/ Processed(n)
      BY <2>1, <3>1 DEF Processed, TypeOK
    <3> HIDE DEF i
    <3>6. i \in 1 .. MaxEvents /\ \A j \in i .. MaxEvents : ~Processed(j)
      BY <2>1 DEF i
    <3>7. PICK r : Replay(r) /\ Arrived(r)
      BY <2>1 DEF FollowInv
    <3>8. PICK q : q = [n \in 0 .. MaxEvents |-> IF n < i THEN r[n] ELSE new]
      OBVIOUS
    <3>9. Replay(q)'
      <4>1. ASSUME NEW n \in 0 .. MaxEvents
            PROVE  q[n] = IF n = 0 THEN NoRows
                          ELSE IF Processed(n)' THEN Applied(q[n - 1], sent[n])
                          ELSE q[n - 1]
        <5>1. r[n] = IF n = 0 THEN NoRows
                     ELSE IF Processed(n) THEN Applied(r[n - 1], sent[n]) ELSE r[n - 1]
          BY <3>7 DEF Replay
        <5>2. CASE n = 0
          BY <3>6, <3>8, <5>1, <5>2
        <5>3. CASE n # 0 /\ n < i
          <6>1. n \in 1 .. MaxEvents /\ n - 1 \in 0 .. MaxEvents /\ n - 1 < i /\ n # i
            BY <2>1, <3>6, <5>3
          <6>2. q[n] = r[n] /\ q[n - 1] = r[n - 1] /\ (Processed(n)' <=> Processed(n))
            BY <3>5, <3>8, <5>3, <6>1
          <6>3. QED
            BY <5>1, <5>3, <6>2
        <5>4. CASE n = i
          <6>1. n # 0 /\ i - 1 \in 0 .. MaxEvents /\ i - 1 < i /\ ~(i < i)
                /\ \A j \in i - 1 + 1 .. MaxEvents : j \in i .. MaxEvents
            BY <2>1, <3>6, <5>4
          <6>2. q[n - 1] = r[i - 1] /\ q[n] = new /\ Processed(n)'
            BY <3>5, <3>6, <3>8, <5>4, <6>1
          <6>3. r[i - 1] = Current
            BY <3>6, <3>7, <6>1 DEF Arrived
          <6>4. QED
            BY <5>4, <6>1, <6>2, <6>3 DEF new
        <5>5. CASE n > i
          <6>1. /\ n # 0 /\ n - 1 \in 0 .. MaxEvents /\ ~(n < i) /\ ~(n - 1 < i)
                /\ n \in 1 .. MaxEvents /\ n \in i .. MaxEvents /\ n # i
            BY <2>1, <3>6, <5>5
          <6>2. q[n] = new /\ q[n - 1] = new /\ ~Processed(n)'
            BY <3>5, <3>6, <3>8, <6>1
          <6>3. QED
            BY <6>1, <6>2
        <5>6. QED
          BY <2>1, <3>6, <5>2, <5>3, <5>4, <5>5
      <4>2. q = [n \in 0 .. MaxEvents |-> q[n]]
        BY <3>8
      <4>3. q = [n \in 0 .. MaxEvents |->
                   IF n = 0 THEN NoRows
                   ELSE IF Processed(n)' THEN Applied(q[n - 1], sent[n])
                   ELSE q[n - 1]]
        BY <4>1, <4>2
      <4>4. QED
        BY <2>1, <4>3 DEF Replay, NoRows
    <3>10. Arrived(q)'
      <4>1. SUFFICES ASSUME NEW n \in 0 .. MaxEvents,
                            \A j \in n + 1 .. MaxEvents : ~Processed(j)'
                     PROVE  q[n] = Current'
        BY DEF Arrived
      <4>2. ~(n < i)
        <5>1. SUFFICES ASSUME n < i PROVE FALSE
          OBVIOUS
        <5>2. i \in n + 1 .. MaxEvents
          BY <3>6, <4>1, <5>1
        <5>3. QED
          BY <3>5, <3>6, <4>1, <5>2
      <4>3. QED
        BY <3>4, <3>8, <4>1, <4>2
    <3>11. QED
      BY <2>2, <3>9, <3>10 DEF FollowInv
  <2>5. QED
    BY <2>3, <2>4
<1>6. ASSUME NEW h \in Handler, Fail(h) PROVE FollowInv'
  <2>1. /\ ~disordered /\ pc[h] # "idle" /\ Reply(h)
        /\ UNCHANGED <<sent, webhook_events, subscription, payment>>
    BY <1>6 DEF Fail, tables
  <2>2. \A g \in Handler : pc'[g] = "idle"
    BY <2>1, OthersIdle DEF Reply, TypeOK
  <2>3. \E r : Replay(r)' /\ Arrived(r)'
    BY <2>1, SameRows DEF Processed
  <2>4. QED
    BY <2>2, <2>3 DEF FollowInv
<1>7. ASSUME Send PROVE FollowInv'
  <2>1. ~disordered /\ UNCHANGED <<webhook_events, subscription, payment, pc, event, loaded>>
    BY <1>7 DEF Send, tables, local
  <2>5. \A g \in Handler : pc[g] # "idle" => sent'[event[g]] = sent[event[g]]
    BY <1>7, InHand DEF Send
  <2>2. \A n \in 1 .. MaxEvents : Processed(n) => sent'[n] = sent[n]
    <3>1. \A n \in 1 .. MaxEvents : Processed(n) => n \in 1 .. Len(sent)
      <4>1. \A n \in 1 .. MaxEvents : Processed(n) => ~(n > Len(sent))
        BY DEF OrderInv, Processed
      <4>2. Len(sent) \in Nat
        BY DEF TypeOK
      <4>3. QED
        BY <4>1, <4>2
    <3>2. \A n \in 1 .. Len(sent) : sent'[n] = sent[n]
      BY <1>7 DEF Send, TypeOK
    <3>3. QED
      BY <3>1, <3>2
  <2>3. \E r : Replay(r)' /\ Arrived(r)'
    BY <2>1, <2>2, SameRows DEF Processed
  <2>4. QED
    BY <2>1, <2>3, <2>5 DEF FollowInv, Processed, Current, PaymentsRead
<1>8. ASSUME NEW h \in Handler, Refuse(h) PROVE FollowInv'
  <2>1. /\ ~disordered /\ pc[h] # "idle" /\ Reply(h)
        /\ UNCHANGED <<sent, webhook_events, subscription, payment>>
    BY <1>8 DEF Refuse, tables
  <2>2. \A g \in Handler : pc'[g] = "idle"
    BY <2>1, OthersIdle DEF Reply, TypeOK
  <2>3. \E r : Replay(r)' /\ Arrived(r)'
    BY <2>1, SameRows DEF Processed
  <2>4. QED
    BY <2>2, <2>3 DEF FollowInv
<1>9. ASSUME NEW h \in Handler, ReadSubscription(h) PROVE FollowInv'
  <2>1. /\ ~disordered /\ pc[h] = "read"
        /\ pc' = [pc EXCEPT ![h] = "write"]
        /\ loaded' = [loaded EXCEPT ![h].subscription = subscription]
        /\ UNCHANGED <<sent, webhook_events, event, subscription, payment>>
    BY <1>9 DEF ReadSubscription, tables
  <2>2. loaded[h] = PaymentsRead /\ Moves(sent[event[h]])
    BY <2>1 DEF FollowInv, OrderInv, Moves
  <2>3. loaded'[h] = Current
    <3>1. loaded'[h] = [loaded[h] EXCEPT !.subscription = subscription]
      BY <2>1 DEF TypeOK
    <3>2. QED
      BY <2>2, <3>1 DEF PaymentsRead, Current
  <2>4. \A g \in Handler : pc'[g] # "idle" => g = h /\ pc'[g] = "write"
    BY <2>1, OthersIdle DEF TypeOK
  <2>5. \E r : Replay(r)' /\ Arrived(r)'
    BY <2>1, SameRows DEF Processed
  <2>6. QED
    BY <2>1, <2>2, <2>3, <2>4, <2>5 DEF FollowInv, Processed, Current
<1>10. CASE UNCHANGED vars
  <2>1. ~disordered
    BY <1>10 DEF vars
  <2>2. \E r : Replay(r)' /\ Arrived(r)'
    BY <1>10, <2>1, SameRows DEF Processed, vars, tables
  <2>3. QED
    BY <1>10, <2>1, <2>2
    DEF FollowInv, Processed, Current, PaymentsRead, vars, tables, local
<1>11. QED
  BY <1>1, <1>2, <1>3, <1>4, <1>5, <1>6, <1>7, <1>8, <1>9, <1>10 DEF Next, Deliver, Handle

\* Unless two requests overlapped or an event came after a later one, the subscription
\* and the payments are what the processed events make of none, in the order sent, each
\* applied once, for any number of handlers and events and whichever requests died.
THEOREM RowsFollow == Spec => []FollowsEvents
<1>1. Init => TypeInv /\ OrderInv /\ FollowInv
  <2>1. Init => OrderInv
    BY DEF Init, OrderInv, OneOrder
  <2>2. QED
    BY <2>1, InitType, InitFollow
<1>2. TypeInv /\ OrderInv /\ FollowInv /\ [Next]_vars => (TypeInv /\ OrderInv /\ FollowInv)'
  BY NextType, NextOrder, NextFollow
<1>3. FollowInv => FollowsEvents
  BY FollowsReplay
<1>4. QED
  BY <1>1, <1>2, <1>3, PTL DEF Spec
=============================================================================
