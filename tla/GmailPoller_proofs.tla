------------------------- MODULE GmailPoller_proofs -------------------------
(***************************************************************************)
(* Theorems about GmailPoller, for every value of its constants.            *)
(***************************************************************************)
EXTENDS GmailPoller, FiniteSetTheorems, SequenceTheorems, TLAPS

-----------------------------------------------------------------------------
(* Lists of messages *)

\* A list grows by at least one from each place to the next.
Spread(s) == \A i, j \in DOMAIN s : i < j => s[i] + (j - i) <= s[j]

\* A message is missing below another one only if Fetch newer ones were listed.
Closed(U) ==
  \A m \in U, n \in Message : n < m => n \in U \/ \E k \in U : n + Fetch <= k

LEMMA MessageNat == Message \subseteq Nat
BY DEF Message

LEMMA EmptyList == AsList(NoState) = <<>> /\ ToSet(<<>>) = {} /\ Spread(<<>>) /\ Closed({})
BY DEF AsList, ToSet, Spread, Closed

\* AsList is the column, and is a list.
LEMMA ListType ==
  ASSUME NEW s \in Seq(Message) \cup {NoState}
  PROVE  AsList(s) \in Seq(Message) /\ (s # NoState => AsList(s) = s)
BY DEF AsList

\* The members of a list.
LEMMA Members ==
  ASSUME NEW s \in Seq(Message)
  PROVE  /\ ToSet(s) \subseteq Message
         /\ \A i \in 1 .. Len(s) : s[i] \in ToSet(s) /\ s[i] \in Nat
         /\ \A m \in ToSet(s) : \E i \in 1 .. Len(s) : m = s[i]
<1>1. DOMAIN s = 1 .. Len(s) /\ \A i \in 1 .. Len(s) : s[i] \in Message
  OBVIOUS
<1>2. QED
  BY <1>1, MessageNat DEF ToSet

\* A message is appended behind older ones.
LEMMA AppendNewer ==
  ASSUME NEW s \in Seq(Message), NEW m \in Message
  PROVE  /\ Append(s, m) \in Seq(Message)
         /\ ToSet(Append(s, m)) = ToSet(s) \cup {m}
         /\ Spread(s) /\ (\A i \in ToSet(s) : i < m) => Spread(Append(s, m))
<1> DEFINE t == Append(s, m)
<1>1. /\ t \in Seq(Message) /\ Len(t) = Len(s) + 1 /\ Len(s) \in Nat
      /\ \A i \in 1 .. Len(s) : t[i] = s[i]
      /\ t[Len(s) + 1] = m
      /\ DOMAIN t = 1 .. Len(s) + 1 /\ DOMAIN s = 1 .. Len(s)
  OBVIOUS
<1> HIDE DEF t
<1>2. ToSet(t) = ToSet(s) \cup {m}
  <2>1. ASSUME NEW x \in ToSet(t) PROVE x \in ToSet(s) \cup {m}
    <3>1. PICK i \in 1 .. Len(s) + 1 : x = t[i]
      BY <1>1 DEF ToSet
    <3>2. CASE i = Len(s) + 1
      BY <3>1, <3>2, <1>1
    <3>3. CASE i \in 1 .. Len(s)
      BY <3>1, <3>3, <1>1 DEF ToSet
    <3>4. QED
      BY <1>1, <3>2, <3>3
  <2>2. ToSet(s) \cup {m} \subseteq ToSet(t)
    BY <1>1 DEF ToSet
  <2>3. QED
    BY <2>1, <2>2
<1>3. ASSUME Spread(s), \A i \in ToSet(s) : i < m PROVE Spread(t)
  <2>1. SUFFICES ASSUME NEW i \in 1 .. Len(s) + 1, NEW j \in 1 .. Len(s) + 1, i < j
                 PROVE  t[i] + (j - i) <= t[j]
    BY <1>1 DEF Spread
  <2>2. i \in 1 .. Len(s) /\ t[i] = s[i] /\ s[i] \in Nat /\ s[i] < m
    BY <2>1, <1>1, <1>3, Members DEF Message
  <2>3. CASE j \in 1 .. Len(s)
    BY <2>1, <2>2, <2>3, <1>1, <1>3 DEF Spread
  <2>4. CASE j = Len(s) + 1
    <3>1. CASE i >= Len(s)
      BY <2>2, <2>4, <3>1, <1>1 DEF Message
    <3>2. CASE i < Len(s)
      <4>1. Len(s) \in 1 .. Len(s)
        BY <2>2, <1>1
      <4>2. s[i] + (Len(s) - i) <= s[Len(s)]
        BY <3>2, <2>2, <4>1, <1>1, <1>3 DEF Spread
      <4>3. s[Len(s)] < m /\ s[Len(s)] \in Nat
        BY <4>1, <1>3, Members DEF Message
      <4>4. QED
        BY <4>2, <4>3, <2>2, <2>4, <1>1 DEF Message
    <3>3. QED
      BY <3>1, <3>2, <1>1
  <2>5. QED
    BY <2>1, <2>3, <2>4, <1>1
<1>4. QED
  BY <1>1, <1>2, <1>3 DEF t

\* What Kept leaves: the list without its first Dropped members.
Dropped(s) == IF Len(s) > Keep THEN Len(s) - Keep ELSE 0

LEMMA KeptShape ==
  ASSUME NEW s \in Seq(Message)
  PROVE  /\ Len(s) \in Nat /\ Dropped(s) \in 0 .. Len(s)
         /\ Keep \in Nat /\ Fetch \in Nat /\ Fetch > 0 /\ Keep >= Fetch
         /\ Kept(s) \in Seq(Message)
         /\ \A i \in 1 .. Len(s) - Dropped(s) : Kept(s)[i] = s[Dropped(s) + i]
         /\ DOMAIN Kept(s) = 1 .. Len(s) - Dropped(s) /\ DOMAIN s = 1 .. Len(s)
<1> DEFINE n == Len(s)
           d == Dropped(s)
           t == Kept(s)
<1>1. n \in Nat /\ d \in 0 .. n /\ Keep \in Nat /\ Fetch \in Nat /\ Fetch > 0 /\ Keep >= Fetch
  BY GmailPollerAssumption DEF Dropped
<1>2. t = SubSeq(s, d + 1, n)
  BY <1>1 DEF Kept, Dropped
<1>3. \A i \in d + 1 .. n : s[i] \in Message
  BY <1>1
<1>4. /\ t \in Seq(Message) /\ Len(t) = n - d
      /\ \A i \in 1 .. n - d : t[i] = s[d + i]
  <2>1. d + 1 \in Int /\ n \in Int
    BY <1>1
  <2>2. /\ SubSeq(s, d + 1, n) \in Seq(Message)
        /\ Len(SubSeq(s, d + 1, n)) = IF d + 1 <= n THEN n - (d + 1) + 1 ELSE 0
        /\ \A i \in 1 .. n - (d + 1) + 1 : SubSeq(s, d + 1, n)[i] = s[d + 1 + i - 1]
    BY <2>1, <1>3, SubSeqProperties
  <2>3. n - (d + 1) + 1 = n - d /\ (~(d + 1 <= n) => n - d = 0)
    BY <1>1
  <2>4. \A i \in 1 .. n - d : d + 1 + i - 1 = d + i
    BY <1>1
  <2> HIDE DEF n, d
  <2>5. QED
    BY <1>2, <2>2, <2>3, <2>4
<1> HIDE DEF t
<1>5. DOMAIN t = 1 .. n - d /\ DOMAIN s = 1 .. n
  BY <1>1, <1>4
<1>6. QED
  BY <1>1, <1>4, <1>5 DEF t

\* The newest Keep messages of a list: the last one stays, and none is missing that
\* Fetch newer ones do not stand above.
LEMMA KeptList ==
  ASSUME NEW s \in Seq(Message)
  PROVE  /\ Kept(s) \in Seq(Message)
         /\ ToSet(Kept(s)) \subseteq ToSet(s)
         /\ Spread(s) => Spread(Kept(s))
         /\ Spread(s) /\ Closed(ToSet(s)) => Closed(ToSet(Kept(s)))
<1> DEFINE n == Len(s)
           d == Dropped(s)
           t == Kept(s)
<1>1. n \in Nat /\ d \in 0 .. n /\ Keep \in Nat /\ Fetch \in Nat /\ Fetch > 0 /\ Keep >= Fetch
  BY KeptShape
<1>4. t \in Seq(Message) /\ \A i \in 1 .. n - d : t[i] = s[d + i]
  BY KeptShape
<1>5. DOMAIN t = 1 .. n - d /\ DOMAIN s = 1 .. n
  BY KeptShape
<1> HIDE DEF t
<1>6. ToSet(t) \subseteq ToSet(s)
  <2>1. \A i \in 1 .. n - d : d + i \in 1 .. n
    BY <1>1
  <2>2. QED
    BY <1>4, <1>5, <2>1 DEF ToSet
<1>7. ASSUME Spread(s) PROVE Spread(t)
  <2>1. \A i, j \in 1 .. n - d : i < j =>
          d + i \in 1 .. n /\ d + j \in 1 .. n /\ d + i < d + j /\ (d + j) - (d + i) = j - i
    BY <1>1
  <2>2. QED
    BY <1>4, <1>5, <1>7, <2>1 DEF Spread
<1>8. ASSUME Spread(s), Closed(ToSet(s)) PROVE Closed(ToSet(t))
  <2>1. SUFFICES ASSUME NEW m \in ToSet(t), NEW o \in Message, o < m, o \notin ToSet(t)
                 PROVE  \E k \in ToSet(t) : o + Fetch <= k
    BY DEF Closed
  <2>2. n - d >= 1 /\ n >= 1 /\ t[n - d] = s[n] /\ s[n] \in ToSet(t) /\ s[n] \in Nat
    <3>1. PICK i \in 1 .. n - d : m = t[i]
      BY <1>5 DEF ToSet
    <3>2. n - d \in 1 .. n - d /\ d + (n - d) = n /\ n \in 1 .. n
      BY <3>1, <1>1
    <3>3. t[n - d] = s[n] /\ t[n - d] \in ToSet(t)
      BY <3>2, <1>4, <1>5 DEF ToSet
    <3>4. s[n] \in Nat
      BY <3>2, Members
    <3> HIDE DEF n, d
    <3>5. QED
      BY <3>2, <3>3, <3>4, <1>1
  <2>3. \A i \in 1 .. n : s[i] \in Nat /\ s[i] + (n - i) <= s[n]
    <3>1. \A i \in 1 .. n : s[i] \in Nat
      BY Members
    <3>2. n \in DOMAIN s /\ \A i \in 1 .. n : i \in DOMAIN s
      BY <1>5, <2>2, <1>1
    <3>3. \A i \in 1 .. n : i < n => s[i] + (n - i) <= s[n]
      BY <1>8, <3>2 DEF Spread
    <3>4. SUFFICES ASSUME NEW i \in 1 .. n PROVE s[i] + (n - i) <= s[n]
      BY <3>1
    <3>5. i < n \/ i = n
      BY <1>1
    <3> HIDE DEF n
    <3>6. QED
      BY <3>1, <3>3, <3>5, <1>1, <2>2
  <2>4. CASE \E k \in ToSet(s) : o + Fetch <= k
    <3>1. PICK i \in 1 .. n : o + Fetch <= s[i]
      BY <2>4, <1>5 DEF ToSet
    <3>2. s[i] <= s[n]
      <4>1. s[i] + (n - i) <= s[n] /\ s[i] \in Nat
        BY <2>3
      <4> HIDE DEF n
      <4>2. QED
        BY <4>1, <2>2, <1>1
    <3>3. o + Fetch <= s[n]
      <4>1. o \in Nat /\ s[i] \in Nat
        BY <2>3 DEF Message
      <4> HIDE DEF n
      <4>2. QED
        BY <4>1, <3>1, <3>2, <2>2, <1>1
    <3>4. QED
      BY <3>3, <2>2
  <2>5. CASE o \in ToSet(s)
    <3>1. PICK i \in 1 .. n : o = s[i]
      BY <2>5, <1>5 DEF ToSet
    <3>2. i <= d
      <4>1. SUFFICES ASSUME i > d PROVE FALSE
        BY <1>1
      <4>2. i - d \in 1 .. n - d /\ d + (i - d) = i
        BY <4>1, <1>1
      <4>3. o = t[i - d]
        BY <4>2, <3>1, <1>4
      <4>4. QED
        BY <4>2, <4>3, <2>1, <1>5 DEF ToSet
    <3>3. d = n - Keep
      BY <3>1, <3>2, <1>1 DEF Dropped
    <3>4. o + (n - i) <= s[n] /\ n - i >= Keep
      BY <3>1, <3>2, <3>3, <2>3, <1>1
    <3>5. o + Fetch <= s[n]
      <4>1. o \in Nat
        BY DEF Message
      <4> HIDE DEF n
      <4>2. QED
        BY <4>1, <3>4, <2>2, <1>1
    <3>6. QED
      BY <3>5, <2>2
  <2>6. o \in ToSet(s) \/ \E k \in ToSet(s) : o + Fetch <= k
    BY <1>6, <1>8, <2>1 DEF Closed
  <2>7. QED
    BY <2>4, <2>5, <2>6
<1>9. QED
  BY <1>4, <1>6, <1>7, <1>8 DEF t

-----------------------------------------------------------------------------
(* Type correctness *)

LEMMA InitType == Init => TypeOK
BY EmptyList, GmailPollerAssumption DEF Init, TypeOK

\* A set of runs in hand has a cardinality.
LEMMA RanCount ==
  ASSUME TypeOK, NEW p \in Poller
  PROVE  used + Cardinality(ran[p]) \in Nat
<1>1. ran[p] \subseteq Workflow /\ used \in Nat
  BY DEF TypeOK
<1>2. IsFiniteSet(ran[p])
  BY <1>1, FS_Subset, GmailPollerAssumption
<1>3. Cardinality(ran[p]) \in Nat
  BY <1>2, FS_CardinalityType
<1>4. QED
  BY <1>1, <1>3

LEMMA EndPollType ==
  ASSUME TypeOK, NEW p \in Poller, EndPoll(p)
  PROVE  /\ pc' \in [Poller -> {"idle", "list", "next", "run"}]
         /\ before' \in [Poller -> Seq(Message) \cup {NoState}]
         /\ ids' \in [Poller -> Seq(Message)]
         /\ todo' \in [Poller -> SUBSET Message]
         /\ message' \in [Poller -> Message \cup {0}]
         /\ rest' \in [Poller -> SUBSET Workflow]
         /\ ran' \in [Poller -> SUBSET Workflow]
         /\ \A q \in Poller :
              IF pc'[q] = "run" THEN message'[q] \in todo'[q]
              ELSE message'[q] = 0 /\ rest'[q] = {} /\ ran'[q] = {}
BY DEF TypeOK, EndPoll

LEMMA NextType == TypeOK /\ [Next]_vars => TypeOK'
<1> SUFFICES ASSUME TypeOK, [Next]_vars PROVE TypeOK'
  OBVIOUS
<1> USE DEF TypeOK
<1>1. ASSUME NEW p \in Poller, Read(p) PROVE TypeOK'
  BY <1>1, ListType DEF Read
<1>2. ASSUME NEW p \in Poller, List(p) PROVE TypeOK'
  <2>1. Newest \subseteq Message
    BY GmailPollerAssumption DEF Newest, Message
  <2>2. QED
    BY <1>2, <2>1 DEF List
<1>3. ASSUME NEW p \in Poller, Trigger(p) PROVE TypeOK'
  BY <1>3 DEF Trigger
<1>4. ASSUME NEW p \in Poller, NEW w \in Workflow, RunWorkflow(p, w) PROVE TypeOK'
  BY <1>4 DEF RunWorkflow
<1>5. ASSUME NEW p \in Poller, CommitTrigger(p) PROVE TypeOK'
  <2>1. message[p] \in Message
    BY <1>5 DEF CommitTrigger
  <2>2. runs' \in [Workflow -> SUBSET Message]
    BY <1>5, <2>1 DEF CommitTrigger
  <2>3. ids' \in [Poller -> Seq(Message)]
    BY <1>5, <2>1, AppendNewer DEF CommitTrigger
  <2>4. used' \in Nat
    BY <1>5, RanCount DEF CommitTrigger
  <2>5. QED
    BY <1>5, <2>2, <2>3, <2>4 DEF CommitTrigger
<1>6. ASSUME NEW p \in Poller, Save(p) PROVE TypeOK'
  <2>1. seen' \in Seq(Message) \cup {NoState}
    BY <1>6, KeptList DEF Save
  <2>2. ended' \in [Message -> Nat]
    BY <1>6 DEF Save
  <2>3. QED
    BY <1>6, <2>1, <2>2, EndPollType DEF Save
<1>7. ASSUME NEW p \in Poller, Refuse(p) PROVE TypeOK'
  BY <1>7, EndPollType DEF Refuse
<1>8. ASSUME NEW p \in Poller, Fail(p) PROVE TypeOK'
  BY <1>8, EndPollType, GmailPollerAssumption DEF Fail
<1>9. ASSUME Arrive PROVE TypeOK'
  BY <1>9, GmailPollerAssumption DEF Arrive, local
<1>10. ASSUME NEW w \in Workflow, Toggle(w) PROVE TypeOK'
  BY <1>10 DEF Toggle, local
<1>11. ASSUME OtherRun \/ MonthEnds PROVE TypeOK'
  BY <1>11 DEF OtherRun, MonthEnds, local
<1>12. CASE UNCHANGED vars
  BY <1>12 DEF vars, local
<1>13. QED
  BY <1>1, <1>2, <1>3, <1>4, <1>5, <1>6, <1>7, <1>8, <1>9, <1>10, <1>11, <1>12 DEF Next, Step

\* Columns and loop variables keep their types in every behaviour, and only a poll
\* that has a message in hand holds runs that are not committed.
THEOREM TypeCorrect == Spec => []TypeOK
<1>1. Init => TypeOK
  BY InitType
<1>2. TypeOK /\ [Next]_vars => TypeOK'
  BY NextType
<1>3. QED
  BY <1>1, <1>2, PTL DEF Spec

-----------------------------------------------------------------------------
(* No message is lost *)

\* Every workflow that a message is for, and that was never inactive, ran for it.
Done(m) == \A w \in stable : m \in Matches[w] => m \in runs[w]

\* Whoever remembers a message remembers it done, and the message in hand has been
\* run for, or will be, all that it is for.
RunsInv ==
  /\ \A m \in ToSet(AsList(seen)) : Done(m)
  /\ \A p \in Poller : \A m \in ToSet(ids[p]) : Done(m)
  /\ \A p \in Poller : pc[p] = "run" =>
       \A w \in stable : message[p] \in Matches[w] => w \in rest[p] \cup ran[p]
  /\ AllOrNothing

LEMMA InitRuns == Init => RunsInv
BY EmptyList DEF Init, RunsInv, AllOrNothing

\* Runs are only added and a workflow is stable only if it was: what was done stays.
LEMMA DoneStays ==
  ASSUME TypeOK, stable' \subseteq stable, \A w \in Workflow : runs[w] \subseteq runs'[w],
         NEW m, Done(m)
  PROVE  Done(m)'
BY DEF TypeOK, Done

\* A step that records no run and puts no message into a list or in hand.
LEMMA RunsQuiet ==
  ASSUME TypeOK, RunsInv, stable' \subseteq stable, runs' = runs,
         ToSet(AsList(seen))' \subseteq
           ToSet(AsList(seen)) \cup UNION {ToSet(ids[p]) : p \in Poller},
         \A p \in Poller : ToSet(ids[p])' \subseteq ToSet(ids[p]) \cup ToSet(AsList(seen)),
         \A p \in Poller : pc'[p] = "run" =>
           /\ pc[p] = "run" /\ message'[p] = message[p]
           /\ rest'[p] \cup ran'[p] = rest[p] \cup ran[p]
  PROVE  RunsInv'
<1>1. \A m : Done(m) => Done(m)'
  BY DoneStays
<1>2. (\A m \in ToSet(AsList(seen)) : Done(m))'
  BY <1>1 DEF RunsInv
<1>3. (\A p \in Poller : \A m \in ToSet(ids[p]) : Done(m))'
  BY <1>1 DEF RunsInv
<1>4. AllOrNothing'
  BY DEF RunsInv, AllOrNothing
<1>5. QED
  BY <1>2, <1>3, <1>4 DEF RunsInv

LEMMA NextRuns == TypeOK /\ RunsInv /\ [Next]_vars => RunsInv'
<1> SUFFICES ASSUME TypeOK, RunsInv, [Next]_vars PROVE RunsInv'
  OBVIOUS
<1>1. ASSUME NEW p \in Poller, Read(p) PROVE RunsInv'
  BY <1>1, RunsQuiet DEF Read, TypeOK
<1>2. ASSUME NEW p \in Poller, List(p) PROVE RunsInv'
  BY <1>2, RunsQuiet DEF List, TypeOK
<1>3. ASSUME NEW p \in Poller, Trigger(p) PROVE RunsInv'
  <2>1. \A q \in Poller : pc'[q] = "run" =>
          \A w \in stable' : message'[q] \in Matches[w] => w \in rest'[q] \cup ran'[q]
    BY <1>3 DEF Trigger, RunsInv, TypeOK
  <2>2. UNCHANGED <<seen, ids, runs, stable>>
    BY <1>3 DEF Trigger
  <2>3. QED
    BY <2>1, <2>2 DEF RunsInv, Done, AllOrNothing
<1>4. ASSUME NEW p \in Poller, NEW w \in Workflow, RunWorkflow(p, w) PROVE RunsInv'
  <2>1. \A q \in Poller : rest'[q] \cup ran'[q] = rest[q] \cup ran[q]
    BY <1>4 DEF RunWorkflow, TypeOK
  <2>2. UNCHANGED <<seen, ids, runs, stable, pc, message>>
    BY <1>4 DEF RunWorkflow
  <2>3. QED
    BY <2>1, <2>2, RunsQuiet
<1>5. ASSUME NEW p \in Poller, CommitTrigger(p) PROVE RunsInv'
  <2>0. PICK m \in Message : m = message[p]
    BY <1>5 DEF CommitTrigger, TypeOK
  <2>1. pc[p] = "run" /\ rest[p] = {}
    BY <1>5 DEF CommitTrigger
  <2>2. UNCHANGED <<seen, stable, rest>>
    BY <1>5 DEF CommitTrigger
  <2>3. \A w \in Workflow : runs'[w] = IF w \in ran[p] THEN runs[w] \cup {m} ELSE runs[w]
    BY <1>5, <2>0 DEF CommitTrigger
  <2>4. Done(m)'
    BY <2>0, <2>1, <2>2, <2>3 DEF RunsInv, Done, TypeOK
  <2>5. \A o : Done(o) => Done(o)'
    BY <2>2, <2>3, DoneStays
  <2>6. \A q \in Poller : ToSet(ids[q])' \subseteq ToSet(ids[q]) \cup {m}
    BY <1>5, <2>0, AppendNewer DEF CommitTrigger, TypeOK
  <2>7. AllOrNothing'
    <3>1. SUFFICES ASSUME NEW o \in Message, NEW v \in Workflow, o \in runs'[v]
                   PROVE  Done(o)'
      BY DEF AllOrNothing, Done
    <3>2. CASE o \in runs[v]
      BY <3>2, <2>5 DEF RunsInv, AllOrNothing, Done
    <3>3. CASE o \notin runs[v]
      <4>1. o = m
        BY <3>1, <3>3, <2>3
      <4>2. QED
        BY <4>1, <2>4
    <3>4. QED
      BY <3>2, <3>3
  <2>8. (\A o \in ToSet(AsList(seen)) : Done(o))'
    BY <2>2, <2>5 DEF RunsInv
  <2>9. (\A q \in Poller : \A o \in ToSet(ids[q]) : Done(o))'
    BY <2>4, <2>5, <2>6 DEF RunsInv
  <2>10. \A q \in Poller : pc'[q] = "run" =>
           /\ q # p /\ pc[q] = "run" /\ message'[q] = message[q] /\ ran'[q] = ran[q]
    BY <1>5 DEF CommitTrigger, TypeOK
  <2>11. QED
    BY <2>2, <2>7, <2>8, <2>9, <2>10 DEF RunsInv
<1>6. ASSUME NEW p \in Poller, EndPoll(p), UNCHANGED <<seen, runs, stable>> PROVE RunsInv'
  <2>1. \A q \in Poller : pc'[q] = "run" =>
          /\ pc[q] = "run" /\ message'[q] = message[q]
          /\ rest'[q] = rest[q] /\ ran'[q] = ran[q]
    BY <1>6 DEF EndPoll, TypeOK
  <2>2. \A q \in Poller : ToSet(ids'[q]) \subseteq ToSet(ids[q])
    BY <1>6, EmptyList DEF EndPoll, TypeOK
  <2>3. QED
    BY <1>6, <2>1, <2>2, RunsQuiet
<1>7. ASSUME NEW p \in Poller, Save(p) PROVE RunsInv'
  <2>1. \A q \in Poller : pc'[q] = "run" =>
          /\ pc[q] = "run" /\ message'[q] = message[q]
          /\ rest'[q] = rest[q] /\ ran'[q] = ran[q]
    BY <1>7 DEF Save, EndPoll, TypeOK
  <2>2. \A q \in Poller : ToSet(ids'[q]) \subseteq ToSet(ids[q])
    BY <1>7, EmptyList DEF Save, EndPoll, TypeOK
  <2>3. ToSet(AsList(seen')) \subseteq ToSet(AsList(seen)) \cup ToSet(ids[p])
    <3>1. ids[p] \in Seq(Message)
      BY DEF TypeOK
    <3>2. seen' = seen \/ (seen' = Kept(ids[p]) /\ Kept(ids[p]) \in Seq(Message))
      BY <1>7, <3>1, KeptList DEF Save
    <3>3. CASE seen' = Kept(ids[p]) /\ Kept(ids[p]) \in Seq(Message)
      BY <3>1, <3>3, KeptList, GmailPollerAssumption DEF AsList
    <3>4. QED
      BY <3>2, <3>3
  <2>4. QED
    BY <1>7, <2>1, <2>2, <2>3, RunsQuiet DEF Save
<1>8. ASSUME NEW w \in Workflow, Toggle(w) PROVE RunsInv'
  BY <1>8, RunsQuiet DEF Toggle, local
<1>9. ASSUME Arrive \/ OtherRun \/ MonthEnds \/ UNCHANGED vars PROVE RunsInv'
  BY <1>9, RunsQuiet DEF Arrive, OtherRun, MonthEnds, vars, local
<1>10. ASSUME NEW p \in Poller, Refuse(p) \/ Fail(p) PROVE RunsInv'
  BY <1>6, <1>10 DEF Refuse, Fail
<1>11. QED
  BY <1>1, <1>2, <1>3, <1>4, <1>5, <1>7, <1>8, <1>9, <1>10 DEF Next, Step

\* For any number of processes and workflows, any quota and any failures: what the
\* column remembers was run.
THEOREM NothingLost == Spec => []RememberedRan
<1>1. Init => TypeOK /\ RunsInv
  BY InitType, InitRuns
<1>2. TypeOK /\ RunsInv /\ [Next]_vars => (TypeOK /\ RunsInv)'
  BY NextType, NextRuns
<1>3. RunsInv => RememberedRan
  BY DEF RunsInv, RememberedRan, Done
<1>4. QED
  BY <1>1, <1>2, <1>3, PTL DEF Spec

\* A message that is recorded for one workflow is recorded for each that it is for:
\* a quota that is exhausted in the middle takes back what ran before.
THEOREM NeverInPart == Spec => []AllOrNothing
<1>1. Init => TypeOK /\ RunsInv
  BY InitType, InitRuns
<1>2. TypeOK /\ RunsInv /\ [Next]_vars => (TypeOK /\ RunsInv)'
  BY NextType, NextRuns
<1>3. RunsInv => AllOrNothing
  BY DEF RunsInv
<1>4. QED
  BY <1>1, <1>2, <1>3, PTL DEF Spec

-----------------------------------------------------------------------------
(* The column is in order *)

\* A list, and the new messages behind it, of those that have arrived.
Ordered(list, new) ==
  /\ Spread(list)
  /\ Closed(ToSet(list) \cup new)
  /\ ToSet(list) \cup new \subseteq 1 .. arrived
  /\ \A i \in ToSet(list), t \in new : i < t

OrderInv ==
  /\ Ordered(AsList(seen), {})
  /\ \A p \in Poller : Ordered(ids[p], todo[p])
  /\ \A p \in Poller : pc[p] \in {"idle", "list"} => todo[p] = {}
  /\ \A p \in Poller : pc[p] = "run" => IsFirst(message[p], todo[p])

LEMMA NothingOrdered == Ordered(<<>>, {})
<1>1. ToSet(<<>>) \cup {} = {}
  BY EmptyList
<1>2. QED
  BY <1>1, EmptyList DEF Ordered

LEMMA InitOrder == Init => OrderInv
<1> SUFFICES ASSUME Init PROVE OrderInv
  OBVIOUS
<1>1. Ordered(<<>>, {})
  BY NothingOrdered
<1>2. AsList(seen) = <<>> /\ \A p \in Poller : ids[p] = <<>> /\ todo[p] = {} /\ pc[p] = "idle"
  BY EmptyList DEF Init
<1>3. QED
  BY <1>1, <1>2 DEF OrderInv

LEMMA NextOrder == TypeOK /\ OrderInv /\ [Next]_vars => OrderInv'
<1> SUFFICES ASSUME TypeOK, OrderInv, [Next]_vars PROVE OrderInv'
  OBVIOUS
<1>1. ASSUME NEW p \in Poller, Read(p) PROVE OrderInv'
  BY <1>1 DEF Read, OrderInv, Ordered, TypeOK
<1>2. ASSUME NEW p \in Poller, List(p) PROVE OrderInv'
  <2> DEFINE new == Newest \ ToSet(ids[p])
  <2>0. todo[p] = {} /\ Ordered(ids[p], todo[p])
    BY <1>2 DEF List, OrderInv
  <2>1. /\ Ordered(ids[p], {}) /\ ids[p] \in Seq(Message)
        /\ arrived \in Nat /\ arrived <= MaxMail /\ MaxMail \in Nat
        /\ Fetch \in Nat /\ Fetch > 0
    BY <2>0, GmailPollerAssumption DEF TypeOK
  <2>2. ToSet(ids[p]) \subseteq 1 .. arrived /\ Closed(ToSet(ids[p]))
    BY <2>1 DEF Ordered
  <2>3. Newest \subseteq Message /\ Newest \subseteq 1 .. arrived
    BY <2>1, GmailPollerAssumption DEF Newest, Message
  <2>4. \A i \in ToSet(ids[p]), t \in new : i < t
    <3>1. SUFFICES ASSUME NEW i \in ToSet(ids[p]), NEW t \in new, t < i PROVE FALSE
      BY <2>2, <2>3
    <3>2. PICK k \in ToSet(ids[p]) : t + Fetch <= k
      BY <3>1, <2>2, <2>3 DEF Closed
    <3>3. t + Fetch > arrived /\ k \in 1 .. arrived /\ t \in Nat
      BY <2>1, <2>2 DEF Newest
    <3>4. QED
      BY <3>2, <3>3, <2>1
  <2>5. Closed(ToSet(ids[p]) \cup new)
    <3>1. SUFFICES ASSUME NEW m \in ToSet(ids[p]) \cup Newest, NEW n \in Message, n < m
                   PROVE  n \in Newest \/ \E k \in Newest : n + Fetch <= k
      BY <2>2 DEF Closed
    <3>2. m \in 1 .. arrived /\ n \in 1 .. arrived
      <4>1. m \in 1 .. arrived
        BY <3>1, <2>2, <2>3
      <4>2. QED
        BY <4>1, <3>1, <2>1 DEF Message
    <3>3. arrived \in Newest
      BY <3>2, <2>1 DEF Newest
    <3>4. QED
      BY <3>2, <3>3, <2>1 DEF Newest
  <2>6. Ordered(ids[p], new)
    BY <2>1, <2>2, <2>3, <2>4, <2>5 DEF Ordered
  <2>7. UNCHANGED <<arrived, seen, ids>> /\ todo' = [todo EXCEPT ![p] = new]
    BY <1>2 DEF List
  <2>8. \A q \in Poller : pc'[q] \in {"idle", "list", "run"} =>
          q # p /\ pc'[q] = pc[q] /\ message'[q] = message[q] /\ todo'[q] = todo[q]
    BY <1>2 DEF List, TypeOK
  <2> HIDE DEF new
  <2>9. \A q \in Poller : Ordered(ids[q], todo'[q])
    BY <2>6, <2>7 DEF OrderInv, TypeOK
  <2>10. QED
    BY <2>7, <2>8, <2>9 DEF OrderInv, Ordered
<1>3. ASSUME NEW p \in Poller, Trigger(p) PROVE OrderInv'
  <2>1. UNCHANGED <<arrived, seen, ids, todo>> /\ pc' = [pc EXCEPT ![p] = "run"]
    BY <1>3 DEF Trigger
  <2>2. \A q \in Poller : pc'[q] = "run" => IsFirst(message'[q], todo'[q])
    BY <1>3, <2>1 DEF Trigger, OrderInv, TypeOK
  <2>3. QED
    BY <2>1, <2>2 DEF OrderInv, Ordered, TypeOK
<1>4. ASSUME NEW p \in Poller, NEW w \in Workflow, RunWorkflow(p, w) PROVE OrderInv'
  BY <1>4 DEF RunWorkflow, OrderInv, Ordered
<1>5. ASSUME NEW p \in Poller, CommitTrigger(p) PROVE OrderInv'
  <2>0. PICK m \in Message : m = message[p]
    BY <1>5 DEF CommitTrigger, TypeOK
  <2> DEFINE list == Append(ids[p], m)
             new == todo[p] \ {m}
  <2>1. m \in todo[p] /\ ids[p] \in Seq(Message) /\ Ordered(ids[p], todo[p])
    BY <1>5, <2>0 DEF CommitTrigger, OrderInv, TypeOK
  <2>2. ToSet(list) = ToSet(ids[p]) \cup {m} /\ Spread(list)
    BY <2>1, AppendNewer DEF Ordered
  <2>3. \A t \in new : m < t
    <3>1. IsFirst(m, todo[p]) /\ todo[p] \subseteq Message
      BY <1>5, <2>0 DEF CommitTrigger, OrderInv, TypeOK
    <3>2. QED
      BY <3>1, MessageNat DEF IsFirst
  <2>4. ToSet(list) \cup new = ToSet(ids[p]) \cup todo[p]
    BY <2>1, <2>2
  <2>5. Ordered(list, new)
    BY <2>1, <2>2, <2>3, <2>4 DEF Ordered
  <2>6. /\ UNCHANGED <<arrived, seen>>
        /\ ids' = [ids EXCEPT ![p] = list] /\ todo' = [todo EXCEPT ![p] = new]
        /\ pc' = [pc EXCEPT ![p] = "next"] /\ message' = [message EXCEPT ![p] = 0]
    BY <1>5, <2>0 DEF CommitTrigger
  <2> HIDE DEF list, new
  <2>7. \A q \in Poller : Ordered(ids'[q], todo'[q])
    BY <2>5, <2>6 DEF OrderInv, TypeOK
  <2>8. \A q \in Poller : pc'[q] \in {"idle", "list", "run"} => q # p /\ pc'[q] = pc[q]
    BY <2>6 DEF TypeOK
  <2>9. QED
    BY <2>6, <2>7, <2>8 DEF OrderInv, Ordered, TypeOK
<1>6. ASSUME NEW p \in Poller, EndPoll(p), UNCHANGED arrived, Ordered(AsList(seen'), {})
      PROVE  OrderInv'
  <2>1. \A q \in Poller : Ordered(ids'[q], todo'[q])
    BY <1>6, NothingOrdered DEF EndPoll, OrderInv, TypeOK
  <2>2. \A q \in Poller : q = p => pc'[q] = "idle" /\ todo'[q] = {}
    BY <1>6 DEF EndPoll, TypeOK
  <2>3. \A q \in Poller : q # p =>
          pc'[q] = pc[q] /\ todo'[q] = todo[q] /\ message'[q] = message[q]
    BY <1>6 DEF EndPoll, TypeOK
  <2>4. QED
    BY <1>6, <2>1, <2>2, <2>3 DEF OrderInv, Ordered
<1>7. ASSUME NEW p \in Poller, Save(p) PROVE OrderInv'
  <2>1. ids[p] \in Seq(Message) /\ Ordered(ids[p], {})
    <3>1. todo[p] = {} /\ ids[p] \in Seq(Message) /\ Ordered(ids[p], todo[p])
      BY <1>7 DEF Save, OrderInv, TypeOK
    <3>2. QED
      BY <3>1
  <2>2. Ordered(Kept(ids[p]), {})
    BY <2>1, KeptList DEF Ordered
  <2>3. seen' = seen \/ (seen' = Kept(ids[p]) /\ AsList(seen') = seen')
    <3>1. Kept(ids[p]) \in Seq(Message)
      BY <2>1, KeptList
    <3>2. Kept(ids[p]) # NoState
      BY <3>1, GmailPollerAssumption
    <3>3. QED
      BY <1>7, <3>2 DEF Save, AsList
  <2>4. Ordered(AsList(seen'), {})
    BY <2>2, <2>3 DEF OrderInv
  <2>5. QED
    BY <1>6, <1>7, <2>4 DEF Save
<1>8. ASSUME NEW p \in Poller, Refuse(p) \/ Fail(p) PROVE OrderInv'
  BY <1>6, <1>8 DEF Refuse, Fail, OrderInv
<1>9. ASSUME Arrive PROVE OrderInv'
  <2>1. \A list, new : Ordered(list, new) => Ordered(list, new)'
    BY <1>9 DEF Arrive, Ordered, TypeOK
  <2>2. QED
    BY <1>9, <2>1 DEF Arrive, local, OrderInv
<1>10. ASSUME (\E w \in Workflow : Toggle(w)) \/ OtherRun \/ MonthEnds \/ UNCHANGED vars
       PROVE  OrderInv'
  BY <1>10 DEF Toggle, OtherRun, MonthEnds, vars, local, OrderInv, Ordered
<1>11. QED
  BY <1>1, <1>2, <1>3, <1>4, <1>5, <1>7, <1>8, <1>9, <1>10 DEF Next, Step

\* For any number of processes and any length of the listing and of the column that
\* is no shorter, the column lists its messages in the order they arrived.
THEOREM ColumnInOrder == Spec => []InOrder
<1>1. Init => TypeOK /\ OrderInv
  BY InitType, InitOrder
<1>2. TypeOK /\ OrderInv /\ [Next]_vars => (TypeOK /\ OrderInv)'
  BY NextType, NextOrder
<1>3. TypeOK /\ OrderInv => InOrder
  <2>1. SUFFICES ASSUME TypeOK, OrderInv, NEW i \in DOMAIN AsList(seen),
                        NEW j \in DOMAIN AsList(seen), i < j
                 PROVE  seen[i] < seen[j]
    BY DEF InOrder
  <2>2. seen \in Seq(Message) /\ AsList(seen) = seen
    BY <2>1, EmptyList, ListType DEF TypeOK, AsList
  <2>3. seen[i] + (j - i) <= seen[j]
    BY <2>1, <2>2 DEF OrderInv, Ordered, Spread
  <2>4. i \in Nat /\ j \in Nat /\ seen[i] \in Nat /\ seen[j] \in Nat
    BY <2>1, <2>2, Members
  <2>5. QED
    BY <2>1, <2>3, <2>4
<1>4. QED
  BY <1>1, <1>2, <1>3, PTL DEF Spec

-----------------------------------------------------------------------------
(* Few repeats *)

\* The column remembers the message, or no listing shows it any more.
Known(m) == m \in ToSet(AsList(seen))
Late(m) == m + Fetch <= arrived

\* Polls that listed the mailbox without the message: they save a list without it.
Old(m) ==
  {p \in Poller : pc[p] \in {"next", "run"} /\ m \notin ToSet(ids[p]) \cup todo[p]}

\* Polls that are going to save a list with the message, which they read without.
Saving(m) ==
  {p \in Poller :
     /\ pc[p] # "idle"
     /\ m \notin ToSet(AsList(before[p]))
     /\ m \in ToSet(ids[p]) \cup todo[p] \cup (IF pc[p] = "list" THEN Newest ELSE {})}

Others(m) == Cardinality(Poller \ Old(m))
Saves(m) == Cardinality(Saving(m))

\* 1 + 2 + ... + n, twice.
Twice(n) == n * (n + 1)

\* While the column knows the message, only the polls under way may still repeat it;
\* an old poll that overwrites the column makes all others able to, once. So the
\* repeats are bounded by the number of processes that are not in an old poll, and
\* an old poll that ends makes room for one repeat of each.
Bounded(m) ==
  2 * ended[m] + 2 * (IF Late(m) \/ Known(m) THEN Saves(m) ELSE Others(m))
    <= Twice(IF Late(m) THEN Cardinality(Poller) ELSE Others(m))

\* A poll forgets nothing that it has read.
BeforeInv ==
  \A p \in Poller :
    /\ ToSet(AsList(before[p])) \subseteq ToSet(ids[p])
    /\ pc[p] = "list" => ids[p] = AsList(before[p])

RepeatInv ==
  /\ BeforeInv
  /\ \A m \in Message : Bounded(m) /\ (m > arrived => ended[m] = 0)

\* The triangular numbers grow, and faster than the numbers.
LEMMA Triangle ==
  ASSUME NEW n \in Nat
  PROVE  /\ Twice(n) \in Nat
         /\ 2 * n <= Twice(n)
         /\ Twice(n + 1) = Twice(n) + 2 * (n + 1)
         /\ \A k \in Nat : n <= k => /\ Twice(n) <= Twice(k)
                                     /\ Twice(n) + 2 * k <= Twice(k) + 2 * n
<1>1. n = 0 \/ n >= 1
  OBVIOUS
<1>2. n * n \in Nat /\ n <= n * n
  BY <1>1
<1>3. Twice(n) = n * n + n
  BY DEF Twice
<1>4. Twice(n + 1) = n * n + n + 2 * (n + 1)
  BY DEF Twice
<1>5. ASSUME NEW k \in Nat, n <= k
      PROVE  Twice(n) <= Twice(k) /\ Twice(n) + 2 * k <= Twice(k) + 2 * n
  <2>1. PICK d \in Nat : k = n + d
    <3>1. k - n \in Nat /\ k = n + (k - n)
      BY <1>5
    <3>2. QED
      BY <3>1
  <2>2. Twice(k) = n * n + n + (2 * (n * d) + d * d + d)
    BY <2>1 DEF Twice
  <2>3. n * d \in Nat /\ d * d \in Nat /\ d <= d * d
    <3>1. d = 0 \/ d >= 1
      OBVIOUS
    <3>2. QED
      BY <3>1
  <2>4. QED
    BY <2>1, <2>2, <2>3, <1>2, <1>3
<1>6. QED
  BY <1>2, <1>3, <1>4, <1>5

\* What is counted is countable; and who is going to save the message has listed it.
LEMMA Counts ==
  ASSUME NEW m \in Message
  PROVE  /\ IsFiniteSet(Saving(m)) /\ IsFiniteSet(Poller \ Old(m)) /\ IsFiniteSet(Old(m))
         /\ Cardinality(Poller) \in Nat /\ Others(m) \in Nat /\ Saves(m) \in Nat
         /\ Saves(m) <= Others(m) /\ Others(m) <= Cardinality(Poller)
<1>1. Saving(m) \in SUBSET (Poller \ Old(m)) /\ Poller \ Old(m) \in SUBSET Poller
      /\ Old(m) \in SUBSET Poller
  BY DEF Saving, Old
<1>2. IsFiniteSet(Poller)
  BY GmailPollerAssumption
<1>3. IsFiniteSet(Poller \ Old(m)) /\ Others(m) <= Cardinality(Poller) /\ IsFiniteSet(Old(m))
  BY <1>1, <1>2, FS_Subset DEF Others
<1>4. IsFiniteSet(Saving(m)) /\ Saves(m) <= Others(m)
  BY <1>1, <1>3, FS_Subset DEF Others, Saves
<1>5. QED
  BY <1>2, <1>3, <1>4, FS_CardinalityType DEF Others, Saves

\* The same of the next state.
LEMMA CountsNext ==
  ASSUME NEW m \in Message
  PROVE  /\ IsFiniteSet(Saving(m)') /\ IsFiniteSet((Poller \ Old(m))')
         /\ Others(m)' \in Nat /\ Saves(m)' \in Nat
         /\ Saves(m)' <= Others(m)' /\ Others(m)' <= Cardinality(Poller)
<1>1. Saving(m)' \in SUBSET (Poller \ Old(m)') /\ Poller \ Old(m)' \in SUBSET Poller
  BY DEF Saving, Old
<1>2. IsFiniteSet(Poller)
  BY GmailPollerAssumption
<1>3. IsFiniteSet(Poller \ Old(m)') /\ Others(m)' <= Cardinality(Poller)
  BY <1>1, <1>2, FS_Subset DEF Others
<1>4. IsFiniteSet(Saving(m)') /\ Saves(m)' <= Others(m)'
  BY <1>1, <1>3, FS_Subset DEF Others, Saves
<1>5. QED
  BY <1>2, <1>3, <1>4, FS_CardinalityType DEF Others, Saves

\* Who stops saving lowers the count.
LEMMA FewerSaves ==
  ASSUME NEW m \in Message, Saving(m)' \subseteq Saving(m)
  PROVE  /\ Saves(m)' <= Saves(m)
         /\ \A p \in Saving(m) \ Saving(m)' : Saves(m)' + 1 <= Saves(m)
<1>1. IsFiniteSet(Saving(m)) /\ Saves(m) \in Nat /\ Saves(m)' \in Nat
  BY Counts, CountsNext
<1>2. Saves(m)' <= Saves(m)
  BY <1>1, FS_Subset DEF Saves
<1>3. ASSUME NEW p \in Saving(m) \ Saving(m)' PROVE Saves(m)' + 1 <= Saves(m)
  <2>1. /\ IsFiniteSet(Saving(m) \ {p})
        /\ Cardinality(Saving(m) \ {p}) = Saves(m) - 1
    BY <1>1, FS_RemoveElement DEF Saves
  <2>2. Saving(m)' \in SUBSET (Saving(m) \ {p})
    OBVIOUS
  <2>3. Saves(m)' <= Cardinality(Saving(m) \ {p})
    BY <2>1, <2>2, FS_Subset DEF Saves
  <2>4. QED
    BY <1>1, <2>1, <2>3
<1>4. QED
  BY <1>2, <1>3

\* Who is no longer in an old poll raises the count of the others.
LEMMA MoreOthers ==
  ASSUME NEW m \in Message, Old(m)' \subseteq Old(m)
  PROVE  /\ Others(m) <= Others(m)'
         /\ \A p \in Old(m) \ Old(m)' : Old(m)' = Old(m) \ {p} => Others(m)' = Others(m) + 1
<1>1. IsFiniteSet(Poller \ Old(m)) /\ IsFiniteSet((Poller \ Old(m))')
  BY Counts, CountsNext
<1>2. Poller \ Old(m) \in SUBSET (Poller \ Old(m))'
  OBVIOUS
<1>3. Others(m) <= Others(m)'
  BY <1>1, <1>2, FS_Subset DEF Others
<1>4. ASSUME NEW p \in Old(m) \ Old(m)', Old(m)' = Old(m) \ {p}
      PROVE  Others(m)' = Others(m) + 1
  <2>1. (Poller \ Old(m))' = (Poller \ Old(m)) \cup {p} /\ p \notin Poller \ Old(m)
    BY <1>4 DEF Old
  <2>2. Cardinality((Poller \ Old(m)) \cup {p}) = Others(m) + 1
    BY <1>1, <2>1, FS_AddElement DEF Others
  <2>3. Others(m)' = Cardinality((Poller \ Old(m))')
    BY DEF Others
  <2>4. QED
    BY <2>1, <2>2, <2>3, Zenon
<1>5. QED
  BY <1>3, <1>4

\* The history counts.
LEMMA EndedType ==
  ASSUME TypeOK, TypeOK', NEW m \in Message
  PROVE  ended[m] \in Nat /\ ended'[m] \in Nat
BY DEF TypeOK

\* A message that has not been triggered and is not remembered.
LEMMA BoundedNew ==
  ASSUME NEW m \in Message, (~Known(m))', (~Late(m))', ended'[m] = 0
  PROVE  Bounded(m)'
<1>1. Others(m)' \in Nat
  BY CountsNext
<1>2. 2 * Others(m)' <= Twice(Others(m)')
  BY <1>1, Triangle
<1>3. Bounded(m)' <=>
        2 * ended'[m] + 2 * Others(m)' <= Twice(Others(m)')
  BY DEF Bounded, Twice
<1>4. QED
  BY <1>1, <1>2, <1>3

\* The message is triggered by nobody and what the column knows of it stays.
LEMMA BoundedQuiet ==
  ASSUME TypeOK, TypeOK', NEW m \in Message, Bounded(m),
         ended'[m] = ended[m],
         Known(m)' <=> Known(m),
         Late(m) => Late(m)',
         Late(m)' \/ Old(m)' \subseteq Old(m),
         Late(m)' \/ Known(m) => Saving(m)' \subseteq Saving(m)
  PROVE  Bounded(m)'
<1>1. /\ ended[m] \in Nat /\ Cardinality(Poller) \in Nat
      /\ Others(m) \in Nat /\ Saves(m) \in Nat /\ Others(m)' \in Nat /\ Saves(m)' \in Nat
      /\ Saves(m) <= Others(m) /\ Others(m) <= Cardinality(Poller)
      /\ Saves(m)' <= Others(m)' /\ Others(m)' <= Cardinality(Poller)
  BY EndedType, Counts, CountsNext
<1>2. Late(m)' \/ Known(m) => Saves(m)' <= Saves(m)
  BY FewerSaves
<1>3. ~Late(m)' => Others(m) <= Others(m)'
  BY MoreOthers
<1>4. Bounded(m)' <=>
        2 * ended'[m] + 2 * (IF Late(m)' \/ Known(m)' THEN Saves(m)' ELSE Others(m)')
          <= Twice(IF Late(m)' THEN Cardinality(Poller) ELSE Others(m)')
  BY DEF Bounded, Twice
<1>5. /\ Twice(Others(m)) \in Nat
      /\ Twice(Others(m)') \in Nat
      /\ Twice(Cardinality(Poller)) \in Nat
      /\ Twice(Others(m)) <= Twice(Cardinality(Poller))
      /\ Twice(Others(m)) + 2 * Cardinality(Poller)
           <= Twice(Cardinality(Poller)) + 2 * Others(m)
      /\ ~Late(m)' => /\ Twice(Others(m)) <= Twice(Others(m)')
                      /\ Twice(Others(m)) + 2 * Others(m)'
                           <= Twice(Others(m)') + 2 * Others(m)
  BY <1>1, <1>3, Triangle
<1>6. CASE Late(m)'
  <2>1. 2 * ended[m] + 2 * Saves(m) <= Twice(Cardinality(Poller))
    BY <1>1, <1>5 DEF Bounded
  <2>2. QED
    BY <1>1, <1>2, <1>4, <1>5, <1>6, <2>1
<1>7. CASE ~Late(m)' /\ Known(m)
  <2>1. 2 * ended[m] + 2 * Saves(m) <= Twice(Others(m))
    BY <1>7 DEF Bounded
  <2>2. QED
    BY <1>1, <1>2, <1>4, <1>5, <1>7, <2>1
<1>8. CASE ~Late(m)' /\ ~Known(m)
  <2>1. 2 * ended[m] + 2 * Others(m) <= Twice(Others(m))
    BY <1>8 DEF Bounded
  <2>2. QED
    BY <1>1, <1>4, <1>5, <1>8, <2>1
<1>9. QED
  BY <1>6, <1>7, <1>8

\* The message is remembered: by a poll that triggered it, or as before.
LEMMA BoundedSaved ==
  ASSUME TypeOK, TypeOK', NEW m \in Message, Bounded(m), UNCHANGED arrived,
         Late(m) \/ Known(m)',
         Old(m)' \subseteq Old(m),
         Saving(m)' \subseteq Saving(m),
         \/ ended'[m] = ended[m]
         \/ ended'[m] = ended[m] + 1 /\ Saving(m) \ Saving(m)' # {}
  PROVE  Bounded(m)'
<1>1. /\ ended[m] \in Nat /\ ended'[m] \in Nat /\ Cardinality(Poller) \in Nat
      /\ Others(m) \in Nat /\ Saves(m) \in Nat /\ Others(m)' \in Nat /\ Saves(m)' \in Nat
      /\ Saves(m) <= Others(m)
      /\ Others(m) <= Others(m)'
  BY EndedType, Counts, CountsNext, MoreOthers
<1>2. 2 * ended'[m] + 2 * Saves(m)' <= 2 * ended[m] + 2 * Saves(m)
  BY <1>1, FewerSaves
<1>3. Late(m)' <=> Late(m)
  BY DEF Late
<1>4. Bounded(m)' <=>
        2 * ended'[m] + 2 * (IF Late(m)' \/ Known(m)' THEN Saves(m)' ELSE Others(m)')
          <= Twice(IF Late(m)' THEN Cardinality(Poller) ELSE Others(m)')
  BY DEF Bounded, Twice
<1>5. /\ Twice(Others(m)) \in Nat /\ Twice(Others(m)') \in Nat
      /\ Twice(Cardinality(Poller)) \in Nat
      /\ Twice(Others(m)) <= Twice(Others(m)')
  BY <1>1, Triangle
<1>6. 2 * ended[m] + 2 * Saves(m)
        <= Twice(IF Late(m) THEN Cardinality(Poller) ELSE Others(m))
  BY <1>1, <1>5 DEF Bounded
<1>7. QED
  BY <1>1, <1>2, <1>3, <1>4, <1>5, <1>6

\* An old poll ends, whatever it leaves in the column.
LEMMA BoundedForgotten ==
  ASSUME TypeOK, TypeOK', NEW m \in Message, Bounded(m), UNCHANGED arrived,
         ~Late(m),
         ended'[m] = ended[m],
         NEW p \in Old(m), Old(m)' = Old(m) \ {p}
  PROVE  Bounded(m)'
<1>1. /\ ended[m] \in Nat
      /\ Others(m) \in Nat /\ Saves(m) \in Nat /\ Others(m)' \in Nat /\ Saves(m)' \in Nat
      /\ Saves(m)' <= Others(m)'
  BY EndedType, Counts, CountsNext
<1>2. Others(m)' = Others(m) + 1
  BY MoreOthers
<1>3. ~Late(m)'
  BY DEF Late
<1>4. Bounded(m)' <=>
        2 * ended'[m] + 2 * (IF Late(m)' \/ Known(m)' THEN Saves(m)' ELSE Others(m)')
          <= Twice(IF Late(m)' THEN Cardinality(Poller) ELSE Others(m)')
  BY DEF Bounded, Twice
<1>5. Twice(Others(m)) \in Nat /\ Twice(Others(m)') = Twice(Others(m)) + 2 * Others(m)'
  BY <1>1, <1>2, Triangle
<1>6. 2 * ended[m] <= Twice(Others(m))
  BY <1>1, <1>5 DEF Bounded
<1>7. QED
  BY <1>1, <1>3, <1>4, <1>5, <1>6

\* What Kept drops of a list in order is late.
LEMMA KeptUnlessLate ==
  ASSUME TypeOK, NEW s \in Seq(Message), Ordered(s, {}), NEW m \in ToSet(s), ~Late(m)
  PROVE  m \in ToSet(Kept(s))
<1> DEFINE n == Len(s)
           d == Dropped(s)
           t == Kept(s)
<1>1. n \in Nat /\ d \in 0 .. n /\ Keep \in Nat /\ Fetch \in Nat /\ Fetch > 0 /\ Keep >= Fetch
  BY KeptShape
<1>4. t \in Seq(Message) /\ \A i \in 1 .. n - d : t[i] = s[d + i]
  BY KeptShape
<1>5. DOMAIN t = 1 .. n - d /\ DOMAIN s = 1 .. n
  BY KeptShape
<1> HIDE DEF t
<1>6. PICK i \in 1 .. n : m = s[i]
  BY <1>5 DEF ToSet
<1>7. CASE i > d
  <2>1. i - d \in 1 .. n - d /\ d + (i - d) = i
    BY <1>1, <1>7
  <2>2. QED
    BY <2>1, <1>4, <1>5, <1>6 DEF t, ToSet
<1>8. CASE i <= d
  <2>1. d = n - Keep /\ i < n /\ n \in 1 .. n /\ n - i >= Keep
    BY <1>1, <1>8 DEF Dropped
  <2>2. s[i] + (n - i) <= s[n] /\ s[n] \in Nat /\ s[i] \in Nat
    BY <1>5, <1>6, <2>1, Members DEF Ordered, Spread
  <2>3. s[n] <= arrived /\ arrived \in Nat
    <3>1. s[n] \in ToSet(s)
      BY <2>1, Members
    <3>2. QED
      BY <3>1 DEF Ordered, TypeOK
  <2> HIDE DEF n, d
  <2>4. m + Fetch <= arrived
    BY <1>1, <1>6, <2>1, <2>2, <2>3
  <2>5. QED
    BY <2>4 DEF Late
<1>9. QED
  BY <1>1, <1>7, <1>8

\* A step that leaves the lists of new and seen messages together as they are.
LEMMA RepeatsQuiet ==
  ASSUME TypeOK, TypeOK', RepeatInv, UNCHANGED <<arrived, seen, ended, before>>,
         \A p \in Poller :
           /\ ToSet(ids[p])' \cup todo'[p] = ToSet(ids[p]) \cup todo[p]
           /\ ToSet(ids[p]) \subseteq ToSet(ids[p])'
           /\ pc'[p] = pc[p] \/ (pc[p] \in {"next", "run"} /\ pc'[p] \in {"next", "run"})
           /\ pc[p] = "list" => ids'[p] = ids[p]
  PROVE  RepeatInv'
<1>1. BeforeInv'
  BY DEF RepeatInv, BeforeInv
<1>2. ASSUME NEW m \in Message PROVE Bounded(m)' /\ (m > arrived => ended[m] = 0)'
  <2>1. Known(m)' <=> Known(m)
    BY DEF Known
  <2>2. Late(m)' <=> Late(m)
    BY DEF Late
  <2>3. Old(m)' \subseteq Old(m)
    BY DEF Old
  <2>4. Saving(m)' \subseteq Saving(m)
    BY DEF Saving, Newest
  <2>5. Bounded(m)'
    BY <2>1, <2>2, <2>3, <2>4, BoundedQuiet DEF RepeatInv
  <2>6. QED
    BY <2>5 DEF RepeatInv
<1>3. QED
  BY <1>1, <1>2 DEF RepeatInv

\* What the end of a poll leaves of the counts.
LEMMA EndedPoll ==
  ASSUME TypeOK, RepeatInv, NEW p \in Poller, EndPoll(p), UNCHANGED arrived
  PROVE  /\ BeforeInv'
         /\ \A m \in Message : Old(m)' = Old(m) \ {p} /\ Saving(m)' = Saving(m) \ {p}
<1>1. \A q \in Poller \ {p} :
        /\ pc'[q] = pc[q] /\ before'[q] = before[q]
        /\ ids'[q] = ids[q] /\ todo'[q] = todo[q]
  BY DEF EndPoll, TypeOK
<1>2. pc'[p] = "idle" /\ before'[p] = NoState /\ ids'[p] = <<>>
  BY DEF EndPoll, TypeOK
<1>3. BeforeInv'
  BY <1>1, <1>2, EmptyList DEF RepeatInv, BeforeInv
<1>4. ASSUME NEW m \in Message
      PROVE  Old(m)' = Old(m) \ {p} /\ Saving(m)' = Saving(m) \ {p}
  <2>1. Old(m)' = Old(m) \ {p}
    BY <1>1, <1>2 DEF Old
  <2>2. Newest' = Newest
    BY DEF Newest
  <2>3. Saving(m)' = Saving(m) \ {p}
    BY <1>1, <1>2, <2>2 DEF Saving
  <2>4. QED
    BY <2>1, <2>3
<1>5. QED
  BY <1>3, <1>4

\* A poll that begins when the column knows the message does not repeat it.
LEMMA RepeatsRead ==
  ASSUME TypeOK, TypeOK', OrderInv, RepeatInv, NEW p \in Poller, Read(p)
  PROVE  RepeatInv'
<1>1. /\ UNCHANGED <<arrived, seen, ended, todo>>
      /\ pc[p] = "idle" /\ pc'[p] = "list"
      /\ before'[p] = seen /\ ids'[p] = AsList(seen)
      /\ todo[p] = {}
      /\ \A q \in Poller \ {p} : pc'[q] = pc[q] /\ before'[q] = before[q] /\ ids'[q] = ids[q]
  BY DEF Read, TypeOK, OrderInv
<1>2. BeforeInv'
  BY <1>1 DEF RepeatInv, BeforeInv
<1>3. ASSUME NEW m \in Message PROVE Bounded(m)' /\ (m > arrived => ended[m] = 0)'
  <2>1. Known(m)' <=> Known(m)
    BY <1>1 DEF Known
  <2>2. (Late(m)' <=> Late(m)) /\ Newest' = Newest
    BY <1>1 DEF Late, Newest
  <2>3. Old(m)' \subseteq Old(m)
    BY <1>1 DEF Old
  <2>4. ASSUME Late(m)' \/ Known(m) PROVE Saving(m)' \subseteq Saving(m)
    <3>1. p \notin Saving(m)'
      <4>1. SUFFICES ASSUME p \in Saving(m)' PROVE FALSE
        OBVIOUS
      <4>2. m \notin ToSet(AsList(seen)) /\ m \in Newest
        BY <4>1, <1>1, <2>2 DEF Saving
      <4>3. QED
        BY <4>2, <2>2, <2>4, GmailPollerAssumption DEF Known, Newest, Late, Message, TypeOK
    <3>2. QED
      BY <3>1, <1>1, <2>2 DEF Saving
  <2>5. Bounded(m)'
    BY <1>1, <2>1, <2>2, <2>3, <2>4, BoundedQuiet DEF RepeatInv
  <2>6. QED
    BY <1>1, <2>5 DEF RepeatInv
<1>4. QED
  BY <1>2, <1>3 DEF RepeatInv

\* A listing misses a message only if it has not arrived or is late.
LEMMA RepeatsList ==
  ASSUME TypeOK, TypeOK', OrderInv, RepeatInv, NEW p \in Poller, List(p)
  PROVE  RepeatInv'
<1>1. /\ UNCHANGED <<arrived, seen, ended, before, ids>>
      /\ pc[p] = "list" /\ pc'[p] = "next"
      /\ todo'[p] = Newest \ ToSet(ids[p])
      /\ todo[p] = {}
      /\ \A q \in Poller \ {p} : pc'[q] = pc[q] /\ todo'[q] = todo[q]
  BY DEF List, TypeOK, OrderInv
<1>2. BeforeInv'
  BY <1>1 DEF RepeatInv, BeforeInv
<1>3. ASSUME NEW m \in Message PROVE Bounded(m)' /\ (m > arrived => ended[m] = 0)'
  <2>1. Known(m)' <=> Known(m)
    BY <1>1 DEF Known
  <2>2. (Late(m)' <=> Late(m)) /\ Newest' = Newest
    BY <1>1 DEF Late, Newest
  <2>3. Saving(m)' \subseteq Saving(m)
    BY <1>1, <2>2 DEF Saving
  <2>4. CASE m > arrived
    <3>1. arrived \in Nat /\ Fetch \in Nat /\ m \in Nat
      BY GmailPollerAssumption DEF TypeOK, Message
    <3>2. ~Late(m)'
      BY <2>2, <2>4, <3>1 DEF Late
    <3>3. ~Known(m)'
      BY <2>1, <2>4, <3>1 DEF Known, OrderInv, Ordered
    <3>4. ended'[m] = 0
      BY <1>1, <2>4 DEF RepeatInv
    <3>5. QED
      BY <3>2, <3>3, <3>4, BoundedNew
  <2>5. CASE ~(m > arrived)
    <3>1. Late(m)' \/ Old(m)' \subseteq Old(m)
      <4>1. SUFFICES ASSUME ~Late(m)' PROVE p \notin Old(m)'
        BY <1>1 DEF Old
      <4>2. m \in Newest
        BY <2>2, <2>5, <4>1, GmailPollerAssumption DEF Newest, Late, Message, TypeOK
      <4>3. QED
        BY <1>1, <4>2 DEF Old
    <3>2. Bounded(m)'
      BY <1>1, <2>1, <2>2, <2>3, <3>1, BoundedQuiet DEF RepeatInv
    <3>3. QED
      BY <1>1, <2>5, <3>2
  <2>6. QED
    BY <2>4, <2>5
<1>4. QED
  BY <1>2, <1>3 DEF RepeatInv

\* A save counts a repeat, or leaves things as they are, or forgets the message.
LEMMA RepeatsSave ==
  ASSUME TypeOK, TypeOK', OrderInv, RepeatInv, NEW p \in Poller, Save(p)
  PROVE  RepeatInv'
<1> DEFINE list == Kept(ids[p])
<1>1. /\ UNCHANGED arrived /\ EndPoll(p)
      /\ pc[p] = "next" /\ todo[p] = {}
      /\ seen' = IF list # before[p] THEN list ELSE seen
  BY DEF Save
<1>2. /\ ids[p] \in Seq(Message) /\ list \in Seq(Message) /\ list # NoState
      /\ Ordered(ids[p], {})
      /\ ToSet(list) \subseteq ToSet(ids[p])
      /\ ToSet(AsList(before[p])) \subseteq ToSet(ids[p])
  <2>1. ids[p] \in Seq(Message)
    BY DEF TypeOK
  <2>2. list \in Seq(Message) /\ ToSet(list) \subseteq ToSet(ids[p])
    BY <2>1, KeptList
  <2>3. Ordered(ids[p], todo[p])
    BY DEF OrderInv
  <2>4. QED
    BY <1>1, <2>1, <2>2, <2>3, GmailPollerAssumption DEF RepeatInv, BeforeInv
<1> HIDE DEF list
<1>3. AsList(list) = list
  BY <1>2, ListType
<1>4. BeforeInv' /\ \A m \in Message : Old(m)' = Old(m) \ {p} /\ Saving(m)' = Saving(m) \ {p}
  BY <1>1, EndedPoll
<1>5. ASSUME NEW m \in Message PROVE Bounded(m)' /\ (m > arrived => ended[m] = 0)'
  <2>1. p \in Saving(m) <=> m \in ToSet(ids[p]) \ ToSet(AsList(before[p]))
    BY <1>1 DEF Saving
  <2>2. ended'[m] = IF p \in Saving(m) THEN ended[m] + 1 ELSE ended[m]
    BY <2>1 DEF Save
  <2>3. CASE Late(m)
    <3>1. Bounded(m)'
      BY <1>1, <1>4, <2>2, <2>3, BoundedSaved DEF RepeatInv
    <3>2. QED
      BY <3>1, <1>1, <2>3, GmailPollerAssumption DEF Late, TypeOK, Message
  <2>4. CASE ~Late(m) /\ m \in ToSet(ids[p])
    <3>1. m \in ToSet(list)
      BY <1>2, <2>4, KeptUnlessLate DEF list
    <3>2. Bounded(m)'
      <4>1. CASE Known(m)'
        BY <1>1, <1>4, <2>2, <4>1, BoundedSaved DEF RepeatInv
      <4>2. CASE ~Known(m)'
        <5>1. list = before[p] /\ seen' = seen
          BY <1>1, <1>3, <3>1, <4>2 DEF Known
        <5>2. p \notin Saving(m)
          BY <1>3, <2>1, <3>1, <5>1
        <5>3. (Known(m)' <=> Known(m)) /\ (Late(m)' <=> Late(m))
          BY <1>1, <5>1 DEF Known, Late
        <5>4. QED
          BY <1>4, <2>2, <5>2, <5>3, BoundedQuiet DEF RepeatInv
      <4>3. QED
        BY <4>1, <4>2
    <3>3. m \in 1 .. arrived
      BY <1>2, <2>4 DEF Ordered
    <3>4. QED
      BY <1>1, <3>2, <3>3 DEF TypeOK
  <2>5. CASE ~Late(m) /\ m \notin ToSet(ids[p])
    <3>1. p \in Old(m) /\ p \notin Saving(m)
      BY <1>1, <2>1, <2>5 DEF Old
    <3>2. Bounded(m)'
      BY <1>1, <1>4, <2>2, <2>5, <3>1, BoundedForgotten DEF RepeatInv
    <3>3. QED
      BY <1>1, <2>2, <3>1, <3>2 DEF RepeatInv
  <2>6. QED
    BY <2>3, <2>4, <2>5
<1>6. QED
  BY <1>4, <1>5 DEF RepeatInv

\* A poll that is rolled back may be an old one, which then overwrites nothing.
LEMMA RepeatsRolledBack ==
  ASSUME TypeOK, TypeOK', RepeatInv, NEW p \in Poller, EndPoll(p),
         UNCHANGED <<arrived, seen, ended>>
  PROVE  RepeatInv'
<1>1. BeforeInv' /\ \A m \in Message : Old(m)' = Old(m) \ {p} /\ Saving(m)' = Saving(m) \ {p}
  BY EndedPoll
<1>2. ASSUME NEW m \in Message PROVE Bounded(m)' /\ (m > arrived => ended[m] = 0)'
  <2>1. (Known(m)' <=> Known(m)) /\ (Late(m)' <=> Late(m))
    BY DEF Known, Late
  <2>2. Bounded(m)'
    BY <1>1, <2>1, BoundedQuiet DEF RepeatInv
  <2>3. QED
    BY <2>2 DEF RepeatInv
<1>3. QED
  BY <1>1, <1>2 DEF RepeatInv

\* A message arrives untriggered, and older ones become late.
LEMMA RepeatsArrive ==
  ASSUME TypeOK, TypeOK', OrderInv, RepeatInv, Arrive
  PROVE  RepeatInv'
<1>1. UNCHANGED <<seen, ended, pc, before, ids, todo>> /\ arrived' = arrived + 1
  BY DEF Arrive, local
<1>2. BeforeInv'
  BY <1>1 DEF RepeatInv, BeforeInv
<1>3. arrived \in Nat /\ Fetch \in Nat /\ Fetch > 0
  BY GmailPollerAssumption DEF TypeOK
<1>4. ASSUME NEW m \in Message PROVE Bounded(m)' /\ (m > arrived => ended[m] = 0)'
  <2>0. m \in Nat
    BY DEF Message
  <2>1. Known(m)' <=> Known(m)
    BY <1>1 DEF Known
  <2>2. (m > arrived)' => m > arrived
    BY <1>1, <1>3, <2>0
  <2>3. CASE m > arrived
    <3>1. ~Late(m)'
      BY <1>1, <1>3, <2>0, <2>3 DEF Late
    <3>2. ~Known(m)'
      BY <1>3, <2>0, <2>1, <2>3 DEF Known, OrderInv, Ordered
    <3>3. ended'[m] = 0
      BY <1>1, <2>3 DEF RepeatInv
    <3>4. QED
      BY <3>1, <3>2, <3>3, BoundedNew
  <2>4. CASE ~(m > arrived)
    <3>1. Late(m) => Late(m)'
      BY <1>1, <1>3, <2>0 DEF Late
    <3>2. Old(m)' = Old(m)
      BY <1>1 DEF Old
    <3>3. Saving(m)' \subseteq Saving(m)
      <4>1. m \in Newest' => m \in Newest
        BY <1>1, <1>3, <2>0, <2>4 DEF Newest
      <4>2. QED
        BY <1>1, <4>1 DEF Saving
    <3>4. Bounded(m)'
      BY <1>1, <2>1, <3>1, <3>2, <3>3, BoundedQuiet DEF RepeatInv
    <3>5. QED
      BY <2>2, <2>4, <3>4
  <2>5. QED
    BY <2>3, <2>4
<1>5. QED
  BY <1>2, <1>4 DEF RepeatInv

\* At the beginning nothing was triggered.
LEMMA InitRepeats == Init => RepeatInv
<1> SUFFICES ASSUME Init PROVE RepeatInv
  OBVIOUS
<1>1. BeforeInv
  BY EmptyList DEF Init, BeforeInv
<1>2. ASSUME NEW m \in Message PROVE Bounded(m)
  <2>1. ~Known(m) /\ ~Late(m)
    BY EmptyList, GmailPollerAssumption DEF Init, Known, Late, Message
  <2>2. 2 * Others(m) <= Twice(Others(m)) /\ Others(m) \in Nat
    BY Counts, Triangle
  <2>3. QED
    BY <2>1, <2>2 DEF Init, Bounded
<1>3. QED
  BY <1>1, <1>2 DEF Init, RepeatInv

\* RepeatInv is inductive, given types and order.
LEMMA NextRepeats ==
  TypeOK /\ TypeOK' /\ OrderInv /\ RepeatInv /\ [Next]_vars => RepeatInv'
<1> SUFFICES ASSUME TypeOK, TypeOK', OrderInv, RepeatInv, [Next]_vars PROVE RepeatInv'
  OBVIOUS
<1>1. ASSUME NEW p \in Poller, Trigger(p) \/ \E w \in Workflow : RunWorkflow(p, w)
      PROVE  RepeatInv'
  BY <1>1, RepeatsQuiet DEF Trigger, RunWorkflow, TypeOK
<1>2. ASSUME NEW p \in Poller, CommitTrigger(p) PROVE RepeatInv'
  <2>1. PICK m \in Message : m = message[p] /\ m \in todo[p]
    BY <1>2 DEF CommitTrigger, TypeOK
  <2>2. ids[p] \in Seq(Message)
    BY DEF TypeOK
  <2>3. ToSet(Append(ids[p], m)) = ToSet(ids[p]) \cup {m}
    BY <2>2, AppendNewer
  <2>4. /\ ids'[p] = Append(ids[p], m) /\ todo'[p] = todo[p] \ {m}
        /\ pc[p] = "run" /\ pc'[p] = "next"
        /\ \A q \in Poller \ {p} : ids'[q] = ids[q] /\ todo'[q] = todo[q] /\ pc'[q] = pc[q]
        /\ UNCHANGED <<arrived, seen, ended, before>>
    BY <1>2, <2>1 DEF CommitTrigger, TypeOK
  <2>5. ASSUME NEW q \in Poller
        PROVE  /\ ToSet(ids[q])' \cup todo'[q] = ToSet(ids[q]) \cup todo[q]
               /\ ToSet(ids[q]) \subseteq ToSet(ids[q])'
               /\ \/ pc'[q] = pc[q]
                  \/ pc[q] \in {"next", "run"} /\ pc'[q] \in {"next", "run"}
               /\ pc[q] = "list" => ids'[q] = ids[q]
    <3>1. CASE q = p
      BY <2>1, <2>3, <2>4, <3>1
    <3>2. CASE q # p
      BY <2>4, <3>2
    <3>3. QED
      BY <3>1, <3>2
  <2>6. QED
    BY <2>4, <2>5, RepeatsQuiet
<1>3. ASSUME NEW p \in Poller, Refuse(p) \/ Fail(p) PROVE RepeatInv'
  BY <1>3, RepeatsRolledBack DEF Refuse, Fail
<1>4. ASSUME (\E w \in Workflow : Toggle(w)) \/ OtherRun \/ MonthEnds \/ UNCHANGED vars
      PROVE  RepeatInv'
  BY <1>4, RepeatsQuiet DEF Toggle, OtherRun, MonthEnds, vars, local
<1>5. QED
  BY <1>1, <1>2, <1>3, <1>4, RepeatsRead, RepeatsList, RepeatsSave, RepeatsArrive
  DEF Next, Step

\* For any number P of processes, polls that overwrite each other's column trigger a
\* message 1 + 2 + ... + P times at most.
THEOREM RepeatsBounded == Spec => []FewRepeats
<1>1. Init => TypeOK /\ OrderInv /\ RepeatInv
  BY InitType, InitOrder, InitRepeats
<1>2. TypeOK /\ OrderInv /\ RepeatInv /\ [Next]_vars => (TypeOK /\ OrderInv /\ RepeatInv)'
  BY NextType, NextOrder, NextRepeats
<1>3. TypeOK /\ RepeatInv => FewRepeats
  <2>1. SUFFICES ASSUME TypeOK, RepeatInv, NEW m \in Message
                 PROVE  2 * ended[m] <= Twice(Cardinality(Poller))
    BY DEF FewRepeats, Twice
  <2>2. /\ Cardinality(Poller) \in Nat /\ Others(m) \in Nat /\ Saves(m) \in Nat
        /\ Others(m) <= Cardinality(Poller) /\ ended[m] \in Nat
    BY <2>1, Counts DEF TypeOK
  <2>3. /\ Twice(Others(m)) <= Twice(Cardinality(Poller))
        /\ Twice(Others(m)) \in Nat /\ Twice(Cardinality(Poller)) \in Nat
    BY <2>2, Triangle
  <2>4. \/ 2 * ended[m] <= Twice(Others(m))
        \/ 2 * ended[m] <= Twice(Cardinality(Poller))
    BY <2>1, <2>2, <2>3 DEF RepeatInv, Bounded
  <2>5. QED
    BY <2>2, <2>3, <2>4
<1>4. QED
  BY <1>1, <1>2, <1>3, PTL DEF Spec
=============================================================================
