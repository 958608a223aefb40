---------------------------- MODULE GmailPoller ----------------------------
(***************************************************************************)
(* run_gmail_new_email_poll, which the background worker of every process    *)
(* runs on every tick, for one connected mailbox, and execute_tenant_trigger,*)
(* which it calls for each new message. Messages are numbered as they arrive.*)
(* Nothing is locked: a poll reads the ids seen so far at its beginning and  *)
(* writes the whole list at its end.                                         *)
(***************************************************************************)
EXTENDS Naturals, Sequences, FiniteSets, SequencesExt

CONSTANTS
  Poller,      \* the processes
  Workflow,    \* the tenant's workflows with a GMAIL_NEW_EMAIL trigger
  Matches,     \* the messages that each workflow's trigger matches
  Fetch,       \* max_messages, the newest ones that a poll lists
  Keep,        \* seen ids that are kept (200)
  RunLimit,    \* monthly_runs of the tenant's plan
  MaxMail,     \* bound on messages
  FailLimit,   \* bound on polls that fail or die
  OtherLimit,  \* bound on other runs of the tenant in a month
  NoState      \* sync_state holds no ids yet

Message == 1 .. MaxMail

ASSUME GmailPollerAssumption ==
  /\ IsFiniteSet(Poller)
  /\ IsFiniteSet(Workflow)
  /\ MaxMail \in Nat
  /\ Matches \in [Workflow -> SUBSET Message]
  /\ Fetch \in Nat \ {0}
  /\ Keep \in Nat /\ Keep >= Fetch
  /\ RunLimit \in Nat
  /\ FailLimit \in Nat
  /\ OtherLimit \in Nat
  /\ NoState \notin Seq(Message)

VARIABLES
  arrived,  \* messages in the mailbox
  seen,     \* the column: gmail_seen_message_ids
  active,   \* the workflows that are active
  used,     \* the tenant's recorded runs of the month
  runs,     \* the messages that each workflow has a recorded run for
  pc,       \* control state of each poller
  before,   \* the column as the poll read it
  ids,      \* seen_message_ids of the poll
  todo,     \* its new messages, until each counts as seen
  message,  \* the one in hand, or 0
  rest,     \* selected workflows that the message in hand is still to be run for
  ran,      \* those it was run for in this transaction
  fails,    \* polls that failed or died
  stable,   \* history: the workflows that were active all along
  ended     \* history: polls that triggered a message and were saved

local == <<pc, before, ids, todo, message, rest, ran>>
vars == <<arrived, seen, active, used, runs, local, fails, stable, ended>>

AsList(s) == IF s = NoState THEN <<>> ELSE s

-----------------------------------------------------------------------------
(* A poll *)

\* The credential is loaded once, at the beginning of the poll.
Read(p) ==
  /\ pc[p] = "idle"
  /\ before' = [before EXCEPT ![p] = seen]
  /\ ids' = [ids EXCEPT ![p] = AsList(seen)]
  /\ pc' = [pc EXCEPT ![p] = "list"]
  /\ UNCHANGED <<arrived, seen, active, used, runs, todo, message, rest, ran, fails, stable,
                 ended>>

\* Mutant of Newest: one fewer.
NewestButOne == {m \in 1 .. arrived : m + Fetch > arrived + 1}

\* latest_messages
Newest == {m \in 1 .. arrived : m + Fetch > arrived}

List(p) ==
  /\ pc[p] = "list"
  /\ todo' = [todo EXCEPT ![p] = Newest \ ToSet(ids[p])]
  /\ pc' = [pc EXCEPT ![p] = "next"]
  /\ UNCHANGED <<arrived, seen, active, used, runs, before, ids, message, rest, ran, fails,
                 stable, ended>>

\* Mutant of IsFirst: in the order Gmail lists them.
IsFirstListed(m, new) == \A n \in new : m >= n

\* reversed(new_ids): Gmail lists the newest message first.
IsFirst(m, new) == \A n \in new : m <= n

\* The next message is fetched, and the workflows it is for are selected.
Trigger(p) ==
  /\ pc[p] = "next"
  /\ \E m \in todo[p] :
       /\ IsFirst(m, todo[p])
       /\ message' = [message EXCEPT ![p] = m]
       /\ rest' = [rest EXCEPT ![p] = {w \in active : m \in Matches[w]}]
  /\ pc' = [pc EXCEPT ![p] = "run"]
  /\ UNCHANGED <<arrived, seen, active, used, runs, before, ids, todo, ran, fails, stable, ended>>

\* get_monthly_run_count sees what is committed and the runs of its own transaction.
QuotaExhausted(p) == used + Cardinality(ran[p]) >= RunLimit

\* _execute_workflow, in the order the database returns; the actions are carried
\* out now, whatever becomes of the transaction.
RunWorkflow(p, w) ==
  /\ pc[p] = "run"
  /\ w \in rest[p]
  /\ ~QuotaExhausted(p)
  /\ rest' = [rest EXCEPT ![p] = @ \ {w}]
  /\ ran' = [ran EXCEPT ![p] = @ \cup {w}]
  /\ UNCHANGED <<arrived, seen, active, used, runs, pc, before, ids, todo, message, fails,
                 stable, ended>>

\* The runs for a message are committed together, and it counts as seen.
CommitTrigger(p) ==
  LET m == message[p] IN
  /\ pc[p] = "run"
  /\ rest[p] = {}
  /\ runs' = [w \in Workflow |-> IF w \in ran[p] THEN runs[w] \cup {m} ELSE runs[w]]
  /\ used' = used + Cardinality(ran[p])
  /\ ran' = [ran EXCEPT ![p] = {}]
  /\ ids' = [ids EXCEPT ![p] = Append(@, m)]
  /\ todo' = [todo EXCEPT ![p] = @ \ {m}]
  /\ message' = [message EXCEPT ![p] = 0]
  /\ pc' = [pc EXCEPT ![p] = "next"]
  /\ UNCHANGED <<arrived, seen, active, before, rest, fails, stable, ended>>

\* Mutant of EndPoll: nothing is rolled back.
EndPollKeepsRan(p) ==
  /\ pc' = [pc EXCEPT ![p] = "idle"]
  /\ before' = [before EXCEPT ![p] = NoState]
  /\ ids' = [ids EXCEPT ![p] = <<>>]
  /\ todo' = [todo EXCEPT ![p] = {}]
  /\ message' = [message EXCEPT ![p] = 0]
  /\ rest' = [rest EXCEPT ![p] = {}]
  /\ UNCHANGED ran

\* The rollback, and the variables of the loop go.
EndPoll(p) ==
  /\ pc' = [pc EXCEPT ![p] = "idle"]
  /\ before' = [before EXCEPT ![p] = NoState]
  /\ ids' = [ids EXCEPT ![p] = <<>>]
  /\ todo' = [todo EXCEPT ![p] = {}]
  /\ message' = [message EXCEPT ![p] = 0]
  /\ rest' = [rest EXCEPT ![p] = {}]
  /\ ran' = [ran EXCEPT ![p] = {}]

\* Mutant of Kept: the oldest ones.
KeptOldest(list) == SubSeq(list, 1, IF Len(list) < Keep THEN Len(list) ELSE Keep)

\* seen_message_ids[-200:]
Kept(list) == SubSeq(list, IF Len(list) > Keep THEN Len(list) - Keep + 1 ELSE 1, Len(list))

\* The column is written only if the list differs from what was read.
Save(p) ==
  LET list == Kept(ids[p]) IN
  /\ pc[p] = "next"
  /\ todo[p] = {}
  /\ seen' = IF list # before[p] THEN list ELSE seen
  /\ ended' = [m \in Message |->
       IF m \in ToSet(ids[p]) \ ToSet(AsList(before[p])) THEN ended[m] + 1 ELSE ended[m]]
  /\ EndPoll(p)
  /\ UNCHANGED <<arrived, active, used, runs, fails, stable>>

\* Mutant of Refuse: what ran before is committed.
RefuseKeeps(p) ==
  /\ pc[p] = "run"
  /\ rest[p] # {}
  /\ QuotaExhausted(p)
  /\ runs' = [w \in Workflow |->
       IF w \in ran[p] THEN runs[w] \cup {message[p]} ELSE runs[w]]
  /\ used' = used + Cardinality(ran[p])
  /\ EndPoll(p)
  /\ UNCHANGED <<arrived, seen, active, fails, stable, ended>>

\* Mutant of Refuse: the loop goes on to the next message.
RefuseSkips(p) ==
  /\ pc[p] = "run"
  /\ rest[p] # {}
  /\ QuotaExhausted(p)
  /\ rest' = [rest EXCEPT ![p] = {}]
  /\ UNCHANGED <<arrived, seen, active, used, runs, pc, before, ids, todo, message, ran,
                 fails, stable, ended>>

\* enforce_monthly_run_limit raises 402: the poll is rolled back, with the runs of
\* the workflows before.
Refuse(p) ==
  /\ pc[p] = "run"
  /\ rest[p] # {}
  /\ QuotaExhausted(p)
  /\ EndPoll(p)
  /\ UNCHANGED <<arrived, seen, active, used, runs, fails, stable, ended>>

\* Gmail does not answer, a statement of a workflow fails, or the process dies.
Fail(p) ==
  /\ pc[p] # "idle"
  /\ fails < FailLimit
  /\ fails' = fails + 1
  /\ EndPoll(p)
  /\ UNCHANGED <<arrived, seen, active, used, runs, stable, ended>>

Step(p) ==
  \/ Read(p)
  \/ List(p)
  \/ Trigger(p)
  \/ \E w \in Workflow : RunWorkflow(p, w)
  \/ CommitTrigger(p)
  \/ Save(p)
  \/ Refuse(p)

-----------------------------------------------------------------------------
(* Meanwhile *)

Arrive ==
  /\ arrived < MaxMail
  /\ arrived' = arrived + 1
  /\ UNCHANGED <<seen, active, used, runs, local, fails, stable, ended>>

\* activate_workflow, deactivate_workflow
Toggle(w) ==
  /\ active' = IF w \in active THEN active \ {w} ELSE active \cup {w}
  /\ stable' = stable \cap active'
  /\ UNCHANGED <<arrived, seen, used, runs, local, fails, ended>>

OtherRun ==
  /\ used < OtherLimit
  /\ used' = used + 1
  /\ UNCHANGED <<arrived, seen, active, runs, local, fails, stable, ended>>

MonthEnds ==
  /\ used > 0
  /\ used' = 0
  /\ UNCHANGED <<arrived, seen, active, runs, local, fails, stable, ended>>

Init ==
  /\ arrived = 0
  /\ seen = NoState
  /\ active \in SUBSET Workflow
  /\ used = 0
  /\ runs = [w \in Workflow |-> {}]
  /\ pc = [p \in Poller |-> "idle"]
  /\ before = [p \in Poller |-> NoState]
  /\ ids = [p \in Poller |-> <<>>]
  /\ todo = [p \in Poller |-> {}]
  /\ message = [p \in Poller |-> 0]
  /\ rest = [p \in Poller |-> {}]
  /\ ran = [p \in Poller |-> {}]
  /\ fails = 0
  /\ stable = active
  /\ ended = [m \in Message |-> 0]

Next ==
  \/ \E p \in Poller : Step(p) \/ Fail(p)
  \/ Arrive
  \/ \E w \in Workflow : Toggle(w)
  \/ OtherRun
  \/ MonthEnds

Spec == Init /\ [][Next]_vars

\* Every worker loop goes on, since its calls have timeouts, and months end.
FairSpec ==
  /\ Spec
  /\ \A p \in Poller : WF_vars(Step(p))
  /\ WF_vars(MonthEnds)

-----------------------------------------------------------------------------
(* What must hold *)

\* Variables have their types, and only a poll that triggers has runs to commit.
TypeOK ==
  /\ arrived \in 0 .. MaxMail
  /\ seen \in Seq(Message) \cup {NoState}
  /\ active \subseteq Workflow
  /\ used \in Nat
  /\ runs \in [Workflow -> SUBSET Message]
  /\ pc \in [Poller -> {"idle", "list", "next", "run"}]
  /\ before \in [Poller -> Seq(Message) \cup {NoState}]
  /\ ids \in [Poller -> Seq(Message)]
  /\ todo \in [Poller -> SUBSET Message]
  /\ message \in [Poller -> Message \cup {0}]
  /\ rest \in [Poller -> SUBSET Workflow]
  /\ ran \in [Poller -> SUBSET Workflow]
  /\ fails \in 0 .. FailLimit
  /\ stable \subseteq active
  /\ ended \in [Message -> Nat]
  /\ \A p \in Poller :
       IF pc[p] = "run" THEN message[p] \in todo[p]
       ELSE message[p] = 0 /\ rest[p] = {} /\ ran[p] = {}

\* A message that the column remembers has a recorded run of every workflow that
\* is for it and was never inactive: a poll that fails, is refused or dies, and a
\* column that two polls overwrite, may repeat a message but never lose one.
RememberedRan ==
  \A m \in ToSet(AsList(seen)) : \A w \in stable :
    m \in Matches[w] => m \in runs[w]

\* The column lists messages in the order they arrived, each once, whichever of
\* several polls wrote it; so the last Keep of them are the newest.
InOrder ==
  \A i, j \in DOMAIN AsList(seen) : i < j => seen[i] < seen[j]

\* Of P processes, polls that reach their end trigger a message 1 + 2 + ... + P times
\* at most: all but one may be in polls that listed the mailbox before the message
\* arrived; each of these in turn overwrites the column without it, after which every
\* process that is not in such a poll may trigger it once more.
FewRepeats ==
  \A m \in Message :
    2 * ended[m] <= Cardinality(Poller) * (Cardinality(Poller) + 1)

\* A message is recorded for every workflow that it is for, or for none: those
\* that ran before another one was refused are rolled back with it.
AllOrNothing ==
  \A m \in Message :
    (\E w \in Workflow : m \in runs[w]) =>
      \A w \in stable : m \in Matches[w] => m \in runs[w]

\* A message is triggered in the end and remembered, unless Fetch newer ones push it
\* out of the listing first.
Handled ==
  \A m \in Message :
    arrived >= m ~> m \in ToSet(AsList(seen)) \/ arrived >= m + Fetch
=============================================================================
