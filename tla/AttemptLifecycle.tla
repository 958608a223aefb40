------------------------- MODULE AttemptLifecycle -------------------------
(***************************************************************************)
(* What the workflow engine promises about the life of one execution       *)
(* attempt (one row of workflow_runs), with no processes, locks, clocks or *)
(* sessions: an attempt is recorded once, a failed attempt waits for its   *)
(* retry, and a waiting attempt is either superseded by exactly one        *)
(* successor in the same step, charged another try, or given up on.        *)
(* RetryQueue implements this specification.                               *)
(***************************************************************************)
EXTENDS Naturals

CONSTANTS Run,         \* attempts
          MaxRetries,  \* WorkflowRun.max_retries
          NoRun        \* "no predecessor"

VARIABLES phase,   \* where an attempt is in its life
          tried,   \* tries charged to its chain so far
          origin   \* the attempt it retries, or NoRun

vars == <<phase, tried, origin>>

\* The phases an attempt may be recorded in after its n-th try.
Verdicts(n) == {"done", IF n >= MaxRetries THEN "dead" ELSE "waiting"}

Init ==
  /\ phase = [r \in Run |-> "none"]
  /\ tried = [r \in Run |-> 0]
  /\ origin = [r \in Run |-> NoRun]

\* First attempts, recorded together: each is charged one try if it failed.
Record(S) ==
  /\ \A r \in S : phase[r] = "none"
  /\ \E verdict \in [S -> Verdicts(1)] :
       /\ phase' = [r \in Run |-> IF r \in S THEN verdict[r] ELSE phase[r]]
       /\ tried' = [r \in Run |-> IF r \notin S THEN tried[r]
                                  ELSE IF verdict[r] = "done" THEN 0 ELSE 1]
  /\ UNCHANGED origin

\* The waiting attempt r is superseded by its one successor s.
Retry(r, s) ==
  /\ phase[r] = "waiting"
  /\ phase[s] = "none"
  /\ \E v \in Verdicts(tried[r] + 1) :
       phase' = [phase EXCEPT ![r] = "superseded", ![s] = v]
  /\ tried' = [tried EXCEPT ![s] = tried[r] + 1]
  /\ origin' = [origin EXCEPT ![s] = r]

\* A try that could not be recorded is charged to the waiting attempt itself.
Charge(r) ==
  /\ phase[r] = "waiting"
  /\ tried' = [tried EXCEPT ![r] = @ + 1]
  /\ phase' = [phase EXCEPT ![r] =
                 IF tried[r] + 1 >= MaxRetries THEN "dead" ELSE "waiting"]
  /\ UNCHANGED origin

\* An administrator took the attempt over: no further automatic retry.
GiveUp(r) ==
  /\ phase[r] \in {"done", "waiting", "superseded", "dead"}
  /\ phase' = [phase EXCEPT ![r] = "dead"]
  /\ UNCHANGED <<tried, origin>>

\* The workflow of these attempts is deleted.
Forget(S) ==
  /\ \A r \in S : phase[r] # "none"
  /\ phase' = [r \in Run |-> IF r \in S THEN "deleted" ELSE phase[r]]
  /\ tried' = [r \in Run |-> IF r \in S THEN 0 ELSE tried[r]]
  /\ origin' = [r \in Run |-> IF r \in S THEN NoRun ELSE origin[r]]

Next ==
  \/ \E S \in SUBSET Run : Record(S) \/ Forget(S)
  \/ \E r \in Run : Charge(r) \/ GiveUp(r)
  \/ \E r, s \in Run : Retry(r, s)

Spec == Init /\ [][Next]_vars
=============================================================================
