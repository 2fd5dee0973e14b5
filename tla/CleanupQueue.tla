---------------------------- MODULE CleanupQueue ----------------------------
(***************************************************************************)
(* The leased queue of physical deletions: rag_index_cleanup_jobs, the     *)
(* queue transactions of backend/storage/postgres.py and the worker of     *)
(* backend/ingestion/cleanup.py, whose clocks need not agree.              *)
(*                                                                         *)
(* next_attempt_at and lease_expires_at are kept as the time left until    *)
(* them by the clock that is furthest behind; one that has passed stays 0. *)
(***************************************************************************)
EXTENDS Naturals

CONSTANTS
  Job,          \* one cleanup job per backend and version
  Worker,
  MaxAttempts,  \* max_attempts
  Lease,        \* lease_seconds
  BaseRetry,    \* base_retry_seconds
  MaxRetry,     \* max_retry_seconds
  Ahead         \* how far each worker's clock is ahead of the slowest

ASSUME QueueAssumption ==
  /\ MaxAttempts \in Nat \ {0}
  /\ Lease \in Nat \ {0}
  /\ BaseRetry \in Nat \ {0}
  /\ MaxRetry \in Nat /\ MaxRetry >= BaseRetry
  /\ Ahead \in [Worker -> Nat]

\* A delay that doubles with each attempt stays a number.
ASSUME DelayAssumption == \A attempt \in 1..MaxAttempts : BaseRetry * 2^(attempt - 1) \in Nat

JobStatus == {"NONE", "PENDING", "RUNNING", "RETRY", "SUCCEEDED", "FAILED"}
Terminal == {"SUCCEEDED", "FAILED"}

\* A row of rag_index_cleanup_jobs; NONE is a row that does not exist. A lease
\* token is fresh at each claim: the number of the attempt stands for it, and 0
\* for NULL.
JobRow == [status : JobStatus, attempts : Nat, due : Nat, token : Nat, lease : Nat]

NoJob == [status |-> "NONE", attempts |-> 0, due |-> 0, token |-> 0, lease |-> 0]

VARIABLES
  job,      \* the rows
  present,  \* is the physical object there?
  pc,       \* what each worker does next
  mine,     \* the job each worker claimed last
  token     \* the lease token it was given

vars == <<job, present, pc, mine, token>>

WorkerStep == {"idle", "check", "drop", "complete", "fail"}

TypeOK ==
  /\ job \in [Job -> JobRow]
  /\ present \in [Job -> BOOLEAN]
  /\ pc \in [Worker -> WorkerStep]
  /\ mine \in [Worker -> Job]
  /\ token \in [Worker -> Nat]

Init ==
  /\ job = [j \in Job |-> NoJob]
  /\ present \in [Job -> BOOLEAN]
  /\ pc = [w \in Worker |-> "idle"]
  /\ mine \in [Worker -> Job]
  /\ token = [w \in Worker |-> 0]

-----------------------------------------------------------------------------

\* Mutant: the row is inserted with a status the table does not know.
EnqueueLeased(j) ==
  /\ job[j].status = "NONE"
  /\ job' = [job EXCEPT ![j].status = "LEASED"]
  /\ UNCHANGED <<present, pc, mine, token>>

\* enqueue_cleanup: a row that exists is returned as it is.
Enqueue(j) ==
  /\ job[j].status = "NONE"
  /\ job' = [job EXCEPT ![j].status = "PENDING"]
  /\ UNCHANGED <<present, pc, mine, token>>

\* Mutant: an attempt that ends in an error can always be repeated.
AfterFailureAlways(j) == "RETRY"

AfterFailure(j) == IF job[j].attempts >= MaxAttempts THEN "FAILED" ELSE "RETRY"

\* Mutant: a lease is held until its worker gives it back.
ExpiredNever(j, w) == FALSE

Expired(j, w) == job[j].status = "RUNNING" /\ job[j].lease <= Ahead[w]

\* The first statement of claim_cleanup: all leases expired by the worker's clock.
Recovered(w) ==
  [j \in Job |->
     IF Expired(j, w)
     THEN [job[j] EXCEPT !.status = AfterFailure(j), !.due = Ahead[w],
                         !.token = 0, !.lease = 0]
     ELSE job[j]]

Due(queue, w) ==
  {j \in Job : queue[j].status \in {"PENDING", "RETRY"} /\ queue[j].due <= Ahead[w]}

\* Mutant: the token names the job, not the attempt.
LeasedByJob(r, w) ==
  [r EXCEPT !.status = "RUNNING", !.attempts = @ + 1, !.token = 1, !.lease = Ahead[w] + Lease]

\* The second statement of claim_cleanup, for the row r.
Leased(r, w) ==
  [r EXCEPT !.status = "RUNNING", !.attempts = @ + 1, !.token = r.attempts + 1,
            !.lease = Ahead[w] + Lease]

\* claim_cleanup recovers and claims in one transaction. Rows locked by another
\* transaction are skipped, so any row that is due may be the first.
Claim(w) ==
  LET queue == Recovered(w) IN
  /\ pc[w] = "idle"
  /\ \/ \E j \in Due(queue, w) :
          /\ job' = [queue EXCEPT ![j] = Leased(queue[j], w)]
          /\ mine' = [mine EXCEPT ![w] = j]
          /\ token' = [token EXCEPT ![w] = job'[j].token]
          /\ pc' = [pc EXCEPT ![w] = "check"]
     \/ /\ Due(queue, w) = {}
        /\ queue # job
        /\ job' = queue
        /\ UNCHANGED <<pc, mine, token>>
  /\ UNCHANGED present

\* delete_version asks first whether the object is there.
Check(w) ==
  /\ pc[w] = "check"
  /\ pc' = [pc EXCEPT ![w] = IF present[mine[w]] THEN "drop" ELSE "complete"]
  /\ UNCHANGED <<job, present, mine, token>>

\* What follows the question. If the object has gone in between, that is an error to
\* Elasticsearch and the file system, and none to a purge of rows already purged.
Drop(w) ==
  /\ pc[w] = "drop"
  /\ present' = [present EXCEPT ![mine[w]] = FALSE]
  /\ \E step \in {"complete", "fail"} :
       /\ present[mine[w]] => step = "complete"
       /\ pc' = [pc EXCEPT ![w] = step]
  /\ UNCHANGED <<job, mine, token>>

\* Mutant: what the call of the backend raised is swallowed.
DeleteErrorIgnored(w) ==
  /\ pc[w] \in {"check", "drop"}
  /\ UNCHANGED present
  /\ pc' = [pc EXCEPT ![w] = "complete"]
  /\ UNCHANGED <<job, mine, token>>

\* A call of the backend raises; a delete may have taken effect before it did.
DeleteFails(w) ==
  /\ pc[w] \in {"check", "drop"}
  /\ \/ UNCHANGED present
     \/ pc[w] = "drop" /\ present' = [present EXCEPT ![mine[w]] = FALSE]
  /\ pc' = [pc EXCEPT ![w] = "fail"]
  /\ UNCHANGED <<job, mine, token>>

\* Mutant: any lease will do.
HoldsSomeLease(w) == job[mine[w]].status # "NONE"

\* The guard of complete_cleanup and record_cleanup_failure. The time is not in it:
\* an expired lease that nobody has recovered is still good.
HoldsLease(w) == job[mine[w]].status = "RUNNING" /\ job[mine[w]].token = token[w]

\* What either of them writes; a stale lease raises instead.
Settle(w, status, due) ==
  /\ IF HoldsLease(w)
     THEN job' = [job EXCEPT ![mine[w]] = [@ EXCEPT !.status = status, !.due = due,
                                                    !.token = 0, !.lease = 0]]
     ELSE UNCHANGED job
  /\ pc' = [pc EXCEPT ![w] = "idle"]
  /\ UNCHANGED <<present, mine, token>>

Complete(w) ==
  /\ pc[w] = "complete"
  /\ Settle(w, "SUCCEEDED", job[mine[w]].due)

\* _retry_delay, for the attempt the worker was given.
RetryDelay(attempt) ==
  LET delay == BaseRetry * 2^(attempt - 1) IN IF delay <= MaxRetry THEN delay ELSE MaxRetry

RecordFailure(w) ==
  /\ pc[w] = "fail"
  /\ Settle(w, AfterFailure(mine[w]), Ahead[w] + RetryDelay(token[w]))

\* The worker dies, or an error of the fact source ends its batch.
Crash(w) ==
  /\ pc[w] # "idle"
  /\ pc' = [pc EXCEPT ![w] = "idle"]
  /\ UNCHANGED <<job, present, mine, token>>

Later(n) == IF n = 0 THEN 0 ELSE n - 1

\* Time passes for every worker alike.
Tick ==
  /\ \E j \in Job : job[j].due > 0 \/ job[j].lease > 0
  /\ job' = [j \in Job |-> [job[j] EXCEPT !.due = Later(@), !.lease = Later(@)]]
  /\ UNCHANGED <<present, pc, mine, token>>

\* Every job has ended and every worker is idle.
Finished ==
  /\ \A j \in Job : job[j].status \in Terminal
  /\ \A w \in Worker : pc[w] = "idle"
  /\ UNCHANGED vars

WorkerNext(w) ==
  Claim(w) \/ Check(w) \/ Drop(w) \/ DeleteFails(w) \/ Complete(w) \/ RecordFailure(w)

Next ==
  \/ \E j \in Job : Enqueue(j)
  \/ \E w \in Worker : WorkerNext(w) \/ Crash(w)
  \/ Tick
  \/ Finished

Spec == Init /\ [][Next]_vars

\* Time passes, and workers are run again and again: run_batch stops at the first
\* claim that finds nothing due.
FairSpec == Spec /\ WF_vars(Tick) /\ \A w \in Worker : WF_vars(WorkerNext(w))

-----------------------------------------------------------------------------
(* Properties. *)

\* The table's CHECK (attempt_count <= max_attempts) never refuses a claim, a job is
\* given up only after its last attempt, however its attempts ended, and until then
\* it waits, by the clock of the worker that failed, no longer than max_retry_seconds
\* and no longer than the delay doubled with each attempt.
AttemptsWithinLimit ==
  \A j \in Job :
    /\ job[j].attempts <= MaxAttempts
    /\ job[j].status = "FAILED" => job[j].attempts = MaxAttempts
    /\ job[j].status = "RETRY" => \E w \in Worker :
         /\ job[j].due <= Ahead[w] + MaxRetry
         /\ job[j].due <= Ahead[w] + BaseRetry * 2^(job[j].attempts - 1)

\* A finished deletion is a deletion: whoever completes a job has seen its object
\* gone, though others whose leases were lost still work on it.
SucceededMeansDeleted ==
  \A j \in Job : job[j].status = "SUCCEEDED" => ~present[j]

\* Of all workers that still work on a job, at most one can settle it.
OneLeaseHolder ==
  \A v, w \in Worker :
    /\ pc[v] # "idle" /\ pc[w] # "idle"
    /\ mine[v] = mine[w]
    /\ HoldsLease(v) /\ HoldsLease(w)
    => v = w

\* A job that has ended stays as it ended: an answer that comes after its lease was
\* recovered, or after another attempt succeeded, changes nothing.
TerminalIsFinal ==
  [][\A j \in Job : job[j].status \in Terminal => job'[j].status = job[j].status]_vars

\* Every job ends, though workers die holding leases and deletions fail.
EveryJobEnds ==
  \A j \in Job : job[j].status # "NONE" ~> job[j].status \in Terminal

=============================================================================
