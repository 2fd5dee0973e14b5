------------------------ MODULE CleanupQueue_proofs ------------------------
(***************************************************************************)
(* Theorems about CleanupQueue, for any number of jobs, workers and        *)
(* attempts, any lease, delays and clocks.                                 *)
(***************************************************************************)
EXTENDS CleanupQueue, TLAPS

-----------------------------------------------------------------------------
(* The inductive invariant. *)

\* The delay of a row that waits for its next attempt, by some worker's clock.
DelayBounded(r) ==
  \E w \in Worker :
    /\ r.due <= Ahead[w] + MaxRetry
    /\ r.due <= Ahead[w] + BaseRetry * 2^(r.attempts - 1)

\* What a status says of the attempts: whoever may still claim the row finds one left,
\* and the token of a lease is the number of the attempt it was given for.
RowSound(r) ==
  /\ r.attempts <= MaxAttempts
  /\ r.status \in {"NONE", "PENDING", "RETRY"} => r.attempts < MaxAttempts
  /\ r.status = "FAILED" => r.attempts = MaxAttempts
  /\ r.status = "RUNNING" => r.attempts >= 1 /\ r.token = r.attempts
  /\ r.status = "RETRY" => r.attempts >= 1 /\ DelayBounded(r)

RowsSound == \A j \in Job : RowSound(job[j])

\* No worker was given a token the row has not reached yet.
TokensBehind == \A w \in Worker : token[w] <= job[mine[w]].attempts

\* No two of the workers that still work on a job were given the same token.
TokensDiffer ==
  \A v, w \in Worker :
    v # w /\ mine[v] = mine[w] /\ pc[v] # "idle" /\ pc[w] # "idle" => token[v] # token[w]

\* Who is about to complete a job has seen its object gone.
CompletesDeleted == \A w \in Worker : pc[w] = "complete" => ~present[mine[w]]

QueueInv ==
  /\ TypeOK
  /\ RowsSound
  /\ TokensBehind
  /\ TokensDiffer
  /\ CompletesDeleted
  /\ SucceededMeansDeleted

-----------------------------------------------------------------------------
(* What the queue transactions make of one row. *)

LEMMA RecoveredRow ==
  ASSUME TypeOK, NEW w \in Worker, NEW j \in Job
  PROVE  /\ Recovered(w)[j] \in JobRow
         /\ Recovered(w)[j].attempts = job[j].attempts
         /\ Recovered(w)[j].status # job[j].status => job[j].status = "RUNNING"
         /\ Recovered(w)[j].status = "SUCCEEDED" => job[j].status = "SUCCEEDED"
         /\ RowSound(job[j]) => RowSound(Recovered(w)[j])
  <1>1. job[j] \in JobRow /\ Ahead[w] \in Nat
    BY QueueAssumption DEF TypeOK
  <1>2. CASE Expired(j, w)
    <2> DEFINE r == [job[j] EXCEPT !.status = AfterFailure(j), !.due = Ahead[w],
                                   !.token = 0, !.lease = 0]
    <2>1. Recovered(w)[j] = r
      BY <1>2 DEF Recovered
    <2>2. job[j].status = "RUNNING"
      BY <1>2 DEF Expired
    <2>3. /\ AfterFailure(j) \in {"FAILED", "RETRY"}
          /\ AfterFailure(j) \in JobStatus
      BY DEF AfterFailure, JobStatus
    <2>4. /\ r \in JobRow
          /\ r.status = AfterFailure(j) /\ r.attempts = job[j].attempts /\ r.due = Ahead[w]
      BY <1>1, <2>3 DEF JobRow
    <2> HIDE DEF r
    <2>5. ASSUME RowSound(job[j]) PROVE RowSound(r)
      <3>1. job[j].attempts \in 1..MaxAttempts
        BY <1>1, <2>2, <2>5, QueueAssumption DEF RowSound, JobRow
      <3>2. BaseRetry * 2^(r.attempts - 1) \in Nat
        BY <3>1, <2>4, DelayAssumption
      <3>3. DelayBounded(r)
        BY <1>1, <2>4, <3>2, QueueAssumption DEF DelayBounded
      <3> QED
        BY <2>3, <2>4, <3>1, <3>3, QueueAssumption DEF RowSound, AfterFailure
    <2> QED
      BY <2>1, <2>2, <2>3, <2>4, <2>5
  <1>3. CASE ~Expired(j, w)
    BY <1>1, <1>3 DEF Recovered
  <1> QED
    BY <1>2, <1>3

LEMMA LeasedRow ==
  ASSUME NEW r \in JobRow, NEW w \in Worker
  PROVE  /\ Leased(r, w) \in JobRow
         /\ Leased(r, w).status = "RUNNING"
         /\ Leased(r, w).attempts = r.attempts + 1
         /\ Leased(r, w).token = r.attempts + 1
         /\ RowSound(r) /\ r.status \in {"PENDING", "RETRY"} => RowSound(Leased(r, w))
  <1>1. r.attempts \in Nat /\ r.attempts + 1 \in Nat /\ Ahead[w] + Lease \in Nat
    BY QueueAssumption DEF JobRow
  <1> DEFINE n == r.attempts + 1
             m == Ahead[w] + Lease
  <1>2. Leased(r, w) = [r EXCEPT !.status = "RUNNING", !.attempts = n, !.token = n, !.lease = m]
    BY DEF Leased
  <1>3. n \in Nat /\ m \in Nat
    BY <1>1
  <1> HIDE DEF n, m
  <1>4. /\ Leased(r, w) \in JobRow
        /\ Leased(r, w).status = "RUNNING"
        /\ Leased(r, w).attempts = n
        /\ Leased(r, w).token = n
    BY <1>2, <1>3 DEF JobRow, JobStatus
  <1> QED
    BY <1>1, <1>4, QueueAssumption DEF RowSound, n

LEMMA EnqueuedRow ==
  ASSUME NEW r \in JobRow, RowSound(r), r.status = "NONE"
  PROVE  [r EXCEPT !.status = "PENDING"] \in JobRow /\ RowSound([r EXCEPT !.status = "PENDING"])
  <1> DEFINE s == [r EXCEPT !.status = "PENDING"]
  <1>1. s \in JobRow /\ s.status = "PENDING" /\ s.attempts = r.attempts
    BY DEF JobRow, JobStatus
  <1> HIDE DEF s
  <1>2. s \in JobRow /\ RowSound(s)
    BY <1>1 DEF RowSound
  <1> QED
    BY <1>2 DEF s

LEMMA RetryDelayBounds ==
  ASSUME NEW attempt \in 1..MaxAttempts
  PROVE  /\ RetryDelay(attempt) \in Nat
         /\ RetryDelay(attempt) <= MaxRetry
         /\ RetryDelay(attempt) <= BaseRetry * 2^(attempt - 1)
  <1> DEFINE delay == BaseRetry * 2^(attempt - 1)
  <1>1. delay \in Nat
    BY DelayAssumption
  <1>2. RetryDelay(attempt) = IF delay <= MaxRetry THEN delay ELSE MaxRetry
    BY DEF RetryDelay
  <1> HIDE DEF delay
  <1>3. RetryDelay(attempt) \in Nat /\ RetryDelay(attempt) <= MaxRetry /\ RetryDelay(attempt) <= delay
    BY <1>1, <1>2, QueueAssumption
  <1> QED
    BY <1>3 DEF delay

\* What complete_cleanup and record_cleanup_failure write, if they write.
SettledAs(r, status, due) ==
  [r EXCEPT !.status = status, !.due = due, !.token = 0, !.lease = 0]

LEMMA SettledRow ==
  ASSUME TypeOK, NEW w \in Worker, HoldsLease(w), RowSound(job[mine[w]]),
         NEW status, NEW due,
         \/ status = "SUCCEEDED" /\ due = job[mine[w]].due
         \/ status = AfterFailure(mine[w]) /\ due = Ahead[w] + RetryDelay(token[w])
  PROVE  /\ SettledAs(job[mine[w]], status, due) \in JobRow
         /\ RowSound(SettledAs(job[mine[w]], status, due))
         /\ SettledAs(job[mine[w]], status, due).status = status
         /\ SettledAs(job[mine[w]], status, due).attempts = job[mine[w]].attempts
  <1> DEFINE r == job[mine[w]]
             s == SettledAs(r, status, due)
  <1>1. r \in JobRow /\ Ahead[w] \in Nat
    BY QueueAssumption DEF TypeOK
  <1>2. r.attempts \in 1..MaxAttempts /\ token[w] = r.attempts
    BY <1>1, QueueAssumption DEF HoldsLease, RowSound, JobRow
  <1>3. /\ RetryDelay(token[w]) \in Nat
        /\ RetryDelay(token[w]) <= MaxRetry
        /\ RetryDelay(token[w]) <= BaseRetry * 2^(r.attempts - 1)
    BY <1>2, RetryDelayBounds
  <1>4. status \in JobStatus /\ due \in Nat
    BY <1>1, <1>3 DEF AfterFailure, JobStatus, JobRow
  <1>5. s \in JobRow /\ s.status = status /\ s.attempts = r.attempts /\ s.due = due
    <2> HIDE DEF r
    <2> QED
      BY <1>1, <1>4 DEF JobRow, SettledAs
  <1> HIDE DEF s
  <1>6. RowSound(s)
    <2>1. CASE status = "SUCCEEDED"
      BY <1>1, <1>2, <1>5, <2>1, QueueAssumption DEF RowSound
    <2>2. CASE status # "SUCCEEDED"
      <3>1. status = AfterFailure(mine[w]) /\ due = Ahead[w] + RetryDelay(token[w])
        BY <2>2
      <3>2. BaseRetry * 2^(s.attempts - 1) \in Nat /\ BaseRetry * 2^(s.attempts - 1) = BaseRetry * 2^(r.attempts - 1)
        BY <1>2, <1>5, DelayAssumption
      <3>3. DelayBounded(s)
        <4>1. s.due <= Ahead[w] + MaxRetry
          BY <1>1, <1>3, <1>5, <3>1, QueueAssumption
        <4> DEFINE delay == BaseRetry * 2^(s.attempts - 1)
        <4>2. delay \in Nat /\ RetryDelay(token[w]) <= delay
          BY <1>3, <3>2
        <4> HIDE DEF delay
        <4>3. s.due <= Ahead[w] + delay
          BY <1>1, <1>3, <1>5, <3>1, <4>2
        <4> QED
          BY <4>1, <4>3 DEF DelayBounded, delay
      <3>4. s.status = IF r.attempts >= MaxAttempts THEN "FAILED" ELSE "RETRY"
        BY <1>5, <3>1 DEF AfterFailure
      <3> HIDE DEF r
      <3> QED
        BY <1>2, <1>5, <3>3, <3>4, QueueAssumption DEF RowSound
    <2> QED
      BY <2>1, <2>2
  <1> QED
    BY <1>5, <1>6 DEF s

LEMMA AgedRow ==
  ASSUME NEW r \in JobRow, RowSound(r)
  PROVE  LET s == [r EXCEPT !.due = Later(@), !.lease = Later(@)]
         IN s \in JobRow /\ RowSound(s) /\ s.status = r.status /\ s.attempts = r.attempts
  <1> DEFINE s == [r EXCEPT !.due = Later(r.due), !.lease = Later(r.lease)]
  <1>1. /\ Later(r.due) \in Nat /\ Later(r.due) <= r.due
        /\ Later(r.lease) \in Nat
        /\ r.due \in Nat
    BY DEF Later, JobRow
  <1>2. /\ s \in JobRow /\ s.status = r.status /\ s.attempts = r.attempts
        /\ s.token = r.token /\ s.due = Later(r.due)
    BY <1>1 DEF JobRow
  <1> HIDE DEF s
  <1>3. ASSUME DelayBounded(r), r.attempts \in 1..MaxAttempts PROVE DelayBounded(s)
    <2>1. PICK w \in Worker : /\ r.due <= Ahead[w] + MaxRetry
                              /\ r.due <= Ahead[w] + BaseRetry * 2^(r.attempts - 1)
      BY <1>3 DEF DelayBounded
    <2> DEFINE delay == BaseRetry * 2^(r.attempts - 1)
    <2>2. delay \in Nat /\ r.due <= Ahead[w] + delay /\ delay = BaseRetry * 2^(s.attempts - 1)
      BY <1>2, <1>3, <2>1, DelayAssumption
    <2> HIDE DEF delay
    <2>3. s.due <= Ahead[w] + MaxRetry /\ s.due <= Ahead[w] + delay
      BY <1>1, <1>2, <2>1, <2>2, QueueAssumption
    <2> QED
      BY <2>2, <2>3 DEF DelayBounded
  <1>4. r.status = "RETRY" => r.attempts \in 1..MaxAttempts /\ DelayBounded(s)
    BY <1>3, QueueAssumption DEF RowSound, JobRow
  <1>5. RowSound(s)
    BY <1>2, <1>4 DEF RowSound
  <1> QED
    BY <1>2, <1>5 DEF s

-----------------------------------------------------------------------------
(* What one step does to the rows. *)

\* A row stays a sound row, its attempts only grow, it stays as it ended, and only
\* who completes it makes it succeed.
Steps(j) ==
  /\ job'[j] \in JobRow
  /\ RowSound(job[j]) => RowSound(job'[j])
  /\ job'[j].attempts >= job[j].attempts
  /\ job[j].status \in Terminal => job'[j].status = job[j].status
  /\ job'[j].status = "SUCCEEDED" =>
       \/ job[j].status = "SUCCEEDED"
       \/ \E w \in Worker : pc[w] = "complete" /\ mine[w] = j

LEMMA NoStep ==
  ASSUME TypeOK, NEW j \in Job, job'[j] = job[j]
  PROVE  Steps(j)
  <1>1. job[j] \in JobRow
    BY DEF TypeOK
  <1>2. job[j].attempts \in Nat
    BY <1>1 DEF JobRow
  <1> QED
    BY <1>1, <1>2 DEF Steps, RowSound, DelayBounded

\* Only who holds the lease of a running row settles it.
LEMMA SettleSteps ==
  ASSUME TypeOK, RowsSound, NEW w \in Worker, NEW status, NEW due, Settle(w, status, due),
         \/ status = "SUCCEEDED" /\ due = job[mine[w]].due /\ pc[w] = "complete"
         \/ status = AfterFailure(mine[w]) /\ due = Ahead[w] + RetryDelay(token[w])
  PROVE  job' \in [Job -> JobRow] /\ \A j \in Job : Steps(j)
  <1>1. CASE ~HoldsLease(w)
    <2>1. job' = job
      BY <1>1 DEF Settle
    <2> QED
      BY <2>1, NoStep DEF TypeOK
  <1>2. CASE HoldsLease(w)
    <2> DEFINE k == mine[w]
               s == SettledAs(job[k], status, due)
    <2>1. job' = [job EXCEPT ![k] = s]
      BY <1>2 DEF Settle, SettledAs
    <2>2. k \in Job /\ RowSound(job[k])
      BY DEF TypeOK, RowsSound
    <2>3. s \in JobRow /\ RowSound(s) /\ s.status = status /\ s.attempts = job[k].attempts
      <3>1. CASE status = "SUCCEEDED" /\ due = job[mine[w]].due
        BY <1>2, <2>2, <3>1, SettledRow
      <3>2. CASE status = AfterFailure(mine[w]) /\ due = Ahead[w] + RetryDelay(token[w])
        BY <1>2, <2>2, <3>2, SettledRow
      <3> QED
        BY <3>1, <3>2
    <2>4. job[k].status = "RUNNING" /\ job[k].attempts \in Nat
      BY <1>2, <2>2 DEF HoldsLease, TypeOK, JobRow
    <2>5. status = "SUCCEEDED" => pc[w] = "complete"
      BY DEF AfterFailure
    <2> HIDE DEF s
    <2>6. job' \in [Job -> JobRow] /\ job'[k] = s
      BY <2>1, <2>2, <2>3 DEF TypeOK
    <2>7. Steps(k)
      BY <2>2, <2>3, <2>4, <2>5, <2>6 DEF Steps, Terminal
    <2>8. \A j \in Job \ {k} : job'[j] = job[j]
      BY <2>1 DEF TypeOK
    <2> QED
      BY <2>6, <2>7, <2>8, NoStep
  <1> QED
    BY <1>1, <1>2

\* The two ways a claim ends: the worker leases a row, or only recovers some.
LEMMA ClaimSteps ==
  ASSUME TypeOK, NEW w \in Worker, Claim(w)
  PROVE  /\ job' \in [Job -> JobRow]
         /\ \A j \in Job : Steps(j)
         /\ \/ /\ mine' \in [Worker -> Job] /\ \A v \in Worker : v # w => mine'[v] = mine[v]
               /\ token' \in [Worker -> Nat] /\ \A v \in Worker : v # w => token'[v] = token[v]
               /\ pc' = [pc EXCEPT ![w] = "check"]
               /\ token'[w] = job'[mine'[w]].attempts
               /\ token'[w] = job[mine'[w]].attempts + 1
            \/ UNCHANGED <<pc, mine, token>>
  <1> DEFINE queue == Recovered(w)
  <1>1. queue \in [Job -> JobRow]
    BY RecoveredRow DEF Recovered
  <1>2. ASSUME NEW j \in Due(queue, w),
               job' = [queue EXCEPT ![j] = Leased(queue[j], w)],
               mine' = [mine EXCEPT ![w] = j],
               token' = [token EXCEPT ![w] = job'[j].token],
               pc' = [pc EXCEPT ![w] = "check"]
        PROVE  /\ job' \in [Job -> JobRow]
               /\ \A k \in Job : Steps(k)
               /\ mine' \in [Worker -> Job] /\ \A v \in Worker : v # w => mine'[v] = mine[v]
               /\ token' \in [Worker -> Nat] /\ \A v \in Worker : v # w => token'[v] = token[v]
               /\ token'[w] = job'[mine'[w]].attempts
               /\ token'[w] = job[mine'[w]].attempts + 1
    <2>1. j \in Job /\ queue[j] \in JobRow /\ queue[j].status \in {"PENDING", "RETRY"}
      BY <1>1 DEF Due
    <2>2. queue[j].attempts = job[j].attempts /\ job[j].attempts \in Nat
      BY <2>1, RecoveredRow DEF TypeOK, JobRow
    <2>3. /\ Leased(queue[j], w) \in JobRow
          /\ Leased(queue[j], w).status = "RUNNING"
          /\ Leased(queue[j], w).attempts = job[j].attempts + 1
          /\ Leased(queue[j], w).token = job[j].attempts + 1
      BY <2>1, <2>2, LeasedRow
    <2>4. RowSound(job[j]) => RowSound(Leased(queue[j], w))
      BY <2>1, RecoveredRow, LeasedRow
    <2>5. job[j].status \notin Terminal
      BY <2>1, RecoveredRow DEF Terminal
    <2> HIDE DEF queue
    <2>6. job' \in [Job -> JobRow] /\ job'[j] = Leased(queue[j], w)
      BY <1>1, <1>2, <2>1, <2>3
    <2>7. Steps(j)
      BY <2>2, <2>3, <2>4, <2>5, <2>6 DEF Steps
    <2>8. ASSUME NEW k \in Job, k # j PROVE Steps(k)
      <3>1. job'[k] = queue[k]
        BY <1>1, <1>2, <2>8
      <3>2. job[k].attempts \in Nat
        BY DEF TypeOK, JobRow
      <3> QED
        BY <3>1, <3>2, RecoveredRow DEF Steps, Terminal, queue
    <2>9. /\ mine' \in [Worker -> Job] /\ mine'[w] = j
          /\ \A v \in Worker : v # w => mine'[v] = mine[v]
      BY <1>2, <2>1 DEF TypeOK
    <2>10. /\ token' \in [Worker -> Nat] /\ token'[w] = job'[j].token
           /\ \A v \in Worker : v # w => token'[v] = token[v]
      BY <1>2, <2>2, <2>3, <2>6 DEF TypeOK
    <2> QED
      BY <2>3, <2>6, <2>7, <2>8, <2>9, <2>10
  <1>3. ASSUME job' = queue PROVE job' \in [Job -> JobRow] /\ \A k \in Job : Steps(k)
    <2>1. ASSUME NEW k \in Job PROVE Steps(k)
      <3>1. job[k].attempts \in Nat
        BY DEF TypeOK, JobRow
      <3> QED
        BY <1>3, <3>1, RecoveredRow DEF Steps, Terminal
    <2> QED
      BY <1>1, <1>3, <2>1
  <1>4. \/ \E j \in Due(queue, w) :
             /\ job' = [queue EXCEPT ![j] = Leased(queue[j], w)]
             /\ mine' = [mine EXCEPT ![w] = j]
             /\ token' = [token EXCEPT ![w] = job'[j].token]
             /\ pc' = [pc EXCEPT ![w] = "check"]
        \/ job' = queue /\ UNCHANGED <<pc, mine, token>>
    BY DEF Claim
  <1> HIDE DEF queue
  <1> QED
    BY <1>2, <1>3, <1>4

\* Every step of the queue.
LEMMA QueueSteps ==
  ASSUME TypeOK, RowsSound, TokensBehind, [Next]_vars
  PROVE  job' \in [Job -> JobRow] /\ \A j \in Job : Steps(j)
  <1>1. ASSUME UNCHANGED job PROVE job' \in [Job -> JobRow] /\ \A j \in Job : Steps(j)
    BY <1>1, NoStep DEF TypeOK
  <1>2. ASSUME NEW k \in Job, Enqueue(k) PROVE job' \in [Job -> JobRow] /\ \A j \in Job : Steps(j)
    <2> DEFINE s == [job[k] EXCEPT !.status = "PENDING"]
    <2>1. job' = [job EXCEPT ![k] = s] /\ job[k].status = "NONE"
      BY <1>2 DEF Enqueue
    <2>2. job[k] \in JobRow /\ RowSound(job[k]) /\ job[k].attempts \in Nat
      BY DEF TypeOK, RowsSound, JobRow
    <2>3. s \in JobRow /\ RowSound(s)
      BY <2>1, <2>2, EnqueuedRow
    <2>4. s.status = "PENDING" /\ s.attempts = job[k].attempts
      BY <2>2 DEF JobRow
    <2> HIDE DEF s
    <2>5. job' \in [Job -> JobRow] /\ job'[k] = s
      BY <2>1, <2>3 DEF TypeOK
    <2>6. Steps(k)
      BY <2>1, <2>2, <2>3, <2>4, <2>5 DEF Steps, Terminal
    <2>7. \A j \in Job \ {k} : job'[j] = job[j]
      BY <2>1 DEF TypeOK
    <2> QED
      BY <2>5, <2>6, <2>7, NoStep
  <1>3. ASSUME NEW w \in Worker, Complete(w) \/ RecordFailure(w)
        PROVE  job' \in [Job -> JobRow] /\ \A j \in Job : Steps(j)
    <2>1. CASE Complete(w)
      BY <2>1, SettleSteps DEF Complete
    <2>2. CASE RecordFailure(w)
      BY <2>2, SettleSteps DEF RecordFailure
    <2> QED
      BY <1>3, <2>1, <2>2
  <1>4. ASSUME Tick PROVE job' \in [Job -> JobRow] /\ \A j \in Job : Steps(j)
    <2>1. ASSUME NEW j \in Job PROVE job'[j] \in JobRow /\ Steps(j)
      <3> DEFINE s == [job[j] EXCEPT !.due = Later(@), !.lease = Later(@)]
      <3>1. job'[j] = s
        BY <1>4 DEF Tick
      <3>2. job[j] \in JobRow /\ RowSound(job[j]) /\ job[j].attempts \in Nat
        BY DEF TypeOK, RowsSound, JobRow
      <3>3. s \in JobRow /\ RowSound(s) /\ s.status = job[j].status /\ s.attempts = job[j].attempts
        BY <3>2, AgedRow
      <3> HIDE DEF s
      <3> QED
        BY <3>1, <3>2, <3>3 DEF Steps
    <2> QED
      BY <1>4, <2>1 DEF Tick
  <1>5. ASSUME NEW w \in Worker, Claim(w) PROVE job' \in [Job -> JobRow] /\ \A j \in Job : Steps(j)
    BY <1>5, ClaimSteps
  <1> QED
    BY <1>1, <1>2, <1>3, <1>4, <1>5
       DEF Next, WorkerNext, vars, Check, Drop, DeleteFails, Crash, Finished

-----------------------------------------------------------------------------
(* What one step does to the workers. *)

\* An object that has gone does not come back, and who is about to complete a job has
\* found it gone.
LEMMA DeletionSteps ==
  ASSUME TypeOK, CompletesDeleted, [Next]_vars
  PROVE  /\ present' \in [Job -> BOOLEAN] /\ pc' \in [Worker -> WorkerStep]
         /\ \A j \in Job : ~present[j] => ~present'[j]
         /\ CompletesDeleted'
  <1> USE DEF TypeOK, CompletesDeleted, WorkerStep
  <1>1. ASSUME NEW w \in Worker, Claim(w) PROVE
           /\ present' \in [Job -> BOOLEAN] /\ pc' \in [Worker -> WorkerStep]
           /\ \A j \in Job : ~present[j] => ~present'[j]
           /\ CompletesDeleted'
    <2>1. present' = present
      BY <1>1 DEF Claim
    <2>2. \/ /\ pc' = [pc EXCEPT ![w] = "check"]
             /\ \A v \in Worker : v # w => mine'[v] = mine[v]
          \/ UNCHANGED <<pc, mine>>
      BY <1>1, ClaimSteps
    <2> QED
      BY <2>1, <2>2
  <1>2. ASSUME NEW w \in Worker, Check(w) \/ Drop(w) \/ DeleteFails(w) \/ Crash(w) PROVE
           /\ present' \in [Job -> BOOLEAN] /\ pc' \in [Worker -> WorkerStep]
           /\ \A j \in Job : ~present[j] => ~present'[j]
           /\ CompletesDeleted'
    <2>1. CASE Check(w)
      BY <2>1 DEF Check
    <2>2. CASE Drop(w)
      BY <2>2 DEF Drop
    <2>3. CASE DeleteFails(w)
      BY <2>3 DEF DeleteFails
    <2>4. CASE Crash(w)
      BY <2>4 DEF Crash
    <2> QED
      BY <1>2, <2>1, <2>2, <2>3, <2>4
  <1>3. ASSUME NEW w \in Worker, Complete(w) \/ RecordFailure(w) PROVE
           /\ present' \in [Job -> BOOLEAN] /\ pc' \in [Worker -> WorkerStep]
           /\ \A j \in Job : ~present[j] => ~present'[j]
           /\ CompletesDeleted'
    BY <1>3 DEF Complete, RecordFailure, Settle
  <1>4. ASSUME UNCHANGED <<present, pc, mine>> PROVE
           /\ present' \in [Job -> BOOLEAN] /\ pc' \in [Worker -> WorkerStep]
           /\ \A j \in Job : ~present[j] => ~present'[j]
           /\ CompletesDeleted'
    BY <1>4
  <1> QED
    BY <1>1, <1>2, <1>3, <1>4 DEF Next, WorkerNext, vars, Enqueue, Tick, Finished

\* A worker is given the next token of the job it claims; otherwise it keeps what it has,
\* and stays idle if it was.
LEMMA TokenSteps ==
  ASSUME TypeOK, RowsSound, TokensBehind, TokensDiffer, [Next]_vars
  PROVE  /\ mine' \in [Worker -> Job] /\ token' \in [Worker -> Nat]
         /\ TokensBehind' /\ TokensDiffer'
  <1>1. \A j \in Job : job[j].attempts \in Nat /\ job'[j].attempts \in Nat
                       /\ job[j].attempts <= job'[j].attempts
    BY QueueSteps DEF TypeOK, JobRow, Steps
  <1>2. ASSUME UNCHANGED <<mine, token>>,
               \A w \in Worker : pc[w] = "idle" => pc'[w] = "idle"
        PROVE  /\ mine' \in [Worker -> Job] /\ token' \in [Worker -> Nat]
               /\ TokensBehind' /\ TokensDiffer'
    BY <1>1, <1>2 DEF TypeOK, TokensBehind, TokensDiffer
  <1>3. ASSUME NEW w \in Worker, Claim(w)
        PROVE  /\ mine' \in [Worker -> Job] /\ token' \in [Worker -> Nat]
               /\ TokensBehind' /\ TokensDiffer'
    <2>1. CASE UNCHANGED <<pc, mine, token>>
      BY <1>2, <2>1
    <2>2. CASE /\ mine' \in [Worker -> Job] /\ \A v \in Worker : v # w => mine'[v] = mine[v]
               /\ token' \in [Worker -> Nat] /\ \A v \in Worker : v # w => token'[v] = token[v]
               /\ pc' = [pc EXCEPT ![w] = "check"]
               /\ token'[w] = job'[mine'[w]].attempts
               /\ token'[w] = job[mine'[w]].attempts + 1
      <3>1. \A v \in Worker : v # w => token'[v] <= job[mine'[v]].attempts
        BY <2>2 DEF TokensBehind
      <3>2. TokensBehind'
        <4>1. ASSUME NEW v \in Worker PROVE token'[v] <= job'[mine'[v]].attempts
          <5>1. mine'[v] \in Job /\ token'[v] \in Nat
            BY <2>2
          <5>2. CASE v = w
            <6>1. token'[v] = job'[mine'[v]].attempts
              BY <2>2, <5>2
            <6> QED
              BY <5>1, <6>1
          <5>3. CASE v # w
            BY <1>1, <3>1, <5>1, <5>3
          <5> QED
            BY <5>2, <5>3
        <4> QED
          BY <4>1 DEF TokensBehind
      <3>3. \A v \in Worker : v # w /\ mine'[v] = mine'[w] => token'[v] # token'[w]
        BY <1>1, <2>2, <3>1
      <3>4. \A v \in Worker : v # w => pc'[v] = pc[v]
        BY <2>2 DEF TypeOK
      <3> QED
        BY <2>2, <3>2, <3>3, <3>4 DEF TokensDiffer
    <2> QED
      BY <1>3, <2>1, <2>2, ClaimSteps
  <1>4. ASSUME NEW w \in Worker, Check(w) \/ Drop(w) \/ DeleteFails(w) \/ Complete(w)
                                 \/ RecordFailure(w) \/ Crash(w)
        PROVE  /\ UNCHANGED <<mine, token>>
               /\ \A v \in Worker : pc[v] = "idle" => pc'[v] = "idle"
    BY <1>4 DEF TypeOK, Check, Drop, DeleteFails, Complete, RecordFailure, Settle, Crash
  <1>5. ASSUME UNCHANGED <<pc, mine, token>>
        PROVE  /\ UNCHANGED <<mine, token>>
               /\ \A v \in Worker : pc[v] = "idle" => pc'[v] = "idle"
    BY <1>5
  <1> QED
    BY <1>2, <1>3, <1>4, <1>5 DEF Next, WorkerNext, vars, Enqueue, Tick, Finished

-----------------------------------------------------------------------------
(* The theorems. *)

LEMMA InitInv == Init => QueueInv
  <1> SUFFICES ASSUME Init PROVE QueueInv
    OBVIOUS
  <1>1. NoJob \in JobRow /\ NoJob.status = "NONE" /\ NoJob.attempts = 0
    BY DEF NoJob, JobRow, JobStatus
  <1>2. \A j \in Job : job[j] = NoJob
    BY DEF Init
  <1>3. TypeOK
    BY <1>1 DEF Init, TypeOK, WorkerStep
  <1>4. RowsSound
    <2>1. RowSound(NoJob)
      <3> HIDE DEF NoJob
      <3> QED
        BY <1>1, QueueAssumption DEF RowSound
    <2> QED
      BY <1>2, <2>1 DEF RowsSound
  <1>5. TokensBehind /\ TokensDiffer /\ CompletesDeleted
    BY <1>1, <1>2 DEF Init, TokensBehind, TokensDiffer, CompletesDeleted
  <1>6. SucceededMeansDeleted
    BY <1>1, <1>2 DEF SucceededMeansDeleted
  <1> QED
    BY <1>3, <1>4, <1>5, <1>6 DEF QueueInv

LEMMA StepInv == QueueInv /\ [Next]_vars => QueueInv'
  <1> SUFFICES ASSUME QueueInv, [Next]_vars PROVE QueueInv'
    OBVIOUS
  <1> USE DEF QueueInv
  <1>1. TypeOK'
    BY QueueSteps, DeletionSteps, TokenSteps DEF TypeOK
  <1>2. RowsSound'
    BY QueueSteps DEF RowsSound, Steps
  <1>3. TokensBehind' /\ TokensDiffer'
    BY TokenSteps
  <1>4. CompletesDeleted'
    BY DeletionSteps
  <1>5. SucceededMeansDeleted'
    BY QueueSteps, DeletionSteps DEF SucceededMeansDeleted, CompletesDeleted, Steps
  <1> QED
    BY <1>1, <1>2, <1>3, <1>4, <1>5

\* The inductive invariant holds of every behaviour of the queue and its workers.
THEOREM QueueInvariant == Spec => []QueueInv
  BY InitInv, StepInv, PTL DEF Spec

\* The rows and what the workers hold have their types.
THEOREM QueueTypeCorrect == Spec => []TypeOK
  BY QueueInvariant, PTL DEF QueueInv

\* The table never refuses a claim, nobody gives up early, and no retry waits longer
\* than its bound, whatever the clocks say and however leases end (claim_cleanup,
\* record_cleanup_failure).
THEOREM AttemptsBounded == Spec => []AttemptsWithinLimit
  <1>1. QueueInv => AttemptsWithinLimit
    BY DEF QueueInv, RowsSound, RowSound, DelayBounded, AttemptsWithinLimit
  <1> QED
    BY <1>1, QueueInvariant, PTL

\* A finished deletion is a deletion, whoever else still works on it (complete_cleanup).
THEOREM SucceededAreDeleted == Spec => []SucceededMeansDeleted
  BY QueueInvariant, PTL DEF QueueInv

\* At most one of the workers of a job can settle it, though leases are recovered by
\* clocks that disagree and an expired one stays good until it is.
THEOREM LeaseExclusive == Spec => []OneLeaseHolder
  <1>1. QueueInv => OneLeaseHolder
    BY DEF QueueInv, TokensDiffer, OneLeaseHolder, HoldsLease
  <1> QED
    BY <1>1, QueueInvariant, PTL

\* A job stays as it ended (the guards of complete_cleanup and record_cleanup_failure,
\* and what claim_cleanup selects).
THEOREM TerminalStays == Spec => TerminalIsFinal
  <1>1. QueueInv /\ [Next]_vars =>
          [\A j \in Job : job[j].status \in Terminal => job'[j].status = job[j].status]_vars
    BY QueueSteps DEF QueueInv, Steps
  <1> QED
    BY <1>1, QueueInvariant, PTL DEF Spec, TerminalIsFinal

=============================================================================
