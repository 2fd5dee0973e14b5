-------------------------- MODULE IsolatedRun_proofs --------------------------
(***************************************************************************)
(* What a PASS and a clean audit mean in IsolatedRun, for any number of    *)
(* run ids, papers, attempts and faults. RunInv is the inductive           *)
(* invariant: the gates count results against jobs nobody else touches,    *)
(* the canary, whose worker may take the jobs of earlier runs, relies on   *)
(* the order of the queue.                                                 *)
(***************************************************************************)
EXTENDS IsolatedRun, FiniteSetTheorems, TLAPS

-----------------------------------------------------------------------------
(* Versions, jobs and sequences. *)

LEMMA Versions ==
  /\ \A r \in RunId : VersionsOf(r) = {r} \X (1..Papers[r]) /\ VersionsOf(r) \subseteq Version
  /\ \A v \in Version : v = <<v[1], v[2]>> /\ v[1] \in RunId /\ v \in VersionsOf(v[1])
  /\ \A r : VersionsOf(r) \subseteq Version /\ \A v \in VersionsOf(r) : v[1] = r
  BY DEF Version, VersionsOf

LEMMA Jobs ==
  /\ \A j \in Job : j = <<j[1], j[2]>> /\ j[1] \in Version /\ j[2] \in Backend /\ j \in Whole(j[1])
  /\ \A v \in Version : Whole(v) \subseteq Job /\ \A j \in Whole(v) : j[1] = v
  /\ \A r \in RunId : JobsOf(r) \subseteq Job /\ \A j \in Job : j \in JobsOf(r) <=> j[1] \in VersionsOf(r)
  /\ \A v \in Version, b \in Backend : <<v, b>> \in Job
  BY Versions DEF Job, Whole, JobsOf

LEMMA Appended ==
  ASSUME NEW S, NEW s \in Seq(S), NEW x \in S
  PROVE  /\ Append(s, x) \in Seq(S) /\ Len(Append(s, x)) = Len(s) + 1
         /\ \A i \in DOMAIN s : Append(s, x)[i] = s[i]
         /\ Append(s, x)[Len(s) + 1] = x
         /\ ToSet(Append(s, x)) = ToSet(s) \cup {x}
<1>1. /\ Append(s, x) \in Seq(S) /\ Len(Append(s, x)) = Len(s) + 1 /\ Len(s) \in Nat
      /\ DOMAIN s = 1..Len(s) /\ DOMAIN Append(s, x) = 1..(Len(s) + 1)
      /\ \A i \in DOMAIN s : Append(s, x)[i] = s[i]
      /\ Append(s, x)[Len(s) + 1] = x
  OBVIOUS
<1>2. ToSet(Append(s, x)) = ToSet(s) \cup {x}
  <2>1. \A i \in 1..(Len(s) + 1) : Append(s, x)[i] \in ToSet(s) \cup {x}
    BY <1>1 DEF ToSet
  <2>2. \A i \in 1..Len(s) : s[i] \in ToSet(Append(s, x))
    BY <1>1 DEF ToSet
  <2>3. x \in ToSet(Append(s, x))
    BY <1>1 DEF ToSet
  <2> QED
    BY <1>1, <2>1, <2>2, <2>3 DEF ToSet
<1> QED
  BY <1>1, <1>2

LEMMA FirstAndRest ==
  ASSUME NEW S, NEW s \in Seq(S), s # <<>>
  PROVE  /\ Head(s) \in S /\ Tail(s) \in Seq(S)
         /\ Head(s) = s[1] /\ 1 \in DOMAIN s
         /\ \A i \in DOMAIN Tail(s) : i + 1 \in DOMAIN s /\ Tail(s)[i] = s[i + 1]
         /\ \A i \in DOMAIN s : i = 1 \/ (i - 1 \in DOMAIN Tail(s) /\ Tail(s)[i - 1] = s[i])
         /\ ToSet(s) = {Head(s)} \cup ToSet(Tail(s))
<1>1. /\ Len(s) \in Nat \ {0} /\ Head(s) = s[1] /\ Tail(s) \in Seq(S)
      /\ DOMAIN s = 1..Len(s) /\ DOMAIN Tail(s) = 1..(Len(s) - 1)
      /\ \A i \in 1..(Len(s) - 1) : Tail(s)[i] = s[i + 1]
  OBVIOUS
<1>2. \A i \in DOMAIN Tail(s) : i + 1 \in DOMAIN s /\ Tail(s)[i] = s[i + 1]
  BY <1>1
<1>3. \A i \in DOMAIN s : i = 1 \/ (i - 1 \in DOMAIN Tail(s) /\ Tail(s)[i - 1] = s[i])
  BY <1>1
<1>4. ToSet(s) = {Head(s)} \cup ToSet(Tail(s))
  <2>1. \A x \in ToSet(s) : x \in {Head(s)} \cup ToSet(Tail(s))
    BY <1>1, <1>3 DEF ToSet
  <2>2. \A x \in ToSet(Tail(s)) : x \in ToSet(s)
    BY <1>2 DEF ToSet
  <2>3. Head(s) \in ToSet(s)
    BY <1>1 DEF ToSet
  <2> QED
    BY <2>1, <2>2, <2>3
<1>5. Head(s) \in S /\ 1 \in DOMAIN s
  BY <1>1
<1> QED
  BY <1>1, <1>2, <1>3, <1>4, <1>5

LEMMA Joined ==
  ASSUME NEW S, NEW s \in Seq(S), NEW t \in Seq(S)
  PROVE  /\ s \o t \in Seq(S)
         /\ \A i \in DOMAIN s : i \in DOMAIN (s \o t) /\ (s \o t)[i] = s[i]
         /\ \A i \in DOMAIN (s \o t) :
              i \in DOMAIN s \/ (i - Len(s) \in DOMAIN t /\ (s \o t)[i] = t[i - Len(s)])
         /\ ToSet(s \o t) = ToSet(s) \cup ToSet(t)
<1>1. /\ s \o t \in Seq(S) /\ Len(s) \in Nat /\ Len(t) \in Nat
      /\ DOMAIN s = 1..Len(s) /\ DOMAIN t = 1..Len(t) /\ DOMAIN (s \o t) = 1..(Len(s) + Len(t))
      /\ \A i \in 1..(Len(s) + Len(t)) :
           (s \o t)[i] = IF i <= Len(s) THEN s[i] ELSE t[i - Len(s)]
  OBVIOUS
<1>2. \A i \in DOMAIN s : i \in DOMAIN (s \o t) /\ (s \o t)[i] = s[i]
  BY <1>1
<1>3. \A i \in DOMAIN (s \o t) :
        i \in DOMAIN s \/ (i - Len(s) \in DOMAIN t /\ (s \o t)[i] = t[i - Len(s)])
  BY <1>1
<1>4. \A i \in DOMAIN t : i + Len(s) \in DOMAIN (s \o t) /\ (s \o t)[i + Len(s)] = t[i]
  BY <1>1
<1>5. ToSet(s \o t) = ToSet(s) \cup ToSet(t)
  <2>1. \A x \in ToSet(s \o t) : x \in ToSet(s) \cup ToSet(t)
    BY <1>2, <1>3 DEF ToSet
  <2>2. \A x \in ToSet(s) \cup ToSet(t) : x \in ToSet(s \o t)
    BY <1>2, <1>4 DEF ToSet
  <2> QED
    BY <2>1, <2>2
<1> QED
  BY <1>1, <1>2, <1>3, <1>5

LEMMA SetInSequence ==
  ASSUME NEW S, IsFiniteSet(S)
  PROVE  /\ SetToSeq(S) \in Seq(S) /\ ToSet(SetToSeq(S)) = S
         /\ \A i, k \in DOMAIN SetToSeq(S) : SetToSeq(S)[i] = SetToSeq(S)[k] => i = k
<1>1. Cardinality(S) \in Nat /\ ExistsBijection(1..Cardinality(S), S)
  BY FS_CardinalityType
<1> DEFINE n == Cardinality(S)
<1>2. PICK g \in [1..n -> S] : /\ \A i, k \in 1..n : g[i] = g[k] => i = k
                               /\ \A x \in S : \E i \in 1..n : g[i] = x
  BY <1>1 DEF ExistsBijection, Bijection, Injection, Surjection, IsInjective
<1>3. \E f \in [1..n -> S] : IsInjective(f)
  BY <1>2 DEF IsInjective
<1>4. SetToSeq(S) \in [1..n -> S] /\ IsInjective(SetToSeq(S))
  BY <1>3 DEF SetToSeq
<1>5. SetToSeq(S) \in Seq(S)
  BY <1>1, <1>4
<1>6. SetToSeq(S) \in Injection(1..n, S)
  BY <1>4 DEF Injection, IsInjective
<1>7. IsFiniteSet(1..n) /\ Cardinality(1..n) = n
  BY <1>1, FS_Interval
<1>8. SetToSeq(S) \in Surjection(1..n, S)
  BY <1>6, <1>7, FS_Injection
<1>9. ToSet(SetToSeq(S)) = S
  BY <1>4, <1>8 DEF ToSet, Surjection
<1> QED
  BY <1>4, <1>5, <1>9 DEF IsInjective

\* What inactivate_and_schedule_cleanup has yet to enqueue: the snapshot rows come last.
LEMMA Enqueues ==
  ASSUME NEW v \in Version, NEW n \in 1..3
  PROVE  LET rest == JobsFrom(v, n) IN
         /\ rest \in Seq(Job) /\ rest # <<>> /\ ToSet(rest) \subseteq Whole(v)
         /\ Head(rest) \in Whole(v) /\ Head(rest) \notin ToSet(Tail(rest))
         /\ <<v, "snapshot">> \in ToSet(rest)
         /\ Head(rest) = <<v, "snapshot">> => Tail(rest) = <<>>
         /\ Tail(rest) = <<>> \/ \E k \in 1..3 : Tail(rest) = JobsFrom(v, k)
<1> DEFINE e == <<v, "elasticsearch">>
           m == <<v, "milvus">>
           s == <<v, "snapshot">>
<1>1. JobsFrom(v, 1) = <<e, m, s>>
  BY DEF JobsFrom, BackendOrder
<1>2. JobsFrom(v, 2) = <<m, s>>
  BY DEF JobsFrom, BackendOrder
<1>3. JobsFrom(v, 3) = <<s>>
  BY DEF JobsFrom, BackendOrder
<1>4. e \in Job /\ m \in Job /\ s \in Job /\ e \in Whole(v) /\ m \in Whole(v) /\ s \in Whole(v)
  BY Jobs DEF Whole, Backend
<1>5. e # m /\ m # s /\ e # s /\ s = <<v, "snapshot">>
  OBVIOUS
<1> HIDE DEF e, m, s
<1>6. <<e, m, s>> # <<>> /\ <<m, s>> # <<>> /\ <<s>> # <<>>
  <2>1. Len(<<e, m, s>>) = 3 /\ Len(<<m, s>>) = 2 /\ Len(<<s>>) = 1 /\ Len(<<>>) = 0
    OBVIOUS
  <2> QED
    BY <2>1
<1>7. /\ <<e, m, s>> \in Seq(Job) /\ <<m, s>> \in Seq(Job) /\ <<s>> \in Seq(Job)
      /\ Head(<<e, m, s>>) = e /\ Tail(<<e, m, s>>) = <<m, s>>
      /\ Head(<<m, s>>) = m /\ Tail(<<m, s>>) = <<s>> /\ Head(<<s>>) = s /\ Tail(<<s>>) = <<>>
  BY <1>4
<1>8. /\ ToSet(<<e, m, s>>) = {e, m, s} /\ ToSet(<<m, s>>) = {m, s} /\ ToSet(<<s>>) = {s}
      /\ ToSet(<<>>) = {}
  BY DEF ToSet
<1>9. CASE n = 1
  <2>1. Tail(JobsFrom(v, n)) = JobsFrom(v, 2) /\ Head(JobsFrom(v, n)) = e
    BY <1>1, <1>2, <1>7, <1>9
  <2>2. \E k \in 1..3 : Tail(JobsFrom(v, n)) = JobsFrom(v, k)
    BY <2>1
  <2>3. ToSet(Tail(JobsFrom(v, n))) = {m, s} /\ ToSet(JobsFrom(v, n)) = {e, m, s}
    BY <1>1, <1>2, <1>8, <1>9, <2>1
  <2>4. JobsFrom(v, n) \in Seq(Job) /\ JobsFrom(v, n) # <<>>
    BY <1>1, <1>7, <1>9, <1>6
  <2> QED
    BY <1>4, <1>5, <2>1, <2>2, <2>3, <2>4
<1>10. CASE n = 2
  <2>1. Tail(JobsFrom(v, n)) = JobsFrom(v, 3) /\ Head(JobsFrom(v, n)) = m
    BY <1>2, <1>3, <1>7, <1>10
  <2>2. \E k \in 1..3 : Tail(JobsFrom(v, n)) = JobsFrom(v, k)
    BY <2>1
  <2>3. ToSet(Tail(JobsFrom(v, n))) = {s} /\ ToSet(JobsFrom(v, n)) = {m, s}
    BY <1>2, <1>3, <1>8, <1>10, <2>1
  <2>4. JobsFrom(v, n) \in Seq(Job) /\ JobsFrom(v, n) # <<>>
    BY <1>2, <1>7, <1>10, <1>6
  <2> QED
    BY <1>4, <1>5, <2>1, <2>2, <2>3, <2>4
<1>11. CASE n = 3
  <2>1. Tail(JobsFrom(v, n)) = <<>> /\ Head(JobsFrom(v, n)) = s
    BY <1>3, <1>7, <1>11
  <2>2. ToSet(Tail(JobsFrom(v, n))) = {} /\ ToSet(JobsFrom(v, n)) = {s}
    BY <1>3, <1>8, <1>11, <2>1
  <2>3. JobsFrom(v, n) \in Seq(Job) /\ JobsFrom(v, n) # <<>>
    BY <1>3, <1>7, <1>11, <1>6
  <2> QED
    BY <1>4, <1>5, <2>1, <2>2, <2>3
<1> QED
  BY <1>9, <1>10, <1>11

\* All three jobs of a version, as Inactivate schedules them.
LEMMA EnqueuesAll ==
  ASSUME NEW v \in Version
  PROVE  /\ [n \in 1..3 |-> <<v, BackendOrder[n]>>] = JobsFrom(v, 1)
         /\ ToSet(JobsFrom(v, 1)) = Whole(v)
<1>1. JobsFrom(v, 1) = <<<<v, "elasticsearch">>, <<v, "milvus">>, <<v, "snapshot">>>>
  BY DEF JobsFrom, BackendOrder
<1>2. [n \in 1..3 |-> <<v, BackendOrder[n]>>] = JobsFrom(v, 1)
  BY DEF JobsFrom, BackendOrder
<1>3. Whole(v) = {<<v, "elasticsearch">>, <<v, "milvus">>, <<v, "snapshot">>}
  BY DEF Whole, Backend
<1>4. ToSet(JobsFrom(v, 1)) = {<<v, "elasticsearch">>, <<v, "milvus">>, <<v, "snapshot">>}
  BY <1>1 DEF ToSet
<1> QED
  BY <1>2, <1>3, <1>4

LEMMA NoItems == ToSet(<<>>) = {}
  BY DEF ToSet

-----------------------------------------------------------------------------
(* The start. *)

LEMMA RunInitial ==
  ASSUME RunInit
  PROVE  RunInv
<1> USE NoItems DEF RunInit
<1>1. RunTypeOK
  <2>1. kind \in [RunId -> {"gate", "ladder", "canary"}] /\ \A r \in RunId : kind[r] \in Scripts[r]
    BY RunAssumption
  <2>2. script.made \subseteq VersionsOf(script.run) /\ IsFiniteSet(leased)
    BY FS_EmptySet DEF Idle, Started
  <2>3. /\ script.run = "none" /\ script.stage = "idle" /\ script.made = {} /\ script.todo = <<>>
        /\ script.results = <<>> /\ script.job = <<>>
    BY DEF Idle, Started
  <2> QED
    BY <2>1, <2>2 DEF RunTypeOK, Script, RunStage, ToEnqueue, Idle, Started, Job
<1>2. Known = {} /\ Active = {} /\ ToSet(script.todo) = {}
  BY DEF Known, Active, Idle, Started
<1>3. JobsClean /\ JobsOnce
  BY <1>2 DEF JobsClean, JobsOnce, Working, Idle, Started
<1>4. GateAlone /\ CanaryInOrder /\ PassedIsGone
  BY DEF GateAlone, CanaryInOrder, PassedIsGone, RunsGate, RunsCanary
<1> QED
  BY <1>1, <1>3, <1>4 DEF RunInv

-----------------------------------------------------------------------------
(* Types. *)

\* A script that only changes its stage, perhaps with one flag.
SameWork(t, s) ==
  /\ t.run = s.run /\ t.made = s.made /\ t.todo = s.todo /\ t.results = s.results
  /\ t.job = s.job /\ t.short = s.short /\ t.recovers = s.recovers

LEMMA Staged ==
  ASSUME NEW s \in Script, NEW g \in RunStage, NEW f \in BOOLEAN, NEW t,
         \/ t = [s EXCEPT !.stage = g] \/ t = [s EXCEPT !.served = f, !.stage = g]
         \/ t = [s EXCEPT !.failed = f, !.stage = g]
  PROVE  t \in Script /\ t.stage = g /\ SameWork(t, s)
<1>1. CASE t = [s EXCEPT !.stage = g]
  BY <1>1 DEF Script, SameWork
<1>2. CASE t = [s EXCEPT !.served = f, !.stage = g]
  BY <1>2 DEF Script, SameWork
<1>3. CASE t = [s EXCEPT !.failed = f, !.stage = g]
  BY <1>3 DEF Script, SameWork
<1> QED
  BY <1>1, <1>2, <1>3

LEMMA TypesFinish ==
  ASSUME RunTypeOK, NEW verdict \in {"none", "PASS", "FAIL"}, Finish(script.run, verdict),
         UNCHANGED <<kind, database, jobs>>
  PROVE  RunTypeOK'
<1>1. Idle \in Script /\ Idle.made = {}
  BY DEF Idle, Started, Script, RunStage, ToEnqueue
<1> QED
  BY <1>1 DEF RunTypeOK, Finish, database, jobs, VersionsOf

LEMMA TypesStart ==
  ASSUME RunTypeOK, NEW r \in RunId,
         StartGate(r) \/ StartCanary(r) \/ StartRecovery(r)
  PROVE  RunTypeOK'
<1>1. ASSUME NEW stage \in {"publish", "measure", "work"}, NEW made \in SUBSET VersionsOf(r)
      PROVE  /\ Started(r, stage, made) \in Script
             /\ Started(r, stage, made).run = r /\ Started(r, stage, made).stage = stage
             /\ Started(r, stage, made).made = made
  BY Versions DEF Started, Script, RunStage, ToEnqueue, Publishing, Working
<1> DEFINE starts == Started(r, "work", VersionsOf(r))
           recovers == [starts EXCEPT !.recovers = TRUE]
<1>2. starts \in Script /\ starts.run = r /\ starts.stage = "work" /\ starts.made = VersionsOf(r)
  BY <1>1
<1> HIDE DEF starts
<1>4. recovers \in Script /\ recovers.run = r /\ recovers.stage = "work" /\ recovers.made = VersionsOf(r)
  BY <1>2 DEF Script
<1> HIDE DEF recovers
<1>5. Ready(r) \subseteq VersionsOf(r) /\ {} \subseteq VersionsOf(r)
  BY DEF Ready
<1>6. \/ script' = recovers \/ script' = Started(r, "publish", {})
      \/ script' = Started(r, "measure", Ready(r))
  BY DEF StartGate, StartCanary, StartRecovery, recovers, starts
<1>7. /\ script' \in Script /\ script'.run = r /\ script'.stage # "idle"
      /\ script'.made \subseteq VersionsOf(r)
  BY <1>1, <1>4, <1>5, <1>6
<1>3. UNCHANGED <<kind, database, jobs, report, faults>>
  BY DEF StartGate, StartCanary, StartRecovery
<1> QED
  BY <1>3, <1>7 DEF RunTypeOK, database, jobs

-----------------------------------------------------------------------------
(* Steps of the measurement: only the stage of the script changes. *)

MeasureStep ==
  \/ BuildControl \/ RunControl \/ RunTreatment \/ RunRegression \/ Adjudicate \/ Diagnose
  \/ Probe \/ (Fail /\ kind[script.run] # "canary")

LEMMA MeasureMoves ==
  ASSUME RunTypeOK, CanaryInOrder, MeasureStep
  PROVE  /\ script # Idle /\ script' \in Script /\ script' # Idle
         /\ script.stage \in Publishing \ {"publish", "retire"}
         /\ script'.stage \in Publishing \ {"publish", "measure"}
         /\ RunsCanary => script.stage = "measure" /\ script'.stage \in {"fail", "retire"}
         /\ SameWork(script', script)
         /\ UNCHANGED <<kind, version, stored, queue, resting, leased, settled, attempts, report>>
<1> DEFINE Next0 == {"control", "treatment", "regression", "verdict", "retire", "fail"}
<1>1. script \in Script /\ Idle.stage = "idle" /\ Next0 \subseteq RunStage
  BY DEF RunTypeOK, Idle, Started, RunStage, Publishing
<1>2. \E stage \in Next0, f \in BOOLEAN :
        \/ script' = [script EXCEPT !.stage = stage]
        \/ script' = [script EXCEPT !.served = f, !.stage = stage]
        \/ script' = [script EXCEPT !.failed = f, !.stage = stage]
  BY DEF MeasureStep, BuildControl, RunControl, RunTreatment, RunRegression, Adjudicate, Diagnose,
         Probe, Fail, Measure, Enter
<1>3. /\ script' \in Script /\ script'.stage \in Next0
      /\ SameWork(script', script)
  <2>1. PICK stage \in Next0, f \in BOOLEAN :
          \/ script' = [script EXCEPT !.stage = stage]
          \/ script' = [script EXCEPT !.served = f, !.stage = stage]
          \/ script' = [script EXCEPT !.failed = f, !.stage = stage]
    BY <1>2
  <2>2. stage \in RunStage
    BY <1>1
  <2> HIDE DEF Next0
  <2> QED
    BY <1>1, <2>1, <2>2, Staged
<1>4. /\ script.stage \in {"measure", "control", "treatment", "regression", "verdict", "fail"}
      /\ UNCHANGED <<kind, version, stored, queue, resting, leased, settled, attempts, report>>
  BY DEF MeasureStep, BuildControl, RunControl, RunTreatment, RunRegression, Adjudicate, Diagnose,
         Probe, Fail, Measure, At, database, jobs
<1>5. script # Idle /\ script' # Idle
  BY <1>1, <1>3, <1>4
<1>6. ASSUME RunsCanary
      PROVE  script.stage = "measure" /\ script'.stage \in {"fail", "retire"}
  <2>1. script.stage \in {"measure", "fail"} /\ kind[script.run] = "canary"
    BY <1>4, <1>6 DEF CanaryInOrder, RunsCanary, Working
  <2>2. Probe
    BY <2>1 DEF MeasureStep, BuildControl, RunControl, RunTreatment, RunRegression, Adjudicate,
                Diagnose, Measure, At
  <2>3. PICK stage \in {"fail", "retire"}, f \in BOOLEAN :
          \/ script' = [script EXCEPT !.stage = stage]
          \/ script' = [script EXCEPT !.failed = f, !.stage = stage]
    BY <2>2 DEF Probe, Enter
  <2>4. script.stage = "measure" /\ stage \in RunStage
    BY <2>2, <2>3 DEF Probe, At, RunStage, Publishing
  <2>5. script \in Script
    BY <1>1
  <2>6. script'.stage = stage
    <3>1. CASE script' = [script EXCEPT !.stage = stage]
      BY <2>5, <3>1 DEF Script
    <3>2. CASE script' = [script EXCEPT !.failed = f, !.stage = stage]
      BY <2>5, <3>2 DEF Script
    <3> QED
      BY <2>3, <3>1, <3>2
  <2> QED
    BY <2>4, <2>6
<1> QED
  BY <1>3, <1>4, <1>5, <1>6 DEF Publishing

LEMMA MeasureKeeps ==
  ASSUME RunInv, MeasureStep
  PROVE  RunInv'
<1> USE DEF RunInv, SameWork
<1>1. /\ script # Idle /\ script' \in Script /\ script' # Idle
      /\ script.stage \in Publishing \ {"publish", "retire"}
      /\ script'.stage \in Publishing \ {"publish", "measure"}
      /\ RunsCanary => script.stage = "measure" /\ script'.stage \in {"fail", "retire"}
      /\ SameWork(script', script)
      /\ UNCHANGED <<kind, version, stored, queue, resting, leased, settled, attempts, report>>
  BY MeasureMoves
<1>2. Publishing \cap Working = {} /\ "idle" \notin Publishing
  BY DEF Publishing, Working
<1>3. RunTypeOK'
  BY <1>1, <1>2 DEF RunTypeOK
<1>4. JobsClean' /\ JobsOnce'
  BY <1>1, <1>2 DEF JobsClean, JobsOnce, Known, Active, Working
<1>5. GateAlone'
  BY <1>1, <1>2 DEF GateAlone, RunsGate
<1>6. CanaryInOrder'
  BY <1>1, <1>2 DEF CanaryInOrder, RunsCanary
<1>7. PassedIsGone'
  BY <1>1 DEF PassedIsGone, Active
<1> QED
  BY <1>3, <1>4, <1>5, <1>6, <1>7

-----------------------------------------------------------------------------
(* The end of a script, the passing of a delay and the start. *)

\* A script that ends leaves the invariant, if what it calls passed is gone.
LEMMA FinishKeeps ==
  ASSUME RunInv, script # Idle, NEW verdict \in {"none", "PASS", "FAIL"},
         Finish(script.run, verdict), UNCHANGED <<kind, database, jobs>>,
         verdict = "PASS" =>
           /\ \A v \in VersionsOf(script.run) : version[v] = "INACTIVE" /\ Whole(v) \cap stored = {}
           /\ Active \cap JobsOf(script.run) = {}
  PROVE  RunInv'
<1> USE DEF RunInv
<1>1. /\ script' = Idle /\ report' = [report EXCEPT ![script.run] = verdict]
      /\ UNCHANGED <<kind, version, stored, queue, resting, leased, settled, attempts>>
      /\ Idle.todo = <<>> /\ Idle.stage = "idle" /\ Idle.job = <<>> /\ Idle.results = <<>>
  BY DEF Finish, database, jobs, Idle, Started
<1>2. RunTypeOK'
  BY TypesFinish
<1>3. JobsClean' /\ JobsOnce'
  BY <1>1, NoItems DEF JobsClean, JobsOnce, Known, Active, Working
<1>4. GateAlone' /\ CanaryInOrder'
  BY <1>1 DEF GateAlone, CanaryInOrder, RunsGate, RunsCanary
<1>5. PassedIsGone'
  BY <1>1, NoItems DEF PassedIsGone, Active, RunTypeOK
<1> QED
  BY <1>2, <1>3, <1>4, <1>5

LEMMA WakeKeeps ==
  ASSUME RunInv, NEW j \in resting, Wake(j)
  PROVE  RunInv'
<1> USE DEF RunInv
<1>1. /\ queue' = Append(queue, j) /\ resting' = resting \ {j} /\ queue \in Seq(Job) /\ j \in Job
      /\ UNCHANGED <<kind, script, version, stored, leased, settled, attempts, report>>
  BY DEF Wake, database, RunTypeOK
<1>2. /\ queue' \in Seq(Job) /\ Len(queue) \in Nat /\ DOMAIN queue = 1..Len(queue)
      /\ DOMAIN queue' = 1..(Len(queue) + 1)
      /\ \A i \in DOMAIN queue : i \in DOMAIN queue' /\ queue'[i] = queue[i]
      /\ queue'[Len(queue) + 1] = j
      /\ ToSet(queue') = ToSet(queue) \cup {j}
  BY <1>1, Appended
<1>3. Active' = Active /\ Known' = Known
  BY <1>1, <1>2 DEF Active, Known
<1>4. RunTypeOK' /\ JobsClean' /\ PassedIsGone'
  BY <1>1, <1>2, <1>3 DEF RunTypeOK, JobsClean, PassedIsGone
<1>5. JobsOnce'
  <2>1. \A i \in DOMAIN queue : queue[i] # j
    BY DEF JobsOnce, ToSet
  <2>2. \A i, k \in DOMAIN queue' : queue'[i] = queue'[k] => i = k
    BY <1>2, <2>1 DEF JobsOnce
  <2> QED
    BY <1>1, <1>2, <1>3, <2>2 DEF JobsOnce
<1>6. GateAlone'
  BY <1>1 DEF GateAlone, RunsGate, Flawless
<1>7. CanaryInOrder'
  <2>1. ASSUME NEW v \in Version, SnapshotLast(v)
        PROVE  SnapshotLast(v)'
    <3>1. j \notin Whole(v) /\ <<v, "snapshot">> \in Whole(v)
      BY <2>1 DEF SnapshotLast, Whole, Backend
    <3>2. /\ Whole(v) \cap resting' = {} /\ Whole(v) \cap leased' \subseteq {script'.job}
          /\ <<v, "snapshot">> \in ToSet(queue') \cup ToSet(script'.todo) =>
               <<v, "snapshot">> \in stored'
      BY <1>1, <1>2, <2>1, <3>1 DEF SnapshotLast
    <3>3. ASSUME NEW x \in Whole(v) \cap (stored' \cup ToSet(queue'))
          PROVE  \/ x \in ToSet(script'.todo) \cup {script'.job}
                 \/ x \in ToSet(queue') /\ <<v, "snapshot">> \in ToSet(script'.todo)
                 \/ \E i, k \in DOMAIN queue' :
                      i <= k /\ queue'[i] = x /\ queue'[k] = <<v, "snapshot">>
      <4>1. x \in Whole(v) \cap (stored \cup ToSet(queue))
        BY <1>1, <1>2, <3>1
      <4>2. \/ x \in ToSet(script.todo) \cup {script.job}
            \/ x \in ToSet(queue) /\ <<v, "snapshot">> \in ToSet(script.todo)
            \/ \E i, k \in DOMAIN queue :
                 i <= k /\ queue[i] = x /\ queue[k] = <<v, "snapshot">>
        BY <2>1, <4>1 DEF SnapshotLast
      <4> QED
        BY <1>1, <1>2, <4>2
    <3> QED
      BY <1>1, <3>2, <3>3 DEF SnapshotLast, Whole
  <2>2. script.made \subseteq Version
    BY DEF RunTypeOK, Script
  <2> QED
    BY <1>1, <2>1, <2>2 DEF CanaryInOrder, RunsCanary, Flawless
<1> QED
  BY <1>4, <1>5, <1>6, <1>7

LEMMA StartKeeps ==
  ASSUME RunInv, NEW r \in RunId,
         StartGate(r) \/ StartCanary(r) \/ StartRecovery(r)
  PROVE  RunInv'
<1> USE DEF RunInv
<1>1. RunTypeOK'
  BY TypesStart
<1>2. /\ UNCHANGED <<kind, version, stored, queue, resting, leased, settled, attempts, report>>
      /\ script = Idle /\ script.stage = "idle"
  BY DEF StartGate, StartCanary, StartRecovery, database, jobs, Idle, Started
<1>3. /\ script'.todo = <<>> /\ script'.stage \in {"publish", "measure", "work"}
      /\ script'.job = <<>> /\ script'.results = <<>> /\ script'.run = r
  BY DEF StartGate, StartCanary, StartRecovery, Started
<1>4. JobsClean' /\ JobsOnce'
  BY <1>2, <1>3, NoItems DEF JobsClean, JobsOnce, Known, Active, Working
<1>5. GateAlone'
  <2>1. CASE StartGate(r)
    <3>1. resting = {} /\ leased = {} /\ script'.stage = "publish"
      BY <2>1 DEF StartGate, Active, Started
    <3> QED
      BY <1>2, <3>1 DEF GateAlone, Working
  <2>2. CASE StartCanary(r)
    BY <1>2, <1>3, <2>2 DEF GateAlone, RunsGate, StartCanary
  <2>3. CASE StartRecovery(r)
    BY <1>2, <2>3 DEF GateAlone, RunsGate, StartRecovery, Started
  <2> QED
    BY <2>1, <2>2, <2>3
<1>6. CanaryInOrder'
  <2>1. CASE StartGate(r) \/ StartRecovery(r)
    BY <1>2, <1>3, <2>1 DEF CanaryInOrder, RunsCanary, StartGate, StartRecovery
  <2>2. CASE StartCanary(r) /\ Ready(r) = {}
    BY <1>2, <2>2 DEF CanaryInOrder, RunsCanary, StartCanary, Started, Working
  <2>3. CASE StartCanary(r) /\ Ready(r) # {}
    <3>1. /\ script'.made = Ready(r) /\ script'.stage = "measure" /\ script'.recovers = FALSE
      BY <2>3 DEF StartCanary, Started
    <3>2. Papers[r] = 1
      BY <2>3, RunAssumption DEF StartCanary, RunTypeOK
    <3>3. Ready(r) = VersionsOf(r)
      BY <2>3, <3>2, Versions DEF Ready
    <3>4. \A v \in Ready(r) : version[v] = "READY"
      BY DEF Ready
    <3> QED
      BY <1>2, <1>3, <3>1, <3>3, <3>4 DEF CanaryInOrder, RunsCanary, Working
  <2> QED
    BY <2>1, <2>2, <2>3
<1>7. PassedIsGone'
  BY <1>2, <1>3, NoItems DEF PassedIsGone, Active
<1> QED
  BY <1>1, <1>4, <1>5, <1>6, <1>7

LEMMA KnownTyped ==
  ASSUME RunTypeOK
  PROVE  Known \cup ToSet(script.todo) \subseteq Job
<1>1. ToSet(queue) \subseteq Job
  BY DEF RunTypeOK, ToSet
<1>2. {s[1] : s \in settled} \subseteq Job
  BY DEF RunTypeOK
<1>3. ToSet(script.todo) \subseteq Job
  <2>1. script.todo \in ToEnqueue
    BY DEF RunTypeOK, Script
  <2>2. CASE script.todo = <<>>
    BY <2>2, NoItems
  <2>3. CASE script.todo # <<>>
    <3>1. PICK v \in Version, n \in 1..3 : script.todo = JobsFrom(v, n)
      BY <2>1, <2>3 DEF ToEnqueue
    <3> QED
      BY <3>1, Enqueues, Jobs
  <2> QED
    BY <2>2, <2>3
<1> QED
  BY <1>1, <1>2, <1>3 DEF Known, Active, RunTypeOK

-----------------------------------------------------------------------------
(* Publication. *)

\* A version that is not INACTIVE has no job, and its run did not pass.
LEMMA Unscheduled ==
  ASSUME RunInv, NEW v \in Version, version[v] # "INACTIVE"
  PROVE  /\ Whole(v) \cap (Known \cup ToSet(script.todo)) = {}
         /\ \A b, st : <<<<v, b>>, st>> \notin settled
         /\ \A r \in RunId : report[r] = "PASS" => v \notin VersionsOf(r)
<1>1. Whole(v) \cap (Known \cup ToSet(script.todo)) = {}
  BY Jobs DEF RunInv, JobsClean
<1>2. ASSUME NEW b, NEW st, <<<<v, b>>, st>> \in settled
      PROVE  FALSE
  <2>1. <<v, b>> \in Known
    BY <1>2 DEF Known
  <2> QED
    BY <2>1 DEF RunInv, JobsClean
<1>3. \A r \in RunId : report[r] = "PASS" => v \notin VersionsOf(r)
  BY DEF RunInv, PassedIsGone
<1> QED
  BY <1>1, <1>2, <1>3

LEMMA PublishTypes ==
  ASSUME RunInv, Publish
  PROVE  /\ RunTypeOK' /\ script # Idle /\ script' # Idle /\ script.stage = "publish"
         /\ script'.run = script.run /\ script'.todo = script.todo
         /\ script'.results = script.results /\ script'.job = script.job
         /\ script'.recovers = script.recovers
         /\ script'.stage \in {"publish", "measure", "fail"}
         /\ script'.made = VersionsOf(script.run) \/ script'.stage # "measure"
<1> DEFINE r == script.run
<1>1. PICK v \in VersionsOf(r) \ script.made :
        \/ /\ version' = [version EXCEPT ![v] = "READY"]
           /\ stored' = stored \cup Whole(v)
           /\ script' = [script EXCEPT !.made = @ \cup {v},
                           !.stage = IF script.made \cup {v} = VersionsOf(r)
                                     THEN "measure" ELSE "publish"]
        \/ /\ \E part \in {{}, {"snapshot"}, {"snapshot", "elasticsearch"}, Backend} :
                stored' = stored \cup {v} \X part
           /\ \E status \in {"PROCESSING", "FAILED"} : version' = [version EXCEPT ![v] = status]
           /\ script' = [script EXCEPT !.failed = TRUE, !.stage = "fail"]
        \/ /\ script' = [script EXCEPT !.failed = TRUE, !.stage = "fail"]
           /\ UNCHANGED database
  BY DEF Publish
<1>2. /\ script \in Script /\ script.stage = "publish" /\ script # Idle /\ v \in Version
      /\ UNCHANGED <<kind, queue, resting, leased, settled, attempts, report>>
      /\ r \in RunId /\ script.made \subseteq VersionsOf(r) /\ Idle.stage = "idle"
  BY Versions DEF Publish, At, jobs, RunInv, RunTypeOK, Idle, Started
<1>3. /\ script' \in Script /\ script'.run = r /\ script'.todo = script.todo
      /\ script'.results = script.results /\ script'.job = script.job
      /\ script'.recovers = script.recovers
      /\ script'.stage \in {"publish", "measure", "fail"}
      /\ script'.made \in {script.made, script.made \cup {v}}
      /\ script'.made = VersionsOf(r) \/ script'.stage # "measure"
  <2>1. {"publish", "measure", "fail"} \subseteq RunStage
    BY DEF RunStage, Publishing
  <2> DEFINE g == IF script.made \cup {v} = VersionsOf(r) THEN "measure" ELSE "publish"
  <2>2. g \in {"publish", "measure"} /\ (g = "measure" => script.made \cup {v} = VersionsOf(r))
    OBVIOUS
  <2> HIDE DEF g
  <2>3. CASE script' = [script EXCEPT !.made = @ \cup {v}, !.stage = g]
    BY <1>2, <2>1, <2>2, <2>3 DEF Script
  <2>4. CASE script' = [script EXCEPT !.failed = TRUE, !.stage = "fail"]
    BY <1>2, <2>1, <2>4 DEF Script
  <2> QED
    BY <1>1, <2>3, <2>4 DEF g
<1>4. \A part \in {{}, {"snapshot"}, {"snapshot", "elasticsearch"}, Backend} :
        {v} \X part \subseteq Job
  BY <1>2 DEF Job, Backend
<1> DEFINE Statuses == {"none", "PROCESSING", "FAILED", "READY", "INACTIVE"}
<1>5. stored' \subseteq Job /\ version' \in [Version -> Statuses]
  <2>1. stored \subseteq Job /\ version \in [Version -> Statuses] /\ Whole(v) \subseteq Job
    BY <1>2, Jobs DEF RunInv, RunTypeOK
  <2>2. stored' \subseteq Job
    BY <1>1, <1>4, <2>1 DEF database
  <2>3. version' = version \/ \E status \in Statuses : version' = [version EXCEPT ![v] = status]
    BY <1>1 DEF database
  <2> QED
    BY <1>2, <2>1, <2>2, <2>3
<1>6. RunTypeOK'
  BY <1>2, <1>3, <1>5 DEF RunInv, RunTypeOK
<1> QED
  BY <1>2, <1>3, <1>6

LEMMA PublishKeeps ==
  ASSUME RunInv, Publish
  PROVE  RunInv'
<1> DEFINE r == script.run
<1>1. /\ RunTypeOK' /\ script # Idle /\ script' # Idle /\ script.stage = "publish"
      /\ script'.run = script.run /\ script'.todo = script.todo
      /\ script'.results = script.results /\ script'.job = script.job
      /\ script'.recovers = script.recovers
      /\ script'.stage \in {"publish", "measure", "fail"}
      /\ script'.made = VersionsOf(script.run) \/ script'.stage # "measure"
  BY PublishTypes
<1>2. /\ UNCHANGED <<kind, queue, resting, leased, settled, attempts, report>>
      /\ r \in RunId
  BY <1>1 DEF Publish, jobs, RunInv, RunTypeOK
\* What is written is of one version that is not INACTIVE.
<1>3. PICK v \in VersionsOf(r) :
        \/ /\ version[v] # "INACTIVE" /\ script'.made = script.made \cup {v}
           /\ version' = [version EXCEPT ![v] = "READY"] /\ stored' = stored \cup Whole(v)
        \/ /\ version[v] # "INACTIVE" /\ script'.stage = "fail"
           /\ \E status \in {"PROCESSING", "FAILED"} : version' = [version EXCEPT ![v] = status]
           /\ stored \subseteq stored' /\ stored' \subseteq stored \cup Whole(v)
        \/ UNCHANGED <<version, stored>> /\ script'.stage = "fail"
  <2>1. PICK v \in VersionsOf(r) \ script.made :
          \/ /\ version[v] # "INACTIVE"
             /\ version' = [version EXCEPT ![v] = "READY"]
             /\ stored' = stored \cup Whole(v)
             /\ script' = [script EXCEPT !.made = @ \cup {v},
                             !.stage = IF script.made \cup {v} = VersionsOf(r)
                                       THEN "measure" ELSE "publish"]
          \/ /\ version[v] # "INACTIVE"
             /\ \E part \in {{}, {"snapshot"}, {"snapshot", "elasticsearch"}, Backend} :
                  stored' = stored \cup {v} \X part
             /\ \E status \in {"PROCESSING", "FAILED"} : version' = [version EXCEPT ![v] = status]
             /\ script' = [script EXCEPT !.failed = TRUE, !.stage = "fail"]
          \/ /\ script' = [script EXCEPT !.failed = TRUE, !.stage = "fail"]
             /\ UNCHANGED database
    BY DEF Publish
  <2>2. \A part \in {{}, {"snapshot"}, {"snapshot", "elasticsearch"}, Backend} :
          {v} \X part \subseteq Whole(v)
    BY DEF Whole, Backend
  <2>3. script \in Script
    BY DEF RunInv, RunTypeOK
  <2>4. script' = [script EXCEPT !.failed = TRUE, !.stage = "fail"] => script'.stage = "fail"
    BY <2>3 DEF Script
  <2>5. ASSUME NEW g, script' = [script EXCEPT !.made = @ \cup {v}, !.stage = g]
        PROVE  script'.made = script.made \cup {v}
    BY <2>3, <2>5 DEF Script
  <2> QED
    BY <2>1, <2>2, <2>4, <2>5 DEF database
<1>4. v \in Version /\ version \in [Version -> {"none", "PROCESSING", "FAILED", "READY", "INACTIVE"}]
  BY <1>2, Versions DEF RunInv, RunTypeOK
<1>5. /\ \A u \in Version \ {v} : version'[u] = version[u]
      /\ version[v] # "INACTIVE" \/ version' = version
      /\ version[v] # "INACTIVE" \/ stored' = stored
      /\ stored \subseteq stored' /\ stored' \subseteq stored \cup Whole(v)
      /\ version'[v] = "READY" => Whole(v) \subseteq stored' \/ version'[v] = version[v]
      /\ version'[v] # "none" \/ stored' = stored
  BY <1>3, <1>4
<1>6. Known' = Known /\ Active' = Active /\ ToSet(script'.todo) = ToSet(script.todo)
  BY <1>1, <1>2 DEF Known, Active
<1>7. JobsClean'
  <2>1. ASSUME NEW j \in Known' \cup ToSet(script'.todo)
        PROVE  version'[j[1]] = "INACTIVE"
    <3>1. version[j[1]] = "INACTIVE"
      BY <1>6, <2>1 DEF RunInv, JobsClean
    <3>2. j[1] \in Version
      BY <1>6, <2>1, KnownTyped, Jobs DEF RunInv
    <3> QED
      BY <1>5, <3>1, <3>2
  <2>2. ASSUME NEW u \in Version
        PROVE  /\ version'[u] = "none" => Whole(u) \cap stored' = {}
               /\ version'[u] = "READY" => Whole(u) \subseteq stored'
    <3>1. CASE u = v
      BY <1>3, <1>4, <1>5, <3>1 DEF RunInv, JobsClean
    <3>2. CASE u # v
      BY <1>4, <1>5, <3>2, Jobs DEF RunInv, JobsClean
    <3> QED
      BY <3>1, <3>2
  <2>3. ASSUME NEW j \in stored'
        PROVE  <<j, "SUCCEEDED">> \notin settled'
    <3>1. CASE j \in stored
      BY <1>2, <3>1 DEF RunInv, JobsClean
    <3>2. CASE j \notin stored
      <4>1. j \in Whole(v) /\ version[v] # "INACTIVE"
        BY <1>5, <2>3, <3>2
      <4>2. j \notin Known
        BY <1>4, <4>1, Unscheduled
      <4> QED
        BY <1>2, <4>2 DEF Known
    <3> QED
      BY <3>1, <3>2
  <2>4. /\ script'.stage \notin {"delete", "complete", "retire"} /\ script'.stage \notin Working
        /\ script.job = <<>> /\ script.todo = <<>> /\ script.results = <<>>
    BY <1>1 DEF RunInv, JobsClean, Working
  <2>5. script'.job = <<>> /\ script'.todo = <<>> /\ script'.results = <<>>
    BY <1>1, <2>4
  <2> QED
    BY <2>1, <2>2, <2>3, <2>4, <2>5 DEF JobsClean, Whole
<1>8. JobsOnce'
  BY <1>1, <1>2, <1>6 DEF RunInv, JobsOnce
<1>9. GateAlone'
  BY <1>1, <1>2 DEF RunInv, GateAlone, RunsGate, Publishing, Working
<1>10. CanaryInOrder'
  <2> SUFFICES ASSUME RunsCanary'
               PROVE  /\ ~script'.recovers
                      /\ script'.stage = "measure" => \A u \in script'.made : version'[u] = "READY"
    BY <1>1 DEF CanaryInOrder, Working
  <2>1. RunsCanary /\ ~script'.recovers
    BY <1>1, <1>2 DEF RunsCanary, RunInv, CanaryInOrder
  <2>2. ASSUME script'.stage = "measure"
        PROVE  \A u \in script'.made : version'[u] = "READY"
    <3>1. Papers[r] = 1
      BY <1>2, <2>1, RunAssumption DEF RunsCanary, RunInv, RunTypeOK
    <3>2. VersionsOf(r) = {v}
      BY <1>2, <3>1, Versions
    <3> QED
      BY <1>1, <1>3, <1>4, <2>2, <3>2
  <2> QED
    BY <2>1, <2>2
<1>11. PassedIsGone'
  <2> SUFFICES ASSUME NEW q \in RunId, report[q] = "PASS"
               PROVE  /\ \A u \in VersionsOf(q) : version'[u] = "INACTIVE" /\ Whole(u) \cap stored' = {}
                      /\ (Active \cup ToSet(script.todo)) \cap JobsOf(q) = {}
    BY <1>2, <1>6 DEF PassedIsGone, VersionsOf, Whole, JobsOf, Version, Backend
  <2>1. ASSUME NEW u \in VersionsOf(q)
        PROVE  version'[u] = "INACTIVE" /\ Whole(u) \cap stored' = {}
    <3>1. version[u] = "INACTIVE" /\ Whole(u) \cap stored = {} /\ u \in Version
      BY Versions DEF RunInv, PassedIsGone
    <3>2. CASE u = v
      BY <1>5, <3>1, <3>2
    <3>3. CASE u # v
      BY <1>4, <1>5, <3>1, <3>3, Jobs
    <3> QED
      BY <3>2, <3>3
  <2> QED
    BY <2>1 DEF RunInv, PassedIsGone
<1> QED
  BY <1>1, <1>7, <1>8, <1>9, <1>10, <1>11 DEF RunInv

-----------------------------------------------------------------------------
(* Inactivation and scheduling. *)

LEMMA InactivateKeeps ==
  ASSUME RunInv, Inactivate
  PROVE  RunInv'
<1>1. PICK v \in script.made :
        /\ version[v] = "READY" /\ version' = [version EXCEPT ![v] = "INACTIVE"]
        /\ script' = [script EXCEPT !.todo = [n \in 1..3 |-> <<v, BackendOrder[n]>>]]
  BY DEF Inactivate
<1>2. /\ script.stage = "retire" /\ script.todo = <<>> /\ script \in Script /\ v \in Version
      /\ UNCHANGED <<kind, stored, queue, resting, leased, settled, attempts, report>>
      /\ script # Idle /\ Idle.stage = "idle"
      /\ version \in [Version -> {"none", "PROCESSING", "FAILED", "READY", "INACTIVE"}]
  BY DEF Inactivate, At, jobs, RunInv, RunTypeOK, Script, Idle, Started
<1>3. script' = [script EXCEPT !.todo = JobsFrom(v, 1)] /\ JobsFrom(v, 1) \in ToEnqueue
  BY <1>1, <1>2, EnqueuesAll, SMTT(30) DEF ToEnqueue
<1>4. /\ script' \in Script /\ script'.todo = JobsFrom(v, 1)
      /\ script'.run = script.run /\ script'.made = script.made /\ script'.stage = script.stage
      /\ script'.results = script.results /\ script'.job = script.job
      /\ script'.short = script.short /\ script'.recovers = script.recovers
  BY <1>2, <1>3 DEF Script
<1>5. ToSet(script'.todo) = Whole(v)
  BY <1>2, <1>4, EnqueuesAll
<1>6. Known' = Known /\ Active' = Active /\ Active \subseteq Known
  BY <1>2 DEF Known, Active
<1>7. /\ Whole(v) \cap Known = {}
      /\ \A r \in RunId : report[r] = "PASS" => v \notin VersionsOf(r)
  BY <1>1, <1>2, Unscheduled
<1>8. RunTypeOK'
  BY <1>1, <1>2, <1>4 DEF RunInv, RunTypeOK
<1>9. JobsClean'
  <2>1. \A j \in Known' \cup ToSet(script'.todo) : version'[j[1]] = "INACTIVE"
    <3> SUFFICES ASSUME NEW j \in Known \cup Whole(v)
                 PROVE  version'[j[1]] = "INACTIVE"
      BY <1>5, <1>6
    <3>1. CASE j \in Whole(v)
      BY <1>1, <1>2, <3>1, Jobs
    <3>2. CASE j \in Known
      <4>1. version[j[1]] = "INACTIVE" /\ j[1] \in Version
        BY <3>2, KnownTyped, Jobs DEF RunInv, JobsClean
      <4> QED
        BY <1>1, <1>2, <4>1
    <3> QED
      BY <3>1, <3>2
  <2>2. \A u \in Version : /\ version'[u] = "none" => Whole(u) \cap stored' = {}
                           /\ version'[u] = "READY" => Whole(u) \subseteq stored'
    BY <1>1, <1>2 DEF RunInv, JobsClean
  <2> QED
    BY <1>2, <1>4, <2>1, <2>2 DEF RunInv, JobsClean, Whole, Working
<1>10. JobsOnce'
  BY <1>2, <1>5, <1>6, <1>7 DEF RunInv, JobsOnce
<1>11. GateAlone'
  BY <1>2, <1>4 DEF RunInv, GateAlone, RunsGate, Publishing, Working
<1>12. CanaryInOrder'
  <2> SUFFICES ASSUME RunsCanary', NEW u \in script.made
               PROVE  /\ version'[u] \in {"READY", "INACTIVE"}
                      /\ ~script.short /\ Flawless /\ version'[u] = "INACTIVE" => SnapshotLast(u)'
    BY <1>2, <1>4 DEF RunInv, CanaryInOrder, RunsCanary, Flawless, Working
  <2>1. RunsCanary /\ u \in Version
    BY <1>2, <1>4 DEF RunsCanary, Script
  <2>2. version[u] \in {"READY", "INACTIVE"}
    BY <1>2, <2>1 DEF RunInv, CanaryInOrder
  <2>3. version'[u] \in {"READY", "INACTIVE"}
    BY <1>1, <1>2, <2>1, <2>2
  <2>4. ASSUME ~script.short, Flawless, version'[u] = "INACTIVE"
        PROVE  SnapshotLast(u)'
    <3>1. CASE u = v
      <4>1. Whole(v) \subseteq stored /\ <<v, "snapshot">> \in Whole(v)
        BY <1>1, <1>2 DEF RunInv, JobsClean, Whole, Backend
      <4>2. Whole(v) \cap resting' = {} /\ Whole(v) \cap leased' = {}
        BY <1>2, <1>7 DEF Known, Active
      <4>3. Whole(v)' = Whole(v)
        BY DEF Whole
      <4> QED
        BY <1>2, <1>5, <3>1, <4>1, <4>2, <4>3 DEF SnapshotLast
    <3>2. CASE u # v
      <4>1. version[u] = "INACTIVE"
        BY <1>1, <1>2, <2>1, <2>4, <3>2
      <4>2. SnapshotLast(u)
        BY <1>2, <2>1, <2>4, <4>1 DEF RunInv, CanaryInOrder
      <4>3. Whole(u) \cap ToSet(script'.todo) = {} /\ ToSet(script.todo) = {}
        BY <1>2, <1>5, <2>1, <3>2, Jobs, NoItems
      <4>4. <<u, "snapshot">> \in Whole(u) /\ Whole(u)' = Whole(u)
        BY DEF Whole, Backend
      <4> QED
        BY <1>2, <1>4, <4>2, <4>3, <4>4 DEF SnapshotLast
    <3> QED
      BY <3>1, <3>2
  <2> QED
    BY <2>3, <2>4
<1>13. PassedIsGone'
  <2> SUFFICES ASSUME NEW q \in RunId, report[q] = "PASS"
               PROVE  /\ \A u \in VersionsOf(q) : version'[u] = "INACTIVE" /\ Whole(u) \cap stored = {}
                      /\ (Active \cup Whole(v)) \cap JobsOf(q) = {}
    BY <1>2, <1>5, <1>6 DEF PassedIsGone, VersionsOf, Whole, JobsOf, Version, Backend
  <2>1. \A u \in VersionsOf(q) : version'[u] = "INACTIVE" /\ Whole(u) \cap stored = {}
    BY <1>1, <1>2, Versions DEF RunInv, PassedIsGone
  <2>2. Whole(v) \cap JobsOf(q) = {}
    BY <1>2, <1>7, Jobs
  <2> QED
    BY <2>1, <2>2 DEF RunInv, PassedIsGone
<1> QED
  BY <1>8, <1>9, <1>10, <1>11, <1>12, <1>13 DEF RunInv

\* The next job is appended, or left out and remembered.
LEMMA EnqueueMoves ==
  ASSUME RunInv, Enqueue
  PROVE  LET h == Head(script.todo) IN
         /\ script.stage = "retire" /\ script # Idle /\ script' # Idle
         /\ script' \in Script /\ script'.todo = Tail(script.todo) /\ script'.stage = "retire"
         /\ script'.run = script.run /\ script'.made = script.made
         /\ script'.results = script.results /\ script'.job = script.job
         /\ script'.recovers = script.recovers
         /\ UNCHANGED <<kind, version, stored, resting, leased, settled, attempts, report>>
         /\ h \in Job /\ ToSet(script.todo) = {h} \cup ToSet(script'.todo)
         /\ h \notin ToSet(script'.todo)
         /\ h[2] = "snapshot" => ToSet(script'.todo) = {}
         /\ \/ queue' = Append(queue, h) /\ script'.short = script.short
            \/ queue' = queue /\ script'.short
<1> DEFINE h == Head(script.todo)
           rest == Tail(script.todo)
<1>1. /\ script.stage = "retire" /\ script.todo # <<>> /\ script \in Script /\ Idle.stage = "idle"
      /\ UNCHANGED <<kind, version, stored, resting, leased, settled, attempts, report>>
      /\ \/ queue' = Append(queue, h) /\ script' = [script EXCEPT !.todo = rest]
         \/ queue' = queue /\ script' = [script EXCEPT !.todo = rest, !.short = TRUE]
  BY DEF Enqueue, At, database, RunInv, RunTypeOK, Idle, Started
<1>2. PICK v \in Version, n \in 1..3 : script.todo = JobsFrom(v, n)
  BY <1>1 DEF Script, ToEnqueue
<1>3. /\ script.todo \in Seq(Job) /\ h \in Whole(v) /\ h \notin ToSet(rest)
      /\ h = <<v, "snapshot">> => rest = <<>>
      /\ rest = <<>> \/ \E m \in 1..3 : rest = JobsFrom(v, m)
  BY <1>2, Enqueues
<1>4. rest \in ToEnqueue
  <2>1. rest = <<>> \/ \E m \in 1..3 : rest = JobsFrom(v, m)
    BY <1>3
  <2> HIDE DEF rest
  <2> QED
    BY <2>1 DEF ToEnqueue
<1>5. h \in Job /\ ToSet(script.todo) = {h} \cup ToSet(rest)
  <2>1. script.todo \in Seq(Job) /\ script.todo # <<>>
    BY <1>1, <1>3
  <2> QED
    BY <2>1, FirstAndRest
<1>6. h[2] = "snapshot" => ToSet(rest) = {}
  <2>1. h \in Whole(v) /\ (h = <<v, "snapshot">> => rest = <<>>)
    BY <1>3
  <2> HIDE DEF h, rest
  <2>2. h = <<v, h[2]>>
    BY <2>1 DEF Whole
  <2> QED
    BY <2>1, <2>2, NoItems
<1> HIDE DEF h, rest
<1>7. CASE queue' = Append(queue, h) /\ script' = [script EXCEPT !.todo = rest]
  <2>1. /\ script' \in Script /\ script'.todo = rest /\ script'.stage = "retire"
        /\ script'.run = script.run /\ script'.made = script.made
        /\ script'.results = script.results /\ script'.job = script.job
        /\ script'.recovers = script.recovers /\ script'.short = script.short
    BY <1>1, <1>4, <1>7 DEF Script
  <2> QED
    BY <1>1, <1>5, <1>6, <1>3, <1>7, <2>1 DEF RunInv, JobsOnce, Known, h, rest
<1>8. CASE queue' = queue /\ script' = [script EXCEPT !.todo = rest, !.short = TRUE]
  <2>1. /\ script' \in Script /\ script'.todo = rest /\ script'.stage = "retire"
        /\ script'.run = script.run /\ script'.made = script.made
        /\ script'.results = script.results /\ script'.job = script.job
        /\ script'.recovers = script.recovers /\ script'.short
    BY <1>1, <1>4, <1>8 DEF Script
  <2> QED
    BY <1>1, <1>5, <1>6, <1>3, <1>8, <2>1 DEF RunInv, JobsOnce, Known, h, rest
<1> QED
  BY <1>1, <1>7, <1>8

\* With a job its snapshot is to be enqueued.
LEMMA Scheduling ==
  ASSUME RunTypeOK, NEW v \in Version, NEW j \in Whole(v) \cap ToSet(script.todo)
  PROVE  <<v, "snapshot">> \in ToSet(script.todo)
<1>1. PICK u \in Version, n \in 1..3 : script.todo = JobsFrom(u, n)
  BY NoItems DEF RunTypeOK, Script, ToEnqueue
<1>2. u = v
  BY <1>1, Enqueues, Jobs
<1> QED
  BY <1>1, <1>2, Enqueues

LEMMA EnqueueKeeps ==
  ASSUME RunInv, Enqueue
  PROVE  RunInv'
<1> DEFINE h == Head(script.todo)
<1>1. /\ script.stage = "retire" /\ script # Idle /\ script' # Idle
      /\ script' \in Script /\ script'.todo = Tail(script.todo) /\ script'.stage = "retire"
      /\ script'.run = script.run /\ script'.made = script.made
      /\ script'.results = script.results /\ script'.job = script.job
      /\ script'.recovers = script.recovers
      /\ UNCHANGED <<kind, version, stored, resting, leased, settled, attempts, report>>
      /\ h \in Job /\ ToSet(script.todo) = {h} \cup ToSet(script'.todo)
      /\ h \notin ToSet(script'.todo)
      /\ h[2] = "snapshot" => ToSet(script'.todo) = {}
      /\ \/ queue' = Append(queue, h) /\ script'.short = script.short
         \/ queue' = queue /\ script'.short
  BY EnqueueMoves
<1> HIDE DEF h
<1>2. queue \in Seq(Job) /\ h \notin Active
  BY <1>1 DEF RunInv, RunTypeOK, JobsOnce
<1>3. /\ queue' \in Seq(Job) /\ ToSet(queue') \subseteq ToSet(queue) \cup {h}
      /\ \A i \in DOMAIN queue : i \in DOMAIN queue' /\ queue'[i] = queue[i]
      /\ \A i, k \in DOMAIN queue' : queue'[i] = queue'[k] => i = k
  <2>1. CASE queue' = queue
    BY <1>2, <2>1 DEF RunInv, JobsOnce
  <2>2. CASE queue' = Append(queue, h)
    <3>1. /\ queue' \in Seq(Job) /\ Len(queue) \in Nat /\ DOMAIN queue = 1..Len(queue)
          /\ DOMAIN queue' = 1..(Len(queue) + 1)
          /\ \A i \in DOMAIN queue : i \in DOMAIN queue' /\ queue'[i] = queue[i]
          /\ queue'[Len(queue) + 1] = h /\ ToSet(queue') = ToSet(queue) \cup {h}
      BY <1>1, <1>2, <2>2, Appended
    <3>2. \A i \in DOMAIN queue : queue[i] # h
      BY <1>2 DEF Active, ToSet
    <3> QED
      BY <3>1, <3>2 DEF RunInv, JobsOnce
  <2> QED
    BY <1>1, <2>1, <2>2
<1>4. /\ Active \subseteq Active' /\ Active' \subseteq Active \cup {h}
      /\ Known' \subseteq Known \cup {h}
  BY <1>1, <1>3 DEF Active, Known, ToSet
<1>5. RunTypeOK'
  BY <1>1, <1>3 DEF RunInv, RunTypeOK
<1>6. JobsClean'
  BY <1>1, <1>4 DEF RunInv, JobsClean, Working
<1>7. JobsOnce'
  BY <1>1, <1>2, <1>3, <1>4 DEF RunInv, JobsOnce, Active
<1>8. GateAlone'
  BY <1>1 DEF RunInv, GateAlone, RunsGate, Publishing, Working
<1>9. CanaryInOrder'
  <2> SUFFICES ASSUME RunsCanary', ~script'.short, Flawless, NEW v \in script.made,
                      version[v] = "INACTIVE"
               PROVE  SnapshotLast(v)'
    BY <1>1 DEF RunInv, CanaryInOrder, RunsCanary, Flawless, Working
  <2>1. queue' = Append(queue, h) /\ ~script.short /\ v \in Version
    BY <1>1 DEF Script
  <2>2. SnapshotLast(v)
    BY <1>1, <2>1 DEF RunInv, CanaryInOrder, RunsCanary
  <2>3. /\ Len(queue) \in Nat /\ DOMAIN queue = 1..Len(queue)
        /\ DOMAIN queue' = 1..(Len(queue) + 1) /\ queue'[Len(queue) + 1] = h
        /\ ToSet(queue') = ToSet(queue) \cup {h}
    BY <1>1, <1>2, <2>1, Appended
  <2> DEFINE snapshot == <<v, "snapshot">>
  <2>4. snapshot[2] = "snapshot" /\ snapshot \in Whole(v) /\ Whole(v)' = Whole(v)
    BY DEF Whole, Backend
  <2>5. /\ Whole(v) \cap resting' = {} /\ Whole(v) \cap leased' \subseteq {script'.job}
        /\ snapshot \in ToSet(queue') \cup ToSet(script'.todo) => snapshot \in stored'
    BY <1>1, <2>2, <2>3 DEF SnapshotLast
  <2>6. ASSUME NEW x \in Whole(v) \cap (stored \cup ToSet(queue'))
        PROVE  \/ x \in ToSet(script'.todo) \cup {script'.job}
               \/ x \in ToSet(queue') /\ snapshot \in ToSet(script'.todo)
               \/ \E i, k \in DOMAIN queue' : i <= k /\ queue'[i] = x /\ queue'[k] = snapshot
    <3>1. \/ x \in ToSet(script.todo) \cup {script.job}
          \/ x \in ToSet(queue) /\ snapshot \in ToSet(script.todo)
          \/ \E i, k \in DOMAIN queue : i <= k /\ queue[i] = x /\ queue[k] = snapshot
      BY <1>1, <2>2, <2>3 DEF SnapshotLast
    <3> HIDE DEF snapshot
    <3>2. CASE x \in ToSet(script'.todo) \cup {script'.job}
      BY <3>2
\* The job just appended is the last one, or the snapshot is still to come.
    <3>3. CASE x = h
      <4>1. CASE snapshot = h
        BY <2>3, <3>3, <4>1
      <4>2. CASE snapshot # h
        <5>1. snapshot \in ToSet(script.todo)
          BY <1>1, <2>1, <3>3, Scheduling DEF snapshot, RunInv
        <5> QED
          BY <1>1, <2>3, <3>3, <4>2, <5>1
      <4> QED
        BY <4>1, <4>2
    <3>4. CASE x \in ToSet(queue) /\ snapshot \in ToSet(script.todo)
      <4>1. CASE snapshot = h
        <5>1. PICK i \in DOMAIN queue : queue[i] = x
          BY <3>4 DEF ToSet
        <5>2. i <= Len(queue) + 1 /\ i \in DOMAIN queue' /\ queue'[i] = x
          BY <1>3, <2>3, <5>1
        <5> QED
          BY <2>3, <4>1, <5>2
      <4> QED
        BY <1>1, <2>3, <3>4, <4>1
    <3>5. CASE \E i, k \in DOMAIN queue : i <= k /\ queue[i] = x /\ queue[k] = snapshot
      BY <1>3, <3>5
    <3> QED
      BY <1>1, <3>1, <3>2, <3>3, <3>4, <3>5
  <2> QED
    BY <1>1, <2>4, <2>5, <2>6 DEF SnapshotLast
<1>10. PassedIsGone'
  <2> SUFFICES ASSUME NEW q \in RunId, report[q] = "PASS"
               PROVE  (Active' \cup ToSet(script'.todo)) \cap JobsOf(q) = {}
    BY <1>1 DEF RunInv, PassedIsGone, VersionsOf, Whole, JobsOf, Version, Backend
  <2> QED
    BY <1>1, <1>4 DEF RunInv, PassedIsGone
<1> QED
  BY <1>5, <1>6, <1>7, <1>8, <1>9, <1>10 DEF RunInv

\* Three jobs of a version, as many versions of a run as it has papers.
LEMMA JobCount ==
  ASSUME NEW r \in RunId, NEW made \in SUBSET VersionsOf(r)
  PROVE  /\ IsFiniteSet(made \X Backend)
         /\ Cardinality(made \X Backend) = 3 * Cardinality(made)
         /\ Cardinality(VersionsOf(r)) = Papers[r]
<1> DEFINE n == Papers[r]
<1>0. n \in Nat \ {0} /\ VersionsOf(r) = {r} \X (1..n)
  BY Versions, RunAssumption
<1> HIDE DEF n
<1>1. IsFiniteSet(1..n) /\ Cardinality(1..n) = n
  <2>1. 1 \in Int /\ n \in Int
    BY <1>0
  <2>2. IsFiniteSet(1..n) /\ Cardinality(1..n) = IF 1 > n THEN 0 ELSE n - 1 + 1
    BY <2>1, FS_Interval
  <2> QED
    BY <1>0, <2>2
<1>2. IsFiniteSet({r}) /\ Cardinality({r}) = 1
  BY FS_Singleton
<1>3. IsFiniteSet(VersionsOf(r)) /\ Cardinality(VersionsOf(r)) = n
  <2>1. /\ IsFiniteSet({r} \X (1..n))
        /\ Cardinality({r} \X (1..n)) = Cardinality({r}) * Cardinality(1..n)
    BY <1>1, <1>2, FS_Product
  <2> QED
    BY <1>0, <1>1, <1>2, <2>1
<1>4. IsFiniteSet(made) /\ Cardinality(made) \in Nat
  BY <1>3, FS_Subset, FS_CardinalityType
<1>5. IsFiniteSet(Backend) /\ Cardinality(Backend) = 3
  <2>1. IsFiniteSet({"elasticsearch"}) /\ Cardinality({"elasticsearch"}) = 1
    BY FS_Singleton
  <2>2. /\ IsFiniteSet({"elasticsearch"} \cup {"milvus"})
        /\ Cardinality({"elasticsearch"} \cup {"milvus"}) = 2
    BY <2>1, FS_AddElement
  <2>3. /\ IsFiniteSet(({"elasticsearch"} \cup {"milvus"}) \cup {"snapshot"})
        /\ Cardinality(({"elasticsearch"} \cup {"milvus"}) \cup {"snapshot"}) = 3
    BY <2>2, FS_AddElement
  <2>4. Backend = ({"elasticsearch"} \cup {"milvus"}) \cup {"snapshot"}
    BY DEF Backend
  <2> QED
    BY <2>3, <2>4
<1>6. IsFiniteSet(made \X Backend) /\ Cardinality(made \X Backend) = Cardinality(made) * 3
  BY <1>4, <1>5, FS_Product
<1> QED
  BY <1>3, <1>4, <1>6 DEF n

LEMMA ScheduledKeeps ==
  ASSUME RunInv, Scheduled
  PROVE  RunInv'
<1>1. /\ script.stage = "retire" /\ script.todo = <<>> /\ Idle.stage = "idle" /\ script # Idle
      /\ script \in Script /\ script.run \in RunId /\ script.made \subseteq VersionsOf(script.run)
      /\ UNCHANGED <<kind, version, stored, queue, resting, leased, settled, attempts>>
  BY DEF Scheduled, At, database, jobs, RunInv, RunTypeOK, Idle, Started
<1>2. CASE Finish(script.run, "FAIL")
  BY <1>1, <1>2, FinishKeeps DEF Scheduled
<1>3. CASE /\ Enter("work") /\ UNCHANGED report /\ ~script.short
           /\ kind[script.run] # "canary" => Active = script.made \X Backend
  <2>1. /\ script' \in Script /\ script'.stage = "work" /\ SameWork(script', script)
        /\ script' # Idle
    <3>1. script' = [script EXCEPT !.stage = "work"] /\ "work" \in RunStage
      BY <1>3 DEF Enter, RunStage, Working
    <3> QED
      BY <1>1, <3>1 DEF Script, SameWork
  <2>2. /\ script'.run = script.run /\ script'.made = script.made /\ script'.todo = <<>>
        /\ script'.results = <<>> /\ script.results = <<>> /\ script'.job = <<>>
        /\ script.job = <<>>
        /\ script'.short = script.short /\ script'.recovers = script.recovers
    BY <1>1, <2>1 DEF SameWork, RunInv, JobsClean, Working
  <2>3. RunTypeOK'
    BY <1>1, <1>3, <2>1, <2>2 DEF RunInv, RunTypeOK
  <2>4. Known' = Known /\ Active' = Active /\ Active \subseteq Known
    BY <1>1 DEF Known, Active
  <2>5. JobsClean' /\ JobsOnce'
    BY <1>1, <2>1, <2>2, <2>4 DEF RunInv, JobsClean, JobsOnce, Whole, Working
  <2>6. GateAlone'
    <3> SUFFICES ASSUME RunsGate
                 PROVE  /\ resting = {} /\ leased = {} /\ Active = script.made \X Backend
                        /\ \A v \in script.made : version[v] = "INACTIVE"
                        /\ Len(script'.results) + Cardinality(Active) = 3 * Cardinality(script.made)
      BY <1>1, <2>1, <2>2, <2>4 DEF GateAlone, RunsGate, Publishing, Working
    <3>1. resting = {} /\ leased = {}
      BY <1>1 DEF RunInv, GateAlone, Publishing
    <3>2. Active = script.made \X Backend
      BY <1>3 DEF RunsGate
    <3>3. ASSUME NEW v \in script.made
          PROVE  version[v] = "INACTIVE"
      <4>1. <<v, "snapshot">> \in Known
        BY <2>4, <3>2 DEF Backend
      <4> QED
        BY <4>1 DEF RunInv, JobsClean
    <3>4. Len(script'.results) = 0 /\ Cardinality(script.made \X Backend) = 3 * Cardinality(script.made)
      BY <1>1, <2>2, JobCount
    <3>5. Cardinality(script.made \X Backend) \in Nat
      BY <1>1, JobCount, FS_CardinalityType
    <3> QED
      BY <3>1, <3>2, <3>3, <3>4, <3>5
  <2>7. CanaryInOrder'
    <3> SUFFICES ASSUME RunsCanary
                 PROVE  /\ ~script.recovers /\ script.made = VersionsOf(script.run)
                        /\ \A v \in script.made : version[v] \in {"READY", "INACTIVE"}
                        /\ \A v \in script.made : version[v] = "INACTIVE" => SnapshotLast(v)'
      BY <1>1, <1>3, <2>1, <2>2 DEF CanaryInOrder, RunsCanary, Working, VersionsOf, Version
    <3>1. Flawless
      BY <2>2 DEF Flawless
    <3>2. \A v \in script.made : version[v] = "INACTIVE" => SnapshotLast(v)
      BY <1>1, <1>3, <3>1 DEF RunInv, CanaryInOrder
    <3>3. \A v \in script.made : SnapshotLast(v) => SnapshotLast(v)'
      BY <1>1, <2>2 DEF SnapshotLast, Whole
    <3> QED
      BY <1>1, <3>2, <3>3 DEF RunInv, CanaryInOrder
  <2>8. PassedIsGone'
    BY <1>1, <1>3, <2>2, <2>4 DEF RunInv, PassedIsGone, VersionsOf, Whole, JobsOf, Version
  <2> QED
    BY <2>3, <2>5, <2>6, <2>7, <2>8 DEF RunInv
<1> QED
  BY <1>2, <1>3 DEF Scheduled

-----------------------------------------------------------------------------
(* The worker. *)

\* What claim_cleanup takes is the first of what is due: the queue, then expired leases.
LEMMA Claims ==
  ASSUME RunInv, Claim
  PROVE  \E expired \in SUBSET leased, due \in Seq(Job) :
           /\ ToSet(due) \subseteq ToSet(queue) \cup expired /\ ToSet(queue) \subseteq ToSet(due)
           /\ \A i, k \in DOMAIN due : due[i] = due[k] => i = k
           /\ \A i \in DOMAIN queue : i \in DOMAIN due /\ due[i] = queue[i]
           /\ due # <<>> /\ queue' = Tail(due)
           /\ leased' = (leased \ expired) \cup {Head(due)}
           /\ settled \subseteq settled' /\ settled' \subseteq settled \cup expired \X {"FAILED"}
           /\ attempts' = [attempts EXCEPT ![Head(due)] = @ + 1]
           /\ script' = [script EXCEPT !.job = Head(due), !.stage = "delete"]
<1>1. PICK expired \in SUBSET leased :
        LET spent == {j \in expired : attempts[j] >= MaxAttempts}
            due == queue \o SetToSeq(expired \ spent)
        IN
        /\ due # <<>>
        /\ queue' = Tail(due)
        /\ leased' = (leased \ expired) \cup {Head(due)}
        /\ settled' = settled \cup spent \X {"FAILED"}
        /\ attempts' = [attempts EXCEPT ![Head(due)] = @ + 1]
        /\ script' = [script EXCEPT !.job = Head(due), !.stage = "delete"]
  BY DEF Claim
<1> DEFINE spent == {j \in expired : attempts[j] >= MaxAttempts}
           again == SetToSeq(expired \ spent)
           due == queue \o again
<1>2. IsFiniteSet(expired \ spent)
  <2>1. IsFiniteSet(leased) /\ expired \ spent \in SUBSET leased
    BY DEF RunInv, RunTypeOK
  <2> QED
    BY <2>1, FS_Subset
<1>3. /\ again \in Seq(expired \ spent) /\ ToSet(again) = expired \ spent
      /\ \A i, k \in DOMAIN again : again[i] = again[k] => i = k
  BY <1>2, SetInSequence
<1>4. queue \in Seq(Job) /\ again \in Seq(Job) /\ spent \subseteq expired
  <2>1. expired \ spent \subseteq Job
    BY DEF RunInv, RunTypeOK
  <2> HIDE DEF again, spent
  <2>2. again \in Seq(Job)
    BY <1>3, <2>1
  <2> QED
    BY <2>2 DEF RunInv, RunTypeOK, spent
<1> HIDE DEF again, spent
<1>5. /\ due \in Seq(Job) /\ ToSet(due) = ToSet(queue) \cup ToSet(again)
      /\ \A i \in DOMAIN queue : i \in DOMAIN due /\ due[i] = queue[i]
      /\ \A i \in DOMAIN due :
           i \in DOMAIN queue \/ (i - Len(queue) \in DOMAIN again /\ due[i] = again[i - Len(queue)])
  BY <1>4, Joined
<1>6. \A i, k \in DOMAIN due : due[i] = due[k] => i = k
  <2> SUFFICES ASSUME NEW i \in DOMAIN due, NEW k \in DOMAIN due, due[i] = due[k]
               PROVE  i = k
    OBVIOUS
  <2>1. \A x \in ToSet(again) : x \in leased /\ x \notin ToSet(queue)
    BY <1>3 DEF RunInv, JobsOnce
  <2>2. i \in Nat /\ k \in Nat /\ Len(queue) \in Nat
    BY <1>4, <1>5
  <2>3. /\ \A n \in DOMAIN queue : due[n] \in ToSet(queue)
        /\ \A n \in DOMAIN again : again[n] \in ToSet(again)
    BY <1>5 DEF ToSet
  <2> HIDE DEF due
  <2>4. CASE i \in DOMAIN queue /\ k \in DOMAIN queue
    BY <1>5, <2>4 DEF RunInv, JobsOnce
  <2>5. CASE i \notin DOMAIN queue /\ k \notin DOMAIN queue
    <3>1. i - Len(queue) = k - Len(queue)
      BY <1>3, <1>5, <2>5
    <3> QED
      BY <2>2, <3>1
  <2>6. CASE (i \in DOMAIN queue) # (k \in DOMAIN queue)
    BY <1>5, <2>1, <2>3, <2>6
  <2> QED
    BY <2>4, <2>5, <2>6
<1>7. ToSet(due) \subseteq ToSet(queue) \cup expired /\ ToSet(queue) \subseteq ToSet(due)
  BY <1>3, <1>5
<1>8. /\ due # <<>> /\ queue' = Tail(due)
      /\ leased' = (leased \ expired) \cup {Head(due)}
      /\ settled' = settled \cup spent \X {"FAILED"}
      /\ attempts' = [attempts EXCEPT ![Head(due)] = @ + 1]
      /\ script' = [script EXCEPT !.job = Head(due), !.stage = "delete"]
  BY <1>1 DEF due, again, spent
<1>9. settled \subseteq settled' /\ settled' \subseteq settled \cup expired \X {"FAILED"}
  BY <1>4, <1>8
<1> HIDE DEF due
<1> QED
  BY <1>5, <1>6, <1>7, <1>8, <1>9

LEMMA NoJob == \A j \in Job : j # <<>>
<1> SUFFICES ASSUME NEW v \in Version, NEW b \in Backend
             PROVE  <<v, b>> # <<>>
  BY DEF Job
<1>1. Len(<<v, b>>) = 2 /\ Len(<<>>) = 0
  OBVIOUS
<1> QED
  BY <1>1

LEMMA ClaimKeeps ==
  ASSUME RunInv, Claim
  PROVE  RunInv'
<1>1. PICK expired \in SUBSET leased, due \in Seq(Job) :
        /\ ToSet(due) \subseteq ToSet(queue) \cup expired /\ ToSet(queue) \subseteq ToSet(due)
        /\ \A i, k \in DOMAIN due : due[i] = due[k] => i = k
        /\ \A i \in DOMAIN queue : i \in DOMAIN due /\ due[i] = queue[i]
        /\ due # <<>> /\ queue' = Tail(due)
        /\ leased' = (leased \ expired) \cup {Head(due)}
        /\ settled \subseteq settled' /\ settled' \subseteq settled \cup expired \X {"FAILED"}
        /\ attempts' = [attempts EXCEPT ![Head(due)] = @ + 1]
        /\ script' = [script EXCEPT !.job = Head(due), !.stage = "delete"]
  BY Claims
<1> DEFINE h == Head(due)
<1>2. /\ queue' \in Seq(Job) /\ h \in Job /\ h = due[1] /\ 1 \in DOMAIN due
      /\ \A i \in DOMAIN queue' : i + 1 \in DOMAIN due /\ queue'[i] = due[i + 1]
      /\ \A i \in DOMAIN due : i = 1 \/ (i - 1 \in DOMAIN queue' /\ queue'[i - 1] = due[i])
      /\ ToSet(due) = {h} \cup ToSet(queue')
      /\ \A i \in DOMAIN due : i \in Nat \ {0}
      /\ \A i \in DOMAIN queue' : i \in Nat
  BY <1>1, FirstAndRest
<1>3. /\ script.stage = "work" /\ script \in Script /\ script.job = <<>> /\ script.todo = <<>>
      /\ script # Idle /\ script.run \in RunId
      /\ UNCHANGED <<kind, version, stored, resting, report>>
  BY DEF Claim, At, database, RunInv, RunTypeOK, JobsClean, Idle, Started
<1> HIDE DEF h
<1>4. /\ script' \in Script /\ script'.stage = "delete" /\ script'.job = h /\ script' # Idle
      /\ script'.run = script.run /\ script'.made = script.made /\ script'.todo = <<>>
      /\ script'.results = script.results /\ script'.short = script.short
      /\ script'.recovers = script.recovers
  <2>1. "delete" \in RunStage /\ Idle.stage = "idle"
    BY DEF RunStage, Working, Idle, Started
  <2>2. script' = [script EXCEPT !.job = h, !.stage = "delete"]
    BY <1>1 DEF h
  <2> QED
    BY <1>2, <1>3, <2>1, <2>2 DEF Script
<1>5. leased' = (leased \ expired) \cup {h} /\ ToSet(due) = ToSet(queue') \cup {h}
  BY <1>1, <1>2 DEF h
<1>6. /\ h \notin ToSet(queue') /\ h \in ToSet(queue) \cup expired
      /\ ToSet(queue') \subseteq ToSet(queue) \cup expired
  <2>1. \A i \in DOMAIN queue' : queue'[i] # h
    <3> SUFFICES ASSUME NEW i \in DOMAIN queue', queue'[i] = h
                 PROVE  FALSE
      OBVIOUS
    <3>1. i + 1 \in DOMAIN due /\ due[i + 1] = due[1] /\ 1 \in DOMAIN due /\ i \in Nat
      BY <1>2
    <3>2. i + 1 = 1 /\ i + 1 # 1
      <4>1. i + 1 = 1
        BY <1>1, <3>1
      <4>2. i # 0
        BY <3>1, FirstAndRest, <1>2
      <4> QED
        BY <3>1, <4>1, <4>2
    <3> QED
      BY <3>2
  <2> QED
    BY <1>1, <1>5, <2>1 DEF ToSet
<1>7. Known' \subseteq Known /\ Active' \subseteq Active
  BY <1>1, <1>3, <1>5, <1>6 DEF Known, Active
<1>8. RunTypeOK'
  <2>1. leased' \subseteq Job /\ IsFiniteSet(leased')
    <3>1. IsFiniteSet(leased) /\ leased \ expired \in SUBSET leased /\ leased \subseteq Job
      BY DEF RunInv, RunTypeOK
    <3>2. IsFiniteSet(leased \ expired)
      BY <3>1, FS_Subset
    <3> QED
      BY <1>2, <1>5, <3>1, <3>2, FS_AddElement
  <2>2. settled' \subseteq Job \X {"SUCCEEDED", "FAILED"}
    BY <1>1 DEF RunInv, RunTypeOK
  <2>3. attempts' \in [Job -> Nat]
    BY <1>1 DEF RunInv, RunTypeOK
  <2> QED
    BY <1>2, <1>3, <1>4, <2>1, <2>2, <2>3 DEF RunInv, RunTypeOK
<1>9. JobsClean'
  <2>1. \A j \in stored : <<j, "SUCCEEDED">> \notin settled'
    BY <1>1 DEF RunInv, JobsClean
  <2> QED
    BY <1>3, <1>4, <1>5, <1>7, <2>1, NoItems DEF RunInv, JobsClean, Whole, Working
<1>10. JobsOnce'
  <2>1. \A i, k \in DOMAIN queue' : queue'[i] = queue'[k] => i = k
    <3> SUFFICES ASSUME NEW i \in DOMAIN queue', NEW k \in DOMAIN queue', queue'[i] = queue'[k]
                 PROVE  i = k
      OBVIOUS
    <3>1. i + 1 = k + 1 /\ i \in Nat /\ k \in Nat
      BY <1>1, <1>2
    <3> QED
      BY <3>1
  <2>2. /\ ToSet(queue') \cap resting' = {} /\ ToSet(queue') \cap leased' = {}
        /\ resting' \cap leased' = {}
    <3>1. /\ (ToSet(queue) \cup leased) \cap resting = {} /\ ToSet(queue) \cap leased = {}
      BY DEF RunInv, JobsOnce
    <3> QED
      BY <1>3, <1>5, <1>6, <3>1
  <2> QED
    BY <1>4, <2>1, <2>2, NoItems DEF JobsOnce
<1>11. GateAlone'
  <2> SUFFICES ASSUME RunsGate, Flawless
               PROVE  /\ resting = {} /\ leased' = {h} \ {<<>>}
                      /\ Active' \subseteq script.made \X Backend
                      /\ (script.made \X Backend) \cap stored \subseteq Active'
                      /\ \A v \in script.made : version[v] = "INACTIVE"
                      /\ Len(script.results) + Cardinality(Active') = 3 * Cardinality(script.made)
    BY <1>3, <1>4 DEF GateAlone, RunsGate, Flawless, Publishing, Working
  <2>1. /\ resting = {} /\ leased = {}
        /\ Active \subseteq script.made \X Backend
        /\ (script.made \X Backend) \cap stored \subseteq Active
        /\ \A v \in script.made : version[v] = "INACTIVE"
        /\ Len(script.results) + Cardinality(Active) = 3 * Cardinality(script.made)
    BY <1>3 DEF RunInv, GateAlone, Working
  <2>2. leased' = {h} /\ h # <<>>
    BY <1>2, <1>5, <2>1, NoJob
  <2>3. Active' = Active
    <3>1. ToSet(due) = ToSet(queue)
      BY <1>1, <2>1
    <3> QED
      BY <1>3, <1>5, <2>1, <2>2, <3>1 DEF Active
  <2> QED
    BY <2>1, <2>2, <2>3
<1>12. CanaryInOrder'
  <2>1. ASSUME NEW v \in Version, SnapshotLast(v)
        PROVE  SnapshotLast(v)'
    <3> DEFINE snapshot == <<v, "snapshot">>
    <3>1. /\ Whole(v) \cap resting = {} /\ Whole(v) \cap leased = {} /\ snapshot \in Whole(v)
          /\ snapshot \in ToSet(queue) => snapshot \in stored
          /\ \A x \in Whole(v) \cap (stored \cup ToSet(queue)) :
               \E i, k \in DOMAIN queue : i <= k /\ queue[i] = x /\ queue[k] = snapshot
      <4>1. Whole(v) \cap leased = {}
        <5>1. Whole(v) \cap leased \subseteq {<<>>} /\ leased \subseteq Job
          BY <1>3, <2>1 DEF SnapshotLast, RunInv, RunTypeOK
        <5> QED
          BY <5>1, NoJob
      <4>2. \A x \in Whole(v) : x # <<>>
        BY Jobs, NoJob
      <4> QED
        BY <1>3, <2>1, <4>1, <4>2, NoItems DEF SnapshotLast, Whole, Backend
    <3> HIDE DEF snapshot
    <3>2. Whole(v) \cap leased' \subseteq {h}
      BY <1>5, <3>1
    <3>3. snapshot \in ToSet(queue') => snapshot \in stored
      BY <1>6, <3>1
    <3>4. ASSUME NEW x \in Whole(v) \cap (stored \cup ToSet(queue'))
          PROVE  x = h \/ \E i, k \in DOMAIN queue' : i <= k /\ queue'[i] = x /\ queue'[k] = snapshot
      <4>1. x \in Whole(v) \cap (stored \cup ToSet(queue))
        BY <1>6, <3>1
      <4>2. PICK i, k \in DOMAIN queue : i <= k /\ queue[i] = x /\ queue[k] = snapshot
        BY <3>1, <4>1
      <4>3. i \in DOMAIN due /\ k \in DOMAIN due /\ due[i] = x /\ due[k] = snapshot
        BY <1>1, <4>2
      <4>4. CASE i = 1
        BY <1>2, <4>3, <4>4
      <4>5. CASE i # 1
        <5>1. i \in Nat /\ k \in Nat /\ i <= k /\ i # 0 /\ i # 1
          BY <1>2, <4>2, <4>3, <4>5
        <5>2. k # 1 /\ i - 1 <= k - 1
          BY <5>1
        <5>3. /\ i - 1 \in DOMAIN queue' /\ queue'[i - 1] = x
              /\ k - 1 \in DOMAIN queue' /\ queue'[k - 1] = snapshot
          BY <1>2, <4>3, <4>5, <5>2
        <5> QED
          BY <5>2, <5>3
      <4> QED
        BY <4>4, <4>5
    <3>5. Whole(v) \cap resting' = {} /\ stored' = stored /\ ToSet(script'.todo) = {}
      BY <1>3, <1>4, <3>1, NoItems
    <3> QED
      BY <1>4, <3>2, <3>3, <3>4, <3>5 DEF SnapshotLast, snapshot, Whole
  <2>2. script.made \subseteq Version
    BY <1>3 DEF Script
  <2>3. ASSUME RunsCanary
        PROVE  /\ ~script.recovers /\ script.made = VersionsOf(script.run)
               /\ \A v \in script.made : version[v] \in {"READY", "INACTIVE"}
               /\ ~script.short
               /\ Flawless => \A v \in script.made : version[v] = "INACTIVE" => SnapshotLast(v)
    BY <1>3, <2>3 DEF RunInv, CanaryInOrder, Working
  <2> QED
    BY <1>3, <1>4, <2>1, <2>2, <2>3 DEF CanaryInOrder, RunsCanary, Flawless, Working, VersionsOf, Version
<1>13. PassedIsGone'
  BY <1>3, <1>4, <1>7 DEF RunInv, PassedIsGone, VersionsOf, Whole, JobsOf, Version, Backend
<1> QED
  BY <1>8, <1>9, <1>10, <1>11, <1>12, <1>13 DEF RunInv

\* A result is recorded and the worker looks for the next job.
LEMMA Outcomes ==
  ASSUME script \in Script, NEW ok \in BOOLEAN, Outcome(ok)
  PROVE  /\ script' \in Script /\ script' # Idle /\ script'.stage = "work" /\ script'.job = <<>>
         /\ script'.run = script.run /\ script'.made = script.made /\ script'.todo = script.todo
         /\ script'.short = script.short /\ script'.recovers = script.recovers
         /\ Len(script'.results) = Len(script.results) + 1 /\ Len(script.results) \in Nat
         /\ Flawless' => ok /\ Flawless
<1> DEFINE results == script.results
           more == Append(results, ok)
<1>1. results \in Seq(BOOLEAN)
  BY DEF Script
<1>2. /\ more \in Seq(BOOLEAN) /\ Len(more) = Len(results) + 1 /\ Len(results) \in Nat
      /\ \A i \in DOMAIN results : i \in DOMAIN more /\ more[i] = results[i]
      /\ Len(more) \in DOMAIN more /\ more[Len(more)] = ok
  BY <1>1
<1>3. "work" \in RunStage /\ Idle.stage = "idle"
  BY DEF RunStage, Working, Idle, Started
<1>4. script' = [script EXCEPT !.results = more, !.job = <<>>, !.stage = "work"]
  BY DEF Outcome
<1> HIDE DEF more
<1>5. /\ script' \in Script /\ script'.stage = "work" /\ script'.job = <<>>
      /\ script'.run = script.run /\ script'.made = script.made /\ script'.todo = script.todo
      /\ script'.short = script.short /\ script'.recovers = script.recovers
      /\ script'.results = more
  BY <1>2, <1>3, <1>4 DEF Script
<1>6. Flawless' => ok /\ Flawless
  BY <1>2, <1>5 DEF Flawless
<1> QED
  BY <1>2, <1>3, <1>5, <1>6

LEMMA DeleteKeeps ==
  ASSUME RunInv, Delete
  PROVE  RunInv'
<1> DEFINE h == script.job
<1>1. /\ script.stage = "delete" /\ script \in Script /\ script.todo = <<>> /\ script # Idle
      /\ h \in leased /\ h \in Job /\ h # <<>> /\ script.run \in RunId
      /\ h \notin ToSet(queue) /\ h \notin resting /\ version[h[1]] = "INACTIVE"
      /\ UNCHANGED <<kind, version, queue, attempts, report>>
  <2>1. script.stage = "delete" /\ script # Idle /\ h \in leased /\ h \in Job
    BY DEF Delete, At, RunInv, RunTypeOK, JobsClean, Idle, Started
  <2>2. h \notin ToSet(queue) /\ h \notin resting /\ h \in Known
    BY <2>1 DEF RunInv, JobsOnce, Known, Active
  <2> QED
    BY <2>1, <2>2, NoJob DEF Delete, RunInv, RunTypeOK, JobsClean
<1>2. /\ \A v \in Version : h \in Whole(v) => version[v] = "INACTIVE"
      /\ \A v \in Version : <<v, "snapshot">> \in Whole(v)
  BY <1>1, Jobs DEF Whole, Backend
<1> HIDE DEF h
<1>3. CASE stored' = stored \ {h} /\ Enter("complete") /\ UNCHANGED <<resting, leased, settled>>
  <2>1. script' \in Script /\ script'.stage = "complete" /\ SameWork(script', script) /\ script' # Idle
    <3>1. "complete" \in RunStage /\ Idle.stage = "idle"
      BY DEF RunStage, Working, Idle, Started
    <3> QED
      BY <1>1, <1>3, <3>1 DEF Enter, Script, SameWork
  <2>2. Known' = Known /\ Active' = Active
    BY <1>1, <1>3 DEF Known, Active
  <2>3. RunTypeOK'
    BY <1>1, <1>3, <2>1 DEF RunInv, RunTypeOK, SameWork
  <2>4. JobsClean' /\ JobsOnce'
    <3>1. h = script'.job /\ h \in leased' /\ h \notin stored'
      BY <1>1, <1>3, <2>1 DEF SameWork, h
    <3>2. \A v \in Version : version[v] = "READY" => Whole(v) \subseteq stored'
      BY <1>2, <1>3 DEF RunInv, JobsClean
    <3> QED
      BY <1>1, <1>3, <2>1, <2>2, <3>1, <3>2
      DEF RunInv, JobsClean, JobsOnce, SameWork, Whole, Working
  <2>5. GateAlone'
    BY <1>1, <1>3, <2>1, <2>2 DEF RunInv, GateAlone, RunsGate, Flawless, SameWork, Publishing, Working
  <2>6. CanaryInOrder'
    <3>1. ASSUME NEW v \in Version, SnapshotLast(v)
          PROVE  SnapshotLast(v)'
      BY <1>1, <1>3, <2>1, <3>1, NoItems DEF SnapshotLast, SameWork, Whole
    <3>2. script.made \subseteq Version
      BY <1>1 DEF Script
    <3> QED
      BY <1>1, <2>1, <3>1, <3>2
      DEF RunInv, CanaryInOrder, RunsCanary, Flawless, SameWork, Working, VersionsOf, Version
  <2>7. PassedIsGone'
    BY <1>1, <1>3, <2>1, <2>2 DEF RunInv, PassedIsGone, SameWork, VersionsOf, Whole, JobsOf, Version
  <2> QED
    BY <2>3, <2>4, <2>5, <2>6, <2>7 DEF RunInv
<1>4. CASE /\ stored' \in {stored, stored \ {h}} /\ leased' = leased \ {h}
           /\ \/ settled' = settled \cup {<<h, "FAILED">>} /\ UNCHANGED resting
              \/ resting' = resting \cup {h} /\ UNCHANGED settled
           /\ Outcome(FALSE)
  <2>1. /\ script' \in Script /\ script' # Idle /\ script'.stage = "work" /\ script'.job = <<>>
        /\ script'.run = script.run /\ script'.made = script.made /\ script'.todo = script.todo
        /\ script'.short = script.short /\ script'.recovers = script.recovers /\ ~Flawless'
    BY <1>1, <1>4, Outcomes
  <2>2. Known' \subseteq Known /\ Active' \subseteq Active
    BY <1>1, <1>4 DEF Known, Active
  <2>3. RunTypeOK'
    <3>1. IsFiniteSet(leased')
      <4>1. IsFiniteSet(leased) /\ leased' \in SUBSET leased
        BY <1>4 DEF RunInv, RunTypeOK
      <4> QED
        BY <4>1, FS_Subset
    <3>2. /\ stored' \subseteq Job /\ resting' \subseteq Job /\ leased' \subseteq Job
          /\ settled' \subseteq Job \X {"SUCCEEDED", "FAILED"}
      BY <1>1, <1>4 DEF RunInv, RunTypeOK
    <3> QED
      BY <1>1, <2>1, <3>1, <3>2 DEF RunInv, RunTypeOK
  <2>4. JobsClean'
    <3>1. \A v \in Version : /\ version[v] = "none" => Whole(v) \cap stored' = {}
                             /\ version[v] = "READY" => Whole(v) \subseteq stored'
      BY <1>2, <1>4 DEF RunInv, JobsClean
    <3>2. \A j \in stored' : <<j, "SUCCEEDED">> \notin settled'
      <4>1. stored' \subseteq stored
        BY <1>4
      <4>2. \A j : <<j, "SUCCEEDED">> \in settled' => <<j, "SUCCEEDED">> \in settled
        BY <1>4
      <4> QED
        BY <4>1, <4>2 DEF RunInv, JobsClean
    <3> QED
      BY <1>1, <2>1, <2>2, <3>1, <3>2, NoItems DEF RunInv, JobsClean, Whole, Working
  <2>5. JobsOnce'
    BY <1>1, <1>4, <2>1, <2>2, NoItems DEF RunInv, JobsOnce
  <2>6. GateAlone'
    BY <2>1 DEF GateAlone, Publishing
  <2>7. CanaryInOrder'
    BY <1>1, <2>1 DEF RunInv, CanaryInOrder, RunsCanary, Working, VersionsOf, Version
  <2>8. PassedIsGone'
    BY <1>1, <1>4, <2>1, <2>2 DEF RunInv, PassedIsGone, VersionsOf, Whole, JobsOf, Version
  <2> QED
    BY <2>3, <2>4, <2>5, <2>6, <2>7, <2>8 DEF RunInv
<1> QED
  BY <1>1, <1>3, <1>4 DEF Delete, h

LEMMA CompleteKeeps ==
  ASSUME RunInv, Complete
  PROVE  RunInv'
<1> DEFINE h == script.job
<1>1. /\ script.stage = "complete" /\ script \in Script /\ script.todo = <<>> /\ script # Idle
      /\ h \in leased /\ h \in Job /\ h # <<>> /\ h \notin stored /\ script.run \in RunId
      /\ h \notin ToSet(queue) /\ h \notin resting /\ script.made \subseteq VersionsOf(script.run)
      /\ UNCHANGED <<kind, version, stored, queue, resting, attempts, report>>
  <2>1. script.stage = "complete" /\ script # Idle /\ h \in leased /\ h \in Job /\ h \notin stored
    BY DEF Complete, At, RunInv, RunTypeOK, JobsClean, Idle, Started
  <2>2. h \notin ToSet(queue) /\ h \notin resting
    BY <2>1 DEF RunInv, JobsOnce
  <2> QED
    BY <2>1, <2>2, NoJob DEF Complete, RunInv, RunTypeOK, JobsClean, database
<1>2. /\ leased' = leased \ {h} /\ settled' = settled \cup {<<h, "SUCCEEDED">>}
  BY DEF Complete, h
<1>3. /\ script' \in Script /\ script' # Idle /\ script'.stage = "work" /\ script'.job = <<>>
      /\ script'.run = script.run /\ script'.made = script.made /\ script'.todo = script.todo
      /\ script'.short = script.short /\ script'.recovers = script.recovers
      /\ Len(script'.results) = Len(script.results) + 1 /\ Len(script.results) \in Nat
      /\ Flawless' => Flawless
  BY <1>1, Outcomes DEF Complete
<1>4. Known' \subseteq Known /\ Active' = Active \ {h} /\ h \in Active
  BY <1>1, <1>2 DEF Known, Active
<1>5. RunTypeOK'
  <2>1. IsFiniteSet(leased')
    <3>1. IsFiniteSet(leased) /\ leased' \in SUBSET leased
      BY <1>2 DEF RunInv, RunTypeOK
    <3> QED
      BY <3>1, FS_Subset
  <2>2. leased' \subseteq Job /\ settled' \subseteq Job \X {"SUCCEEDED", "FAILED"}
    BY <1>1, <1>2 DEF RunInv, RunTypeOK
  <2> QED
    BY <1>1, <1>3, <2>1, <2>2 DEF RunInv, RunTypeOK
<1>6. JobsClean'
  <2>1. \A j \in stored : <<j, "SUCCEEDED">> \notin settled'
    BY <1>1, <1>2 DEF RunInv, JobsClean
  <2> HIDE DEF h
  <2> QED
    BY <1>1, <1>3, <1>4, <2>1, NoItems DEF RunInv, JobsClean, Whole, Working
<1>7. JobsOnce'
  BY <1>1, <1>2, <1>3, <1>4, NoItems DEF RunInv, JobsOnce
<1>8. GateAlone'
  <2> SUFFICES ASSUME RunsGate, Flawless
               PROVE  /\ resting = {} /\ leased' = {<<>>} \ {<<>>}
                      /\ Active' \subseteq script.made \X Backend
                      /\ (script.made \X Backend) \cap stored \subseteq Active'
                      /\ \A v \in script.made : version[v] = "INACTIVE"
                      /\ Len(script'.results) + Cardinality(Active') = 3 * Cardinality(script.made)
    BY <1>1, <1>3 DEF GateAlone, RunsGate, Publishing, Working
  <2>1. /\ resting = {} /\ leased = {h} \ {<<>>}
        /\ Active \subseteq script.made \X Backend
        /\ (script.made \X Backend) \cap stored \subseteq Active
        /\ \A v \in script.made : version[v] = "INACTIVE"
        /\ Len(script.results) + Cardinality(Active) = 3 * Cardinality(script.made)
    BY <1>1 DEF RunInv, GateAlone, Working
  <2>2. Cardinality(Active') = Cardinality(Active) - 1 /\ Cardinality(Active) \in Nat
    <3>1. IsFiniteSet(script.made \X Backend) /\ Active \in SUBSET (script.made \X Backend)
      BY <1>1, <2>1, JobCount
    <3>2. IsFiniteSet(Active)
      BY <3>1, FS_Subset
    <3>3. Cardinality(Active \ {h}) = Cardinality(Active) - 1
      BY <1>4, <3>2, FS_RemoveElement
    <3> QED
      BY <1>4, <3>2, <3>3, FS_CardinalityType
  <2>3. Len(script'.results) + Cardinality(Active') = 3 * Cardinality(script.made)
    <3>1. Len(script.results) + 1 + (Cardinality(Active) - 1) = Len(script.results) + Cardinality(Active)
      BY <1>3, <2>2
    <3> QED
      BY <1>3, <2>1, <2>2, <3>1
  <2> QED
    BY <1>1, <1>2, <1>4, <2>1, <2>3
<1>9. CanaryInOrder'
  <2>1. ASSUME NEW v \in Version, SnapshotLast(v)
        PROVE  SnapshotLast(v)'
    <3> HIDE DEF h
    <3>1. h = script.job /\ ToSet(script.todo) = {} /\ ToSet(script'.todo) = {}
      BY <1>1, <1>3, NoItems DEF h
    <3> QED
      BY <1>1, <1>2, <1>3, <2>1, <3>1 DEF SnapshotLast, Whole
  <2>2. script.made \subseteq Version
    BY <1>1 DEF Script
  <2> QED
    BY <1>1, <1>3, <2>1, <2>2
    DEF RunInv, CanaryInOrder, RunsCanary, Working, VersionsOf, Version
<1>10. PassedIsGone'
  BY <1>1, <1>3, <1>4 DEF RunInv, PassedIsGone, VersionsOf, Whole, JobsOf, Version
<1> QED
  BY <1>5, <1>6, <1>7, <1>8, <1>9, <1>10 DEF RunInv

-----------------------------------------------------------------------------
(* The verdict. *)

\* What the worker of a canary has left when the snapshot rows are gone: nothing.
LEMMA NothingWaits ==
  ASSUME RunInv, NEW v \in Version, SnapshotLast(v), <<v, "snapshot">> \notin stored,
         script.todo = <<>>, script.job = <<>>
  PROVE  Whole(v) \cap (stored \cup Active) = {}
<1> DEFINE snapshot == <<v, "snapshot">>
<1>1. /\ Whole(v) \cap resting = {} /\ Whole(v) \cap leased \subseteq {<<>>}
      /\ snapshot \in ToSet(queue) => snapshot \in stored
      /\ \A x \in Whole(v) \cap (stored \cup ToSet(queue)) :
           x = <<>> \/ \E i, k \in DOMAIN queue : i <= k /\ queue[i] = x /\ queue[k] = snapshot
  BY NoItems DEF SnapshotLast
<1>2. \A x \in Whole(v) : x # <<>>
  BY Jobs, NoJob
<1>3. \A k \in DOMAIN queue : queue[k] # snapshot
  BY <1>1 DEF ToSet
<1> QED
  BY <1>1, <1>2, <1>3 DEF Active

LEMMA Erases ==
  ASSUME RunInv, Conclude, Verdict(script.run) = "PASS"
  PROVE  /\ \A v \in VersionsOf(script.run) : version[v] = "INACTIVE" /\ Whole(v) \cap stored = {}
         /\ Active \cap JobsOf(script.run) = {}
<1> DEFINE r == script.run
<1>1. /\ script.stage = "work" /\ script # Idle /\ r \in RunId /\ script.todo = <<>>
      /\ script.job = <<>> /\ script \in Script /\ script.made \subseteq VersionsOf(r)
  BY DEF Conclude, At, RunInv, RunTypeOK, JobsClean, Idle, Started
<1>2. VersionsOf(r) \subseteq Version /\ \A v \in VersionsOf(r) : Whole(v) \subseteq JobsOf(r)
  BY Versions DEF Whole, JobsOf
<1>3. AllSucceeded => Flawless
  BY DEF AllSucceeded, Flawless
<1>4. CASE script.recovers
  <2>1. Recovered(r)
    <3>1. kind[r] # "canary"
      BY <1>1, <1>4 DEF RunInv, CanaryInOrder, RunsCanary
    <3> QED
      BY <1>4, <3>1 DEF Verdict
  <2>2. \A j \in JobsOf(r) : j \notin stored
    BY <2>1 DEF Recovered, RunInv, JobsClean
  <2> QED
    BY <1>2, <2>1, <2>2 DEF Recovered
<1>5. CASE ~script.recovers /\ kind[r] = "canary"
  <2>1. CanaryClean(r)
    BY <1>5 DEF Verdict
  <2>2. /\ script.made = VersionsOf(r) /\ ~script.short
        /\ \A v \in script.made : version[v] \in {"READY", "INACTIVE"}
        /\ \A v \in script.made : version[v] = "INACTIVE" => SnapshotLast(v)
    BY <1>1, <1>3, <1>5, <2>1 DEF RunInv, CanaryInOrder, RunsCanary, Working, CanaryClean
  <2>3. \A v \in VersionsOf(r) : version[v] = "INACTIVE" /\ SnapshotLast(v)
    BY <2>1, <2>2 DEF CanaryClean, Ready
  <2>4. \A v \in VersionsOf(r) : Whole(v) \cap (stored \cup Active) = {}
    BY <1>1, <1>2, <2>1, <2>3, NothingWaits DEF CanaryClean
  <2>5. \A j \in JobsOf(r) : j \in Whole(j[1]) /\ j[1] \in VersionsOf(r)
    BY DEF JobsOf, Whole
  <2> QED
    BY <2>3, <2>4, <2>5
<1>6. CASE ~script.recovers /\ kind[r] # "canary"
  <2>1. GateClean(r)
    BY <1>6 DEF Verdict
  <2>2. /\ Active \subseteq script.made \X Backend
        /\ (script.made \X Backend) \cap stored \subseteq Active
        /\ \A v \in script.made : version[v] = "INACTIVE"
        /\ Len(script.results) + Cardinality(Active) = 3 * Cardinality(script.made)
    BY <1>1, <1>3, <1>6, <2>1 DEF RunInv, GateAlone, RunsGate, Working, GateClean
  <2>3. script.made = VersionsOf(r) /\ Len(script.results) = 3 * Papers[r]
    BY <2>1 DEF GateClean, AllSucceeded, Expected
  <2>4. /\ IsFiniteSet(script.made \X Backend) /\ Cardinality(VersionsOf(r)) = Papers[r]
        /\ Papers[r] \in Nat
    BY <1>1, JobCount, RunAssumption
  <2>5. IsFiniteSet(Active) /\ Cardinality(Active) \in Nat
    <3>1. Active \in SUBSET (script.made \X Backend)
      BY <2>2
    <3>2. IsFiniteSet(Active)
      BY <2>4, <3>1, FS_Subset
    <3> QED
      BY <3>2, FS_CardinalityType
  <2>6. Active = {}
    <3>1. Cardinality(Active) = 0
      BY <2>2, <2>3, <2>4, <2>5
    <3> QED
      BY <2>5, <3>1, FS_EmptySet
  <2> QED
    BY <1>2, <2>2, <2>3, <2>6 DEF JobsOf
<1> QED
  BY <1>4, <1>5, <1>6

-----------------------------------------------------------------------------
(* The theorems. *)

LEMMA RunStep ==
  ASSUME RunInv, [RunNext]_rvars
  PROVE  RunInv'
<1>1. ASSUME NEW r \in RunId, StartGate(r) \/ StartCanary(r) \/ StartRecovery(r)
      PROVE  RunInv'
  BY <1>1, StartKeeps
<1>2. CASE Publish
  BY <1>2, PublishKeeps
<1>3. CASE BuildControl \/ RunControl \/ RunTreatment \/ RunRegression \/ Adjudicate \/ Diagnose
           \/ Probe
  BY <1>3, MeasureKeeps DEF MeasureStep
<1>4. CASE Fail
  <2>1. CASE kind[script.run] = "canary"
    <3>1. /\ Finish(script.run, "FAIL") /\ UNCHANGED <<kind, database, jobs>> /\ script # Idle
      BY <1>4, <2>1 DEF Fail, At, Idle, Started
    <3> QED
      BY <3>1, FinishKeeps
  <2>2. CASE kind[script.run] # "canary"
    BY <1>4, <2>2, MeasureKeeps DEF MeasureStep
  <2> QED
    BY <2>1, <2>2
<1>5. CASE Inactivate
  BY <1>5, InactivateKeeps
<1>6. CASE Enqueue
  BY <1>6, EnqueueKeeps
<1>7. CASE Scheduled
  BY <1>7, ScheduledKeeps
<1>8. CASE Claim
  BY <1>8, ClaimKeeps
<1>9. CASE Delete
  BY <1>9, DeleteKeeps
<1>10. CASE Complete
  BY <1>10, CompleteKeeps
<1>11. CASE Conclude
  <2>1. /\ Finish(script.run, Verdict(script.run)) /\ UNCHANGED <<kind, database, jobs>>
        /\ script # Idle /\ Verdict(script.run) \in {"none", "PASS", "FAIL"}
    BY <1>11 DEF Conclude, At, Idle, Started, Verdict
  <2>2. Verdict(script.run) = "PASS" =>
          /\ \A v \in VersionsOf(script.run) : version[v] = "INACTIVE" /\ Whole(v) \cap stored = {}
          /\ Active \cap JobsOf(script.run) = {}
    BY <1>11, Erases
  <2> QED
    BY <2>1, <2>2, FinishKeeps
<1>12. CASE Kill
  <2>1. Finish(script.run, "none") /\ UNCHANGED <<kind, database, jobs>> /\ script # Idle
    BY <1>12 DEF Kill
  <2> QED
    BY <2>1, FinishKeeps
<1>13. ASSUME NEW j \in resting, Wake(j)
       PROVE  RunInv'
  BY <1>13, WakeKeeps
<1>14. CASE UNCHANGED rvars
  BY <1>14 DEF rvars, RunInv, RunTypeOK, JobsClean, JobsOnce, GateAlone, CanaryInOrder, PassedIsGone,
               SnapshotLast, Known, Active, Flawless, RunsGate, RunsCanary, Version, VersionsOf,
               Whole, JobsOf
<1> QED
  BY <1>1, <1>2, <1>3, <1>4, <1>5, <1>6, <1>7, <1>8, <1>9, <1>10, <1>11, <1>12, <1>13, <1>14
  DEF RunNext

\* Whichever scripts run one after the other, are killed and leave jobs behind, the
\* jobs of an INACTIVE version, the queue and the results of a worker stay in step
\* (persistent_cleanup.py:128-340).
THEOREM RunInvariant ==
  RunSpec => []RunInv
<1>1. RunInit => RunInv
  BY RunInitial
<1>2. RunInv /\ [RunNext]_rvars => RunInv'
  BY RunStep
<1> QED
  BY <1>1, <1>2, PTL DEF RunSpec

\* A report of PASS means that the run's papers, indexes, snapshot rows and cleanup jobs
\* are gone, for the gates, which count results, the canary, which looks at one PDF, and
\* the recovery (run_phase3_comparison_paired_dev_gate.py, run_stage1_remote_canary.py).
THEOREM PassMeansErasedAlways ==
  RunSpec => []PassMeansErased
<1>1. RunInv => PassMeansErased
  BY DEF RunInv, PassedIsGone, PassMeansErased, Erased
<1> QED
  BY <1>1, RunInvariant, PTL

\* What the audit calls clean from PostgreSQL alone has no index left: a job succeeds only
\* after its backend deleted the version, and no version comes back.
THEOREM CleanMeansErasedAlways ==
  RunSpec => []CleanMeansErased
<1>1. ASSUME RunInv, NEW r \in RunId, Clean(r)
      PROVE  Erased(r)
  <2>1. \A v \in VersionsOf(r) : v \in Version /\ version[v] \in {"none", "INACTIVE"}
    BY <1>1, Versions DEF Clean, Rows
  <2>2. ASSUME NEW v \in VersionsOf(r)
        PROVE  Whole(v) \cap stored = {}
    <3>1. CASE version[v] = "none"
      BY <1>1, <2>1, <3>1 DEF RunInv, JobsClean
    <3>2. CASE version[v] # "none"
      <4>1. v \in Rows(r)
        BY <3>2 DEF Rows
      <4>2. \A j \in Whole(v) : <<j, "SUCCEEDED">> \in settled
        BY <1>1, <4>1 DEF Clean, Whole
      <4> QED
        BY <1>1, <4>2 DEF RunInv, JobsClean
    <3> QED
      BY <3>1, <3>2
  <2> QED
    BY <1>1, <2>1, <2>2 DEF Erased, Clean
<1>2. RunInv => CleanMeansErased
  BY <1>1 DEF CleanMeansErased
<1> QED
  BY <1>2, RunInvariant, PTL

=============================================================================
