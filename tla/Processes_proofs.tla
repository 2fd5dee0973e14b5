-------------------------- MODULE Processes_proofs --------------------------
(***************************************************************************)
(* Theorems about what runs beside the questions: Migrations, for any      *)
(* number of migrators and builds; IndexBuild, for any number of builders  *)
(* and chunk files; EmbeddingPool, for any number of callers and any limit;*)
(* and ApiProcess, which opens and closes its client. The first two are    *)
(* about what a process that failed or was killed may leave, and what the  *)
(* others then make of it. The hard steps of the pool count: a caller that *)
(* opens a connection finds an object nobody uses, and the callers at the  *)
(* service are no more than the connections counted.                       *)
(***************************************************************************)
EXTENDS Migrations, IndexBuild, EmbeddingPool, ApiProcess, FiniteSetTheorems, TLAPS

-----------------------------------------------------------------------------
(* Migrations. *)

LEMMA MigrateInitial ==
  MigrateInit => MigrateInv
  <1> SUFFICES ASSUME MigrateInit PROVE MigrateInv
    OBVIOUS
  <1>1. MigrateTypeOK
    BY DEF MigrateInit, MigrateTypeOK
  <1>2. \A m \in Migrator : OpenTransaction(m)
    <2> SUFFICES ASSUME NEW m \in Migrator PROVE OpenTransaction(m)
      OBVIOUS
    <2>1. doing[m] = [stage |-> "look", at |-> 1] /\ pending[m] = {}
      BY DEF MigrateInit
    <2>2. Count(m) \in Nat
      BY MigrationAssumption
    <2> QED
      BY <2>1, <2>2 DEF OpenTransaction, Does
  <1>3. MigrationsRunOnce
    BY DEF MigrateInit, MigrationsRunOnce, Does
  <1> QED
    BY <1>1, <1>2, <1>3 DEF MigrateInv

\* Where an open transaction is.
LEMMA Position ==
  ASSUME MigrateTypeOK, NEW m \in Migrator, OpenTransaction(m),
         Does(m, "execute") \/ (Does(m, "look") /\ doing[m].at <= Count(m))
  PROVE  doing[m].at \in Migration /\ doing[m].at \in 1..Count(m)
  BY MigrationAssumption DEF MigrateTypeOK, OpenTransaction, Does, Migration

LEMMA TypesStep ==
  ASSUME MigrateInv, MigrateNext
  PROVE  MigrateTypeOK'
  <1> USE DEF MigrateInv, MigrateTypeOK, Turns
  <1>1. ASSUME NEW m \in Migrator, Look(m) PROVE MigrateTypeOK'
    BY <1>1 DEF Look
  <1>2. ASSUME NEW m \in Migrator, Execute(m) PROVE MigrateTypeOK'
    <2>1. doing[m].at \in Migration
      BY <1>2, Position DEF Execute
    <2> QED
      BY <1>2, <2>1 DEF Execute
  <1>3. ASSUME NEW m \in Migrator, Commit(m) PROVE MigrateTypeOK'
    BY <1>3 DEF Commit
  <1>4. ASSUME NEW m \in Migrator, Breaks(m) PROVE MigrateTypeOK'
    BY <1>4 DEF Breaks
  <1> QED
    BY <1>1, <1>2, <1>3, <1>4 DEF MigrateNext

\* What is recorded stays; a commit adds what its own transaction executed, all of it
\* and nothing else.
LEMMA CommitRecords ==
  ASSUME MigrateInv, NEW m \in Migrator, Commit(m)
  PROVE  /\ \A i \in pending[m] : recorded[i] = Unrecorded /\ recorded'[i] = Checksum[m][i]
         /\ \A i \in pending[m] : ran'[i] = ran[i] + 1
         /\ \A i \in Migration \ pending[m] : recorded'[i] = recorded[i] /\ ran'[i] = ran[i]
         /\ pending' = [pending EXCEPT ![m] = {}]
  <1>1. pending[m] \subseteq Migration
    BY DEF MigrateInv, MigrateTypeOK
  <1>2. \A i \in Migration : ran[i] \in Nat
    BY DEF MigrateInv, MigrationsRunOnce
  <1>3. \A i \in pending[m] : recorded[i] = Unrecorded
    BY DEF MigrateInv, OpenTransaction
  <1>4. \A i \in pending[m] : recorded'[i] = Checksum[m][i] /\ ran'[i] = ran[i] + 1
    BY <1>1 DEF Commit
  <1>5. \A i \in Migration \ pending[m] : recorded'[i] = recorded[i] /\ ran'[i] = ran[i]
    BY <1>2 DEF Commit
  <1> QED
    BY <1>3, <1>4, <1>5 DEF Commit

\* A transaction executes migrations of its own build.
LEMMA CommitPending ==
  ASSUME MigrateInv, NEW m \in Migrator, Commit(m)
  PROVE  pending[m] \subseteq 1..Count(m)
  <1>1. doing[m].at \in Nat /\ doing[m].at <= Count(m) + 1 /\ pending[m] \subseteq 1..(doing[m].at - 1)
    BY DEF MigrateInv, MigrateTypeOK, OpenTransaction, Commit
  <1> QED
    BY <1>1, MigrationAssumption

\* The schema of the build that commits is recorded as a whole.
LEMMA CommitCompletes ==
  ASSUME MigrateInv, NEW m \in Migrator, Commit(m)
  PROVE  \A i \in 1..Count(m) : recorded'[i] = Checksum[m][i]
  <1> SUFFICES ASSUME NEW i \in 1..Count(m) PROVE recorded'[i] = Checksum[m][i]
    OBVIOUS
  <1>1. i \in Migration
    BY MigrationAssumption DEF Migration
  <1>2. doing[m].at \in Nat /\ doing[m].at > Count(m)
    BY DEF MigrateInv, MigrateTypeOK, Commit
  <1>3. i \in 1..(doing[m].at - 1)
    BY <1>2, MigrationAssumption
  <1>4. recorded[i] = Checksum[m][i] \/ i \in pending[m]
    BY <1>3 DEF MigrateInv, OpenTransaction, Commit, Does
  <1> QED
    BY <1>1, <1>4, CommitRecords

\* A transaction is not touched by the step of another one, and a commit of another one
\* records nothing that this one executed.
LEMMA OthersStay ==
  ASSUME MigrateInv, NEW m \in Migrator, NEW n \in Migrator \ {m},
         Look(n) \/ Execute(n) \/ Commit(n) \/ Breaks(n)
  PROVE  OpenTransaction(m)'
  <1>1. doing'[m] = doing[m] /\ pending'[m] = pending[m]
    BY DEF MigrateInv, MigrateTypeOK, Look, Execute, Commit, Breaks, Turns
  <1>2. pending'[n] \subseteq pending[n] \/ (\E i : Execute(n) /\ i = doing[n].at /\ pending'[n] = pending[n] \cup {i})
    BY DEF MigrateInv, MigrateTypeOK, Look, Execute, Commit, Breaks
  <1>3. pending[m] \cap pending'[n] = {}
    <2>1. pending[m] \cap pending[n] = {}
      BY DEF MigrateInv, OpenTransaction, Blocked
    <2>2. Execute(n) => doing[n].at \notin pending[m]
      BY DEF Execute, Blocked
    <2> QED
      BY <1>2, <2>1, <2>2
  <1>4. \A o \in Migrator \ {m, n} : pending'[o] = pending[o]
    BY DEF MigrateInv, MigrateTypeOK, Look, Execute, Commit, Breaks
  <1>5. \A i \in pending[m] : ~Blocked(m, i)'
    <2>1. \A i \in pending[m] : ~Blocked(m, i)
      BY DEF MigrateInv, OpenTransaction
    <2> QED
      BY <1>3, <1>4, <2>1 DEF Blocked
  <1>6. \A i \in pending[m] : recorded'[i] = Unrecorded
    <2>1. pending[m] \subseteq Migration /\ \A i \in pending[m] : recorded[i] = Unrecorded
      BY DEF MigrateInv, MigrateTypeOK, OpenTransaction
    <2>2. pending[m] \cap pending[n] = {}
      BY DEF MigrateInv, OpenTransaction, Blocked
    <2>3. CASE Commit(n)
      BY <2>1, <2>2, <2>3, CommitRecords
    <2>4. CASE ~Commit(n)
      BY <2>1, <2>4 DEF Look, Execute, Breaks
    <2> QED
      BY <2>3, <2>4
  <1>7. \A i \in Migration : recorded[i] # Unrecorded => recorded'[i] = recorded[i]
    BY CommitRecords DEF Look, Execute, Breaks
  <1>8. doing[m].stage \in {"look", "execute"} =>
          \A i \in 1..(doing[m].at - 1) : recorded'[i] = Checksum[m][i] \/ i \in pending[m]
    <2> SUFFICES ASSUME doing[m].stage \in {"look", "execute"}, NEW i \in 1..(doing[m].at - 1),
                        i \notin pending[m]
                 PROVE  recorded'[i] = Checksum[m][i]
      OBVIOUS
    <2>1. recorded[i] = Checksum[m][i]
      BY DEF MigrateInv, OpenTransaction
    <2>2. i \in 1..Count(m)
      BY MigrationAssumption DEF MigrateInv, MigrateTypeOK, OpenTransaction, Does
    <2>3. i \in Migration /\ Checksum[m][i] # Unrecorded
      BY <2>2, MigrationAssumption DEF Migration
    <2> QED
      BY <1>7, <2>1, <2>3
  <1> QED
    BY <1>1, <1>5, <1>6, <1>8 DEF MigrateInv, OpenTransaction, Does

\* The transaction that takes the step.
LEMMA OwnStep ==
  ASSUME MigrateInv, NEW m \in Migrator,
         Look(m) \/ Execute(m) \/ Commit(m) \/ Breaks(m)
  PROVE  OpenTransaction(m)'
  <1> USE DEF MigrateInv, MigrateTypeOK
  <1>1. \A n \in Migrator \ {m} : pending'[n] = pending[n]
    BY DEF Look, Execute, Commit, Breaks
  <1>2. \A i : Blocked(m, i)' <=> Blocked(m, i)
    BY <1>1 DEF Blocked
  <1>3. OpenTransaction(m) /\ doing[m].at \in Nat
    OBVIOUS
  <1>4. CASE Look(m)
    <2>1. doing[m].at \in 1..Count(m) /\ Does(m, "look") /\ UNCHANGED recorded
      BY <1>4, Position DEF Look
    <2>2. CASE recorded[doing[m].at] = Checksum[m][doing[m].at] /\ Turns(m, "look", doing[m].at + 1)
               /\ UNCHANGED pending
      <3>1. doing'[m] = [stage |-> "look", at |-> doing[m].at + 1]
        BY <2>2 DEF Turns
      <3>2. \A i \in 1..doing[m].at : recorded'[i] = Checksum[m][i] \/ i \in pending'[m]
        BY <1>3, <2>1, <2>2 DEF OpenTransaction, Does
      <3> QED
        BY <1>2, <1>3, <2>1, <2>2, <3>1, <3>2, MigrationAssumption DEF OpenTransaction, Does
    <2>3. CASE Turns(m, "execute", doing[m].at) /\ UNCHANGED pending
      <3>1. doing'[m] = [stage |-> "execute", at |-> doing[m].at]
        BY <2>3 DEF Turns
      <3> QED
        BY <1>2, <1>3, <2>1, <2>3, <3>1, MigrationAssumption DEF OpenTransaction, Does
    <2>4. CASE Turns(m, "drift", doing[m].at) /\ pending' = [pending EXCEPT ![m] = {}]
      BY <2>4 DEF OpenTransaction, Does, Turns
    <2> QED
      BY <1>4, <2>2, <2>3, <2>4 DEF Look
  <1>5. CASE Execute(m)
    <2>1. doing[m].at \in 1..Count(m) /\ Does(m, "execute") /\ UNCHANGED recorded
          /\ ~Blocked(m, doing[m].at)
      BY <1>5, Position DEF Execute
    <2>2. CASE recorded[doing[m].at] = Unrecorded
      <3>1. /\ doing'[m] = [stage |-> "look", at |-> doing[m].at + 1]
            /\ pending'[m] = pending[m] \cup {doing[m].at}
        BY <1>5, <2>2 DEF Execute, Turns
      <3>2. \A i \in 1..doing[m].at : recorded'[i] = Checksum[m][i] \/ i \in pending'[m]
        <4> SUFFICES ASSUME NEW i \in 1..doing[m].at PROVE recorded'[i] = Checksum[m][i] \/ i \in pending'[m]
          OBVIOUS
        <4>1. CASE i = doing[m].at
          BY <3>1, <4>1
        <4>2. CASE i # doing[m].at
          <5>1. i \in 1..(doing[m].at - 1)
            BY <1>3, <4>2
          <5>2. recorded[i] = Checksum[m][i] \/ i \in pending[m]
            BY <1>3, <2>1, <5>1 DEF OpenTransaction, Does
          <5> QED
            BY <2>1, <3>1, <5>2
        <4> QED
          BY <4>1, <4>2
      <3>3. pending'[m] \subseteq 1..doing[m].at
        BY <1>3, <2>1, <3>1 DEF OpenTransaction, Does
      <3>4. \A i \in pending'[m] : recorded'[i] = Unrecorded /\ ~Blocked(m, i)'
        BY <1>2, <1>3, <2>1, <2>2, <3>1 DEF OpenTransaction
      <3> QED
        BY <2>1, <3>1, <3>2, <3>3, <3>4, MigrationAssumption DEF OpenTransaction, Does
    <2>3. CASE recorded[doing[m].at] # Unrecorded
      BY <1>5, <2>3 DEF OpenTransaction, Execute, Does, Turns
    <2> QED
      BY <2>2, <2>3
  <1>6. CASE Commit(m)
    BY <1>6 DEF OpenTransaction, Commit, Does, Turns
  <1>7. CASE Breaks(m)
    BY <1>7 DEF OpenTransaction, Breaks, Does, Turns
  <1> QED
    BY <1>4, <1>5, <1>6, <1>7

LEMMA RunOnceStep ==
  ASSUME MigrateInv, MigrateNext
  PROVE  MigrationsRunOnce'
  <1>1. ASSUME NEW m \in Migrator, Look(m) \/ Execute(m) \/ Breaks(m) PROVE MigrationsRunOnce'
    <2>1. UNCHANGED <<recorded, ran>>
      BY <1>1 DEF Look, Execute, Breaks
    <2>2. \A n \in Migrator : Does(n, "done")' => Does(n, "done")
      BY <1>1 DEF MigrateInv, MigrateTypeOK, Look, Execute, Breaks, Turns, Does
    <2> QED
      BY <2>1, <2>2 DEF MigrateInv, MigrationsRunOnce
  <1>2. ASSUME NEW m \in Migrator, Commit(m) PROVE MigrationsRunOnce'
    <2>1. \A i \in Migration : recorded[i] # Unrecorded => recorded'[i] = recorded[i]
      BY <1>2, CommitRecords
    <2>2. pending[m] \subseteq 1..Count(m) /\ pending[m] \subseteq Migration
      BY <1>2, CommitPending DEF MigrateInv, MigrateTypeOK
    <2>3. \A i \in pending[m] : Checksum[m][i] # Unrecorded
      BY <2>2, MigrationAssumption
    <2>4. \A i \in Migration : ran'[i] = (IF recorded'[i] = Unrecorded THEN 0 ELSE 1)
      BY <1>2, <2>3, CommitRecords DEF MigrateInv, MigrationsRunOnce
    <2>5. ASSUME NEW i \in Migration, recorded'[i] # Unrecorded, NEW j \in 1..i
          PROVE  recorded'[j] # Unrecorded
      <3>0. j \in Migration
        BY MigrationAssumption DEF Migration
      <3>1. CASE i \in pending[m]
        <4>1. j \in 1..Count(m)
          BY <2>2, <3>1, MigrationAssumption
        <4> QED
          BY <1>2, <4>1, CommitCompletes, MigrationAssumption
      <3>2. CASE i \notin pending[m]
        <4>1. recorded[j] # Unrecorded
          BY <1>2, <2>5, <3>2, CommitRecords DEF MigrateInv, MigrationsRunOnce
        <4> QED
          BY <2>1, <3>0, <4>1
      <3> QED
        BY <3>1, <3>2
    <2>6. ASSUME NEW n \in Migrator, Does(n, "done")', NEW i \in 1..Count(n)
          PROVE  recorded'[i] = Checksum[n][i]
      <3>1. CASE n = m
        BY <1>2, <3>1, CommitCompletes
      <3>2. CASE n # m
        <4>1. Does(n, "done")
          BY <1>2, <2>6, <3>2 DEF MigrateInv, MigrateTypeOK, Commit, Turns, Does
        <4>2. recorded[i] = Checksum[n][i] /\ Checksum[n][i] # Unrecorded /\ i \in Migration
          BY <4>1, MigrationAssumption DEF MigrateInv, MigrationsRunOnce, Migration
        <4> QED
          BY <2>1, <4>2
      <3> QED
        BY <3>1, <3>2
    <2> QED
      BY <2>4, <2>5, <2>6 DEF MigrationsRunOnce
  <1> QED
    BY <1>1, <1>2 DEF MigrateNext

LEMMA MigrateStep ==
  MigrateInv /\ [MigrateNext]_mvars => MigrateInv'
  <1> SUFFICES ASSUME MigrateInv, [MigrateNext]_mvars PROVE MigrateInv'
    OBVIOUS
  <1>1. CASE MigrateNext
    <2>1. MigrateTypeOK' /\ MigrationsRunOnce'
      BY <1>1, TypesStep, RunOnceStep
    <2>2. ASSUME NEW m \in Migrator PROVE OpenTransaction(m)'
      BY <1>1, OwnStep, OthersStay DEF MigrateNext
    <2> QED
      BY <2>1, <2>2 DEF MigrateInv
  <1>2. CASE UNCHANGED mvars
    BY <1>2 DEF mvars, MigrateInv, MigrateTypeOK, OpenTransaction, MigrationsRunOnce, Blocked, Does
  <1> QED
    BY <1>1, <1>2

\* Every migration is executed once, in order, and recorded with the checksum of what was
\* executed, however many migrators of whichever builds race, break or are killed
\* (apply_fact_source_migration).
THEOREM MigrationsRunOnceAlways ==
  MigrateSpec => []MigrationsRunOnce
  <1>1. MigrateInv => MigrationsRunOnce
    BY DEF MigrateInv
  <1> QED
    BY <1>1, MigrateInitial, MigrateStep, PTL DEF MigrateSpec

-----------------------------------------------------------------------------
(* Index builds. *)

LEMMA BuildInitial == BuildInit => BuildTypeOK /\ BuildInv
<1> SUFFICES ASSUME BuildInit PROVE BuildTypeOK /\ BuildInv
  OBVIOUS
<1>1. Absent \in [file : {ChunkFile[b] : b \in Builder} \cup {"none"},
                 rows : {"none", "some", "all"}]
  BY DEF Absent
<1>2. BuildTypeOK
  BY <1>1 DEF BuildInit, BuildTypeOK
<1>3. BuildInv
  BY DEF BuildInit, BuildInv, Local, SearchReadsWhole, LocalSearchReadsWhole,
         RemoteSearchReadsExpected
<1> QED
  BY <1>2, <1>3

\* A local file is written aside and moved whole; nobody fills it in place.
LEMMA LocalBuildKeeps ==
  ASSUME BuildTypeOK, BuildInv, NEW b \in Builder, Write(b) \/ Move(b)
  PROVE  BuildTypeOK' /\ BuildInv'
<1> USE DEF BuildTypeOK, BuildInv, Goes, SearchReadsWhole, LocalSearchReadsWhole,
            RemoteSearchReadsExpected
<1>1. CASE Write(b)
  <2>1. PICK rows \in {"some", "all"} : aside' = [aside EXCEPT ![b] = Content(b, rows)]
    BY <1>1 DEF Write
  <2>2. BuildTypeOK'
    BY <1>1, <2>1 DEF Write, Content
  <2>3. BuildInv'
    BY <1>1 DEF Write, Local
  <2> QED
    BY <2>2, <2>3
<1>2. CASE Move(b)
  <2>1. BuildTypeOK'
    BY <1>2 DEF Move, Absent
  <2>2. place' \in {aside[b], place} /\ (place' = place \/ place'.rows = "all")
    BY <1>2 DEF Move
  <2>3. BuildInv'
    BY <1>2, <2>2 DEF Move, Local
  <2> QED
    BY <2>1, <2>3
<1> QED
  BY <1>1, <1>2

\* Only the builder that found no index fills the one it created, and once: what is admitted
\* stays what it is, except that Elasticsearch may still receive rows of the same file.
LEMMA RemoteBuildKeeps ==
  ASSUME BuildTypeOK, BuildInv, NEW b \in Builder, Create(b) \/ Fill(b)
  PROVE  BuildTypeOK' /\ BuildInv'
<1> USE DEF BuildTypeOK, BuildInv, Goes, SearchReadsWhole, LocalSearchReadsWhole,
            RemoteSearchReadsExpected
<1>1. CASE Create(b) /\ place = Absent
  <2>1. ~Local /\ ~Local' /\ place' = Content(b, "none") /\ building' = [building EXCEPT ![b] = "fill"]
        /\ UNCHANGED <<store, aside, admitted, found>>
    BY <1>1 DEF Create, Local
  <2>2. \A a \in Builder : building[a] # "fill"
    BY <1>1, <2>1, BuildAssumption DEF Content, Absent
  <2>3. ~admitted
    BY <1>1, <2>1, BuildAssumption DEF Admits, Absent
  <2> QED
    BY <2>1, <2>2, <2>3
<1>2. CASE Create(b) /\ place # Absent
  BY <1>2 DEF Create, Local, Admits, Content
<1>3. CASE Fill(b)
  <2>1. PICK rows \in {"none", "some", "all"} : place' = Content(b, rows)
    BY <1>3 DEF Fill
  <2>2. ~Local /\ ~Local' /\ place = Content(b, "none") /\ building' = [building EXCEPT ![b] = "done"]
        /\ UNCHANGED <<store, aside, admitted, found>>
    BY <1>3 DEF Fill, Local
  <2>3. \A a \in Builder : building'[a] # "fill"
    BY <1>3, <2>2 DEF Fill
  <2>4. admitted => Admits(place)'
    BY <2>1, <2>2 DEF Admits, Content
  <2> QED
    BY <2>2, <2>3, <2>4
<1> QED
  BY <1>1, <1>2, <1>3

LEMMA SearchKeeps ==
  ASSUME BuildTypeOK, BuildInv, Admit \/ Find \/ \E b \in Builder : Killed(b)
  PROVE  BuildTypeOK' /\ BuildInv'
<1> USE DEF BuildTypeOK, BuildInv, Goes, SearchReadsWhole, LocalSearchReadsWhole,
            RemoteSearchReadsExpected
<1>1. CASE Admit
  BY <1>1 DEF Admit, Local, Admits, Content
<1>2. CASE Find
  BY <1>2 DEF Find, Local, Admits, Content
<1>3. ASSUME NEW b \in Builder, Killed(b)
      PROVE  BuildTypeOK' /\ BuildInv'
  BY <1>3 DEF Killed, Local, Admits, Content
<1> QED
  BY <1>1, <1>2, <1>3

\* A search reads the whole local index of one chunk file, every row it expects of a Milvus
\* collection and no row of another chunk file in Elasticsearch.
THEOREM SearchesReadWhole == BuildSpec => []SearchReadsWhole
<1>1. BuildInit => BuildTypeOK /\ BuildInv
  BY BuildInitial
<1>2. BuildTypeOK /\ BuildInv /\ [BuildNext]_bvars => (BuildTypeOK /\ BuildInv)'
  <2>1. CASE UNCHANGED bvars
    BY <2>1 DEF bvars, BuildTypeOK, BuildInv, Local, Admits, Content, SearchReadsWhole,
                LocalSearchReadsWhole, RemoteSearchReadsExpected
  <2>2. CASE BuildNext
    BY <2>2, LocalBuildKeeps, RemoteBuildKeeps, SearchKeeps DEF BuildNext
  <2> QED
    BY <2>1, <2>2
<1>3. BuildInv => SearchReadsWhole
  BY DEF BuildInv
<1> QED
  BY <1>1, <1>2, <1>3, PTL DEF BuildSpec

-----------------------------------------------------------------------------
(* The connections of the embedding client. *)

Holding == {"send", "release", "discard", "hangup"}
Lending == {w \in Caller : pc[w] \in {"send", "release", "discard"}}

-----------------------------------------------------------------------------
(* Counting. *)

\* While every connection counted is lent, an object is left for a caller without one.
LEMMA ConnectionLeft ==
  ASSUME PoolTypeOK, Counted, ~closed, available = {},
         NEW c \in Caller, held[c] = None
  PROVE  \E k \in Connection : k \notin connections \cup InUse
<1> DEFINE Others == Caller \ {c}
<1> SUFFICES ASSUME \A k \in Connection : k \in connections \cup InUse
             PROVE  FALSE
  OBVIOUS
<1>1. \A k \in Connection : \E w \in Others : held[w] = k
  BY PoolAssumption DEF Counted, InUse
<1> DEFINE holder == [k \in Connection |-> CHOOSE w \in Others : held[w] = k]
<1>2. \A k \in Connection : holder[k] \in Others /\ held[holder[k]] = k
  BY <1>1
<1>3. holder \in [Connection -> Others]
  BY <1>2
<1>4. IsFiniteSet(Others) /\ Cardinality(Others) = Cardinality(Caller) - 1
  BY FS_RemoveElement, PoolAssumption
<1>5. Cardinality(Caller) \in Nat /\ Cardinality(Connection) \in Nat
  BY FS_CardinalityType, PoolAssumption
<1>6. Cardinality(Others) < Cardinality(Connection)
  BY <1>4, <1>5, PoolAssumption
<1> HIDE DEF holder, Others
<1>7. \E k, l \in Connection : k # l /\ holder[k] = holder[l]
  BY <1>3, <1>4, <1>6, FS_PigeonHole, PoolAssumption
<1> QED BY <1>2, <1>7

\* The callers at the service hold as many connections, all of them counted.
LEMMA UsersBounded ==
  ASSUME PoolTypeOK, HeldInUse, Counted, ~closed
  PROVE  Cardinality({c \in Caller : pc[c] \in {"send", "release"}}) <= MaxConnections
<1> DEFINE Users == {c \in Caller : pc[c] \in {"send", "release"}}
           lent == [c \in Users |-> held[c]]
<1>1. \A c \in Users : held[c] \in connections /\ held[c] # None
  BY DEF HeldInUse, Counted
<1>2. lent \in [Users -> connections]
  BY <1>1
<1>3. \A c, w \in Users : lent[c] = lent[w] => c = w
  BY <1>1 DEF HeldInUse
<1>4. IsFiniteSet(connections) /\ IsFiniteSet(Users)
  BY FS_Subset, PoolAssumption DEF PoolTypeOK
<1>5. Cardinality(connections) \in Nat /\ Cardinality(Users) \in Nat
  BY <1>4, FS_CardinalityType
<1> HIDE DEF lent, Users
<1>6. ~ (Cardinality(connections) < Cardinality(Users))
  BY <1>2, <1>3, <1>4, FS_PigeonHole
<1>7. Cardinality(Users) <= MaxConnections
  BY <1>5, <1>6, PoolAssumption DEF Counted
<1> QED BY <1>7 DEF Users

\* Fewer connections stay within the limit, one more below it does too.
LEMMA LimitKept ==
  ASSUME connections \subseteq Connection,
         Cardinality(connections) <= MaxConnections
  PROVE  /\ \A S \in SUBSET connections : Cardinality(S) <= MaxConnections
         /\ Cardinality(connections) < MaxConnections =>
              \A k : Cardinality(connections \cup {k}) <= MaxConnections
<1>1. IsFiniteSet(connections)
  BY FS_Subset, PoolAssumption
<1>2. Cardinality(connections) \in Nat
  BY <1>1, FS_CardinalityType
<1>3. ASSUME NEW S \in SUBSET connections
      PROVE  Cardinality(S) <= MaxConnections
  <2>1. IsFiniteSet(S) /\ Cardinality(S) <= Cardinality(connections)
    BY <1>1, FS_Subset
  <2>2. Cardinality(S) \in Nat
    BY <2>1, FS_CardinalityType
  <2> QED BY <1>2, <2>1, <2>2, PoolAssumption
<1>4. ASSUME Cardinality(connections) < MaxConnections, NEW k
      PROVE  Cardinality(connections \cup {k}) <= MaxConnections
  <2>1. Cardinality(connections \cup {k}) =
          IF k \in connections THEN Cardinality(connections) ELSE Cardinality(connections) + 1
    BY <1>1, FS_AddElement
  <2> QED BY <1>2, <1>4, <2>1, PoolAssumption
<1> QED BY <1>3, <1>4

-----------------------------------------------------------------------------
(* The steps. *)

LEMMA InitPool == ASSUME PoolInit PROVE PoolInv
<1> USE DEF PoolInit
<1>1. PoolTypeOK /\ HeldInUse
  BY DEF PoolTypeOK, HeldInUse, Stage
<1>2. {w \in Caller : pc[w] \in {"send", "release", "discard"}} = {} /\ Waiting = {}
  BY DEF Waiting
<1>3. connections = available \cup {held[w] : w \in Lending}
  BY <1>2 DEF Lending
<1>4. Cardinality(connections) <= MaxConnections
  BY FS_EmptySet, PoolAssumption
<1>5. Counted
  BY <1>3, <1>4 DEF Counted, Lending
<1>6. SocketsOwned /\ NobodyWaitsInVain
  BY <1>2 DEF SocketsOwned, NobodyWaitsInVain
<1> QED
  BY <1>1, <1>5, <1>6 DEF PoolInv

\* _acquire.
LEMMA AcquireKeeps ==
  ASSUME PoolInv, NEW c \in Caller,
         AcquireClosed(c) \/ AcquireIdle(c) \/ AcquireNew(c) \/ AcquireWait(c)
  PROVE  PoolInv'
<1> USE DEF Goto, Stage, None
<1>1. held[c] = None /\ pc[c] = "acquire"
  BY DEF PoolInv, HeldInUse, AcquireClosed, AcquireIdle, AcquireNew, AcquireWait
<1>2. CASE AcquireClosed(c)
  BY <1>1, <1>2 DEF AcquireClosed, PoolInv, PoolTypeOK, HeldInUse, Counted, SocketsOwned,
                    NobodyWaitsInVain, Waiting, InUse
<1>3. CASE AcquireIdle(c)
  <2>1. PICK k \in available : held' = [held EXCEPT ![c] = k] /\ available' = available \ {k}
    BY <1>3 DEF AcquireIdle
  <2>2. k \in Connection /\ k \notin InUse /\ k # None
    BY <2>1, PoolAssumption DEF PoolInv, PoolTypeOK, Counted
  <2>3. PoolTypeOK'
    BY <1>3, <2>1, <2>2 DEF AcquireIdle, PoolInv, PoolTypeOK
  <2>4. HeldInUse'
    BY <1>3, <2>1, <2>2, <1>1 DEF AcquireIdle, PoolInv, PoolTypeOK, HeldInUse, InUse
  <2>5. InUse' = InUse \cup {k}
    BY <2>1, <2>2, <1>1 DEF PoolInv, PoolTypeOK, InUse
  <2>6. Counted'
    <3>1. (~closed => connections = available \cup {held[w] : w \in Lending})'
      BY <1>3, <2>1, <2>2, <1>1 DEF AcquireIdle, PoolInv, PoolTypeOK, Counted, Lending
    <3> QED
      BY <1>3, <2>1, <2>2, <2>5, <3>1 DEF AcquireIdle, PoolInv, PoolTypeOK, Counted, Lending
  <2>7. SocketsOwned'
    BY <1>3, <2>5 DEF AcquireIdle, PoolInv, SocketsOwned
  <2>8. NobodyWaitsInVain'
    BY <1>3, <1>1 DEF AcquireIdle, PoolInv, PoolTypeOK, NobodyWaitsInVain
  <2> QED
    BY <2>3, <2>4, <2>6, <2>7, <2>8 DEF PoolInv
<1>4. CASE AcquireNew(c)
  <2> DEFINE k == CHOOSE k \in Connection : k \notin connections \cup InUse
  <2>1. /\ held' = [held EXCEPT ![c] = k] /\ connections' = connections \cup {k}
        /\ ~closed /\ available = {} /\ Cardinality(connections) < MaxConnections
        /\ pc' = [pc EXCEPT ![c] = "send"]
        /\ UNCHANGED <<available, closed, doomed, socket>>
    BY <1>4 DEF AcquireNew
  <2>2. k \in Connection /\ k \notin connections \cup InUse
    BY <1>1, <2>1, ConnectionLeft DEF PoolInv
  <2> HIDE DEF k
  <2>3. k # None
    BY <2>2, PoolAssumption
  <2>4. PoolTypeOK'
    BY <2>1, <2>2 DEF PoolInv, PoolTypeOK
  <2>5. HeldInUse'
    BY <2>1, <2>2, <2>3, <1>1 DEF PoolInv, PoolTypeOK, HeldInUse, InUse
  <2>6. InUse' = InUse \cup {k}
    BY <2>1, <2>2, <2>3, <1>1 DEF PoolInv, PoolTypeOK, InUse
  <2>7. Counted'
    <3>1. (~closed => connections = available \cup {held[w] : w \in Lending})'
      BY <2>1, <2>2, <1>1 DEF PoolInv, PoolTypeOK, Counted, Lending
    <3>2. Cardinality(connections') <= MaxConnections
      BY <2>1, LimitKept DEF PoolInv, PoolTypeOK, Counted
    <3> QED
      BY <2>1, <3>1, <3>2, <2>6 DEF PoolInv, PoolTypeOK, Counted, Lending
  <2>8. SocketsOwned'
    BY <2>1, <2>6 DEF PoolInv, SocketsOwned
  <2>9. NobodyWaitsInVain'
    BY <2>1, <1>1 DEF PoolInv, PoolTypeOK, NobodyWaitsInVain
  <2> QED
    BY <2>4, <2>5, <2>7, <2>8, <2>9 DEF PoolInv
<1>5. CASE AcquireWait(c)
  <2>1. connections # {}
    BY <1>5, FS_EmptySet, PoolAssumption DEF AcquireWait
  <2>2. PICK w \in Caller : pc[w] \in {"send", "release", "discard"}
    BY <1>5, <2>1 DEF AcquireWait, PoolInv, Counted
  <2>3. NobodyWaitsInVain'
    BY <1>1, <1>5, <2>2 DEF AcquireWait, PoolInv, PoolTypeOK, NobodyWaitsInVain
  <2>4. PoolTypeOK' /\ HeldInUse'
    BY <1>1, <1>5 DEF AcquireWait, PoolInv, PoolTypeOK, HeldInUse
  <2>5. Counted' /\ SocketsOwned'
    BY <1>1, <1>5 DEF AcquireWait, PoolInv, PoolTypeOK, Counted, SocketsOwned, InUse
  <2> QED
    BY <2>3, <2>4, <2>5 DEF PoolInv
<1> QED
  BY <1>2, <1>3, <1>4, <1>5
\* The exchange changes neither what is lent nor to whom.
LEMMA SendKeeps ==
  ASSUME PoolInv, NEW c \in Caller, Send(c)
  PROVE  PoolInv'
<1> USE DEF PoolInv
<1>1. /\ pc[c] = "send" /\ pc' \in {[pc EXCEPT ![c] = "release"], [pc EXCEPT ![c] = "discard"]}
      /\ UNCHANGED <<held, connections, available, closed, doomed>>
  BY DEF Send, Goto
<1>2. held[c] \in InUse /\ held[c] \in Connection
  BY <1>1 DEF HeldInUse, InUse, PoolTypeOK
<1>3. socket' \subseteq socket \cup {held[c]}
  BY DEF Send
<1>4. PoolTypeOK' /\ HeldInUse'
  BY <1>1, <1>2, <1>3 DEF PoolTypeOK, HeldInUse, Stage
<1>5. Lending' = Lending
  BY <1>1 DEF PoolTypeOK, Lending
<1>6. Counted'
  BY <1>1, <1>5 DEF Counted, Lending, InUse
<1>7. SocketsOwned' /\ NobodyWaitsInVain'
  BY <1>1, <1>2, <1>3 DEF PoolTypeOK, SocketsOwned, NobodyWaitsInVain, Waiting, InUse
<1> QED
  BY <1>4, <1>6, <1>7

\* Whom notify wakes is on its way to a release; without it nobody waited.
LEMMA Notified ==
  ASSUME PoolTypeOK, NobodyWaitsInVain, NEW c \in Caller, pc[c] \in {"release", "discard"},
         NEW stage \in {"done", "hangup"}, NotifyOne(c, stage)
  PROVE  /\ pc' \in [Caller -> Stage] /\ pc'[c] = stage
         /\ \A w \in Caller \ {c} : pc'[w] = pc[w] \/ (pc[w] = "wait" /\ pc'[w] = "acquire")
         /\ Waiting' # {} => ~closed /\ \E w \in Caller : pc'[w] = "acquire"
<1>1. CASE Waiting = {}
  BY <1>1 DEF PoolTypeOK, NotifyOne, Goto, Waiting, Stage
<1>2. CASE Waiting # {}
  <2>1. PICK w \in Waiting : pc' = [pc EXCEPT ![c] = stage, ![w] = "acquire"]
    BY <1>2 DEF NotifyOne
  <2>2. w \in Caller /\ w # c /\ pc[w] = "wait"
    BY <2>1 DEF Waiting
  <2> QED
    BY <1>2, <2>1, <2>2 DEF PoolTypeOK, Stage, NobodyWaitsInVain
<1> QED
  BY <1>1, <1>2

\* _release: the connection becomes idle, or is counted no more and hung up next.
LEMMA ReleaseKeeps ==
  ASSUME PoolInv, NEW c \in Caller, Release(c)
  PROVE  PoolInv'
<1> USE DEF PoolInv
<1>1. pc[c] \in {"release", "discard"} /\ UNCHANGED <<closed, doomed, socket>>
  BY DEF Release
<1>2. held[c] \in InUse /\ held[c] # None /\ held[c] \in Connection /\ c \in Lending
  BY <1>1 DEF HeldInUse, InUse, PoolTypeOK, Lending
<1>3. CASE pc[c] = "discard" \/ closed
  <2>1. /\ connections' = connections \ {held[c]} /\ available' = available \ {held[c]}
        /\ NotifyOne(c, "hangup") /\ held' = held
    BY <1>3 DEF Release
  <2>2. /\ pc' \in [Caller -> Stage] /\ pc'[c] = "hangup"
        /\ \A w \in Caller \ {c} : pc'[w] = pc[w] \/ (pc[w] = "wait" /\ pc'[w] = "acquire")
        /\ Waiting' # {} => ~closed /\ \E w \in Caller : pc'[w] = "acquire"
    BY <1>1, <2>1, Notified
  <2>3. PoolTypeOK'
    BY <1>1, <2>1, <2>2 DEF PoolTypeOK
  <2>4. HeldInUse'
    BY <1>1, <2>1, <2>2 DEF HeldInUse
  <2>5. Lending' = Lending \ {c}
    BY <2>2 DEF Lending
  <2>6. (~closed => connections = available \cup {held[w] : w \in Lending})'
    BY <1>1, <1>2, <2>1, <2>5 DEF Counted, Lending, HeldInUse
  <2>7. Cardinality(connections') <= MaxConnections
    BY <2>1, LimitKept DEF PoolTypeOK, Counted
  <2>8. Counted'
    BY <1>1, <2>1, <2>6, <2>7 DEF Counted, Lending, InUse
  <2>9. SocketsOwned'
    BY <1>1, <1>2, <2>1 DEF SocketsOwned, InUse
  <2>10. NobodyWaitsInVain'
    BY <1>1, <2>2 DEF NobodyWaitsInVain
  <2> QED
    BY <2>3, <2>4, <2>8, <2>9, <2>10
<1>4. CASE ~(pc[c] = "discard" \/ closed)
  <2>1. /\ available' = available \cup {held[c]} /\ held' = [held EXCEPT ![c] = None]
        /\ NotifyOne(c, "done") /\ connections' = connections
    BY <1>4 DEF Release
  <2>2. /\ pc' \in [Caller -> Stage] /\ pc'[c] = "done"
        /\ \A w \in Caller \ {c} : pc'[w] = pc[w] \/ (pc[w] = "wait" /\ pc'[w] = "acquire")
        /\ Waiting' # {} => ~closed /\ \E w \in Caller : pc'[w] = "acquire"
    BY <1>1, <2>1, Notified
  <2>3. held[c] \in connections
    BY <1>2, <1>4 DEF Counted, Lending
  <2>4. PoolTypeOK'
    BY <1>1, <2>1, <2>2, <2>3 DEF PoolTypeOK
  <2>5. HeldInUse'
    BY <1>1, <2>1, <2>2 DEF PoolTypeOK, HeldInUse
  <2>6. Lending' = Lending \ {c}
    BY <2>2 DEF Lending
  <2>7. InUse' = InUse \ {held[c]}
    BY <1>2, <2>1 DEF PoolTypeOK, HeldInUse, InUse
  <2>8. (~closed => connections = available \cup {held[w] : w \in Lending})'
    BY <1>1, <1>2, <2>1, <2>6 DEF PoolTypeOK, Counted, Lending, HeldInUse
  <2>9. Counted'
    BY <1>1, <1>4, <2>1, <2>7, <2>8 DEF Counted, Lending
  <2>10. SocketsOwned'
    BY <1>1, <2>1, <2>3, <2>7 DEF SocketsOwned
  <2>11. NobodyWaitsInVain'
    BY <1>1, <2>2 DEF NobodyWaitsInVain
  <2> QED
    BY <2>4, <2>5, <2>9, <2>10, <2>11
<1> QED
  BY <1>3, <1>4

LEMMA HangupKeeps ==
  ASSUME PoolInv, NEW c \in Caller, Hangup(c)
  PROVE  PoolInv'
<1> USE DEF PoolInv
<1>1. /\ pc[c] = "hangup" /\ pc' = [pc EXCEPT ![c] = "done"]
      /\ held' = [held EXCEPT ![c] = None] /\ socket' = socket \ {held[c]}
      /\ UNCHANGED <<connections, available, closed, doomed>>
  BY DEF Hangup, Goto
<1>2. PoolTypeOK' /\ HeldInUse'
  BY <1>1 DEF PoolTypeOK, HeldInUse, Stage
<1>3. InUse' = InUse \ {held[c]}
  BY <1>1 DEF PoolTypeOK, HeldInUse, InUse
<1>4. Lending' = Lending /\ \A w \in Lending : held'[w] = held[w]
  BY <1>1 DEF PoolTypeOK, Lending
<1>5. {held'[w] : w \in Lending'} = {held[w] : w \in Lending}
  BY <1>4
<1>6. Counted'
  BY <1>1, <1>3, <1>5 DEF Counted, Lending
<1>7. SocketsOwned' /\ NobodyWaitsInVain'
  BY <1>1, <1>3 DEF PoolTypeOK, SocketsOwned, NobodyWaitsInVain, Waiting
<1> QED
  BY <1>2, <1>6, <1>7

\* close: what was counted is doomed.
LEMMA CloseKeeps == ASSUME PoolInv, Close PROVE PoolInv'
<1> USE DEF PoolInv, Close
<1>1. PoolTypeOK' /\ HeldInUse'
  BY DEF PoolTypeOK, HeldInUse, Stage
<1>2. Counted'
  BY FS_EmptySet, PoolAssumption DEF Counted
<1>3. SocketsOwned' /\ NobodyWaitsInVain'
  BY DEF SocketsOwned, InUse, NobodyWaitsInVain, Waiting
<1> QED
  BY <1>1, <1>2, <1>3

LEMMA CloseSocketKeeps ==
  ASSUME PoolInv, NEW k \in Connection, CloseSocket(k)
  PROVE  PoolInv'
<1> USE DEF PoolInv, CloseSocket
<1>1. PoolTypeOK' /\ HeldInUse' /\ SocketsOwned'
  BY DEF PoolTypeOK, HeldInUse, SocketsOwned, InUse
<1>2. Counted' /\ NobodyWaitsInVain'
  BY DEF Counted, InUse, NobodyWaitsInVain, Waiting
<1> QED
  BY <1>1, <1>2

-----------------------------------------------------------------------------
(* The theorems. *)

LEMMA PoolStep == ASSUME PoolInv, [PoolNext]_poolvars PROVE PoolInv'
<1>1. CASE UNCHANGED poolvars
  BY <1>1 DEF poolvars, PoolInv, PoolTypeOK, HeldInUse, Counted, SocketsOwned, NobodyWaitsInVain,
              Waiting, InUse
<1>2. CASE PoolNext
  BY <1>2, AcquireKeeps, SendKeeps, ReleaseKeeps, HangupKeeps, CloseKeeps, CloseSocketKeeps
     DEF PoolNext, Run
<1> QED
  BY <1>1, <1>2

\* Every state of the pool satisfies the inductive invariant.
THEOREM PoolInvariant == PoolSpec => []PoolInv
<1>1. PoolInit => PoolInv
  BY InitPool
<1>2. PoolInv /\ [PoolNext]_poolvars => PoolInv'
  BY PoolStep
<1> QED
  BY <1>1, <1>2, PTL DEF PoolSpec

\* The wakeup of a thread that waits in _acquire is never lost: while one waits the client is
\* open and another thread is on its way to a release.
THEOREM WaitersHaveWakers == PoolSpec => []NobodyWaitsInVain
<1>1. PoolInv => NobodyWaitsInVain
  BY DEF PoolInv
<1> QED
  BY <1>1, PoolInvariant, PTL

\* At most MaxConnections requests are at the service, no connection is lent twice or idle
\* while it is lent, and close and the last request leave no socket open.
THEOREM ConnectionsAreAccounted == PoolSpec => []ConnectionsAccounted
<1>1. PoolInv => ConnectionsExclusive
  BY UsersBounded DEF PoolInv, ConnectionsExclusive, HeldInUse, Counted
<1>2. PoolInv => ClosedLeavesNothingOpen
  BY DEF PoolInv, ClosedLeavesNothingOpen, HeldInUse, Counted, SocketsOwned, InUse
<1>3. PoolInv => ConnectionsAccounted
  BY <1>1, <1>2 DEF PoolInv, ConnectionsAccounted
<1> QED
  BY <1>3, PoolInvariant, PTL

-----------------------------------------------------------------------------
(* The API process. *)

LEMMA FirstAndRest ==
  ASSUME NEW S, NEW s \in Seq(S), s # <<>>
  PROVE  /\ Head(s) \in S /\ Tail(s) \in Seq(S)
         /\ ToSet(s) = {Head(s)} \cup ToSet(Tail(s))
<1>1. Len(s) \in Nat \ {0} /\ Head(s) = s[1] /\ Tail(s) \in Seq(S)
  OBVIOUS
<1>2. Len(Tail(s)) = Len(s) - 1 /\ \A i \in 1..(Len(s) - 1) : Tail(s)[i] = s[i + 1]
  BY <1>1
<1>3. ToSet(s) \subseteq {Head(s)} \cup ToSet(Tail(s))
  <2> SUFFICES ASSUME NEW i \in 1..Len(s), i # 1
               PROVE  s[i] \in ToSet(Tail(s))
    BY <1>1 DEF ToSet
  <2>1. i - 1 \in 1..(Len(s) - 1) /\ s[i] = Tail(s)[i - 1]
    BY <1>1, <1>2
  <2>2. i - 1 \in DOMAIN Tail(s)
    BY <1>1, <1>2, <2>1
  <2> QED
    BY <2>1, <2>2 DEF ToSet
<1>4. {Head(s)} \cup ToSet(Tail(s)) \subseteq ToSet(s)
  BY <1>1, <1>2 DEF ToSet
<1>5. Head(s) \in S
  BY <1>1
<1> QED
  BY <1>1, <1>3, <1>4, <1>5

LEMMA ApiInitial == ApiInit => ApiInv
<1> SUFFICES ASSUME ApiInit PROVE ApiInv
  OBVIOUS
<1> DEFINE Steps == {"fts", "provider", "vectors", "model", "join", "elasticsearch", "milvus",
                    "online"}
<1>1. /\ <<"fts">> \in Seq(Steps) /\ <<"provider", "vectors", "model">> \in Seq(Steps)
      /\ <<"fts", "provider", "vectors", "model", "join">> \in Seq(Steps)
      /\ <<"elasticsearch">> \in Seq(Steps) /\ <<"provider", "milvus", "model">> \in Seq(Steps)
      /\ <<"elasticsearch", "provider", "milvus", "model", "join">> \in Seq(Steps)
      /\ <<"online">> \in Seq(Steps) /\ <<>> \in Seq(Steps)
  OBVIOUS
<1> HIDE DEF Steps
<1>2. StartupSteps(backend) \in Seq(Steps)
  BY <1>1, Zenon DEF StartupSteps
<1>3. ApiTypeOK
  BY <1>2 DEF ApiInit, ApiTypeOK, Steps
<1>4. /\ Searches(backend) \subseteq ToSet(todo)
      /\ "model" \in Searches(backend) => "provider" \in ToSet(todo)
  BY DEF ApiInit, Backends, StartupSteps, Searches, ToSet
<1> QED
  BY <1>3, <1>4 DEF ApiInit, ApiInv, StartsInOrder, ServesVerifiedAndCloses,
                    AnswersFromVerified, OwnProviderClosed

LEMMA ApiStep == ApiInv /\ [ApiNext]_apivars => ApiInv'
<1> SUFFICES ASSUME ApiInv, [ApiNext]_apivars PROVE ApiInv'
  OBVIOUS
<1> USE DEF ApiInv, ApiTypeOK, StartsInOrder, ServesVerifiedAndCloses, AnswersFromVerified,
            OwnProviderClosed
<1>1. CASE Start
  <2>1. /\ todo' = Tail(todo) /\ ToSet(todo) = {Head(todo)} \cup ToSet(todo')
        /\ ApiTypeOK'
    BY <1>1, FirstAndRest DEF Start
  <2>2. Searches(backend) \cap {"provider", "join", "online"} = {}
    BY DEF Searches
  <2>3. /\ Searches(backend)' = Searches(backend)
        /\ Searches(backend) \subseteq verified' \cup ToSet(todo')
    BY <1>1, <2>1, <2>2 DEF Start, Searches
  <2> QED
    BY <1>1, <2>1, <2>3 DEF Start
<1>2. CASE StartFails
  BY <1>2 DEF StartFails, CloseOwned
<1>3. CASE Serve
  <2>1. ToSet(<<>>) = {}
    BY DEF ToSet
  <2> QED
    BY <1>3, <2>1 DEF Serve, Searches
<1>4. CASE Answer
  <2>1. ToSet(<<>>) = {}
    BY DEF ToSet
  <2> QED
    BY <1>4, <2>1 DEF Answer, Searches
<1>5. CASE Shutdown
  BY <1>5 DEF Shutdown, CloseOwned
<1>6. CASE UNCHANGED apivars
  BY <1>6 DEF apivars, Searches, ToSet
<1> QED
  BY <1>1, <1>2, <1>3, <1>4, <1>5, <1>6 DEF ApiNext

\* Whichever backend is configured, whatever fails while the process starts and however it
\* ends: its answers come from what it verified, with an open provider, and a provider it
\* opened itself is closed.
THEOREM ProcessServesVerified == ApiSpec => []ServesVerifiedAndCloses
<1>1. ApiInv => ServesVerifiedAndCloses
  BY DEF ApiInv
<1> QED
  BY <1>1, ApiInitial, ApiStep, PTL DEF ApiSpec

=============================================================================
