------------------------------ MODULE Migrations ------------------------------
(***************************************************************************)
(* The migrations of the fact source (backend/storage/migrate.py): every   *)
(* migrator applies, in one transaction, the migrations that are not yet   *)
(* recorded. Several may run at once, of different builds of the program,  *)
(* and each may be killed. PostgreSQL is external: DDL is transactional, a *)
(* statement sees what was committed before it, and one that changes what  *)
(* an open transaction changed waits for its end.                          *)
(***************************************************************************)
EXTENDS Naturals, Sequences

CONSTANTS
  Migrator,  \* processes
  Checksum,  \* the checksums of the migrations of each, in their order
  Latest     \* how many migrations the longest of these builds has

Unrecorded == "absent"
Migration == 1..Latest
Count(m) == Len(Checksum[m])

\* Every build has at most Latest migrations, and a checksum is one.
ASSUME MigrationAssumption ==
  /\ Latest \in Nat
  /\ \A m \in Migrator :
       /\ Count(m) \in 0..Latest
       /\ \A i \in 1..Count(m) : Checksum[m][i] # Unrecorded

VARIABLES
  doing,    \* what a migrator does next, and with which migration
  recorded, \* rag_schema_migrations: the committed checksum of each migration
  ran,      \* how often the committed transactions executed each migration
  pending   \* the migrations an open transaction executed, and recorded

mvars == <<doing, recorded, ran, pending>>

MigrateInit ==
  /\ doing = [m \in Migrator |-> [stage |-> "look", at |-> 1]]
  /\ recorded = [i \in Migration |-> Unrecorded]
  /\ ran = [i \in Migration |-> 0]
  /\ pending = [m \in Migrator |-> {}]

Does(m, stage) == doing[m].stage = stage
Turns(m, stage, at) == doing' = [doing EXCEPT ![m] = [stage |-> stage, at |-> at]]
\* Another open transaction executed the migration.
Blocked(m, i) == \E n \in Migrator \ {m} : i \in pending[n]

\* SELECT sha256: recorded with the checksum of this build, with another one (the
\* migrator raises and rolls back), or not at all.
Look(m) ==
  LET i == doing[m].at IN
  /\ Does(m, "look") /\ i <= Count(m)
  /\ \/ recorded[i] = Checksum[m][i] /\ Turns(m, "look", i + 1) /\ UNCHANGED pending
     \/ recorded[i] = Unrecorded /\ Turns(m, "execute", i) /\ UNCHANGED pending
     \/ /\ recorded[i] \notin {Unrecorded, Checksum[m][i]}
        /\ Turns(m, "drift", i)
        /\ pending' = [pending EXCEPT ![m] = {}]
  /\ UNCHANGED <<recorded, ran>>

\* Mutant: a row that is there already is no error.
ExecuteAnyway(m) ==
  LET i == doing[m].at IN
  /\ Does(m, "execute") /\ ~Blocked(m, i)
  /\ Turns(m, "look", i + 1)
  /\ pending' = [pending EXCEPT ![m] = @ \cup {i}]
  /\ UNCHANGED <<recorded, ran>>

\* The SQL and the row. The row violates the primary key if another migrator committed
\* it after the look.
Execute(m) ==
  LET i == doing[m].at IN
  /\ Does(m, "execute") /\ ~Blocked(m, i)
  /\ IF recorded[i] = Unrecorded
     THEN /\ Turns(m, "look", i + 1)
          /\ pending' = [pending EXCEPT ![m] = @ \cup {i}]
     ELSE /\ Turns(m, "failed", i)
          /\ pending' = [pending EXCEPT ![m] = {}]
  /\ UNCHANGED <<recorded, ran>>

Commit(m) ==
  /\ Does(m, "look") /\ doing[m].at > Count(m)
  /\ recorded' = [i \in Migration |-> IF i \in pending[m] THEN Checksum[m][i] ELSE recorded[i]]
  /\ ran' = [i \in Migration |-> ran[i] + (IF i \in pending[m] THEN 1 ELSE 0)]
  /\ pending' = [pending EXCEPT ![m] = {}]
  /\ Turns(m, "done", doing[m].at)

\* A statement fails, or the process is killed: the transaction rolls back.
Breaks(m) ==
  /\ doing[m].stage \in {"look", "execute"}
  /\ Turns(m, "failed", doing[m].at)
  /\ pending' = [pending EXCEPT ![m] = {}]
  /\ UNCHANGED <<recorded, ran>>

MigrateNext == \E m \in Migrator : Look(m) \/ Execute(m) \/ Commit(m) \/ Breaks(m)

MigrateSpec == MigrateInit /\ [][MigrateNext]_mvars

\* Every migration is executed once and recorded with the checksum of what was executed,
\* in their order and whichever migrators raced or were killed; one that succeeds leaves
\* the schema of its own build.
MigrationsRunOnce ==
  /\ \A i \in Migration : ran[i] = (IF recorded[i] = Unrecorded THEN 0 ELSE 1)
  /\ \A i \in Migration : recorded[i] # Unrecorded => \A j \in 1..i : recorded[j] # Unrecorded
  /\ \A m \in Migrator : Does(m, "done") => \A i \in 1..Count(m) : recorded[i] = Checksum[m][i]

-----------------------------------------------------------------------------
(* What makes it inductive. *)

MigrateTypeOK ==
  /\ doing \in [Migrator -> [stage : {"look", "execute", "drift", "failed", "done"}, at : Nat \ {0}]]
  /\ pending \in [Migrator -> SUBSET Migration]

\* What an open transaction executed nobody has recorded and nobody else executes, and
\* what it has passed it either found recorded or executed.
OpenTransaction(m) ==
  /\ \A i \in pending[m] : recorded[i] = Unrecorded /\ ~Blocked(m, i)
  /\ doing[m].stage \in {"look", "execute"} =>
       \A i \in 1..(doing[m].at - 1) : recorded[i] = Checksum[m][i] \/ i \in pending[m]
  /\ Does(m, "look") => doing[m].at <= Count(m) + 1 /\ pending[m] \subseteq 1..(doing[m].at - 1)
  /\ Does(m, "execute") => doing[m].at <= Count(m) /\ pending[m] \subseteq 1..(doing[m].at - 1)
  /\ doing[m].stage \in {"drift", "failed", "done"} => pending[m] = {}

MigrateInv ==
  /\ MigrateTypeOK
  /\ \A m \in Migrator : OpenTransaction(m)
  /\ MigrationsRunOnce

=============================================================================
