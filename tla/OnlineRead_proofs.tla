-------------------------- MODULE OnlineRead_proofs --------------------------
(***************************************************************************)
(* Theorems about OnlineRead, for any versions, documents, requests, pool  *)
(* size, number of failures and number of questions served at a time.      *)
(***************************************************************************)
EXTENDS OnlineRead, TLAPS

-----------------------------------------------------------------------------
(* Types. *)

LEMMA TaskTypes ==
  /\ <<Embedding>> \in Task
  /\ Route \subseteq Task
  /\ \A r \in Route : r[1] \in Backend /\ r[2] \in Version /\ r = <<r[1], r[2]>>
  BY DEF Task, Route

LEMMA InitType == Init => TypeOK
  <1> SUFFICES ASSUME Init PROVE TypeOK
    OBVIOUS
  <1>1. NoTask \in [Task -> TaskState] /\ NoRoute \in [Route -> TaskState]
    BY DEF NoTask, NoRoute, TaskState
  <1>2. /\ visible \subseteq Version /\ retired \subseteq Version
        /\ rows \in [Route -> Rows]
        /\ aborted \in BOOLEAN /\ faults \in Nat
    BY DEF Init, Fact!Init, Rows
  <1>3. /\ verified \in [Question -> [Route -> TaskState]]
        /\ task \in [Question -> [Task -> TaskState]]
    BY <1>1 DEF Init
  <1>4. /\ pc \in [Question -> Step]
        /\ embed \in [Question -> ThreadState] /\ snap \in [Question -> ThreadState]
        /\ status \in [Question -> Outcome]
        /\ planner \in [Question -> BOOLEAN] /\ disturbed \in [Question -> BOOLEAN]
    BY DEF Init, Step, ThreadState, Outcome
  <1>5. /\ scope \in [Question -> SUBSET Document]
        /\ expected \in [Question -> SUBSET Version]
        /\ hits \in [Question -> SUBSET Version] /\ evidence \in [Question -> SUBSET Version]
        /\ whole \in [Question -> SUBSET Route] /\ stayed \in [Question -> SUBSET Version]
    BY DEF Init
  <1> QED
    BY <1>2, <1>3, <1>4, <1>5 DEF TypeOK

LEMMA EnvironmentType ==
  ASSUME TypeOK, NEW v \in Version,
         Publish(v) \/ Withdraw(v) \/ \E b \in Backend : Erode(b, v)
  PROVE  TypeOK'
  <1> USE DEF TypeOK, store, threads, answer, history, Disturb
  <1>1. CASE Publish(v)
    BY <1>1 DEF Publish, Fact!Publish
  <1>2. CASE Withdraw(v)
    <2>1. stayed' \in [Question -> SUBSET Version]
      BY <1>2 DEF Withdraw
    <2> QED
      BY <1>2, <2>1 DEF Withdraw, Fact!Withdraw
  <1>3. ASSUME NEW b \in Backend, Erode(b, v) PROVE TypeOK'
    <2>1. <<b, v>> \in Route
      BY DEF Route
    <2>2. Decay[rows[<<b, v>>]] \in Rows
      BY <2>1 DEF Decay, Rows
    <2>3. rows' \in [Route -> Rows]
      BY <1>3, <2>1, <2>2 DEF Erode
    <2> QED
      BY <1>3, <2>3 DEF Erode
  <1> QED
    BY <1>1, <1>2, <1>3

\* A call that fails is counted and remembered.
LEMMA FaultType ==
  ASSUME TypeOK
  PROVE  /\ \A struck : Fault(struck) => disturbed' \in [Question -> BOOLEAN] /\ faults' \in Nat
         /\ NoFault => disturbed' \in [Question -> BOOLEAN] /\ faults' \in Nat
         /\ StatementFails => /\ aborted' \in BOOLEAN
                              /\ disturbed' \in [Question -> BOOLEAN] /\ faults' \in Nat
  <1>1. ASSUME NEW struck, Fault(struck)
        PROVE  disturbed' \in [Question -> BOOLEAN] /\ faults' \in Nat
    BY <1>1 DEF TypeOK, Fault
  <1>2. NoFault => disturbed' \in [Question -> BOOLEAN] /\ faults' \in Nat
    BY DEF TypeOK, NoFault
  <1>3. StatementFails => aborted' \in BOOLEAN /\ (NoFault \/ \E struck : Fault(struck))
    BY DEF StatementFails
  <1> QED
    BY <1>1, <1>2, <1>3

\* The first half of a question: what the request thread does before the searches.
LEMMA RequestType ==
  ASSUME TypeOK, NEW q \in Question,
         Ask(q) \/ Forbid(q) \/ ResolveNothing(q) \/ Resolve(q) \/ LookupFails(q) \/ Rollback(q)
           \/ EndVerify(q) \/ JoinSnapshot(q)
  PROVE  TypeOK'
  <1> USE DEF TypeOK, store, threads, answer, history, Goto
  <1>1. CASE Ask(q)
    BY <1>1, ReadAssumption DEF Ask, Step
  <1>2. CASE Forbid(q)
    BY <1>2 DEF Forbid, Finish, Step, Outcome
  <1>3. CASE ResolveNothing(q)
    BY <1>3 DEF ResolveNothing, Step
  <1>4. CASE Resolve(q)
    BY <1>4 DEF Resolve, Lookup, Step, ThreadState, TaskState
  <1>5. CASE LookupFails(q)
    BY <1>5, FaultType DEF LookupFails, Step
  <1>6. CASE Rollback(q)
    BY <1>6 DEF Rollback, Step
  <1>7. CASE EndVerify(q)
    BY <1>7 DEF EndVerify, NoRoute, Step, TaskState
  <1>8. CASE JoinSnapshot(q)
    <2>1. task' \in [Question -> [Task -> TaskState]]
      BY <1>8 DEF JoinSnapshot, TaskState
    <2>2. pc' \in [Question -> Step]
      BY <1>8 DEF JoinSnapshot, Step
    <2> QED
      BY <1>8, <2>1, <2>2 DEF JoinSnapshot
  <1> QED
    BY <1>1, <1>2, <1>3, <1>4, <1>5, <1>6, <1>7, <1>8
\* The second half, and how a question ends.
LEMMA AnswerType ==
  ASSUME TypeOK, NEW q \in Question,
         EndSearch(q) \/ Revalidate(q) \/ Abandon(q) \/ Fuse(q) \/ Rerank(q) \/ Generate(q)
  PROVE  TypeOK'
  <1> USE DEF TypeOK, store, threads, answer, history, Goto
  <1>0. ASSUME NEW candidates \in SUBSET Version, Cut(q, candidates)
        PROVE  evidence' \in [Question -> SUBSET Version]
    BY <1>0 DEF Cut
  <1>1. CASE EndSearch(q)
    BY <1>1 DEF EndSearch, NoTask, Step, TaskState
  <1>2. CASE Revalidate(q)
    BY <1>2 DEF Revalidate, Step
  <1>3. CASE Abandon(q)
    BY <1>3 DEF Abandon, Finish, SetEmbed, SetSnap, Step, ThreadState, Outcome
  <1>4. CASE Fuse(q)
    <2>1. evidence' \in [Question -> SUBSET Version]
      BY <1>0, <1>4 DEF Fuse
    <2> QED
      BY <1>4, <2>1 DEF Fuse, SetEmbed, SetSnap, Step, ThreadState
  <1>5. CASE Rerank(q)
    <2>1. evidence' \in [Question -> SUBSET Version]
      BY <1>0, <1>5 DEF Rerank
    <2> QED
      BY <1>5, <2>1 DEF Rerank, Step
  <1>6. CASE Generate(q)
    BY <1>6 DEF Generate, Finish, Step, Outcome
  <1> QED
    BY <1>1, <1>2, <1>3, <1>4, <1>5, <1>6

LEMMA WorkerType ==
  ASSUME TypeOK, NEW q \in Question, WorkerThread(q)
  PROVE  TypeOK'
  <1> USE DEF TypeOK, store, threads, answer, history
  <1>1. CASE EmbedQuestion(q)
    <2>1. embed' \in [Question -> ThreadState]
      BY <1>1 DEF EmbedQuestion, SetEmbed, ThreadState
    <2> QED
      BY <1>1, <2>1, FaultType DEF EmbedQuestion
  <1>2. CASE LoadSnapshot(q)
    BY <1>2 DEF LoadSnapshot, SetSnap, ThreadState
  <1>3. CASE SnapshotFails(q)
    <2>1. snap' \in [Question -> ThreadState]
      BY <1>3 DEF SnapshotFails, SetSnap, ThreadState
    <2> QED
      BY <1>3, <2>1, FaultType DEF SnapshotFails
  <1>4. CASE RollbackSnapshot(q)
    BY <1>4 DEF RollbackSnapshot, SetSnap, ThreadState
  <1>5. ASSUME NEW r \in Route, VerifyRoute(q, r) PROVE TypeOK'
    <2>1. verified' \in [Question -> [Route -> TaskState]]
      <3>1. PICK s \in {"ok", "failed"} : SetVerified(q, r, s)
        BY <1>5 DEF VerifyRoute
      <3>2. verified[q] \in [Route -> TaskState] /\ s \in TaskState
        BY DEF TaskState
      <3> QED
        BY <3>1, <3>2 DEF SetVerified
    <2> QED
      BY <1>5, <2>1, FaultType DEF VerifyRoute
  <1>6. ASSUME NEW t \in Task, NEW s \in TaskState, SetTask(q, t, s)
        PROVE  task' \in [Question -> [Task -> TaskState]]
    BY <1>6 DEF SetTask
  <1>7. {"ok", "failed"} \subseteq TaskState
    BY DEF TaskState
  <1>8. ASSUME NEW r \in Route, Search(q, r) PROVE TypeOK'
    <2>1. task' \in [Question -> [Task -> TaskState]]
      BY <1>6, <1>7, <1>8, TaskTypes DEF Search
    <2>2. hits' \in [Question -> SUBSET Version]
      BY <1>8, TaskTypes DEF Search
    <2>3. whole' \in [Question -> SUBSET Route]
      BY <1>8 DEF Search
    <2> QED
      BY <1>8, <2>1, <2>2, <2>3 DEF Search
  <1>9. ASSUME NEW r \in Route, SearchFails(q, r) PROVE TypeOK'
    <2>1. task' \in [Question -> [Task -> TaskState]]
      BY <1>6, <1>7, <1>9, TaskTypes DEF SearchFails
    <2> QED
      BY <1>9, <2>1, FaultType DEF SearchFails
  <1>10. CASE EmbedTask(q)
    <2>1. task' \in [Question -> [Task -> TaskState]]
      BY <1>6, <1>7, <1>10, TaskTypes DEF EmbedTask
    <2> QED
      BY <1>10, <2>1, FaultType DEF EmbedTask
  <1> QED
    BY <1>1, <1>2, <1>3, <1>4, <1>5, <1>8, <1>9, <1>10 DEF WorkerThread

LEMMA NextType == TypeOK /\ [Next]_vars => TypeOK'
  <1> SUFFICES ASSUME TypeOK, [Next]_vars PROVE TypeOK'
    OBVIOUS
  <1>1. CASE UNCHANGED vars
    BY <1>1 DEF vars, store, threads, answer, history, TypeOK
  <1> QED
    BY <1>1, EnvironmentType, RequestType, AnswerType, WorkerType
       DEF Next, Environment, Serve, RequestThread

-----------------------------------------------------------------------------
(* The inductive invariant. *)

\* What is visible is not withdrawn, one version per document, and rows are touched
\* only of withdrawn versions.
StoreInv ==
  /\ visible \cap retired = {}
  /\ \A u, v \in visible : DocumentOf[u] = DocumentOf[v] => u = v
  /\ \A r \in Route : rows[r] # "all" => r[2] \in retired

\* A question that has not looked anything up has nothing and runs nothing.
Fresh(q) == pc[q] \in {"idle", "resolve"} =>
  /\ expected[q] = {} /\ hits[q] = {} /\ evidence[q] = {}
  /\ embed[q] = "none" /\ snap[q] = "none"
  /\ \A r \in Route : verified[q][r] = "none"
  /\ \A t \in Task : task[q][t] = "none"

\* When each thread may still run.
ThreadsInv(q) ==
  /\ embed[q] \in {"running", "rollback"} =>
       pc[q] \in {"verify", "join", "search", "revalidate", "rollback", "abandon", "fuse"}
  /\ snap[q] \in {"running", "rollback"} => pc[q] \in {"verify", "join", "abandon"}
  /\ \A r \in Route : verified[q][r] = "pending" => pc[q] = "verify"
  /\ \A t \in Task : task[q][t] # "none" =>
       pc[q] = "search" /\ (t = <<Embedding>> \/ t \in RoutesOf(q))
  /\ status[q] # "none" => pc[q] = "done"

\* A version of the first lookup that did not stay visible is withdrawn, and so is one
\* whose rows were not all active when they were searched.
SearchedOrRetired(q) == \A r \in RoutesOf(q) : r \in whole[q] \/ r[2] \in retired

LookupInv(q) ==
  /\ \A u, v \in expected[q] : DocumentOf[u] = DocumentOf[v] => u = v
  /\ hits[q] \subseteq expected[q] /\ evidence[q] \subseteq expected[q]
  /\ expected[q] \ stayed[q] \subseteq retired
  /\ pc[q] = "search" => \A r \in RoutesOf(q) :
       /\ task[q][r] # "none"
       /\ task[q][r] = "ok" => r \in whole[q] \/ r[2] \in retired
  /\ pc[q] = "revalidate" => SearchedOrRetired(q)

\* What revalidation has established holds to the end.
Revalidated(q) == pc[q] \in {"fuse", "rerank", "generate"} \/ Answered(q)

AnswerInv(q) ==
  /\ Revalidated(q) => expected[q] \subseteq stayed[q] /\ RoutesOf(q) \subseteq whole[q]
  /\ Revalidated(q) \/ pc[q] \in {"verify", "join", "search", "revalidate"} =>
       scope[q] \subseteq {DocumentOf[v] : v \in expected[q]}
  /\ pc[q] \in {"rerank", "generate"} /\ evidence[q] = {} => hits[q] = {}
  /\ status[q] = "NO_EVIDENCE" => hits[q] = {}

QuestionInv(q) == Fresh(q) /\ ThreadsInv(q) /\ LookupInv(q) /\ AnswerInv(q)

ReadInv == TypeOK /\ StoreInv /\ \A q \in Question : QuestionInv(q)

-----------------------------------------------------------------------------
(* Steps that leave a question alone. *)

Same(p) ==
  /\ pc'[p] = pc[p] /\ scope'[p] = scope[p] /\ expected'[p] = expected[p]
  /\ embed'[p] = embed[p] /\ snap'[p] = snap[p]
  /\ verified'[p] = verified[p] /\ task'[p] = task[p]
  /\ hits'[p] = hits[p] /\ evidence'[p] = evidence[p] /\ status'[p] = status[p]
  /\ whole'[p] = whole[p]

\* What is known of a question stays true while only withdrawals go on, and the
\* versions that stayed visible lose none that was not withdrawn.
LEMMA SameKeeps ==
  ASSUME NEW p \in Question, Same(p), retired \subseteq retired', QuestionInv(p),
         stayed[p] \ retired' \subseteq stayed'[p],
         Revalidated(p) => stayed'[p] = stayed[p]
  PROVE  QuestionInv(p)'
  <1> USE DEF Same, RoutesOf
  <1>1. Fresh(p)'
    BY DEF QuestionInv, Fresh
  <1>2. ThreadsInv(p)'
    BY DEF QuestionInv, ThreadsInv
  <1>3. LookupInv(p)'
    <2>1. SearchedOrRetired(p) => SearchedOrRetired(p)'
      BY DEF SearchedOrRetired
    <2> QED
      BY <2>1 DEF QuestionInv, LookupInv
  <1>4. AnswerInv(p)'
    BY DEF QuestionInv, AnswerInv, Revalidated, Answered
  <1> QED
    BY <1>1, <1>2, <1>3, <1>4 DEF QuestionInv

LEMMA EnvironmentKeeps ==
  ASSUME TypeOK, StoreInv, NEW v \in Version,
         Publish(v) \/ Withdraw(v) \/ \E b \in Backend : Erode(b, v)
  PROVE  /\ StoreInv'
         /\ \A p \in Question : QuestionInv(p) => QuestionInv(p)'
  <1> USE DEF store, threads, answer, history
  <1>1. CASE Publish(v)
    <2>1. StoreInv'
      BY <1>1 DEF Publish, Fact!Publish, StoreInv
    <2>2. ASSUME NEW p \in Question PROVE Same(p) /\ retired' = retired /\ stayed' = stayed
      BY <1>1 DEF Publish, Fact!Publish, Same
    <2> QED
      BY <2>1, <2>2, SameKeeps
  <1>2. CASE Withdraw(v)
    <2>1. StoreInv' /\ retired' = retired \cup {v}
      BY <1>2 DEF Withdraw, Fact!Withdraw, StoreInv
    <2>2. ASSUME NEW p \in Question PROVE Same(p)
      BY <1>2 DEF Withdraw, Same
    <2>3. ASSUME NEW p \in Question, QuestionInv(p)
          PROVE  /\ stayed[p] \ retired' \subseteq stayed'[p]
                 /\ Revalidated(p) => stayed'[p] = stayed[p]
      <3>1. Revalidated(p) => pc[p] \in {"fuse", "rerank", "generate", "done"}
        BY <2>3 DEF QuestionInv, ThreadsInv, Revalidated, Answered
      <3>2. stayed'[p] = IF pc[p] \in {"fuse", "rerank", "generate", "done"}
                         THEN stayed[p] ELSE stayed[p] \ {v}
        BY <1>2 DEF Withdraw
      <3> QED
        BY <2>1, <3>1, <3>2
    <2> QED
      BY <2>1, <2>2, <2>3, SameKeeps
  <1>3. ASSUME NEW b \in Backend, Erode(b, v)
        PROVE  /\ StoreInv' /\ \A p \in Question : QuestionInv(p) => QuestionInv(p)'
    <2>1. \A r \in Route : rows'[r] # rows[r] => r[2] \in retired
      <3>1. ASSUME NEW r \in Route, r # <<b, v>> PROVE rows'[r] = rows[r]
        BY <1>3, <3>1 DEF Erode, TypeOK
      <3>2. <<b, v>>[2] \in retired
        BY <1>3 DEF Erode
      <3> QED
        BY <3>1, <3>2
    <2>2. StoreInv'
      BY <1>3, <2>1 DEF Erode, StoreInv
    <2>3. ASSUME NEW p \in Question PROVE Same(p) /\ retired' = retired /\ stayed' = stayed
      BY <1>3 DEF Erode, Same
    <2> QED
      BY <2>2, <2>3, SameKeeps
  <1> QED
    BY <1>1, <1>2, <1>3

\* A question's own threads change nothing of another question and nothing of the store.
LEMMA OthersKeep ==
  ASSUME TypeOK, NEW q \in Question, NEW p \in Question, p # q, Ask(q) \/ Serve(q)
  PROVE  /\ Same(p) /\ stayed'[p] = stayed[p]
         /\ UNCHANGED store
  <1> USE DEF TypeOK, store, threads, answer, history, Goto, Same
  <1>1. CASE Ask(q) \/ Forbid(q) \/ ResolveNothing(q) \/ LookupFails(q) \/ Rollback(q)
    BY <1>1 DEF Ask, Forbid, Finish, ResolveNothing, LookupFails, Rollback
  <1>2. CASE Resolve(q) \/ EndVerify(q) \/ JoinSnapshot(q) \/ EndSearch(q) \/ Revalidate(q)
    BY <1>2 DEF Resolve, EndVerify, JoinSnapshot, EndSearch, Revalidate
  <1>3. CASE Abandon(q) \/ Fuse(q) \/ Rerank(q) \/ Generate(q)
    BY <1>3 DEF Abandon, Finish, Fuse, Cut, SetEmbed, SetSnap, Rerank, Generate
  <1>4. CASE EmbedQuestion(q) \/ LoadSnapshot(q) \/ SnapshotFails(q) \/ RollbackSnapshot(q)
    BY <1>4 DEF EmbedQuestion, SetEmbed, LoadSnapshot, SnapshotFails, RollbackSnapshot, SetSnap
  <1>5. ASSUME NEW r \in Route, VerifyRoute(q, r) \/ Search(q, r) \/ SearchFails(q, r)
        PROVE  Same(p) /\ stayed'[p] = stayed[p] /\ UNCHANGED store
    BY <1>5 DEF VerifyRoute, SetVerified, Search, SearchFails, SetTask
  <1>6. CASE EmbedTask(q)
    BY <1>6 DEF EmbedTask, SetTask
  <1> QED
    BY <1>1, <1>2, <1>3, <1>4, <1>5, <1>6 DEF Serve, RequestThread, WorkerThread

-----------------------------------------------------------------------------
(* The steps of a question itself, up to the searches. *)

LEMMA EmbeddingIsNoRoute == <<Embedding>> \notin Route
  BY DEF Route

\* Steps of the request thread that end a question or move it where nothing is promised.
LEMMA LeavingKeeps ==
  ASSUME TypeOK, NEW q \in Question, QuestionInv(q),
         Forbid(q) \/ LookupFails(q) \/ Rollback(q) \/ Abandon(q)
  PROVE  QuestionInv(q)'
  <1> USE DEF TypeOK, store, threads, answer, history, Goto, Finish, QuestionInv, RoutesOf
  <1>1. CASE Forbid(q)
    BY <1>1 DEF Forbid, Fresh, ThreadsInv, LookupInv, SearchedOrRetired, AnswerInv, Revalidated, Answered
  <1>2. CASE LookupFails(q)
    BY <1>2 DEF LookupFails, Fresh, ThreadsInv, LookupInv, SearchedOrRetired, AnswerInv, Revalidated, Answered
  <1>3. CASE Rollback(q)
    BY <1>3 DEF Rollback, Fresh, ThreadsInv, LookupInv, SearchedOrRetired, AnswerInv, Revalidated, Answered
  <1>4. CASE Abandon(q)
    BY <1>4 DEF Abandon, SetEmbed, SetSnap, Joined, ThreadsOf, Fresh, ThreadsInv, LookupInv,
                SearchedOrRetired, AnswerInv, Revalidated, Answered
  <1> QED
    BY <1>1, <1>2, <1>3, <1>4

\* From the request to the retrieval pool.
LEMMA LookupKeeps ==
  ASSUME TypeOK, StoreInv, NEW q \in Question, QuestionInv(q),
         Ask(q) \/ ResolveNothing(q) \/ Resolve(q) \/ EndVerify(q) \/ JoinSnapshot(q)
  PROVE  QuestionInv(q)'
  <1> USE DEF TypeOK, store, threads, answer, history, Goto, QuestionInv, RoutesOf
  <1>1. CASE Ask(q)
    BY <1>1 DEF Ask, Fresh, ThreadsInv, LookupInv, SearchedOrRetired, AnswerInv, Revalidated, Answered
  <1>2. CASE ResolveNothing(q)
    BY <1>2 DEF ResolveNothing, Admits, Fresh, ThreadsInv, LookupInv, SearchedOrRetired, AnswerInv,
                Revalidated, Answered
  <1>3. CASE Resolve(q)
    <2>1. /\ pc'[q] = "verify" /\ pc[q] = "resolve"
          /\ expected'[q] = Lookup(q) /\ stayed'[q] = Lookup(q)
          /\ snap'[q] = "running" /\ embed'[q] \in {"none", "running"}
          /\ UNCHANGED <<task, hits, evidence, status, whole, scope, visible, retired>>
          /\ Admits(q, Lookup(q))
      BY <1>3 DEF Resolve
    <2>2. Lookup(q) \subseteq visible
      BY DEF Lookup
    <2>3. Fresh(q)' /\ ThreadsInv(q)'
      BY <2>1 DEF Fresh, ThreadsInv
    <2>4. LookupInv(q)'
      BY <2>1, <2>2 DEF LookupInv, StoreInv, Fresh
    <2>5. status[q] = "none"
      BY <2>1 DEF ThreadsInv, Outcome
    <2>6. AnswerInv(q)'
      BY <2>1, <2>5 DEF AnswerInv, Revalidated, Answered, Admits
    <2> QED
      BY <2>3, <2>4, <2>6
  <1>4. CASE EndVerify(q)
    <2>1. /\ pc[q] = "verify" /\ pc'[q] \in {"abandon", "join"}
          /\ \A r \in Route : verified'[q][r] = "none"
          /\ UNCHANGED <<embed, snap, task, expected, stayed, hits, evidence, status, whole, scope, retired>>
      BY <1>4 DEF EndVerify, NoRoute
    <2> QED
      BY <2>1 DEF Fresh, ThreadsInv, LookupInv, SearchedOrRetired, AnswerInv, Revalidated, Answered
  <1>5. CASE JoinSnapshot(q)
    <2>1. /\ pc[q] = "join" /\ snap[q] \in {"none", "ok", "failed"}
          /\ UNCHANGED <<embed, snap, verified, expected, stayed, hits, evidence, status, whole,
                         scope, retired>>
      BY <1>5 DEF JoinSnapshot
    <2>2. CASE pc'[q] = "abandon" /\ UNCHANGED task
      BY <2>1, <2>2 DEF Fresh, ThreadsInv, LookupInv, SearchedOrRetired, AnswerInv, Revalidated, Answered
    <2>3. CASE expected[q] = {} /\ pc'[q] = "revalidate" /\ UNCHANGED task
      BY <2>1, <2>3 DEF Fresh, ThreadsInv, LookupInv, SearchedOrRetired, AnswerInv, Revalidated, Answered
    <2>4. CASE /\ pc'[q] = "search"
               /\ task' = [task EXCEPT ![q] = [t \in Task |->
                     IF t = <<Embedding>> \/ t \in RoutesOf(q) THEN "pending" ELSE "none"]]
      <3>1. \A t \in Task : task'[q][t] =
              IF t = <<Embedding>> \/ t \in RoutesOf(q) THEN "pending" ELSE "none"
        BY <2>4
      <3>2. RoutesOf(q) \subseteq Task
        BY TaskTypes DEF Route
      <3>3. Fresh(q)' /\ AnswerInv(q)'
        BY <2>1, <2>4 DEF Fresh, ThreadsInv, AnswerInv, Revalidated, Answered
      <3>4. ThreadsInv(q)'
        BY <2>1, <2>4, <3>1 DEF ThreadsInv
      <3>5. LookupInv(q)'
        BY <2>1, <2>4, <3>1, <3>2 DEF LookupInv
      <3> QED
        BY <3>3, <3>4, <3>5
    <2> QED
      BY <1>5, <2>2, <2>3, <2>4 DEF JoinSnapshot
  <1> QED
    BY <1>1, <1>2, <1>3, <1>4, <1>5

-----------------------------------------------------------------------------
(* The threads of a question, and what follows the searches. *)

\* The threads beside route verification.
LEMMA PrewarmKeeps ==
  ASSUME TypeOK, NEW q \in Question, QuestionInv(q),
         \/ EmbedQuestion(q) \/ LoadSnapshot(q) \/ SnapshotFails(q) \/ RollbackSnapshot(q)
         \/ \E r \in Route : VerifyRoute(q, r)
  PROVE  QuestionInv(q)'
  <1> USE DEF TypeOK, store, threads, answer, history, QuestionInv, RoutesOf,
              Fresh, ThreadsInv, LookupInv, SearchedOrRetired, AnswerInv, Revalidated, Answered
  <1>1. CASE EmbedQuestion(q)
    <2>1. embed[q] = "running" /\ embed'[q] \in {"ok", "failed"}
      BY <1>1 DEF EmbedQuestion, SetEmbed
    <2> QED
      BY <1>1, <2>1 DEF EmbedQuestion
  <1>2. CASE LoadSnapshot(q)
    <2>1. snap[q] = "running" /\ snap'[q] \in {"ok", "failed"}
      BY <1>2 DEF LoadSnapshot, SetSnap
    <2> QED
      BY <1>2, <2>1 DEF LoadSnapshot
  <1>3. CASE SnapshotFails(q)
    <2>1. snap[q] = "running" /\ snap'[q] = "rollback"
      BY <1>3 DEF SnapshotFails, SetSnap
    <2> QED
      BY <1>3, <2>1 DEF SnapshotFails
  <1>4. CASE RollbackSnapshot(q)
    <2>1. snap[q] = "rollback" /\ snap'[q] = "failed"
      BY <1>4 DEF RollbackSnapshot, SetSnap
    <2> QED
      BY <1>4, <2>1 DEF RollbackSnapshot
  <1>5. ASSUME NEW r \in Route, VerifyRoute(q, r) PROVE QuestionInv(q)'
    <2>1. verified[q][r] = "pending"
      BY <1>5 DEF VerifyRoute
    <2>2. \A s \in Route : verified'[q][s] = "pending" => verified[q][s] = "pending"
      BY <1>5 DEF VerifyRoute, SetVerified
    <2>3. pc[q] = "verify"
      BY <2>1
    <2> QED
      BY <1>5, <2>2, <2>3 DEF VerifyRoute
  <1> QED
    BY <1>1, <1>2, <1>3, <1>4, <1>5

\* A task of the retrieval pool ends.
LEMMA TaskKeeps ==
  ASSUME TypeOK, StoreInv, NEW q \in Question, QuestionInv(q),
         \/ EmbedTask(q)
         \/ \E r \in Route : Search(q, r) \/ SearchFails(q, r)
  PROVE  QuestionInv(q)'
  <1> USE DEF TypeOK, store, threads, answer, history, QuestionInv
  <1>1. ASSUME NEW t \in Task, NEW s \in {"ok", "failed"}, SetTask(q, t, s), Taken(q, t)
        PROVE  /\ task[q][t] = "pending" /\ pc[q] = "search" /\ status[q] = "none"
               /\ t = <<Embedding>> \/ t \in RoutesOf(q)
               /\ task'[q][t] = s /\ \A u \in Task \ {t} : task'[q][u] = task[q][u]
    <2>1. task[q][t] = "pending"
      BY <1>1 DEF Taken
    <2>2. /\ pc[q] = "search"
          /\ t = <<Embedding>> \/ t \in RoutesOf(q)
      BY <2>1 DEF ThreadsInv
    <2>3. status[q] = "none"
      BY <2>2 DEF ThreadsInv
    <2> QED
      BY <1>1, <2>1, <2>2, <2>3 DEF SetTask
  <1>2. CASE EmbedTask(q)
    <2>1. PICK s \in {"ok", "failed"} : SetTask(q, <<Embedding>>, s)
      BY <1>2 DEF EmbedTask
    <2>2. /\ pc[q] = "search" /\ status[q] = "none" /\ task'[q][<<Embedding>>] = s
          /\ \A u \in Task \ {<<Embedding>>} : task'[q][u] = task[q][u]
      BY <1>1, <1>2, <2>1, TaskTypes DEF EmbedTask
    <2>3. \A r \in RoutesOf(q) : r \in Task /\ r # <<Embedding>>
      <3>1. RoutesOf(q) \subseteq Route
        BY DEF RoutesOf, Route
      <3> QED
        BY <3>1, TaskTypes, EmbeddingIsNoRoute
    <2>4. UNCHANGED <<pc, scope, expected, embed, snap, verified, hits, evidence, status, whole,
                      stayed, retired>>
      BY <1>2 DEF EmbedTask
    <2>5. Fresh(q)' /\ ThreadsInv(q)' /\ AnswerInv(q)'
      BY <2>2, <2>4 DEF Fresh, ThreadsInv, AnswerInv, Revalidated, Answered, RoutesOf
    <2>6. LookupInv(q)'
      BY <2>2, <2>3, <2>4 DEF LookupInv, RoutesOf
    <2> QED
      BY <2>5, <2>6
  <1>3. ASSUME NEW r \in Route, Search(q, r) \/ SearchFails(q, r) PROVE QuestionInv(q)'
    <2>1. PICK s \in {"ok", "failed"} : SetTask(q, r, s) /\ Taken(q, r)
                                       /\ (s = "ok" => Search(q, r))
      BY <1>3 DEF Search, SearchFails
    <2>2. /\ pc[q] = "search" /\ status[q] = "none" /\ r \in RoutesOf(q) /\ task'[q][r] = s
          /\ \A u \in Task \ {r} : task'[q][u] = task[q][u]
      BY <1>1, <2>1, TaskTypes, EmbeddingIsNoRoute
    <2>3. UNCHANGED <<pc, scope, expected, embed, snap, verified, evidence, status, stayed, retired,
                      rows>>
      BY <1>3 DEF Search, SearchFails
    <2>4. /\ hits'[q] \subseteq hits[q] \cup {r[2]}
          /\ whole[q] \subseteq whole'[q]
          /\ Search(q, r) /\ rows[r] = "all" => r \in whole'[q]
      BY <1>3 DEF Search, SearchFails
    <2>5. r[2] \in expected[q]
      BY <2>2 DEF RoutesOf
    <2>6. s = "ok" => r \in whole'[q] \/ r[2] \in retired
      BY <2>1, <2>4 DEF StoreInv
    <2>7. RoutesOf(q) \subseteq Task
      BY TaskTypes DEF RoutesOf, Route
    <2>8. Fresh(q)' /\ ThreadsInv(q)' /\ AnswerInv(q)'
      BY <2>2, <2>3 DEF Fresh, ThreadsInv, AnswerInv, Revalidated, Answered, RoutesOf
    <2>9. LookupInv(q)'
      <3>1. hits'[q] \subseteq expected[q]
        BY <2>4, <2>5 DEF LookupInv
      <3>2. ASSUME NEW u \in RoutesOf(q)
            PROVE  /\ task'[q][u] # "none"
                   /\ task'[q][u] = "ok" => u \in whole'[q] \/ u[2] \in retired
        <4>1. CASE u = r
          BY <2>2, <2>6, <4>1
        <4>2. CASE u # r
          BY <2>2, <2>4, <2>7, <4>2 DEF LookupInv
        <4> QED
          BY <4>1, <4>2
      <3> QED
        BY <2>2, <2>3, <3>1, <3>2 DEF LookupInv, RoutesOf
    <2> QED
      BY <2>8, <2>9
  <1> QED
    BY <1>2, <1>3

\* What revalidation finds is visible, so it was never withdrawn, and neither were the
\* rows that were searched.
LEMMA AnswerKeeps ==
  ASSUME TypeOK, StoreInv, NEW q \in Question, QuestionInv(q),
         EndSearch(q) \/ Revalidate(q) \/ Fuse(q) \/ Rerank(q) \/ Generate(q)
  PROVE  QuestionInv(q)'
  <1> USE DEF TypeOK, store, threads, answer, history, Goto, QuestionInv
  <1>1. CASE EndSearch(q)
    <2>1. /\ pc[q] = "search" /\ pc'[q] \in {"abandon", "revalidate"}
          /\ \A t \in Task : task'[q][t] = "none"
          /\ UNCHANGED <<scope, expected, embed, snap, verified, hits, evidence, status, whole, stayed,
                         retired>>
      BY <1>1 DEF EndSearch, NoTask
    <2>2. ASSUME pc'[q] = "revalidate" PROVE SearchedOrRetired(q)
      <3>1. InState(q, "pending") = {} /\ InState(q, "failed") = {}
        BY <1>1, <2>2 DEF EndSearch
      <3>2. ASSUME NEW r \in RoutesOf(q) PROVE task[q][r] = "ok"
        <4>1. r \in Task
          BY TaskTypes DEF RoutesOf, Route
        <4>2. task[q][r] \notin {"none", "pending", "failed"}
          BY <2>1, <3>1, <4>1 DEF InState, LookupInv
        <4> QED
          BY <4>1, <4>2 DEF TaskState
      <3> QED
        BY <2>1, <3>2 DEF LookupInv, SearchedOrRetired
    <2>3. Fresh(q)' /\ ThreadsInv(q)' /\ AnswerInv(q)'
      BY <2>1 DEF Fresh, ThreadsInv, AnswerInv, Revalidated, Answered, RoutesOf
    <2>4. LookupInv(q)'
      BY <2>1, <2>2 DEF LookupInv, SearchedOrRetired, RoutesOf
    <2> QED
      BY <2>3, <2>4
  <1>2. CASE Revalidate(q)
    <2>1. /\ pc[q] = "revalidate" /\ pc'[q] \in {"abandon", "fuse"}
          /\ pc'[q] = "fuse" => Lookup(q) = expected[q]
          /\ UNCHANGED <<scope, expected, embed, snap, verified, task, hits, evidence, status, whole,
                         stayed, retired>>
      BY <1>2 DEF Revalidate, Current
    <2>2. Lookup(q) = expected[q] => expected[q] \cap retired = {}
      BY DEF Lookup, StoreInv
    <2>3. Lookup(q) = expected[q] => expected[q] \subseteq stayed[q] /\ RoutesOf(q) \subseteq whole[q]
      BY <2>1, <2>2 DEF LookupInv, SearchedOrRetired, RoutesOf
    <2>4. status[q] = "none"
      BY <2>1 DEF ThreadsInv
    <2>5. Fresh(q)' /\ ThreadsInv(q)' /\ LookupInv(q)'
      BY <2>1 DEF Fresh, ThreadsInv, LookupInv, RoutesOf
    <2>6. AnswerInv(q)'
      BY <2>1, <2>3, <2>4 DEF AnswerInv, Revalidated, Answered, RoutesOf
    <2> QED
      BY <2>5, <2>6
  <1>3. ASSUME NEW candidates \in SUBSET Version, Cut(q, candidates)
        PROVE  evidence'[q] \subseteq candidates /\ (evidence'[q] = {} => candidates = {})
    BY <1>3 DEF Cut
  <1>4. CASE Fuse(q)
    <2>1. evidence'[q] \subseteq hits[q] /\ (evidence'[q] = {} => hits[q] = {})
      BY <1>3, <1>4 DEF Fuse
    <2>2. /\ pc[q] = "fuse" /\ pc'[q] = "rerank" /\ embed'[q] = "none" /\ snap'[q] = "none"
          /\ UNCHANGED <<scope, expected, verified, task, hits, status, whole, stayed, retired>>
      BY <1>4 DEF Fuse, SetEmbed, SetSnap
    <2> QED
      BY <2>1, <2>2 DEF Fresh, ThreadsInv, LookupInv, AnswerInv, Revalidated, Answered, RoutesOf
  <1>5. CASE Rerank(q)
    <2>1. evidence'[q] \subseteq evidence[q] /\ (evidence'[q] = {} => evidence[q] = {})
      BY <1>3, <1>5 DEF Rerank
    <2>2. /\ pc[q] = "rerank" /\ pc'[q] = "generate"
          /\ UNCHANGED <<scope, expected, embed, snap, verified, task, hits, status, whole, stayed,
                         retired>>
      BY <1>5 DEF Rerank
    <2> QED
      BY <2>1, <2>2 DEF Fresh, ThreadsInv, LookupInv, AnswerInv, Revalidated, Answered, RoutesOf
  <1>6. CASE Generate(q)
    <2>1. /\ pc[q] = "generate" /\ pc'[q] = "done"
          /\ status'[q] = "NO_EVIDENCE" => evidence[q] = {}
          /\ UNCHANGED <<scope, expected, embed, snap, verified, task, hits, evidence, whole, stayed,
                         retired>>
      BY <1>6 DEF Generate, Finish
    <2> QED
      BY <2>1 DEF Fresh, ThreadsInv, LookupInv, AnswerInv, Revalidated, Answered, RoutesOf
  <1> QED
    BY <1>1, <1>2, <1>4, <1>5, <1>6

-----------------------------------------------------------------------------
(* The theorems. *)

LEMMA InitInv == Init => ReadInv
  <1> SUFFICES ASSUME Init PROVE ReadInv
    OBVIOUS
  <1>1. TypeOK
    BY InitType
  <1>2. StoreInv
    BY DEF Init, Fact!Init, StoreInv
  <1>3. ASSUME NEW q \in Question PROVE QuestionInv(q)
    <2>1. /\ pc[q] = "idle" /\ status[q] = "none" /\ embed[q] = "none" /\ snap[q] = "none"
          /\ expected[q] = {} /\ hits[q] = {} /\ evidence[q] = {}
          /\ \A r \in Route : verified[q][r] = "none"
          /\ \A t \in Task : task[q][t] = "none"
      BY DEF Init, NoRoute, NoTask
    <2> QED
      BY <2>1 DEF QuestionInv, Fresh, ThreadsInv, LookupInv, AnswerInv, Revalidated, Answered
  <1> QED
    BY <1>1, <1>2, <1>3 DEF ReadInv

LEMMA StepInv == ReadInv /\ [Next]_vars => ReadInv'
  <1> SUFFICES ASSUME ReadInv, [Next]_vars PROVE ReadInv'
    OBVIOUS
  <1> USE DEF ReadInv
  <1>1. TypeOK'
    BY NextType
  <1>2. CASE UNCHANGED vars
    <2>1. StoreInv'
      BY <1>2 DEF vars, store, StoreInv
    <2>2. ASSUME NEW p \in Question PROVE QuestionInv(p)'
      BY <1>2, SameKeeps DEF vars, store, threads, answer, history, Same
    <2> QED
      BY <1>1, <2>1, <2>2
  <1>3. CASE Environment
    BY <1>1, <1>3, EnvironmentKeeps DEF Environment
  <1>4. ASSUME NEW q \in Question, Ask(q) \/ Serve(q) PROVE ReadInv'
    <2>1. UNCHANGED store
      BY <1>4 DEF Ask, Serve, RequestThread, Forbid, ResolveNothing, Resolve, LookupFails, Rollback,
           EndVerify, JoinSnapshot, EndSearch, Revalidate, Abandon, Fuse, Rerank, Generate,
           WorkerThread, EmbedQuestion, LoadSnapshot, SnapshotFails, RollbackSnapshot, VerifyRoute,
           Search, SearchFails, EmbedTask, store
    <2>2. StoreInv'
      BY <2>1 DEF store, StoreInv
    <2>3. ASSUME NEW p \in Question, p # q PROVE QuestionInv(p)'
      BY <1>4, <2>1, <2>3, OthersKeep, SameKeeps DEF store
    <2>4. QuestionInv(q)'
      BY <1>4, LeavingKeeps, LookupKeeps, PrewarmKeeps, TaskKeeps, AnswerKeeps
         DEF Serve, RequestThread, WorkerThread
    <2> QED
      BY <1>1, <2>2, <2>3, <2>4
  <1> QED
    BY <1>2, <1>3, <1>4 DEF Next

\* The inductive invariant holds of every behaviour of a question and its environment.
THEOREM ReadInvariant == Spec => []ReadInv
  BY InitInv, StepInv, PTL DEF Spec

\* All state of the online side has its type.
THEOREM ReadTypeCorrect == Spec => []TypeOK
  BY ReadInvariant, PTL DEF ReadInv

\* The versions an answer cites were all READY from the lookup to the revalidation of
\* its question, one of each document, whatever is published, withdrawn or deleted
\* meanwhile (ReadyOnlineRetriever.resolve and revalidate).
THEOREM EvidenceVisible == Spec => []EvidenceStayedVisible
  <1>1. ReadInv => EvidenceStayedVisible
    BY DEF ReadInv, QuestionInv, LookupInv, AnswerInv, Revalidated, EvidenceStayedVisible
  <1> QED
    BY <1>1, ReadInvariant, PTL

\* Whoever gets an answer, "no evidence" included, had both complete indexes of every
\* READY version in scope searched: a failed route or a half deleted index never passes
\* for a search without hits.
THEOREM SearchComplete == Spec => []AnswersSearchedEverything
  <1>1. ReadInv => AnswersSearchedEverything
    BY DEF ReadInv, QuestionInv, AnswerInv, Revalidated, AnswersSearchedEverything
  <1> QED
    BY <1>1, ReadInvariant, PTL

\* The two threads of a question that use the shared connection never use it at the
\* same time, and no thread outlives its question.
THEOREM NoThreadLeft == Spec => []ThreadsJoined
  <1>1. ASSUME ReadInv PROVE ThreadsJoined
    <2>1. ASSUME NEW q \in Question PROVE
            /\ pc[q] \in {"resolve", "revalidate", "rollback"} => snap[q] \notin {"running", "rollback"}
            /\ pc[q] \in {"rerank", "generate", "done"} => Joined(q)
      <3>1. ThreadsInv(q)
        BY <1>1 DEF ReadInv, QuestionInv
      <3>2. ASSUME pc[q] \in {"rerank", "generate", "done"} PROVE Joined(q)
        <4>1. /\ embed[q] \notin {"running", "rollback", "pending"}
              /\ snap[q] \notin {"running", "rollback", "pending"}
          BY <1>1, <3>1, <3>2 DEF ThreadsInv, ReadInv, TypeOK, ThreadState
        <4>2. /\ \A r \in Route : verified[q][r] \notin {"running", "rollback", "pending"}
              /\ \A t \in Task : task[q][t] \notin {"running", "rollback", "pending"}
          <5>1. /\ \A r \in Route : verified[q][r] \in TaskState /\ verified[q][r] # "pending"
                /\ \A t \in Task : task[q][t] \in TaskState /\ task[q][t] = "none"
            BY <1>1, <3>1, <3>2 DEF ThreadsInv, ReadInv, TypeOK
          <5> QED
            BY <5>1 DEF TaskState
        <4> QED
          BY <4>1, <4>2 DEF Joined, ThreadsOf
      <3> QED
        BY <3>1, <3>2 DEF ThreadsInv
    <2> QED
      BY <2>1 DEF ThreadsJoined
  <1> QED
    BY <1>1, ReadInvariant, PTL

-----------------------------------------------------------------------------
(* Failing only for a cause. *)

\* A question that nothing disturbed has not failed anywhere, verifies what it looked up
\* and would look up the same again.
Untroubled(q) ==
  /\ pc[q] \notin {"rollback", "abandon"} /\ status[q] # "UNAVAILABLE"
  /\ embed[q] # "failed" /\ snap[q] \notin {"rollback", "failed"}
  /\ \A r \in Route : verified[q][r] # "failed" /\ (verified[q][r] = "pending" => r[2] \in expected[q])
  /\ \A t \in Task : task[q][t] # "failed"
  /\ pc[q] \in {"verify", "join", "search", "revalidate"} => Lookup(q) = expected[q]

\* Whoever runs in a transaction that is broken knows.
BrokenForAll == aborted => \A q \in Question : Open(q) => disturbed[q]

SomeoneRollsBack == aborted => \E q \in Question : pc[q] = "rollback" \/ snap[q] = "rollback"

CauseInv ==
  /\ BrokenForAll /\ SomeoneRollsBack
  /\ \A q \in Question : disturbed[q] \/ Untroubled(q)

LEMMA InitCause == Init => CauseInv
  <1> SUFFICES ASSUME Init PROVE CauseInv
    OBVIOUS
  <1>1. BrokenForAll /\ SomeoneRollsBack
    BY DEF Init, BrokenForAll, SomeoneRollsBack
  <1>2. ASSUME NEW q \in Question PROVE Untroubled(q)
    BY DEF Init, Untroubled, NoRoute, NoTask
  <1> QED
    BY <1>1, <1>2 DEF CauseInv

\* What a question has suffered is not forgotten, and what it has not suffered leaves
\* it and what it sees alone.
LEMMA EnvironmentCause ==
  ASSUME TypeOK, CauseInv, NEW v \in Version,
         Publish(v) \/ Withdraw(v) \/ \E b \in Backend : Erode(b, v)
  PROVE  CauseInv'
  <1> USE DEF store, threads, answer, history
  <1>1. UNCHANGED <<aborted, pc, scope, expected, threads, status>>
    BY DEF Publish, Withdraw, Erode
  <1>2. \A q \in Question : disturbed[q] => disturbed'[q]
    BY DEF Publish, Withdraw, Erode, Disturb, TypeOK
  <1>3. BrokenForAll' /\ SomeoneRollsBack'
    BY <1>1, <1>2 DEF CauseInv, BrokenForAll, SomeoneRollsBack, Open
  <1>4. ASSUME NEW q \in Question, ~disturbed'[q]
        PROVE  Untroubled(q)'
    <2>1. Untroubled(q)
      BY <1>2, <1>4 DEF CauseInv
    <2>2. ASSUME pc[q] \in {"verify", "join", "search", "revalidate"}
          PROVE  Lookup(q)' = Lookup(q)
      <3>1. CASE visible' = visible
        BY <1>1, <3>1 DEF Lookup, InScope
      <3>2. CASE Disturb(v) /\ (visible' = visible \cup {v} \/ visible' = visible \ {v})
        <4>1. ~InScope(q, v)
          BY <1>4, <2>2, <3>2 DEF Disturb, Open
        <4> QED
          BY <1>1, <3>2, <4>1 DEF Lookup, InScope
      <3> QED
        BY <3>1, <3>2 DEF Publish, Withdraw, Erode, Fact!Publish, Fact!Withdraw
    <2> QED
      BY <1>1, <2>1, <2>2 DEF Untroubled
  <1> QED
    BY <1>3, <1>4 DEF CauseInv

\* A failing call is remembered.
LEMMA Struck ==
  ASSUME TypeOK
  PROVE  /\ NoFault => disturbed' = disturbed
         /\ \A struck : Fault(struck) => \A p \in Question :
              disturbed'[p] <=> disturbed[p] \/ p \in struck
         /\ StatementFails /\ CauseInv => \A p \in Question :
              (disturbed[p] => disturbed'[p]) /\ (Open(p) => disturbed'[p])
  <1>1. NoFault => disturbed' = disturbed
    BY DEF NoFault
  <1>2. ASSUME NEW struck, Fault(struck), NEW p \in Question
        PROVE  disturbed'[p] <=> disturbed[p] \/ p \in struck
    BY <1>2 DEF Fault, TypeOK
  <1>3. ASSUME StatementFails, CauseInv, NEW p \in Question
        PROVE  (disturbed[p] => disturbed'[p]) /\ (Open(p) => disturbed'[p])
    <2>1. CASE aborted /\ NoFault
      BY <1>1, <1>3, <2>1 DEF CauseInv, BrokenForAll
    <2>2. CASE Fault({q \in Question : Open(q)})
      BY <1>2, <2>2
    <2> QED
      BY <1>3, <2>1, <2>2 DEF StatementFails
  <1> QED
    BY <1>1, <1>2, <1>3

LEMMA Remembered ==
  ASSUME TypeOK, CauseInv, NEW q \in Question, Ask(q) \/ Serve(q), NEW p \in Question,
         disturbed[p]
  PROVE  disturbed'[p] \/ (p = q /\ Ask(q))
  <1>1. CASE Ask(q)
    BY <1>1 DEF Ask, TypeOK
  <1>2. CASE RequestThread(q)
    BY <1>2, Struck
    DEF RequestThread, Forbid, ResolveNothing, Resolve, LookupFails, Rollback, EndVerify, JoinSnapshot,
        EndSearch, Revalidate, Abandon, Fuse, Rerank, Generate
  <1>3. CASE WorkerThread(q)
    BY <1>3, Struck
    DEF WorkerThread, EmbedQuestion, LoadSnapshot, SnapshotFails, RollbackSnapshot, VerifyRoute,
        Search, SearchFails, EmbedTask
  <1> QED
    BY <1>1, <1>2, <1>3 DEF Serve

LEMMA BrokenKeeps ==
  ASSUME ReadInv, CauseInv, NEW q \in Question, Ask(q) \/ Serve(q)
  PROVE  BrokenForAll' /\ SomeoneRollsBack'
  <1> USE DEF ReadInv, store, threads, answer, history, Goto
  <1>1. \A p \in Question \ {q} : Same(p)
    BY OthersKeep
  <1>2. \A p \in Question : disturbed[p] => disturbed'[p] \/ (p = q /\ Ask(q))
    BY Remembered
  <1>3. /\ aborted => \A p \in Question : Open(p) => disturbed[p]
        /\ aborted => \E p \in Question : pc[p] = "rollback" \/ snap[p] = "rollback"
    BY DEF CauseInv, BrokenForAll, SomeoneRollsBack
  <1>4. CASE Ask(q)
    <2>1. /\ pc[q] = "idle" /\ pc'[q] = "resolve" /\ disturbed'[q] = aborted
          /\ aborted' = aborted /\ snap' = snap
      BY <1>4 DEF Ask, TypeOK
    <2> QED
      BY <1>1, <1>2, <1>3, <2>1 DEF BrokenForAll, SomeoneRollsBack, Open, Same
  <1>5. CASE LookupFails(q) \/ SnapshotFails(q)
    <2>1. pc'[q] = "rollback" \/ snap'[q] = "rollback"
      BY <1>5 DEF LookupFails, SnapshotFails, SetSnap, TypeOK
    <2>2. StatementFails /\ Open(q)
      <3>1. CASE LookupFails(q)
        BY <3>1 DEF LookupFails, Open
      <3>2. CASE SnapshotFails(q)
        BY <3>2 DEF SnapshotFails, QuestionInv, ThreadsInv, Open
      <3> QED
        BY <1>5, <3>1, <3>2
    <2>3. \A p \in Question : Open(p)' => Open(p)
      BY <1>1, <2>2 DEF Open, Same
    <2> QED
      BY <2>1, <2>2, <2>3, Struck DEF BrokenForAll, SomeoneRollsBack
  <1>6. CASE Rollback(q) \/ RollbackSnapshot(q)
    BY <1>6 DEF Rollback, RollbackSnapshot, BrokenForAll, SomeoneRollsBack
\* A step that leaves the transaction as it is.
  <1>7. ASSUME aborted' = aborted, Open(q)' => Open(q), ~Ask(q),
               aborted => /\ pc[q] = "rollback" => pc'[q] = "rollback"
                          /\ snap[q] = "rollback" => snap'[q] = "rollback"
        PROVE  BrokenForAll' /\ SomeoneRollsBack'
    <2>1. \A p \in Question : Open(p)' => Open(p)
      BY <1>1, <1>7 DEF Open, Same
    <2>2. \A p \in Question :
            /\ aborted /\ pc[p] = "rollback" => pc'[p] = "rollback"
            /\ aborted /\ snap[p] = "rollback" => snap'[p] = "rollback"
      BY <1>1, <1>7 DEF Same
    <2> QED
      BY <1>2, <1>3, <1>7, <2>1, <2>2 DEF BrokenForAll, SomeoneRollsBack
  <1>8. CASE Forbid(q) \/ ResolveNothing(q) \/ Resolve(q)
    <2>1. pc[q] = "resolve" /\ ~aborted /\ aborted' = aborted
      BY <1>8 DEF Forbid, ResolveNothing, Resolve
    <2> QED
      BY <1>7, <2>1 DEF Open, Ask
  <1>9. CASE EndVerify(q) \/ JoinSnapshot(q) \/ EndSearch(q) \/ Revalidate(q) \/ Rerank(q) \/ Generate(q)
    <2>1. /\ pc[q] \in {"verify", "join", "search", "revalidate", "rerank", "generate"}
          /\ aborted' = aborted /\ snap' = snap
      BY <1>9 DEF EndVerify, JoinSnapshot, EndSearch, Revalidate, Rerank, Generate
    <2> QED
      BY <1>7, <2>1 DEF Open, Ask
  <1>10. CASE Abandon(q) \/ Fuse(q)
    <2>1. pc[q] \in {"abandon", "fuse"} /\ aborted' = aborted /\ Joined(q)
      BY <1>10 DEF Abandon, Fuse
    <2>2. snap[q] # "rollback"
      BY <2>1 DEF Joined, ThreadsOf
    <2> QED
      BY <1>7, <2>1, <2>2 DEF Open, Ask
  <1>11. CASE \/ EmbedQuestion(q) \/ EmbedTask(q)
              \/ \E r \in Route : VerifyRoute(q, r) \/ Search(q, r) \/ SearchFails(q, r)
    <2>1. aborted' = aborted /\ pc' = pc /\ snap' = snap
      BY <1>11 DEF EmbedQuestion, EmbedTask, VerifyRoute, Search, SearchFails
    <2>2. CASE Ask(q)
      BY <1>4, <2>2
    <2> QED
      BY <1>7, <2>1, <2>2 DEF Open
  <1>12. CASE LoadSnapshot(q)
    <2>1. aborted' = aborted /\ pc' = pc /\ ~aborted
      BY <1>12 DEF LoadSnapshot
    <2>2. CASE Ask(q)
      BY <1>4, <2>2
    <2> QED
      BY <1>7, <2>1, <2>2 DEF Open
  <1> QED
    BY <1>4, <1>5, <1>6, <1>8, <1>9, <1>10, <1>11, <1>12 DEF Serve, RequestThread, WorkerThread

\* A question that is still undisturbed after its own step did not fail in it.
LEMMA OwnCause ==
  ASSUME ReadInv, CauseInv, NEW q \in Question, Ask(q) \/ Serve(q), ~disturbed'[q]
  PROVE  Untroubled(q)'
  <1> USE DEF ReadInv, store, threads, answer, history, Goto
  <1>1. ASSUME ~Ask(q)
        PROVE  ~disturbed[q] /\ Untroubled(q)
    BY <1>1, Remembered DEF CauseInv
  <1>2. QuestionInv(q) /\ TypeOK /\ visible' = visible
    BY DEF Ask, Serve, RequestThread, Forbid, ResolveNothing, Resolve, LookupFails, Rollback,
           EndVerify, JoinSnapshot, EndSearch, Revalidate, Abandon, Fuse, Rerank, Generate,
           WorkerThread, EmbedQuestion, LoadSnapshot, SnapshotFails, RollbackSnapshot, VerifyRoute,
           Search, SearchFails, EmbedTask
  <1>3. CASE Ask(q)
    <2>1. /\ pc[q] = "idle" /\ pc'[q] = "resolve"
          /\ UNCHANGED <<embed, snap, verified, task, status>>
      BY <1>3 DEF Ask, TypeOK
    <2>2. status[q] = "none"
      BY <1>2, <2>1 DEF QuestionInv, ThreadsInv
    <2> QED
      BY <1>2, <2>1, <2>2 DEF QuestionInv, Fresh, Untroubled
\* A call that fails strikes the question.
  <1>4. /\ ~StatementFails \/ ~Open(q)
        /\ ~Fault({q})
    BY <1>2, Struck
  <1>5. ASSUME scope'[q] = scope[q]
        PROVE  Lookup(q)' = Lookup(q)
    BY <1>2, <1>5 DEF Lookup, InScope
\* The rows of what it looked up are complete.
  <1>6. ASSUME NEW r \in Route, r[2] \in expected[q], Untroubled(q), pc[q] \in {"verify", "search"}
        PROVE  rows[r] = "all"
    <2>1. r[2] \in visible
      BY <1>6 DEF Untroubled, Lookup
    <2> QED
      BY <2>1 DEF StoreInv
  <1>7. CASE Forbid(q) \/ ResolveNothing(q) \/ Resolve(q)
    <2>1. ~Ask(q)
      BY <1>7 DEF Ask, Forbid, ResolveNothing, Resolve
    <2>2. CASE Forbid(q)
      BY <1>1, <2>1, <2>2 DEF Untroubled, Forbid, Finish, TypeOK
    <2>3. CASE ResolveNothing(q)
      <3>1. Lookup(q)' = {} /\ expected'[q] = {}
        BY <1>2, <1>5, <2>3 DEF ResolveNothing, QuestionInv, Fresh
      <3> QED
        BY <1>1, <2>1, <2>3, <3>1 DEF Untroubled, ResolveNothing, TypeOK
    <2>4. CASE Resolve(q)
      <3>1. Lookup(q)' = expected'[q]
        BY <1>5, <2>4 DEF Resolve, TypeOK
      <3>2. \A r \in Route : /\ verified'[q][r] # "failed"
                             /\ verified'[q][r] = "pending" => r[2] \in expected'[q]
        BY <2>4 DEF Resolve, TypeOK
      <3>3. embed'[q] # "failed" /\ snap'[q] \notin {"rollback", "failed"} /\ pc'[q] = "verify"
        BY <2>4 DEF Resolve, TypeOK
      <3> QED
        BY <1>1, <2>1, <2>4, <3>1, <3>2, <3>3 DEF Untroubled, Resolve
    <2> QED
      BY <1>7, <2>2, <2>3, <2>4
  <1>8. CASE LookupFails(q) \/ SnapshotFails(q)
    <2>1. StatementFails /\ Open(q)
      <3>1. CASE LookupFails(q)
        BY <3>1 DEF LookupFails, Open
      <3>2. CASE SnapshotFails(q)
        BY <1>2, <3>2 DEF SnapshotFails, QuestionInv, ThreadsInv, Open
      <3> QED
        BY <1>8, <3>1, <3>2
    <2> QED
      BY <1>4, <2>1
  <1>9. CASE Rollback(q) \/ RollbackSnapshot(q) \/ Abandon(q)
    <2>1. ~Untroubled(q)
      BY <1>9 DEF Untroubled, Rollback, RollbackSnapshot, Abandon
    <2>2. CASE Ask(q)
      BY <1>3, <2>2
    <2> QED
      BY <1>1, <2>1, <2>2
  <1>10. CASE EndVerify(q)
    <2>1. Untroubled(q)
      BY <1>1, <1>10 DEF Ask, EndVerify
    <2>2. /\ pc[q] = "verify" /\ pc'[q] = "join"
          /\ \A r \in Route : verified'[q][r] \notin {"failed", "pending"}
          /\ UNCHANGED <<scope, expected, embed, snap, task, status>>
      BY <1>10, <2>1 DEF EndVerify, NoRoute, Untroubled, TypeOK
    <2> QED
      BY <1>5, <2>1, <2>2 DEF Untroubled
  <1>11. CASE JoinSnapshot(q)
    <2>1. Untroubled(q)
      BY <1>1, <1>11 DEF Ask, JoinSnapshot
    <2>2. /\ pc[q] = "join" /\ pc'[q] \in {"revalidate", "search"}
          /\ \A t \in Task : task'[q][t] # "failed"
          /\ UNCHANGED <<scope, expected, embed, snap, verified, status>>
      BY <1>11, <2>1, SMTT(30) DEF JoinSnapshot, Untroubled, TypeOK
    <2> QED
      BY <1>5, <2>1, <2>2 DEF Untroubled
  <1>12. CASE EndSearch(q) \/ Revalidate(q)
    <2>1. Untroubled(q)
      BY <1>1, <1>12 DEF Ask, EndSearch, Revalidate
    <2>2. /\ pc[q] \in {"search", "revalidate"} /\ pc'[q] \in {"revalidate", "fuse"}
          /\ \A t \in Task : task'[q][t] # "failed"
          /\ UNCHANGED <<scope, expected, embed, snap, verified, status>>
      BY <1>12, <2>1 DEF EndSearch, Revalidate, Current, InState, NoTask, Untroubled, TypeOK
    <2> QED
      BY <1>5, <2>1, <2>2 DEF Untroubled
  <1>13. CASE Fuse(q) \/ Rerank(q) \/ Generate(q)
    <2>1. Untroubled(q)
      BY <1>1, <1>13 DEF Ask, Fuse, Rerank, Generate
    <2>2. /\ pc'[q] \in {"rerank", "generate", "done"} /\ status'[q] # "UNAVAILABLE"
          /\ embed'[q] # "failed" /\ snap'[q] \notin {"rollback", "failed"}
          /\ UNCHANGED <<verified, task, expected>>
      BY <1>13, <2>1 DEF Fuse, Rerank, Generate, Finish, SetEmbed, SetSnap, Untroubled, TypeOK
    <2> QED
      BY <2>1, <2>2 DEF Untroubled
  <1>14. CASE EmbedQuestion(q) \/ LoadSnapshot(q)
    <2>1. Untroubled(q) \/ Ask(q)
      BY <1>1
    <2>2. ASSUME Untroubled(q)
          PROVE  /\ embed'[q] # "failed" /\ snap'[q] \notin {"rollback", "failed"}
      <3>1. CASE EmbedQuestion(q)
        BY <1>4, <2>2, <3>1 DEF EmbedQuestion, SetEmbed, Untroubled, TypeOK
      <3>2. CASE LoadSnapshot(q)
        <4>1. pc[q] \in {"verify", "join"}
          BY <1>2, <2>2, <3>2 DEF LoadSnapshot, QuestionInv, ThreadsInv, Untroubled
        <4>2. expected[q] \subseteq visible
          BY <2>2, <4>1 DEF Untroubled, Lookup
        <4> QED
          BY <2>2, <3>2, <4>2 DEF LoadSnapshot, SetSnap, Untroubled, TypeOK
      <3> QED
        BY <1>14, <3>1, <3>2
    <2>3. UNCHANGED <<pc, scope, expected, verified, task, status>>
      BY <1>14 DEF EmbedQuestion, LoadSnapshot
    <2> QED
      BY <1>3, <1>5, <2>1, <2>2, <2>3 DEF Untroubled
  <1>15. ASSUME NEW r \in Route, VerifyRoute(q, r)
         PROVE  Untroubled(q)'
    <2>1. CASE Ask(q)
      BY <1>3, <2>1
    <2>2. CASE ~Ask(q)
      <3>1. Untroubled(q) /\ verified[q][r] = "pending" /\ pc[q] = "verify"
        BY <1>1, <1>2, <1>15, <2>2 DEF VerifyRoute, QuestionInv, ThreadsInv
      <3>2. rows[r] = "all"
        BY <1>6, <3>1 DEF Untroubled
      <3>3. SetVerified(q, r, "ok")
        BY <1>4, <1>15, <3>2 DEF VerifyRoute
      <3>4. \A s \in Route : verified'[q][s] # verified[q][s] => s = r /\ verified'[q][s] = "ok"
        BY <3>3 DEF SetVerified, TypeOK
      <3>5. UNCHANGED <<pc, scope, expected, embed, snap, task, status>>
        BY <1>15 DEF VerifyRoute
      <3> QED
        BY <1>5, <3>1, <3>4, <3>5 DEF Untroubled
    <2> QED
      BY <2>1, <2>2
  <1>16. ASSUME NEW t \in Task, SetTask(q, t, "ok"), Untroubled(q),
                UNCHANGED <<pc, scope, expected, embed, snap, verified, status>>
         PROVE  Untroubled(q)'
    <2>1. \A u \in Task : task'[q][u] # task[q][u] => task'[q][u] = "ok"
      BY <1>16 DEF SetTask, TypeOK
    <2> QED
      BY <1>5, <1>16, <2>1 DEF Untroubled
  <1>17. CASE EmbedTask(q)
    <2>1. CASE Ask(q)
      BY <1>3, <2>1
    <2>2. CASE ~Ask(q)
      <3>1. Untroubled(q)
        BY <1>1, <2>2
      <3>2. SetTask(q, <<Embedding>>, "ok")
        BY <1>4, <1>17, <3>1 DEF EmbedTask, Untroubled
      <3>3. UNCHANGED <<pc, scope, expected, embed, snap, verified, status>>
        BY <1>17 DEF EmbedTask
      <3> QED
        BY <1>16, <3>1, <3>2, <3>3, TaskTypes
    <2> QED
      BY <2>1, <2>2
  <1>18. ASSUME NEW r \in Route, Search(q, r) \/ SearchFails(q, r)
         PROVE  Untroubled(q)'
    <2>1. CASE Ask(q)
      BY <1>3, <2>1
    <2>2. CASE ~Ask(q)
      <3>1. Untroubled(q)
        BY <1>1, <2>2
      <3>2. task[q][r] = "pending" /\ r \in Task /\ Ready(q, r)
        BY <1>18, TaskTypes DEF Search, SearchFails, Taken
      <3>3. pc[q] = "search" /\ r[2] \in expected[q]
        <4>1. pc[q] = "search" /\ (r = <<Embedding>> \/ r \in RoutesOf(q))
          BY <1>2, <3>2 DEF QuestionInv, ThreadsInv
        <4> QED
          BY <4>1, EmbeddingIsNoRoute DEF RoutesOf
      <3>4. Searchable(q, r)
        <4>1. rows[r] = "all"
          BY <1>6, <3>1, <3>3
        <4>2. task[q][<<Embedding>>] # "failed"
          BY <3>1, TaskTypes DEF Untroubled
        <4> QED
          BY <3>2, <4>1, <4>2 DEF Searchable, Ready
      <3>5. Search(q, r)
        BY <1>4, <1>18, <3>4 DEF SearchFails
      <3>6. /\ SetTask(q, r, "ok")
            /\ UNCHANGED <<pc, scope, expected, embed, snap, verified, status>>
        BY <3>5 DEF Search
      <3> QED
        BY <1>16, <3>1, <3>2, <3>6
    <2> QED
      BY <2>1, <2>2
  <1> QED
    BY <1>3, <1>7, <1>8, <1>9, <1>10, <1>11, <1>12, <1>13, <1>14, <1>15, <1>17, <1>18
    DEF Serve, RequestThread, WorkerThread

LEMMA StepCause == ReadInv /\ CauseInv /\ [Next]_vars => CauseInv'
  <1> SUFFICES ASSUME ReadInv, CauseInv, [Next]_vars PROVE CauseInv'
    OBVIOUS
  <1>1. CASE UNCHANGED vars
    BY <1>1 DEF vars, store, threads, answer, history, CauseInv, BrokenForAll, SomeoneRollsBack,
                Untroubled, Open, Lookup, InScope
  <1>2. CASE Environment
    BY <1>2, EnvironmentCause DEF Environment, ReadInv
  <1>3. ASSUME NEW q \in Question, Ask(q) \/ Serve(q)
        PROVE  CauseInv'
    <2>1. BrokenForAll' /\ SomeoneRollsBack'
      BY <1>3, BrokenKeeps
    <2>2. disturbed'[q] \/ Untroubled(q)'
      BY <1>3, OwnCause
    <2>3. ASSUME NEW p \in Question, p # q
          PROVE  disturbed'[p] \/ Untroubled(p)'
      <3>1. disturbed[p] => disturbed'[p]
        BY <1>3, <2>3, Remembered DEF ReadInv
      <3>2. Same(p) /\ visible' = visible
        BY <1>3, <2>3, OthersKeep DEF ReadInv, store
      <3>3. Untroubled(p) => Untroubled(p)'
        BY <3>2 DEF Untroubled, Same, Lookup, InScope
      <3> QED
        BY <3>1, <3>3 DEF CauseInv
    <2> QED
      BY <2>1, <2>2, <2>3 DEF CauseInv
  <1> QED
    BY <1>1, <1>2, <1>3 DEF Next

\* A question that nothing disturbs is answered from what it looked up, whatever the other
\* questions on the same connection and pool suffer; what it fails for is a failing call,
\* a version in its scope that came or went, or a transaction that was broken before
\* (online.py:292-471, postgres.py:695-703 and 839-871).
THEOREM FailureHasCause == Spec => []FailsOnlyForCause
  <1>1. CauseInv => FailsOnlyForCause
    BY DEF CauseInv, SomeoneRollsBack, Untroubled, FailsOnlyForCause
  <1>2. Spec => []CauseInv
    BY InitCause, StepCause, ReadInvariant, PTL DEF Spec
  <1> QED
    BY <1>1, <1>2, PTL

==============================================================================
