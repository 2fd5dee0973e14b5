------------------------------ MODULE ApiProcess ------------------------------
(***************************************************************************)
(* The life of one API process (create_app of backend/api/app.py): the     *)
(* indexes of the configured backend are verified against the chunk file,  *)
(* an embedding provider is opened unless one was injected, and the        *)
(* lifespan closes at shutdown what the app opened itself. Every step may  *)
(* raise; questions are answered only in between.                          *)
(***************************************************************************)
EXTENDS Sequences, SequencesExt

Backends == {"lexical_overlap", "sqlite_fts5", "local_vector", "local_rrf",
             "elasticsearch_bm25", "milvus_vector", "remote_rrf", "online_remote_rrf"}

VARIABLES
  backend,  \* retrieval_backend
  todo,     \* the steps of create_app that are left
  verified, \* what verify_source and verify_provider accepted
  provider, \* the embedding provider: "none", "injected", "own", "closed"
  phase,    \* "starting", "serving", "refused", "stopped"
  read      \* what the last answer was searched in

apivars == <<backend, todo, verified, provider, phase, read>>

\* create_app, in the order of the code; "provider" opens one where none was injected.
StartupSteps(b) ==
  CASE b = "sqlite_fts5" -> <<"fts">>
    [] b = "local_vector" -> <<"provider", "vectors", "model">>
    [] b = "local_rrf" -> <<"fts", "provider", "vectors", "model", "join">>
    [] b = "elasticsearch_bm25" -> <<"elasticsearch">>
    [] b = "milvus_vector" -> <<"provider", "milvus", "model">>
    [] b = "remote_rrf" -> <<"elasticsearch", "provider", "milvus", "model", "join">>
    [] b = "online_remote_rrf" -> <<"online">>
    [] OTHER -> <<>>

\* create_rag_answer: what the consumer of each backend searches. The routes of the
\* online backend are verified for every question (OnlineRead).
Searches(b) ==
  CASE b = "sqlite_fts5" -> {"fts"}
    [] b = "local_vector" -> {"vectors", "model"}
    [] b = "local_rrf" -> {"fts", "vectors", "model"}
    [] b = "elasticsearch_bm25" -> {"elasticsearch"}
    [] b = "milvus_vector" -> {"milvus", "model"}
    [] b = "remote_rrf" -> {"elasticsearch", "milvus", "model"}
    [] OTHER -> {}

ApiInit ==
  /\ backend \in Backends
  /\ todo = StartupSteps(backend)
  /\ verified = {}
  /\ provider \in {"none", "injected"}
  /\ phase = "starting"
  /\ read = {}

\* _close_embedding_provider(owned_embedding_provider)
CloseOwned == provider' = IF provider = "own" THEN "closed" ELSE provider

Start ==
  /\ phase = "starting" /\ todo # <<>>
  /\ todo' = Tail(todo)
  /\ verified' = verified \cup ({Head(todo)} \ {"provider", "join", "online"})
  /\ provider' = IF Head(todo) = "provider" /\ provider = "none" THEN "own" ELSE provider
  /\ UNCHANGED <<backend, phase, read>>

\* Mutant: a provider opened before the step that fails stays open.
StartFailsOpen ==
  /\ phase = "starting" /\ todo # <<>>
  /\ phase' = "refused"
  /\ UNCHANGED <<backend, todo, verified, provider, read>>

\* A missing setting, an index that does not match, a service that does not answer.
StartFails ==
  /\ phase = "starting" /\ todo # <<>>
  /\ phase' = "refused"
  /\ CloseOwned
  /\ UNCHANGED <<backend, todo, verified, read>>

Serve ==
  /\ phase = "starting" /\ todo = <<>>
  /\ phase' = "serving"
  /\ UNCHANGED <<backend, todo, verified, provider, read>>

Answer ==
  /\ phase = "serving"
  /\ read' = Searches(backend)
  /\ UNCHANGED <<backend, todo, verified, provider, phase>>

Shutdown ==
  /\ phase = "serving"
  /\ phase' = "stopped"
  /\ CloseOwned
  /\ UNCHANGED <<backend, todo, verified, read>>

ApiNext == Start \/ StartFails \/ Serve \/ Answer \/ Shutdown

ApiSpec == ApiInit /\ [][ApiNext]_apivars

-----------------------------------------------------------------------------
(* Properties. *)

\* An answer was searched only in what was verified at startup, with a provider that
\* is open, whichever of the eight backends is configured.
AnswersFromVerified ==
  /\ read \subseteq verified
  /\ phase = "serving" /\ "model" \in Searches(backend) => provider \in {"own", "injected"}

\* However the process ends, the provider it opened itself is closed.
OwnProviderClosed ==
  phase \in {"refused", "stopped"} => provider # "own"

\* Between its start and its end the process answers from what it verified, and its end
\* leaves nothing of it open.
ServesVerifiedAndCloses == AnswersFromVerified /\ OwnProviderClosed

-----------------------------------------------------------------------------
(* What makes them inductive. *)

ApiTypeOK ==
  /\ backend \in Backends
  /\ todo \in Seq({"fts", "provider", "vectors", "model", "join", "elasticsearch", "milvus",
                   "online"})
  /\ provider \in {"none", "injected", "own", "closed"}
  /\ phase \in {"starting", "serving", "refused", "stopped"}

\* Until it is stopped the process has verified, or has yet to verify, what its answers will
\* be searched in, and it has no answer before it serves.
StartsInOrder == phase \in {"starting", "serving"} =>
  /\ Searches(backend) \subseteq verified \cup ToSet(todo)
  /\ "model" \in Searches(backend) =>
       provider \in {"own", "injected"} \/ "provider" \in ToSet(todo)
  /\ provider # "closed"
  /\ phase = "serving" => todo = <<>>

ApiInv == ApiTypeOK /\ StartsInOrder /\ ServesVerifiedAndCloses

=============================================================================
