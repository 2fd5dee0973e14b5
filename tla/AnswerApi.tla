------------------------------ MODULE AnswerApi ------------------------------
(***************************************************************************)
(* Who may see which chunk, decided in four places that must agree: the    *)
(* fact of fixture.py, the filter sent to Elasticsearch, the filter sent   *)
(* to Milvus and the request narrowed by the API (api/app.py).             *)
(*                                                                         *)
(* A chunk has a document, a tenant, a visibility, libraries and is active *)
(* or not. A scope has a tenant, whether its other fields are there,       *)
(* include_public and three lists of selectors; a list holds items, and    *)
(* perhaps an item that is not a string. Requests do not influence one     *)
(* another: a behaviour has one.                                           *)
(***************************************************************************)
EXTENDS Naturals, Sequences, FiniteSets, SequencesExt

CONSTANTS
  Document, Tenant, Library, Folder,
  Corpora, \* the sets of chunks that may be stored
  Scopes   \* the scopes the server may have

\* _string_set, _string_list: the strings of a list, and whether something else is in it.
SelectorList(items) == [items : SUBSET items, spoilt : BOOLEAN]

StoredChunk ==
  [document : Document, tenant : Tenant, visibility : {"public", "tenant", "private"},
   libraries : SUBSET Library, active : BOOLEAN]

Scope ==
  [tenant : Tenant, complete : BOOLEAN, public : BOOLEAN, documents : SelectorList(Document),
   libraries : SelectorList(Library), folders : SelectorList(Folder)]

ASSUME AccessAssumption == Corpora \subseteq SUBSET StoredChunk /\ Scopes \subseteq Scope

VARIABLE asked \* the request, with what was stored and the scope of the server

Selectors(items, spoilt) == [items |-> items, spoilt |-> spoilt]
None0 == Selectors({}, FALSE)

-----------------------------------------------------------------------------
(* fixture.py: is_chunk_authorized. _string_set drops what is not a string. *)

HasSelectors(scope) ==
  scope.documents.items # {} \/ scope.libraries.items # {} \/ scope.folders.items # {}

\* _matches_selected_scope: a chunk has no folder, so folders select nothing.
Selected(chunk, scope) ==
  \/ chunk.document \in scope.documents.items
  \/ chunk.libraries \cap scope.libraries.items # {}

Authorized(chunk, scope) ==
  /\ scope.complete /\ chunk.active
  /\ \/ /\ chunk.visibility = "public" /\ scope.public
        /\ HasSelectors(scope) => Selected(chunk, scope)
     \/ /\ chunk.visibility = "tenant" /\ chunk.tenant = scope.tenant
        /\ HasSelectors(scope) => Selected(chunk, scope)
     \/ /\ chunk.visibility = "private" /\ chunk.tenant = scope.tenant
        /\ Selected(chunk, scope)

-----------------------------------------------------------------------------
(* The two filters. _string_list refuses a list with an item that is not a string,  *)
(* and the filter then matches nothing.                                             *)

Readable(scope) ==
  scope.complete /\ ~scope.documents.spoilt /\ ~scope.libraries.spoilt /\ ~scope.folders.spoilt

\* elasticsearch.py: rules with a terms selection if anything resolvable is selected.
EsFilter(chunk, scope) ==
  LET resolvable == scope.documents.items # {} \/ scope.libraries.items # {}
      selection == Selected(chunk, scope)
      any == resolvable \/ scope.folders.items # {}
  IN
  /\ Readable(scope) /\ chunk.active
  /\ \/ /\ scope.public /\ (~any \/ resolvable)
        /\ chunk.visibility = "public" /\ (any => selection)
     \/ /\ chunk.visibility = "tenant" /\ chunk.tenant = scope.tenant
        /\ any => resolvable /\ selection
     \/ /\ resolvable
        /\ chunk.visibility = "private" /\ chunk.tenant = scope.tenant /\ selection

\* Mutant: folders without documents or libraries do not empty the filter.
MilvusIgnoresFolders(chunk, scope) ==
  LET selectors == scope.documents.items # {} \/ scope.libraries.items # {}
      selector == selectors => Selected(chunk, scope)
  IN
  /\ Readable(scope) /\ chunk.active
  /\ \/ scope.public /\ chunk.visibility = "public" /\ selector
     \/ chunk.visibility = "tenant" /\ chunk.tenant = scope.tenant /\ selector
     \/ selectors /\ chunk.visibility = "private" /\ chunk.tenant = scope.tenant /\ selector

\* milvus.py: one expression; folders alone make it unsatisfiable.
MilvusFilter(chunk, scope) ==
  LET selectors == scope.documents.items # {} \/ scope.libraries.items # {}
      selector == selectors => Selected(chunk, scope)
  IN
  /\ Readable(scope) /\ chunk.active
  /\ scope.folders.items # {} => selectors
  /\ \/ scope.public /\ chunk.visibility = "public" /\ selector
     \/ chunk.visibility = "tenant" /\ chunk.tenant = scope.tenant /\ selector
     \/ selectors /\ chunk.visibility = "private" /\ chunk.tenant = scope.tenant /\ selector

\* The hits that pass the filter are checked once more with is_chunk_authorized.
Searchable(store, chunk, scope) ==
  CASE store = "elasticsearch" -> EsFilter(chunk, scope) /\ Authorized(chunk, scope)
    [] store = "milvus" -> MilvusFilter(chunk, scope) /\ Authorized(chunk, scope)
    [] OTHER -> Authorized(chunk, scope)

-----------------------------------------------------------------------------
(* The request (backends other than the online one): documents that the base scope  *)
(* does not authorize are forbidden, the others replace its selectors.              *)

AuthorizedDocuments(chunks, scope) == {c.document : c \in {c \in chunks : Authorized(c, scope)}}

Forbidden(chunks, scope, requested) == ~(requested \subseteq AuthorizedDocuments(chunks, scope))

\* _narrow_scope
Narrowed(scope, requested) ==
  IF requested = {} THEN scope
  ELSE [scope EXCEPT !.documents = Selectors(requested, FALSE),
                     !.libraries = None0, !.folders = None0]

\* The chunks an answer may cite.
Answerable(store, chunks, scope, requested) ==
  IF Forbidden(chunks, scope, requested) THEN {}
  ELSE {c \in chunks : Searchable(store, c, Narrowed(scope, requested))}

-----------------------------------------------------------------------------
(* create_rag_answer reads the chunks and the scope and narrows it by the request. *)

AskInit == asked = {}

Ask ==
  /\ asked = {}
  /\ \E chunks \in Corpora, scope \in Scopes, requested \in SUBSET Document :
       asked' = {[chunks |-> chunks, scope |-> scope, requested |-> requested]}

AskSpec == AskInit /\ [][Ask]_asked

-----------------------------------------------------------------------------
(* Properties. *)

\* The two filters select the same chunks for every scope, never one that the fact
\* does not authorize, and all of those if the lists of the scope are well formed.
FiltersAgree(chunk, scope) ==
  /\ EsFilter(chunk, scope) <=> MilvusFilter(chunk, scope)
  /\ EsFilter(chunk, scope) => Authorized(chunk, scope)
  /\ Readable(scope) /\ Authorized(chunk, scope) => EsFilter(chunk, scope)

\* Naming documents in a request shows no chunk that the scope of the server would not
\* show without them, provided that the chunks of a document share their visibility,
\* tenant and libraries, as everything the ingestion produces does.
NarrowingNeverWidens(store, chunks, scope, requested) ==
  (\A c, d \in chunks : c.document = d.document =>
      c.visibility = d.visibility /\ c.tenant = d.tenant /\ c.libraries = d.libraries)
  => Answerable(store, chunks, scope, requested) \subseteq {c \in chunks : Authorized(c, scope)}

\* Both, for every request and whatever chunks are stored.
AccessNeverWidens == \A r \in asked :
  /\ \A chunk \in r.chunks : FiltersAgree(chunk, r.scope)
  /\ \A searched \in {"elasticsearch", "milvus", "sqlite"} :
       NarrowingNeverWidens(searched, r.chunks, r.scope, r.requested)

=============================================================================
