---------------------------- MODULE EmbeddingPool ----------------------------
(***************************************************************************)
(* The bounded pool of HTTP connections to the embedding service           *)
(* (_ReusableOllamaHttpClient of backend/retrieval/embedding.py), shared by *)
(* the threads that embed: the retrieval workers of several questions, the *)
(* prewarming and the index writer. Every block under the client's         *)
(* Condition is one step; the exchange with the service and the closing of *)
(* a socket are steps of their own, outside the lock.                      *)
(***************************************************************************)
EXTENDS Naturals, FiniteSets

CONSTANTS
  Caller,         \* threads, each with one request
  Connection,     \* connection objects, enough for every caller
  MaxConnections  \* _OLLAMA_MAX_HTTP_CONNECTIONS

None == "none"

\* A limit that allows a connection, as the constant of the code does, and as many
\* connection objects as there are callers to hold one.
ASSUME PoolAssumption ==
  /\ IsFiniteSet(Caller) /\ IsFiniteSet(Connection)
  /\ Cardinality(Connection) >= Cardinality(Caller)
  /\ MaxConnections \in Nat \ {0}
  /\ None \notin Connection

VARIABLES
  pc,          \* what a caller does next
  held,        \* the connection a caller uses
  connections, \* _connections: the connections the client counts
  available,   \* _available: the idle ones
  closed,      \* _closed
  doomed,      \* the connections close() has yet to close
  socket       \* the connections whose socket is open

poolvars == <<pc, held, connections, available, closed, doomed, socket>>

Stage == {"acquire", "wait", "send", "release", "discard", "hangup", "done"}

PoolTypeOK ==
  /\ pc \in [Caller -> Stage]
  /\ held \in [Caller -> Connection \cup {None}]
  /\ connections \subseteq Connection
  /\ available \subseteq connections
  /\ closed \in BOOLEAN
  /\ doomed \subseteq Connection
  /\ socket \subseteq Connection

PoolInit ==
  /\ pc = [c \in Caller |-> "acquire"]
  /\ held = [c \in Caller |-> None]
  /\ connections = {} /\ available = {} /\ doomed = {} /\ socket = {}
  /\ closed = FALSE

Goto(c, stage) == pc' = [pc EXCEPT ![c] = stage]
InUse == {held[c] : c \in Caller} \ {None}

-----------------------------------------------------------------------------
(* _acquire: the disjuncts in the order of the code's tests. *)

AcquireClosed(c) ==
  /\ pc[c] = "acquire" /\ closed
  /\ Goto(c, "done")
  /\ UNCHANGED <<held, connections, available, closed, doomed, socket>>

AcquireIdle(c) ==
  /\ pc[c] = "acquire" /\ ~closed
  /\ \E k \in available :
       /\ held' = [held EXCEPT ![c] = k]
       /\ available' = available \ {k}
  /\ Goto(c, "send")
  /\ UNCHANGED <<connections, closed, doomed, socket>>

\* A new object; its socket opens with the first request.
AcquireNew(c) ==
  /\ pc[c] = "acquire" /\ ~closed /\ available = {}
  /\ Cardinality(connections) < MaxConnections
  /\ LET k == CHOOSE k \in Connection : k \notin connections \cup InUse IN
       /\ held' = [held EXCEPT ![c] = k]
       /\ connections' = connections \cup {k}
  /\ Goto(c, "send")
  /\ UNCHANGED <<available, closed, doomed, socket>>

AcquireWait(c) ==
  /\ pc[c] = "acquire" /\ ~closed /\ available = {}
  /\ Cardinality(connections) >= MaxConnections
  /\ Goto(c, "wait")
  /\ UNCHANGED <<held, connections, available, closed, doomed, socket>>

-----------------------------------------------------------------------------
(* The exchange, and _release. *)

\* A connection reopens its socket on a request, even after close() closed it.
\* The answer may ask to close the connection; any failure discards it.
Send(c) ==
  /\ pc[c] = "send"
  /\ \/ /\ socket' = socket \cup {held[c]}
        /\ Goto(c, "release") \/ Goto(c, "discard")
     \/ socket' = socket \ {held[c]} /\ Goto(c, "discard")
  /\ UNCHANGED <<held, connections, available, closed, doomed>>

Waiting == {c \in Caller : pc[c] = "wait"}

\* Condition.notify, with the step of the caller that releases.
NotifyOne(c, stage) ==
  IF Waiting = {} THEN Goto(c, stage)
  ELSE \E w \in Waiting : pc' = [pc EXCEPT ![c] = stage, ![w] = "acquire"]

\* Mutant: a discarded connection wakes nobody.
ReleaseQuietly(c) ==
  /\ pc[c] \in {"release", "discard"}
  /\ IF pc[c] = "discard" \/ closed
     THEN /\ connections' = connections \ {held[c]}
          /\ available' = available \ {held[c]}
          /\ Goto(c, "hangup")
          /\ UNCHANGED held
     ELSE /\ available' = available \cup {held[c]}
          /\ held' = [held EXCEPT ![c] = None]
          /\ NotifyOne(c, "done")
          /\ UNCHANGED connections
  /\ UNCHANGED <<closed, doomed, socket>>

\* Mutant: a connection goes back although the client was closed meanwhile.
ReleaseAfterClose(c) ==
  /\ pc[c] \in {"release", "discard"}
  /\ IF pc[c] = "discard"
     THEN /\ connections' = connections \ {held[c]}
          /\ available' = available \ {held[c]}
          /\ NotifyOne(c, "hangup")
          /\ UNCHANGED held
     ELSE /\ available' = available \cup {held[c]}
          /\ held' = [held EXCEPT ![c] = None]
          /\ NotifyOne(c, "done")
          /\ UNCHANGED connections
  /\ UNCHANGED <<closed, doomed, socket>>

Release(c) ==
  /\ pc[c] \in {"release", "discard"}
  /\ IF pc[c] = "discard" \/ closed
     THEN /\ connections' = connections \ {held[c]}
          /\ available' = available \ {held[c]}
          /\ NotifyOne(c, "hangup")
          /\ UNCHANGED held
     ELSE /\ available' = available \cup {held[c]}
          /\ held' = [held EXCEPT ![c] = None]
          /\ NotifyOne(c, "done")
          /\ UNCHANGED connections
  /\ UNCHANGED <<closed, doomed, socket>>

\* connection.close() after the lock was released.
Hangup(c) ==
  /\ pc[c] = "hangup"
  /\ socket' = socket \ {held[c]}
  /\ held' = [held EXCEPT ![c] = None]
  /\ Goto(c, "done")
  /\ UNCHANGED <<connections, available, closed, doomed>>

\* close: everything under the lock, notify_all included; then the sockets.
Close ==
  /\ ~closed
  /\ closed' = TRUE
  /\ doomed' = connections
  /\ connections' = {} /\ available' = {}
  /\ pc' = [c \in Caller |-> IF pc[c] = "wait" THEN "acquire" ELSE pc[c]]
  /\ UNCHANGED <<held, socket>>

CloseSocket(k) ==
  /\ k \in doomed
  /\ doomed' = doomed \ {k}
  /\ socket' = socket \ {k}
  /\ UNCHANGED <<pc, held, connections, available, closed>>

-----------------------------------------------------------------------------

Run(c) ==
  \/ AcquireClosed(c) \/ AcquireIdle(c) \/ AcquireNew(c) \/ AcquireWait(c)
  \/ Send(c) \/ Release(c) \/ Hangup(c)

PoolNext ==
  \/ \E c \in Caller : Run(c)
  \/ Close
  \/ \E k \in Connection : CloseSocket(k)

PoolSpec == PoolInit /\ [][PoolNext]_poolvars

-----------------------------------------------------------------------------
(* Properties. *)

\* At most MaxConnections requests are at the service at a time, no connection
\* serves two of them, and an idle connection is nobody's.
ConnectionsExclusive ==
  /\ ~closed => Cardinality({c \in Caller : pc[c] \in {"send", "release"}}) <= MaxConnections
  /\ \A c, w \in Caller : held[c] = held[w] /\ held[c] # None => c = w
  /\ available \cap InUse = {}

\* After close and the last request no socket is left open, not even one that a
\* request opened after close had closed its connection.
ClosedLeavesNothingOpen ==
  closed /\ doomed = {} /\ (\A c \in Caller : pc[c] = "done") => socket = {}

\* Both, whatever the callers do and whenever the client is closed.
ConnectionsAccounted == PoolTypeOK /\ ConnectionsExclusive /\ ClosedLeavesNothingOpen

\* The wakeup of a waiting thread is never lost, whichever of the other threads fails,
\* discards its connection or closes the client: while one waits, another one is on its
\* way to a release, and nobody waits at a closed client.
NobodyWaitsInVain == Waiting # {} =>
  ~closed /\ \E c \in Caller : pc[c] \in {"acquire", "send", "release", "discard"}

-----------------------------------------------------------------------------
(* What makes them inductive. *)

\* Who uses a connection holds one, its own, and nobody else does.
HeldInUse ==
  /\ \A c \in Caller : held[c] # None <=> pc[c] \in {"send", "release", "discard", "hangup"}
  /\ \A c, w \in Caller : held[c] = held[w] /\ held[c] # None => c = w

\* The client counts the idle connections and the lent ones, and none after close.
Counted ==
  /\ ~closed => connections = available \cup {held[c] : c \in {w \in Caller : pc[w] \in {"send", "release", "discard"}}}
  /\ closed => connections = {}
  /\ available \cap InUse = {}
  /\ Cardinality(connections) <= MaxConnections

\* An open socket belongs to a connection that somebody will close.
SocketsOwned ==
  /\ ~closed => doomed = {}
  /\ socket \subseteq connections \cup InUse \cup doomed

PoolInv == PoolTypeOK /\ HeldInUse /\ Counted /\ SocketsOwned /\ NobodyWaitsInVain

=============================================================================
