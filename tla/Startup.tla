------------------------------ MODULE Startup ------------------------------
(***************************************************************************)
(* Starting gateway processes against one Qdrant: lifespan of main.py and  *)
(* get_qdrant_client of db/qdrant_client.py.                               *)
(*                                                                         *)
(* Processes of one or of several deployments start, die and are started   *)
(* again in any order.  What they share is the collection and its payload  *)
(* indexes.  A read of Qdrant is one action.  A write is sent by one       *)
(* action and dealt with by the server in another; when the call fails at  *)
(* the process, or the process dies, the request may still land.           *)
(***************************************************************************)
EXTENDS Naturals

CONSTANTS
    Process,       \* processes, each with the settings it was deployed with
    EMBEDDING_DIM, \* EMBEDDING_DIM[p]: p's setting
    OutputDim,     \* OutputDim[p]: the length of what p's EMBEDDING_MODEL returns
    QdrantMayFail, \* may calls to Qdrant time out or be refused?
    None           \* there is no collection, or no reply

Fields == {"tenant_id", "query_hash"}

ASSUME DimensionAssumption ==
    /\ EMBEDDING_DIM \in [Process -> Nat \ {0}]
    /\ OutputDim \in [Process -> Nat \ {0}]

\* None is no vector size, no process and no reply.
ASSUME NoneAssumption == None \notin Nat \cup Process \cup {"ok", "refused"}

ASSUME FailureAssumption == QdrantMayFail \in BOOLEAN

VARIABLES
    pc,         \* pc[p]: the await p is at
    reply,      \* reply[p]: the server's answer to p's write, or None
    collection, \* the vector size of the collection at the server, or None
    indexes,    \* the payload fields indexed there
    wire        \* the writes sent and not yet dealt with by the server

vars == <<pc, reply, collection, indexes, wire>>

-----------------------------------------------------------------------------
Stage == {"off", "list", "create", "tenant_id", "query_hash", "warmup",
          "serving", "exited"}

\* The writes; "by" is None once the process no longer waits for the answer.
CreateCollection ==
    [type : {"create_collection"}, by : Process \cup {None}, size : Nat \ {0}]
CreateIndex ==
    [type : {"create_payload_index"}, by : Process \cup {None}, field : Fields]

Goto(p, stage) == pc' = [pc EXCEPT ![p] = stage]

\* The requests of p, were p to wait for them no longer.
Abandoned(p) == {[w EXCEPT !.by = IF @ = p THEN None ELSE @] : w \in wire}

\* p ends, and whatever it sent is on its own.
End(p, stage) ==
    /\ Goto(p, stage)
    /\ reply' = [reply EXCEPT ![p] = None]
    /\ wire' = Abandoned(p)
    /\ UNCHANGED <<collection, indexes>>

Init ==
    /\ pc = [p \in Process |-> "off"]
    /\ reply = [p \in Process |-> None]
    /\ collection = None
    /\ indexes = {}
    /\ wire = {}

-----------------------------------------------------------------------------
(* get_qdrant_client, from lifespan *)

Start(p) ==
    /\ pc[p] \in {"off", "exited"}
    /\ Goto(p, "list")
    /\ UNCHANGED <<reply, collection, indexes, wire>>

SendCreateIndex(p, field) ==
    /\ wire' = wire \cup {[type |-> "create_payload_index", by |-> p, field |-> field]}
    /\ reply' = [reply EXCEPT ![p] = None]
    /\ Goto(p, field)
    /\ UNCHANGED <<collection, indexes>>

\* Wrong: the indexes are taken to be there when the collection is.
CollectionExistsAllDone(p) ==
    /\ pc[p] = "list"
    /\ collection # None
    /\ Goto(p, "warmup")
    /\ UNCHANGED <<reply, collection, indexes, wire>>

\* get_collections names the collection: go on to its indexes.
CollectionExists(p) ==
    /\ pc[p] = "list"
    /\ collection # None
    /\ SendCreateIndex(p, "tenant_id")

\* It does not: create it, with a vector size of settings.EMBEDDING_DIM.
CollectionMissing(p) ==
    /\ pc[p] = "list"
    /\ collection = None
    /\ wire' = wire \cup
           {[type |-> "create_collection", by |-> p, size |-> EMBEDDING_DIM[p]]}
    /\ Goto(p, "create")
    /\ UNCHANGED <<reply, collection, indexes>>

\* Wrong: create_collection is called but not awaited.
CreateNotAwaited(p) ==
    /\ pc[p] = "create"
    /\ SendCreateIndex(p, "tenant_id")

CreateReturns(p) ==
    /\ pc[p] = "create"
    /\ reply[p] = "ok"
    /\ SendCreateIndex(p, "tenant_id")

TenantIndexReturns(p) ==
    /\ pc[p] = "tenant_id"
    /\ reply[p] = "ok"
    /\ SendCreateIndex(p, "query_hash")

\* The last index is there: _client is set, and the embedding model warms up.
HashIndexReturns(p) ==
    /\ pc[p] = "query_hash"
    /\ reply[p] = "ok"
    /\ Goto(p, "warmup")
    /\ reply' = [reply EXCEPT ![p] = None]
    /\ UNCHANGED <<collection, indexes, wire>>

\* A call is refused by the server, or it fails: VectorDBError, sys.exit(1).
QdrantStartupFailed(p) ==
    /\ pc[p] \in {"list", "create", "tenant_id", "query_hash"}
    /\ reply[p] = "refused" \/ QdrantMayFail
    /\ End(p, "exited")

-----------------------------------------------------------------------------
(* get_embedding("warmup"), from lifespan *)

WarmedUp(p) ==
    /\ pc[p] = "warmup"
    /\ OutputDim[p] = EMBEDDING_DIM[p]
    /\ Goto(p, "serving")
    /\ UNCHANGED <<reply, collection, indexes, wire>>

\* The model cannot be loaded or run, or returns another dimension than the
\* setting: the EmbeddingError ends the startup.
WarmupFails(p) ==
    /\ pc[p] = "warmup"
    /\ End(p, "exited")

\* p is shut down or dies, at whatever point.
Stop(p) ==
    /\ pc[p] \notin {"off", "exited"}
    /\ End(p, "off")

-----------------------------------------------------------------------------
(* The Qdrant server *)

Answer(w, answer) ==
    /\ reply' = [p \in Process |-> IF p = w.by THEN answer ELSE reply[p]]
    /\ wire' = wire \ {w}
    /\ UNCHANGED pc

\* Wrong: recreate_collection, which drops the collection that is there.
ApplyRecreateCollection(w) ==
    /\ w.type = "create_collection"
    /\ collection' = w.size
    /\ indexes' = {}
    /\ Answer(w, "ok")

\* A collection of that name must not exist.
ApplyCreateCollection(w) ==
    /\ w.type = "create_collection"
    /\ IF collection = None
       THEN collection' = w.size /\ Answer(w, "ok")
       ELSE UNCHANGED collection /\ Answer(w, "refused")
    /\ UNCHANGED indexes

\* An index that exists already is no error.
ApplyCreateIndex(w) ==
    /\ w.type = "create_payload_index"
    /\ IF collection = None
       THEN UNCHANGED indexes /\ Answer(w, "refused")
       ELSE indexes' = indexes \cup {w.field} /\ Answer(w, "ok")
    /\ UNCHANGED collection

LoseWrite(w) ==
    /\ QdrantMayFail
    /\ wire' = wire \ {w}
    /\ UNCHANGED <<pc, reply, collection, indexes>>

-----------------------------------------------------------------------------
Next ==
    \/ \E p \in Process :
           \/ Start(p)
           \/ CollectionExists(p)
           \/ CollectionMissing(p)
           \/ CreateReturns(p)
           \/ TenantIndexReturns(p)
           \/ HashIndexReturns(p)
           \/ QdrantStartupFailed(p)
           \/ WarmedUp(p)
           \/ WarmupFails(p)
           \/ Stop(p)
    \/ \E w \in wire :
           \/ ApplyCreateCollection(w)
           \/ ApplyCreateIndex(w)
           \/ LoseWrite(w)

Spec == Init /\ [][Next]_vars

-----------------------------------------------------------------------------
(* Properties *)

\* w is what its process sent at the stage it is at, and is not answered.
Awaited(w) ==
    /\ reply[w.by] = None
    /\ IF w.type = "create_collection"
       THEN pc[w.by] = "create" /\ w.size = EMBEDDING_DIM[w.by]
       ELSE pc[w.by] = w.field

\* Every variable has its type; a request that a process waits for, and an
\* answer it has not taken, are those of the stage it is at: no answer is taken
\* for that of another call, or of an earlier life of the process.
TypeOK ==
    /\ pc \in [Process -> Stage]
    /\ reply \in [Process -> {None, "ok", "refused"}]
    /\ collection \in Nat \cup {None}
    /\ indexes \subseteq Fields
    /\ wire \subseteq CreateCollection \cup CreateIndex
    /\ \A w \in wire : w.by # None => Awaited(w)
    /\ \A p \in Process :
           reply[p] # None => pc[p] \in {"create", "tenant_id", "query_hash"}

\* A process that serves finds the collection and both payload indexes, which
\* the filters of every lookup rely on: whoever created them, and wherever its
\* creator, or an earlier run of itself, died on the way.
ServingMeansReady ==
    \A p \in Process :
        pc[p] \in {"warmup", "serving"} => collection # None /\ indexes = Fields

\* A Qdrant that answers refuses a start one thing only, the creation of a
\* collection that another process created in between: no index is asked for
\* before its collection is there, whatever requests died with their process.
OnlyCreationIsRefused ==
    \A p \in Process :
        reply[p] = "refused" => pc[p] = "create" /\ collection # None

\* No start, and no request left over by a dead process, takes away what others
\* serve from: once there, a collection keeps its vector size and its indexes.
SchemaIsKept ==
    [][collection # None => collection' = collection /\ indexes \subseteq indexes']_vars

-----------------------------------------------------------------------------
(* What docstrings say and the code does not ensure *)

\* db/qdrant_client.py:8-9: get_qdrant_client "ensures the collection exists
\* with the correct vector config".
VectorConfigIsCorrect ==
    \A p \in Process : pc[p] = "serving" => collection = EMBEDDING_DIM[p]

\* db/qdrant_client.py:49: "Create the collection if it doesn't exist", and
\* main.py:72: "A dead Qdrant at boot is FATAL": a Qdrant that answers is not.
LiveQdrantIsNotFatal ==
    [][\A p \in Process :
           pc[p] \in {"list", "create", "tenant_id", "query_hash"} => pc'[p] # "exited"]_vars
=============================================================================
