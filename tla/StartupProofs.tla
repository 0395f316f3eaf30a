---------------------------- MODULE StartupProofs ----------------------------
(***************************************************************************)
(* A gateway process serves only when the collection and its indexes are   *)
(* there, whatever processes start and die around it.                      *)
(***************************************************************************)
EXTENDS Startup, TLAPS

Request == CreateCollection \cup CreateIndex

Reply == {None, "ok", "refused"}

\* A request is waited for by a process or by none.
LEMMA RequestBy ==
    ASSUME TypeOK
    PROVE  \A w \in wire : w.by \in Process \cup {None}
  BY DEF TypeOK, CreateCollection, CreateIndex

\* A request survives its process, as what it was.
LEMMA AbandonedAreRequests ==
    ASSUME wire \subseteq Request, NEW p \in Process
    PROVE  /\ Abandoned(p) \subseteq Request
           /\ \A w \in Abandoned(p) : w.by # p /\ (w.by # None => w \in wire)
<1> SUFFICES ASSUME NEW v \in wire
             PROVE  LET w == [v EXCEPT !.by = IF @ = p THEN None ELSE @]
                    IN  /\ w \in Request
                        /\ w.by # p
                        /\ w.by # None => w = v
  BY DEF Abandoned
<1>1. None # p
  BY NoneAssumption
<1>2. CASE v \in CreateCollection
  BY <1>1, <1>2 DEF CreateCollection, Request
<1>3. CASE v \in CreateIndex
  BY <1>1, <1>3 DEF CreateIndex, Request
<1> QED
  BY <1>2, <1>3 DEF Request

\* A process ends: it waits for nothing, and everything else stays.
LEMMA EndIsTyped ==
    ASSUME TypeOK, NEW p \in Process, NEW stage \in Stage, End(p, stage)
    PROVE  TypeOK'
<1>1. /\ wire' \subseteq Request
      /\ \A w \in wire' : w.by # p /\ (w.by # None => w \in wire)
  BY AbandonedAreRequests DEF TypeOK, End, Request
<1>2. \A w \in wire' : w.by # None => w \in wire /\ w.by \in Process /\ w.by # p
  BY <1>1, RequestBy
<1>3. \A w \in wire' : w.by # None => Awaited(w)'
  BY <1>2 DEF TypeOK, Awaited, End, Goto
<1> QED
  BY <1>1, <1>3 DEF TypeOK, End, Goto, Request

\* A process sends a request once it waits for no other.
LEMMA SendIsTyped ==
    ASSUME TypeOK, NEW p \in Process, NEW new \in Request, NEW stage \in Stage,
           Goto(p, stage), reply' = [reply EXCEPT ![p] = None],
           wire' = wire \cup {new}, UNCHANGED <<collection, indexes>>,
           new.by = p,
           IF new.type = "create_collection"
           THEN stage = "create" /\ new.size = EMBEDDING_DIM[p]
           ELSE stage = new.field,
           \A w \in wire : w.by # p
    PROVE  TypeOK'
<1>1. Awaited(new)'
  BY DEF TypeOK, Goto, Awaited
<1>2. ASSUME NEW w \in wire, w.by # None
      PROVE  Awaited(w)'
  BY <1>2, RequestBy DEF TypeOK, Goto, Awaited
<1> QED
  BY <1>1, <1>2 DEF TypeOK, Goto, Request

\* No process waits for two requests.
LEMMA OneRequest ==
    ASSUME TypeOK, NEW v \in wire, NEW w \in wire, v.by # None, v.by = w.by
    PROVE  v = w
<1>1. Awaited(v) /\ Awaited(w)
  BY DEF TypeOK
<1>2. CASE v \in CreateCollection /\ w \in CreateCollection
  BY <1>1, <1>2 DEF CreateCollection, Awaited
<1>3. CASE v \in CreateIndex /\ w \in CreateIndex
  BY <1>1, <1>3 DEF CreateIndex, Awaited
<1>4. CASE v \in CreateCollection /\ w \in CreateIndex
  BY <1>1, <1>4 DEF CreateCollection, CreateIndex, Awaited, Fields
<1>5. CASE v \in CreateIndex /\ w \in CreateCollection
  BY <1>1, <1>5 DEF CreateCollection, CreateIndex, Awaited, Fields
<1> QED
  BY <1>2, <1>3, <1>4, <1>5 DEF TypeOK

\* The server answers a request that its process waits for, or that none does.
LEMMA AnswerIsTyped ==
    ASSUME TypeOK, NEW w \in wire, NEW answer \in Reply, Answer(w, answer)
    PROVE  /\ pc' \in [Process -> Stage]
           /\ reply' \in [Process -> Reply]
           /\ wire' \subseteq Request
           /\ \A v \in wire' : v.by # None => Awaited(v)'
           /\ \A p \in Process :
                  reply'[p] # None => pc'[p] \in {"create", "tenant_id", "query_hash"}
<1>1. ASSUME NEW v \in wire', v.by # None
      PROVE  Awaited(v)'
  <2>1. v \in wire /\ v.by \in Process /\ v.by # w.by
    BY <1>1, OneRequest, RequestBy DEF Answer
  <2>2. reply'[v.by] = reply[v.by] /\ pc' = pc
    BY <2>1 DEF Answer
  <2> QED
    BY <1>1, <2>1, <2>2 DEF TypeOK, Awaited
<1>2. wire' \subseteq wire /\ pc' = pc
  BY DEF Answer
<1>3. reply' \in [Process -> Reply]
  BY DEF Answer, TypeOK, Reply
<1>4. ASSUME NEW p \in Process, reply'[p] # None
      PROVE  pc'[p] \in {"create", "tenant_id", "query_hash"}
  <2>1. CASE p = w.by
    <3>1. Awaited(w)
      BY <2>1, NoneAssumption DEF TypeOK
    <3>2. w \in CreateIndex => w.field \in Fields
      BY DEF CreateIndex
    <3>3. w \in CreateCollection => w.type = "create_collection"
      BY DEF CreateCollection
    <3> QED
      BY <1>2, <2>1, <3>1, <3>2, <3>3 DEF Awaited, TypeOK, Fields
  <2>2. CASE p # w.by
    BY <1>2, <1>4, <2>2 DEF Answer, TypeOK
  <2> QED
    BY <2>1, <2>2
<1> QED
  BY <1>1, <1>2, <1>3, <1>4 DEF TypeOK, Request

\* A process at a stage that awaits no write, or whose write is answered, waits
\* for nothing.
LEMMA NothingAwaited ==
    ASSUME TypeOK, NEW p \in Process,
           \/ reply[p] # None
           \/ pc[p] \notin {"create", "tenant_id", "query_hash"}
    PROVE  \A w \in wire : w.by # p
<1> SUFFICES ASSUME NEW w \in wire, w.by = p
             PROVE  FALSE
  OBVIOUS
<1>1. p # None
  BY NoneAssumption
<1>2. Awaited(w)
  BY <1>1 DEF TypeOK
<1>3. w \in CreateIndex => w.field \in Fields
  BY DEF CreateIndex
<1>4. w \in CreateCollection => w.type = "create_collection"
  BY DEF CreateCollection
<1> QED
  BY <1>2, <1>3, <1>4 DEF Awaited, TypeOK, Fields

\* Types are kept, and no process takes an answer for that of another call.
THEOREM StartupTyped == Spec => []TypeOK
<1>1. Init => TypeOK
  BY DEF Init, TypeOK, Stage
<1>2. ASSUME TypeOK, [Next]_vars
      PROVE  TypeOK'
  <2>1. ASSUME NEW p \in Process, Start(p)
        PROVE  TypeOK'
    <3>1. \A w \in wire : w.by # p
      BY <1>2, <2>1, NothingAwaited DEF Start
    <3>2. ASSUME NEW w \in wire, w.by # None
          PROVE  Awaited(w)'
      BY <1>2, <2>1, <3>1, <3>2, RequestBy DEF Start, Goto, TypeOK, Awaited
    <3> QED
      BY <1>2, <2>1, <3>2 DEF Start, Goto, TypeOK, Stage
  <2>2. ASSUME NEW p \in Process, NEW field \in Fields,
               SendCreateIndex(p, field), \A w \in wire : w.by # p
        PROVE  TypeOK'
    <3> DEFINE new == [type |-> "create_payload_index", by |-> p, field |-> field]
    <3>1. /\ new \in Request /\ new.by = p /\ new.field = field
          /\ new.type # "create_collection"
      BY DEF Request, CreateIndex
    <3>2. field \in Stage
      BY DEF Fields, Stage
    <3> QED
      BY <1>2, <2>2, <3>1, <3>2, SendIsTyped DEF SendCreateIndex
  <2>3. ASSUME NEW p \in Process, CollectionExists(p)
        PROVE  TypeOK'
    BY <1>2, <2>2, <2>3, NothingAwaited DEF CollectionExists, Fields
  <2>4. ASSUME NEW p \in Process, CollectionMissing(p)
        PROVE  TypeOK'
    <3> DEFINE new == [type |-> "create_collection", by |-> p, size |-> EMBEDDING_DIM[p]]
    <3>1. /\ new \in Request /\ new.by = p /\ new.size = EMBEDDING_DIM[p]
          /\ new.type = "create_collection"
      BY DimensionAssumption DEF Request, CreateCollection
    <3>2. \A w \in wire : w.by # p
      BY <1>2, <2>4, NothingAwaited DEF CollectionMissing
    <3>3. reply' = [reply EXCEPT ![p] = None]
      BY <1>2, <2>4 DEF CollectionMissing, TypeOK
    <3>4. Goto(p, "create") /\ wire' = wire \cup {new} /\ UNCHANGED <<collection, indexes>>
      BY <2>4 DEF CollectionMissing
    <3> HIDE DEF new
    <3> QED
      BY <1>2, <3>1, <3>2, <3>3, <3>4, SendIsTyped DEF Stage
  <2>5. ASSUME NEW p \in Process, CreateReturns(p) \/ TenantIndexReturns(p)
        PROVE  TypeOK'
    <3>1. \A w \in wire : w.by # p
      BY <1>2, <2>5, NothingAwaited, NoneAssumption DEF CreateReturns, TenantIndexReturns
    <3> QED
      BY <2>2, <2>5, <3>1 DEF CreateReturns, TenantIndexReturns, Fields
  <2>6. ASSUME NEW p \in Process, HashIndexReturns(p)
        PROVE  TypeOK'
    <3>1. \A w \in wire : w.by # p
      BY <1>2, <2>6, NothingAwaited, NoneAssumption DEF HashIndexReturns
    <3>2. ASSUME NEW w \in wire, w.by # None
          PROVE  Awaited(w)'
      BY <1>2, <2>6, <3>1, <3>2, RequestBy DEF HashIndexReturns, Goto, TypeOK, Awaited
    <3> QED
      BY <1>2, <2>6, <3>2 DEF HashIndexReturns, Goto, TypeOK, Stage
  <2>7. ASSUME NEW p \in Process, QdrantStartupFailed(p) \/ WarmupFails(p) \/ Stop(p)
        PROVE  TypeOK'
    BY <1>2, <2>7, EndIsTyped DEF QdrantStartupFailed, WarmupFails, Stop, Stage
  <2>8. ASSUME NEW p \in Process, WarmedUp(p)
        PROVE  TypeOK'
    <3>1. \A w \in wire : w.by # p
      BY <1>2, <2>8, NothingAwaited DEF WarmedUp
    <3>2. ASSUME NEW w \in wire, w.by # None
          PROVE  Awaited(w)'
      BY <1>2, <2>8, <3>1, <3>2, RequestBy DEF WarmedUp, Goto, TypeOK, Awaited
    <3> QED
      BY <1>2, <2>8, <3>2 DEF WarmedUp, Goto, TypeOK, Stage
  <2>9. ASSUME NEW w \in wire, ApplyCreateCollection(w)
        PROVE  TypeOK'
    <3>1. w \in CreateCollection
      BY <1>2, <2>9 DEF ApplyCreateCollection, TypeOK, CreateIndex
    <3>2. w.size \in Nat
      BY <3>1 DEF CreateCollection
    <3>3. PICK answer \in Reply : Answer(w, answer)
      BY <2>9 DEF ApplyCreateCollection, Reply
    <3>4. collection' \in Nat \cup {None} /\ indexes' \subseteq Fields
      BY <1>2, <2>9, <3>2 DEF ApplyCreateCollection, TypeOK
    <3> QED
      BY <1>2, <3>3, <3>4, AnswerIsTyped DEF TypeOK, Request, Reply
  <2>10. ASSUME NEW w \in wire, ApplyCreateIndex(w)
         PROVE  TypeOK'
    <3>1. w.field \in Fields
      BY <1>2, <2>10 DEF ApplyCreateIndex, TypeOK, CreateCollection, CreateIndex
    <3>2. PICK answer \in Reply : Answer(w, answer)
      BY <2>10 DEF ApplyCreateIndex, Reply
    <3>3. collection' \in Nat \cup {None} /\ indexes' \subseteq Fields
      BY <1>2, <2>10, <3>1 DEF ApplyCreateIndex, TypeOK
    <3> QED
      BY <1>2, <3>2, <3>3, AnswerIsTyped DEF TypeOK, Request, Reply
  <2>11. ASSUME NEW w \in wire, LoseWrite(w)
         PROVE  TypeOK'
    BY <1>2, <2>11 DEF LoseWrite, TypeOK, Awaited
  <2>12. CASE UNCHANGED vars
    BY <1>2, <2>12 DEF vars, TypeOK, Awaited
  <2> QED
    BY <1>2, <2>1, <2>3, <2>4, <2>5, <2>6, <2>7, <2>8, <2>9, <2>10, <2>11, <2>12 DEF Next
<1> QED
  BY <1>1, <1>2, PTL DEF Spec

-----------------------------------------------------------------------------
\* What the collection and the indexes are once a process is past them.
Progress ==
    \A p \in Process :
        /\ pc[p] \in {"tenant_id", "query_hash", "warmup", "serving"} => collection # None
        /\ pc[p] \in {"query_hash", "warmup", "serving"} => "tenant_id" \in indexes
        /\ pc[p] \in {"warmup", "serving"} => "query_hash" \in indexes
        /\ reply[p] = "ok" => collection # None
        /\ reply[p] = "ok" /\ pc[p] \in Fields => pc[p] \in indexes

\* The server's schema only grows.
SchemaGrows ==
    /\ collection # None => collection' = collection
    /\ indexes \subseteq indexes'

LEMMA StepSchema ==
    ASSUME TypeOK, [Next]_vars
    PROVE  SchemaGrows
<1>1. CASE UNCHANGED <<collection, indexes>>
  BY <1>1 DEF SchemaGrows
<1>2. ASSUME NEW w \in wire, ApplyCreateCollection(w) \/ ApplyCreateIndex(w)
      PROVE  SchemaGrows
  BY <1>2 DEF ApplyCreateCollection, ApplyCreateIndex, SchemaGrows
<1>3. ASSUME NEW p \in Process,
             \/ Start(p) \/ CollectionExists(p) \/ CollectionMissing(p) \/ CreateReturns(p)
             \/ TenantIndexReturns(p) \/ HashIndexReturns(p) \/ QdrantStartupFailed(p)
             \/ WarmedUp(p) \/ WarmupFails(p) \/ Stop(p)
      PROVE  SchemaGrows
  BY <1>1, <1>3 DEF Start, CollectionExists, CollectionMissing, CreateReturns,
     TenantIndexReturns, HashIndexReturns, QdrantStartupFailed, WarmedUp, WarmupFails,
     Stop, End, SendCreateIndex
<1>4. ASSUME NEW w \in wire, LoseWrite(w)
      PROVE  SchemaGrows
  BY <1>1, <1>4 DEF LoseWrite
<1> QED
  BY <1>1, <1>2, <1>3, <1>4 DEF Next, vars

\* Once there, the collection keeps its vector size and its indexes.
THEOREM SchemaKept == Spec => SchemaIsKept
<1>1. ASSUME TypeOK, [Next]_vars
      PROVE  [collection # None => collection' = collection /\ indexes \subseteq indexes']_vars
  BY <1>1, StepSchema DEF SchemaGrows
<1> QED
  BY <1>1, StartupTyped, PTL DEF Spec, SchemaIsKept

\* Progress of p survives every step that leaves p alone, and every step of p
\* that ends it.
LEMMA OthersProgress ==
    ASSUME Progress, SchemaGrows, NEW q \in Process,
           \/ pc'[q] = pc[q] /\ reply'[q] = reply[q]
           \/ pc'[q] \in {"off", "list", "create", "exited"} /\ reply'[q] = None
    PROVE  /\ pc'[q] \in {"tenant_id", "query_hash", "warmup", "serving"} => collection' # None
           /\ pc'[q] \in {"query_hash", "warmup", "serving"} => "tenant_id" \in indexes'
           /\ pc'[q] \in {"warmup", "serving"} => "query_hash" \in indexes'
           /\ reply'[q] = "ok" => collection' # None
           /\ reply'[q] = "ok" /\ pc'[q] \in Fields => pc'[q] \in indexes'
  BY NoneAssumption DEF Progress, SchemaGrows, Fields

\* What is there stays there, so what a process is past is there whenever it
\* looks: the invariant behind the next two theorems.
LEMMA ProgressInvariant == Spec => []Progress
<1>1. Init => Progress
  BY NoneAssumption DEF Init, Progress, Fields
<1>2. ASSUME TypeOK, Progress, [Next]_vars
      PROVE  Progress'
  <2> SUFFICES ASSUME NEW q \in Process
               PROVE  /\ pc'[q] \in {"tenant_id", "query_hash", "warmup", "serving"} => collection' # None
                      /\ pc'[q] \in {"query_hash", "warmup", "serving"} => "tenant_id" \in indexes'
                      /\ pc'[q] \in {"warmup", "serving"} => "query_hash" \in indexes'
                      /\ reply'[q] = "ok" => collection' # None
                      /\ reply'[q] = "ok" /\ pc'[q] \in Fields => pc'[q] \in indexes'
    BY DEF Progress
  <2>1. SchemaGrows
    BY <1>2, StepSchema
  <2>2. CASE pc'[q] = pc[q] /\ reply'[q] = reply[q]
    BY <1>2, <2>1, <2>2, OthersProgress
  <2>3. ASSUME NEW p \in Process,
               Start(p) \/ CollectionMissing(p) \/ QdrantStartupFailed(p) \/ WarmupFails(p) \/ Stop(p)
        PROVE  \/ pc'[q] = pc[q] /\ reply'[q] = reply[q]
               \/ pc'[q] \in {"off", "list", "create", "exited"} /\ reply'[q] = None
    <3>1. CASE p # q
      BY <1>2, <2>3, <3>1 DEF Start, CollectionMissing, QdrantStartupFailed, WarmupFails,
         Stop, End, Goto, TypeOK
    <3>2. CASE p = q
      BY <1>2, <2>3, <3>2 DEF Start, CollectionMissing, QdrantStartupFailed, WarmupFails,
         Stop, End, Goto, TypeOK
    <3> QED
      BY <3>1, <3>2
  <2>4. ASSUME NEW p \in Process, p # q,
               \/ CollectionExists(p) \/ CreateReturns(p) \/ TenantIndexReturns(p)
               \/ HashIndexReturns(p) \/ WarmedUp(p)
        PROVE  pc'[q] = pc[q] /\ reply'[q] = reply[q]
    BY <1>2, <2>4 DEF CollectionExists, CreateReturns, TenantIndexReturns, HashIndexReturns,
       WarmedUp, SendCreateIndex, Goto, TypeOK
  <2>5. CASE CollectionExists(q) \/ CreateReturns(q)
    <3>1. pc'[q] = "tenant_id" /\ reply'[q] = None
      BY <1>2, <2>5 DEF CollectionExists, CreateReturns, SendCreateIndex, Goto, TypeOK
    <3>2. collection # None
      BY <1>2, <2>5 DEF CollectionExists, CreateReturns, Progress
    <3> QED
      BY <2>1, <3>1, <3>2, NoneAssumption DEF SchemaGrows, Fields
  <2>6. CASE TenantIndexReturns(q)
    <3>1. pc'[q] = "query_hash" /\ reply'[q] = None
      BY <1>2, <2>6 DEF TenantIndexReturns, SendCreateIndex, Goto, TypeOK
    <3>2. collection # None /\ "tenant_id" \in indexes
      BY <1>2, <2>6 DEF TenantIndexReturns, Progress, Fields
    <3> QED
      BY <2>1, <3>1, <3>2, NoneAssumption DEF SchemaGrows, Fields
  <2>7. CASE HashIndexReturns(q)
    <3>1. pc'[q] = "warmup" /\ reply'[q] = None
      BY <1>2, <2>7 DEF HashIndexReturns, Goto, TypeOK
    <3>2. collection # None /\ "tenant_id" \in indexes /\ "query_hash" \in indexes
      BY <1>2, <2>7 DEF HashIndexReturns, Progress, Fields
    <3> QED
      BY <2>1, <3>1, <3>2, NoneAssumption DEF SchemaGrows
  <2>8. CASE WarmedUp(q)
    <3>1. pc[q] = "warmup" /\ pc'[q] = "serving" /\ reply'[q] = reply[q]
      BY <1>2, <2>8 DEF WarmedUp, Goto, TypeOK
    <3> QED
      BY <1>2, <2>1, <3>1 DEF SchemaGrows, Progress, Fields
  <2>9. ASSUME NEW w \in wire, ApplyCreateCollection(w) \/ ApplyCreateIndex(w), w.by = q,
               reply'[q] = "ok"
        PROVE  /\ collection' # None
               /\ pc'[q] = pc[q]
               /\ pc[q] \in Fields => pc[q] \in indexes'
    <3>1. Awaited(w)
      BY <1>2, <2>9, NoneAssumption DEF TypeOK
    <3>2. w.type = "create_collection" => w \in CreateCollection /\ w.size \in Nat
      BY <1>2 DEF TypeOK, CreateCollection, CreateIndex
    <3>3. CASE ApplyCreateCollection(w)
      BY <1>2, <2>9, <3>1, <3>2, <3>3, NoneAssumption
         DEF ApplyCreateCollection, Answer, Awaited, Fields
    <3>4. CASE ApplyCreateIndex(w)
      BY <1>2, <2>9, <3>1, <3>4, NoneAssumption DEF ApplyCreateIndex, Answer, Awaited, Fields
    <3> QED
      BY <2>9, <3>3, <3>4
  <2>10. ASSUME NEW w \in wire, ApplyCreateCollection(w) \/ ApplyCreateIndex(w), w.by = q
         PROVE  pc'[q] = pc[q]
    BY <2>10 DEF ApplyCreateCollection, ApplyCreateIndex, Answer
  <2>11. ASSUME NEW w \in wire, ApplyCreateCollection(w) \/ ApplyCreateIndex(w), w.by # q
         PROVE  pc'[q] = pc[q] /\ reply'[q] = reply[q]
    BY <2>11 DEF ApplyCreateCollection, ApplyCreateIndex, Answer
  <2>12. ASSUME NEW w \in wire, LoseWrite(w)
         PROVE  pc'[q] = pc[q] /\ reply'[q] = reply[q]
    BY <2>12 DEF LoseWrite
  <2>13. CASE \E w \in wire : ApplyCreateCollection(w) \/ ApplyCreateIndex(w)
    <3>1. PICK w \in wire : ApplyCreateCollection(w) \/ ApplyCreateIndex(w)
      BY <2>13
    <3>2. CASE w.by = q
      <4>1. pc'[q] = pc[q]
        BY <2>10, <3>1, <3>2
      <4>2. /\ pc[q] \in {"tenant_id", "query_hash", "warmup", "serving"} => collection' # None
            /\ pc[q] \in {"query_hash", "warmup", "serving"} => "tenant_id" \in indexes'
            /\ pc[q] \in {"warmup", "serving"} => "query_hash" \in indexes'
        BY <1>2, <2>1 DEF Progress, SchemaGrows
      <4> QED
        BY <2>9, <3>1, <3>2, <4>1, <4>2
    <3> QED
      BY <2>2, <2>11, <3>1, <3>2
  <2>14. CASE UNCHANGED vars
    BY <2>2, <2>14 DEF vars
  <2> QED
    BY <1>2, <2>1, <2>2, <2>3, <2>4, <2>5, <2>6, <2>7, <2>8, <2>12, <2>13, <2>14,
       OthersProgress DEF Next
<1> QED
  BY <1>1, <1>2, StartupTyped, PTL DEF Spec

\* A process that serves finds the collection and both indexes.
THEOREM ServingIsReady == Spec => []ServingMeansReady
<1>1. TypeOK /\ Progress => ServingMeansReady
  BY DEF TypeOK, Progress, ServingMeansReady, Fields
<1> QED
  BY <1>1, StartupTyped, ProgressInvariant, PTL

-----------------------------------------------------------------------------
(* When a start fails, and with which collection it serves *)

\* Only a creation is refused, because the collection is there.
THEOREM RefusalsAreRaces == Spec => []OnlyCreationIsRefused
<1>1. Init => OnlyCreationIsRefused
  BY NoneAssumption DEF Init, OnlyCreationIsRefused
<1>2. ASSUME TypeOK, Progress, OnlyCreationIsRefused, [Next]_vars
      PROVE  OnlyCreationIsRefused'
  <2> SUFFICES ASSUME NEW q \in Process, reply'[q] = "refused"
               PROVE  pc'[q] = "create" /\ collection' # None
    BY DEF OnlyCreationIsRefused
  <2> USE <1>2
  <2>1. SchemaGrows
    BY StepSchema
  <2>2. CASE pc'[q] = pc[q] /\ reply'[q] = reply[q]
    BY <2>1, <2>2 DEF OnlyCreationIsRefused, SchemaGrows
  <2>3. ASSUME NEW p \in Process,
               \/ Start(p) \/ CollectionExists(p) \/ CollectionMissing(p) \/ CreateReturns(p)
               \/ TenantIndexReturns(p) \/ HashIndexReturns(p) \/ QdrantStartupFailed(p)
               \/ WarmedUp(p) \/ WarmupFails(p) \/ Stop(p)
        PROVE  pc'[q] = pc[q] /\ reply'[q] = reply[q]
    <3>1. CASE p # q
      BY <2>3, <3>1 DEF Start, CollectionExists, CollectionMissing, CreateReturns,
         TenantIndexReturns, HashIndexReturns, QdrantStartupFailed, WarmedUp, WarmupFails,
         Stop, End, SendCreateIndex, Goto, TypeOK
    <3>2. CASE p = q
      <4>1. reply'[q] = None \/ reply'[q] = reply[q]
        BY <2>3, <3>2 DEF Start, CollectionExists, CollectionMissing, CreateReturns,
           TenantIndexReturns, HashIndexReturns, QdrantStartupFailed, WarmedUp, WarmupFails,
           Stop, End, SendCreateIndex, TypeOK
      <4>2. reply[q] = "refused" /\ reply[q] # None /\ pc[q] = "create"
        BY <4>1, NoneAssumption DEF OnlyCreationIsRefused
      <4>3. \/ CreateReturns(q) \/ QdrantStartupFailed(q) \/ Stop(q)
        BY <2>3, <3>2, <4>2 DEF Start, CollectionExists, CollectionMissing,
           TenantIndexReturns, HashIndexReturns, WarmedUp, WarmupFails
      <4>4. reply'[q] = None
        BY <4>3 DEF CreateReturns, QdrantStartupFailed, Stop, End, SendCreateIndex, TypeOK
      <4> QED
        BY <4>4, NoneAssumption
    <3> QED
      BY <3>1, <3>2
  <2>4. ASSUME NEW w \in wire, ApplyCreateCollection(w) \/ ApplyCreateIndex(w)
        PROVE  pc'[q] = "create" /\ collection' # None
    <3>1. CASE w.by # q
      <4>1. pc'[q] = pc[q] /\ reply'[q] = reply[q]
        BY <2>4, <3>1 DEF ApplyCreateCollection, ApplyCreateIndex, Answer
      <4> QED
        BY <2>2, <4>1
    <3>2. CASE w.by = q
      <4>1. Awaited(w)
        BY <3>2, NoneAssumption DEF TypeOK
      <4>2. pc' = pc
        BY <2>4 DEF ApplyCreateCollection, ApplyCreateIndex, Answer
      <4>3. CASE ApplyCreateCollection(w)
        <5>1. pc[q] = "create"
          BY <3>2, <4>1, <4>3 DEF ApplyCreateCollection, Awaited
        <5>2. collection # None
          BY <3>2, <4>3 DEF ApplyCreateCollection, Answer
        <5> QED
          BY <2>1, <4>2, <5>1, <5>2 DEF SchemaGrows
      <4>4. CASE ApplyCreateIndex(w)
        <5>1. w.field \in Fields
          BY <4>4 DEF ApplyCreateIndex, TypeOK, CreateCollection, CreateIndex
        <5>2. pc[q] \in Fields
          BY <3>2, <4>1, <4>4, <5>1 DEF ApplyCreateIndex, Awaited
        <5>3. collection # None
          BY <5>2 DEF Progress, Fields
        <5> QED
          BY <3>2, <4>4, <5>3 DEF ApplyCreateIndex, Answer
      <4> QED
        BY <2>4, <4>3, <4>4
    <3> QED
      BY <3>1, <3>2
  <2>5. ASSUME NEW w \in wire, LoseWrite(w)
        PROVE  pc'[q] = pc[q] /\ reply'[q] = reply[q]
    BY <2>5 DEF LoseWrite
  <2>6. CASE UNCHANGED vars
    BY <2>2, <2>6 DEF vars
  <2> QED
    BY <2>2, <2>3, <2>4, <2>5, <2>6 DEF Next
<1> QED
  BY <1>1, <1>2, StartupTyped, ProgressInvariant, PTL DEF Spec

\* Where a start ends itself on a Qdrant that answers.
OnlyRacesAreFatal ==
    [][\A p \in Process :
           pc[p] \in {"list", "create", "tenant_id", "query_hash"} /\ pc'[p] = "exited" =>
               pc[p] = "create" /\ collection # None]_vars

\* A live Qdrant is fatal to a start only when another process created the
\* collection between its look and its request; the collection stays, so the
\* next start of that process meets it and asks for no creation.
THEOREM LiveQdrantIsFatalToRacers ==
    ASSUME QdrantMayFail = FALSE
    PROVE  Spec => OnlyRacesAreFatal
<1>1. TypeOK /\ OnlyCreationIsRefused /\ [Next]_vars =>
          [\A p \in Process :
               pc[p] \in {"list", "create", "tenant_id", "query_hash"} /\ pc'[p] = "exited" =>
                   pc[p] = "create" /\ collection # None]_vars
  <2> SUFFICES ASSUME TypeOK, OnlyCreationIsRefused, [Next]_vars, NEW p \in Process,
                      pc[p] \in {"list", "create", "tenant_id", "query_hash"},
                      pc'[p] = "exited"
               PROVE  pc[p] = "create" /\ collection # None
    OBVIOUS
  <2>1. ASSUME NEW q \in Process,
               \/ Start(q) \/ CollectionExists(q) \/ CollectionMissing(q) \/ CreateReturns(q)
               \/ TenantIndexReturns(q) \/ HashIndexReturns(q)
               \/ WarmedUp(q) \/ WarmupFails(q) \/ Stop(q)
        PROVE  FALSE
    BY <2>1 DEF Start, CollectionExists, CollectionMissing, CreateReturns,
       TenantIndexReturns, HashIndexReturns, WarmedUp, WarmupFails,
       Stop, End, SendCreateIndex, Goto, TypeOK
  <2>2. ASSUME NEW w \in wire, ApplyCreateCollection(w) \/ ApplyCreateIndex(w) \/ LoseWrite(w)
        PROVE  FALSE
    BY <2>2 DEF ApplyCreateCollection, ApplyCreateIndex, LoseWrite, Answer
  <2>3. PICK q \in Process : QdrantStartupFailed(q)
    BY <2>1, <2>2 DEF Next, vars
  <2>4. q = p
    BY <2>3 DEF QdrantStartupFailed, End, Goto, TypeOK
  <2>5. reply[p] = "refused"
    BY <2>3, <2>4 DEF QdrantStartupFailed
  <2> QED
    BY <2>5 DEF OnlyCreationIsRefused
<1> QED
  BY <1>1, StartupTyped, RefusalsAreRaces, PTL DEF Spec, OnlyRacesAreFatal

\* The collection has the size that some process was deployed with, and so has
\* one that is still to be created.
Sizes ==
    /\ collection # None => \E p \in Process : collection = EMBEDDING_DIM[p]
    /\ \A w \in wire :
           w.type = "create_collection" => \E p \in Process : w.size = EMBEDDING_DIM[p]

LEMMA AbandonedKeepsSizes ==
    ASSUME TypeOK, Sizes, NEW p \in Process, NEW stage \in Stage, End(p, stage)
    PROVE  Sizes'
<1>1. ASSUME NEW v \in wire
      PROVE  LET w == [v EXCEPT !.by = IF @ = p THEN None ELSE @]
             IN  w.type = "create_collection" =>
                     v.type = "create_collection" /\ w.size = v.size
  <2>1. CASE v \in CreateCollection
    BY <2>1 DEF CreateCollection
  <2>2. CASE v \in CreateIndex
    BY <2>2 DEF CreateIndex
  <2> QED
    BY <2>1, <2>2 DEF TypeOK
<1>2. ASSUME NEW w \in wire', w.type = "create_collection"
      PROVE  \E q \in Process : w.size = EMBEDDING_DIM[q]
  <2>1. PICK v \in wire : w = [v EXCEPT !.by = IF @ = p THEN None ELSE @]
    BY DEF End, Abandoned
  <2>2. v.type = "create_collection" /\ w.size = v.size
    BY <1>1, <1>2, <2>1
  <2> QED
    BY <2>2 DEF Sizes
<1>3. collection' = collection
  BY DEF End
<1> QED
  BY <1>2, <1>3 DEF Sizes

LEMMA SizesInvariant == Spec => []Sizes
<1>1. Init => Sizes
  BY DEF Init, Sizes
<1>2. ASSUME TypeOK, Sizes, [Next]_vars
      PROVE  Sizes'
  <2> USE <1>2
  <2>1. ASSUME NEW p \in Process, Start(p) \/ WarmedUp(p) \/ HashIndexReturns(p)
        PROVE  Sizes'
    BY <2>1 DEF Start, WarmedUp, HashIndexReturns, Sizes
  <2>2. ASSUME NEW p \in Process,
               CollectionExists(p) \/ CreateReturns(p) \/ TenantIndexReturns(p)
        PROVE  Sizes'
    BY <2>2 DEF CollectionExists, CreateReturns, TenantIndexReturns, SendCreateIndex, Sizes
  <2>3. ASSUME NEW p \in Process, CollectionMissing(p)
        PROVE  Sizes'
    BY <2>3 DEF CollectionMissing, Sizes
  <2>4. ASSUME NEW p \in Process, QdrantStartupFailed(p) \/ WarmupFails(p) \/ Stop(p)
        PROVE  Sizes'
    BY <2>4, AbandonedKeepsSizes DEF QdrantStartupFailed, WarmupFails, Stop, Stage
  <2>5. ASSUME NEW w \in wire,
               ApplyCreateCollection(w) \/ ApplyCreateIndex(w) \/ LoseWrite(w)
        PROVE  Sizes'
    BY <2>5 DEF ApplyCreateCollection, ApplyCreateIndex, LoseWrite, Answer, Sizes
  <2>6. CASE UNCHANGED vars
    BY <2>6 DEF vars, Sizes
  <2> QED
    BY <2>1, <2>2, <2>3, <2>4, <2>5, <2>6 DEF Next
<1> QED
  BY <1>1, <1>2, StartupTyped, PTL DEF Spec

\* The vector config is correct wherever all deployments agree on EMBEDDING_DIM:
\* only a deployment with another one can be served the wrong collection.
THEOREM AgreeingDeploymentsMatch ==
    ASSUME \A p, q \in Process : EMBEDDING_DIM[p] = EMBEDDING_DIM[q]
    PROVE  Spec => []VectorConfigIsCorrect
<1>1. TypeOK /\ Progress /\ Sizes => VectorConfigIsCorrect
  BY DEF TypeOK, Progress, Sizes, VectorConfigIsCorrect
<1> QED
  BY <1>1, StartupTyped, ProgressInvariant, SizesInvariant, PTL
=============================================================================
