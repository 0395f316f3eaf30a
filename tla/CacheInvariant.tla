--------------------------- MODULE CacheInvariant ---------------------------
(***************************************************************************)
(* The inductive invariants behind the properties of CacheManager.         *)
(*                                                                         *)
(* The safety properties speak of what a request was answered with.  None  *)
(* of them is inductive: a snapshot taken by a read outlives the state it  *)
(* was read in, and a write stays under way after its task is gone.  The   *)
(* invariant therefore says, of every place a payload can be (the server,  *)
(* a task, the wire), whose it is and how old it is.                       *)
(***************************************************************************)
EXTENDS CacheManager

\* f is what p stored, but for its counter and its expiry, which has at least
\* the shortest life.
Faithful(p, f) ==
    /\ f.tenant_id = Tenant(p)
    /\ f.query_hash = compute_query_hash(Tenant(p), Args[p].query_text)
    /\ f.vector = Vector(p)
    /\ f.response = p
    /\ f.created_at <= clock
    /\ f.ttl_expiry >= f.created_at + MinLifetime

\* The store of p began, and its write is settled: no write can create p again.
Stored(p) ==
    /\ pc[p] \in {"store", "done", "crashed"}
    /\ ~InFlight(p, "upsert")

\* How far the task of r got tells what lookup has read and returned.
StageInv(r) ==
    /\ pc[r] \in {"idle", "exact", "vector"} => payload[r] = None /\ result[r] = Pending
    /\ pc[r] \in {"validate", "evict"} => payload[r] # None /\ result[r] = Pending
    /\ pc[r] \in {"miss", "store"} => result[r] = None

PointInv(p) ==
    points[p] # None => Faithful(p, points[p]) /\ Stored(p)

\* A snapshot is of an entry that may be given to r, and of the very entry
\* that is at the server still, if any is.
PayloadInv(r) ==
    payload[r] # None =>
        LET p == payload[r].point_id
            f == payload[r].fields
        IN  /\ Faithful(p, f)
            /\ Stored(p)
            /\ MayAnswer(p, r)
            /\ payload[r].match_type = "exact" => Vector(p) = Vector(r)
            /\ points[p] # None => points[p].created_at = f.created_at

ResultInv(r) ==
    IsHit(r) =>
        /\ payload[r] # None
        /\ result[r].vector_id = payload[r].point_id
        /\ result[r].response_text = result[r].vector_id
        /\ result[r].match_type = payload[r].match_type

UpsertInv(w) ==
    /\ w.point_id = w.by
    /\ Faithful(w.by, w.payload)
    /\ pc[w.by] \in {"store", "done", "crashed"}
    /\ result[w.by] = None
    /\ \A v \in wire : v.type = "upsert" /\ v.by = w.by => v = w

SetPayloadInv(w) ==
    /\ IsHit(w.by)
    /\ w.point_id = result[w.by].vector_id
    /\ w.ttl_expiry # None /\ points[w.point_id] # None =>
           w.ttl_expiry >= points[w.point_id].created_at + MinLifetime

\* A delete was decided on a stale snapshot, which its task keeps.
DeleteInv(w) ==
    /\ payload[w.by] # None
    /\ pc[w.by] \in {"evict", "miss", "store", "done", "crashed"}
    /\ ~IsHit(w.by)
    /\ w.point_id = payload[w.by].point_id
    /\ clock > payload[w.by].fields.ttl_expiry

WireInv(w) ==
    /\ w.type = "upsert" => UpsertInv(w)
    /\ w.type = "set_payload" => SetPayloadInv(w)
    /\ w.type = "delete" => DeleteInv(w)

\* Whose every payload is, and how old.
Provenance ==
    /\ \A r \in Request : StageInv(r) /\ PointInv(r) /\ PayloadInv(r) /\ ResultInv(r)
    /\ \A w \in wire : WireInv(w)

-----------------------------------------------------------------------------
(* The second invariant bounds the counters. *)

\* The hits on p whose task will not increment p's counter any more.
SettledHits(p) == {r \in HitsOn(p) : pc[r] \notin {"hit", "increment"}}

\* What a copy f of p's payload says of the hits on p: its count is none too
\* high, and its expiry is the one it was stored with unless p was promoted.
Counted(p, f) ==
    /\ f.lfu_count <= 1 + Cardinality(SettledHits(p))
    /\ f.ttl_expiry # f.created_at + CACHE_TTL_SECONDS =>
           Cardinality(SettledHits(p)) >= LFU_SPIKE_THRESHOLD

\* No count, wherever it is, exceeds one plus the settled hits, and no expiry
\* is ever changed without enough of them.
Counting ==
    /\ \A p \in Request : points[p] # None => Counted(p, points[p])
    /\ \A r \in Request :
           payload[r] # None => Counted(payload[r].point_id, payload[r].fields)
    /\ \A w \in wire :
           /\ w.type = "upsert" =>
                  /\ w.payload.lfu_count = 1
                  /\ w.payload.ttl_expiry = w.payload.created_at + CACHE_TTL_SECONDS
           /\ w.type = "set_payload" =>
                  /\ w.lfu_count <= 1 + Cardinality(SettledHits(w.point_id))
                  /\ w.ttl_expiry # None =>
                         Cardinality(SettledHits(w.point_id)) >= LFU_SPIKE_THRESHOLD
=============================================================================
