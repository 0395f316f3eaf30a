--------------------------- MODULE AbstractCache ---------------------------
(***************************************************************************)
(* What the semantic cache promises to the requests that consult it: it    *)
(* may forget, and it may fail to find what it remembers, but it never     *)
(* lies.  Whatever a request is answered with was put there by a request   *)
(* that itself had to pay for the answer, was in the cache at some moment  *)
(* while the answered request was looking, and is compatible with it (same *)
(* tenant, close enough question).  What is forgotten stays forgotten.     *)
(* Time, TTLs, counters, failures and crashes are invisible at this level. *)
(***************************************************************************)
CONSTANTS
    Request,     \* the requests; an entry is named after the request that paid for it
    Compatible,  \* pairs <<p, r>>: the answer paid for by p may be given to r
    Pending,     \* "not yet": no offer, no answer
    Missed       \* the answer "not in the cache"

VARIABLES
    kept,        \* the entries that can be found
    gone,        \* the entries that never will be found, or never again
    offer,       \* offer[r]: the entry r has laid hands on, or Pending
    answer       \* answer[r]: an entry, Missed or Pending

vars == <<kept, gone, offer, answer>>

Init ==
    /\ kept = {}
    /\ gone = {}
    /\ offer = [r \in Request |-> Pending]
    /\ answer = [r \in Request |-> Pending]

\* Only a request that was told "not in the cache" pays for an answer, and
\* that answer is put there at most once.
Put(p) ==
    /\ answer[p] = Missed
    /\ p \notin kept \cup gone
    /\ kept' = kept \cup {p}
    /\ UNCHANGED <<gone, offer, answer>>

\* Entries are dropped, and others given up before they were ever kept.
Forget(S) ==
    /\ kept' = kept \ S
    /\ gone' = gone \cup S
    /\ UNCHANGED <<offer, answer>>

Offer(r, p) ==
    /\ answer[r] = Pending
    /\ offer[r] = Pending
    /\ p \in kept
    /\ <<p, r>> \in Compatible
    /\ offer' = [offer EXCEPT ![r] = p]
    /\ UNCHANGED <<kept, gone, answer>>

Serve(r) ==
    /\ answer[r] = Pending
    /\ offer[r] # Pending
    /\ answer' = [answer EXCEPT ![r] = offer[r]]
    /\ UNCHANGED <<kept, gone, offer>>

\* A miss is always allowed, even with an offer in hand.
Miss(r) ==
    /\ answer[r] = Pending
    /\ answer' = [answer EXCEPT ![r] = Missed]
    /\ UNCHANGED <<kept, gone, offer>>

Next ==
    \/ \E r \in Request :
           \/ Put(r)
           \/ \E p \in Request : Offer(r, p)
           \/ Serve(r)
           \/ Miss(r)
    \/ \E S \in SUBSET Request : Forget(S)

Spec == Init /\ [][Next]_vars
=============================================================================
