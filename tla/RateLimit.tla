------------------------------ MODULE RateLimit ------------------------------
(***************************************************************************)
(* The per-client ceiling on POST /v1/chat: core/rate_limit.py and the     *)
(* decorator of the handler.  The limiter is slowapi's with its default    *)
(* strategy and storage_uri="memory://": for every client and every limit  *)
(* of RATE_LIMIT a counter in the process, with an expiry.  A window opens *)
(* with the first request counted in it, is not prolonged by later ones,   *)
(* and counts refused requests too.  The limits are tried in order, up to  *)
(* the first that is exceeded.                                             *)
(***************************************************************************)
EXTENDS Integers, Sequences

CONSTANTS
    Client,       \* remote addresses
    Limits,       \* RATE_LIMIT: the limits between the semicolons; <<>> for ""
    Rest,         \* Rest[i]: the periods of the limits from the i-th on, together
    MaxClock,     \* bound on the clock
    MaxRequests,  \* bound on the requests of a client to one process
    None          \* no request yet

Limit == [amount : Nat \ {0}, period : Nat \ {0}]

ASSUME LimitAssumption ==
    /\ Limits \in Seq(Limit)
    /\ MaxClock \in Nat
    /\ MaxRequests \in Nat
    /\ None \notin {"admitted", "429"}

\* Rest is determined by Limits; as a constant it can be reasoned about.
ASSUME RestAssumption ==
    /\ Rest \in [1 .. Len(Limits) + 1 -> Nat]
    /\ Rest[Len(Limits) + 1] = 0
    /\ \A i \in DOMAIN Limits : Rest[i] = Limits[i].period + Rest[i + 1]

VARIABLES
    clock,     \* time.time()
    window,    \* window[c][i]: the counter of client c for limit i, and its expiry
    asked,     \* asked[c]: when c's requests reached the limiter of this process
    admitted,  \* admitted[c]: when it let them through
    verdict    \* verdict[c]: what became of the last one

vars == <<clock, window, asked, admitted, verdict>>

Window == [hits : Nat, expires : Nat]

NoWindow == [hits |-> 0, expires |-> 0]

Init ==
    /\ clock = 0
    /\ window = [c \in Client |-> [i \in DOMAIN Limits |-> NoWindow]]
    /\ asked = [c \in Client |-> <<>>]
    /\ admitted = [c \in Client |-> <<>>]
    /\ verdict = [c \in Client |-> None]

-----------------------------------------------------------------------------
\* Wrong: every request prolongs the window.
HitElastic(w, limit) ==
    [hits    |-> IF w.expires <= clock THEN 1 ELSE w.hits + 1,
     expires |-> clock + limit.period]

\* Wrong: the window is still open when it expires.
HitKeepsExpired(w, limit) ==
    IF w.expires < clock
    THEN [hits |-> 1, expires |-> clock + limit.period]
    ELSE [hits |-> w.hits + 1, expires |-> IF w.hits = 0 THEN clock + limit.period
                                                         ELSE w.expires]

\* A request is counted: in the open window, or in one it opens.
Hit(w, limit) ==
    IF w.expires <= clock
    THEN [hits |-> 1, expires |-> clock + limit.period]
    ELSE [hits |-> w.hits + 1, expires |-> w.expires]

\* Wrong: one request more than the limit says.
PassesOneMore(c, i) == Hit(window[c][i], Limits[i]).hits <= Limits[i].amount + 1

Passes(c, i) == Hit(window[c][i], Limits[i]).hits <= Limits[i].amount

\* Wrong: only the last limit tried counts the request.
CountedByTheLast(c, last) ==
    window' = [window EXCEPT ![c] =
        [i \in DOMAIN Limits |-> IF i = last THEN Hit(window[c][i], Limits[i])
                                             ELSE window[c][i]]]

\* The limits up to the last one tried have counted the request.
Counted(c, last) ==
    window' = [window EXCEPT ![c] =
        [i \in DOMAIN Limits |-> IF i <= last THEN Hit(window[c][i], Limits[i])
                                              ELSE window[c][i]]]

Asks(c) ==
    /\ Len(asked[c]) < MaxRequests
    /\ asked' = [asked EXCEPT ![c] = Append(@, clock)]

\* The handler chat runs.
Admit(c) ==
    /\ Asks(c)
    /\ \A i \in DOMAIN Limits : Passes(c, i)
    /\ Counted(c, Len(Limits))
    /\ admitted' = [admitted EXCEPT ![c] = Append(@, clock)]
    /\ verdict' = [verdict EXCEPT ![c] = "admitted"]
    /\ UNCHANGED clock

\* RateLimitExceeded, and the 429 of _rate_limit_exceeded_handler.
Refuse(c) ==
    /\ Asks(c)
    /\ \E i \in DOMAIN Limits :
           /\ ~Passes(c, i)
           /\ \A j \in 1 .. i-1 : Passes(c, j)
           /\ Counted(c, i)
    /\ verdict' = [verdict EXCEPT ![c] = "429"]
    /\ UNCHANGED <<clock, admitted>>

Tick ==
    /\ clock < MaxClock
    /\ clock' = clock + 1
    /\ UNCHANGED <<window, asked, admitted, verdict>>

\* Another process takes over, with no memory of any window.
Restart ==
    /\ window' = [c \in Client |-> [i \in DOMAIN Limits |-> NoWindow]]
    /\ asked' = [c \in Client |-> <<>>]
    /\ admitted' = [c \in Client |-> <<>>]
    /\ verdict' = [c \in Client |-> None]
    /\ UNCHANGED clock

Next ==
    \/ \E c \in Client : Admit(c) \/ Refuse(c)
    \/ Tick
    \/ Restart

Spec == Init /\ [][Next]_vars

-----------------------------------------------------------------------------
(* Properties *)

\* Every variable has its type, and only a request that was counted by every
\* limit was let through.
TypeOK ==
    /\ clock \in Nat
    /\ window \in [Client -> [DOMAIN Limits -> Window]]
    /\ asked \in [Client -> Seq(Nat)]
    /\ admitted \in [Client -> Seq(Nat)]
    /\ verdict \in [Client -> {None, "admitted", "429"}]
    /\ \A c \in Client : \A i \in DOMAIN Limits :
           window[c][i].hits = 0 => window[c][i] = NoWindow /\ admitted[c] = <<>>

\* core/rate_limit.py:4: "enforce a requests-per-minute ceiling per client IP".
\* The windows are fixed, so that a client that comes at the end of one and the
\* beginning of the next gets more than the amount through within a period: one
\* process lets through 2 * amount - 1 at most, whatever the other limits do.
\* It cannot go on like that: within m periods it is (m + 1) * amount - 1 at
\* most, which is the ceiling in the long run.
BurstBound ==
    \A c \in Client : \A i \in DOMAIN Limits : \A m \in DOMAIN admitted[c] :
        LET span == (m + 1) * Limits[i].amount - 1
        IN  \A k \in DOMAIN admitted[c] :
                k + span <= Len(admitted[c]) =>
                    admitted[c][k] + m * Limits[i].period <= admitted[c][k + span]

\* Nobody is refused who kept to every limit's amount: a 429 means that the
\* request was one too many for a limit within its period.
RefusalIsEarned ==
    \A c \in Client :
        verdict[c] = "429" =>
            \E i \in DOMAIN Limits :
                LET last == Len(asked[c])
                IN  /\ last > Limits[i].amount
                    /\ asked[c][last - Limits[i].amount] + Limits[i].period > asked[c][last]

\* A client that never lets up is not shut out: whoever is refused was let
\* through not longer ago than the periods of the limits take together.
RefusedWereServed ==
    \A c \in Client :
        verdict[c] = "429" =>
            /\ admitted[c] # <<>>
            /\ admitted[c][Len(admitted[c])] + Rest[1] > asked[c][Len(asked[c])]
=============================================================================
