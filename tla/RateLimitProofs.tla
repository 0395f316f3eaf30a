--------------------------- MODULE RateLimitProofs ---------------------------
(***************************************************************************)
(* RateLimit is typed, bounds what is let through within one period of a   *)
(* limit and in the long run, refuses nobody without cause and shuts       *)
(* nobody out, for every list of limits.                                   *)
(***************************************************************************)
EXTENDS RateLimit, WellFoundedInduction, TLAPS

Smaller(x, y) == IF x <= y THEN x ELSE y

-----------------------------------------------------------------------------
(* What the counter w of a limit l knows of a client *)

\* Of the requests A that were let through, w has counted h at most in its
\* window, which opened a period before it expires.  So the last but h came no
\* later than the window, the last of the window's own being the one to open
\* it, and the last but h + m * amount came m whole periods earlier.
Served(A, w, l) ==
    LET h == Smaller(w.hits, l.amount)
    IN  \A k \in DOMAIN A : \A m \in Nat :
            k + h + m * l.amount <= Len(A) + 1 => A[k] + m * l.period + l.period <= w.expires

\* Of the requests Q that reached the limiter, as many as w has counted came
\* since its window opened.
Reached(Q, w, l) ==
    /\ w.hits <= Len(Q)
    /\ \A k \in DOMAIN Q : k + w.hits > Len(Q) => w.expires <= Q[k] + l.period

\* A counter that has counted was opened in the past; one that has not is new.
Opened(w, l) ==
    /\ w.hits = 0 => w = NoWindow
    /\ w.hits > 0 => l.period <= w.expires /\ w.expires <= clock + l.period

Past(A) == \A k \in DOMAIN A : A[k] <= clock

Windowed(A, Q, w, l) ==
    /\ Opened(w, l)
    /\ w.hits = 0 => A = <<>>
    /\ w.hits > 0 => Served(A, w, l)
    /\ Reached(Q, w, l)

\* The inductive invariant.
IInv ==
    /\ TypeOK
    /\ \A c \in Client :
           /\ Past(admitted[c])
           /\ \A i \in DOMAIN Limits :
                  Windowed(admitted[c], asked[c], window[c][i], Limits[i])

LEMMA LimitTyped ==
    ASSUME NEW i \in DOMAIN Limits
    PROVE  /\ Limits[i] \in Limit
           /\ Limits[i].amount \in Nat \ {0}
           /\ Limits[i].period \in Nat \ {0}
<1>1. Limits[i] \in Limit
  <2>1. Limits \in Seq(Limit)
    BY LimitAssumption
  <2> QED
    BY <2>1
<1> QED
  BY <1>1 DEF Limit

LEMMA HitTyped ==
    ASSUME clock \in Nat, NEW w \in Window, NEW l \in Limit
    PROVE  /\ Hit(w, l) \in Window
           /\ Hit(w, l).hits > 0
           /\ Hit(w, l).expires > clock
           /\ w.expires <= clock => Hit(w, l).hits = 1 /\ Hit(w, l).expires = clock + l.period
           /\ w.expires > clock => Hit(w, l).hits = w.hits + 1 /\ Hit(w, l).expires = w.expires
  BY DEF Hit, Window, Limit

\* A multiple, and the next smaller one.
LEMMA MultipleTyped ==
    ASSUME NEW m \in Nat, NEW n \in Nat
    PROVE  /\ m * n \in Nat
           /\ m # 0 => /\ m - 1 \in Nat
                      /\ (m - 1) * n \in Nat
                      /\ m * n = (m - 1) * n + n
<1>1. m * n \in Nat
  OBVIOUS
<1>2. m # 0 => m - 1 \in Nat /\ m * n = (m - 1) * n + n
  OBVIOUS
<1>3. m # 0 => (m - 1) * n \in Nat
  <2>1. ASSUME NEW j \in Nat
        PROVE  j * n \in Nat
    OBVIOUS
  <2> QED
    BY <1>2, <2>1
<1> QED
  BY <1>1, <1>2, <1>3

\* What came a period before a window's end came two before the next one's.
LEMMA Later ==
    ASSUME NEW at \in Nat, NEW since \in Nat, NEW period \in Nat, NEW expires \in Nat,
           NEW now \in Nat, at + since + period <= expires, expires <= now
    PROVE  at + (since + period) + period <= now + period
  OBVIOUS

\* A request more, counted by the window.
LEMMA OneLess ==
    ASSUME NEW k \in Nat, NEW h \in Nat, NEW g \in Nat, NEW before \in Nat,
           NEW lenA \in Nat, NEW lenB \in Nat,
           k + h + before <= lenB + 1, h = g + 1, lenB <= lenA + 1
    PROVE  k + g + before <= lenA + 1
  OBVIOUS

-----------------------------------------------------------------------------
\* A counter that counts a request, let through or not, keeps what it knows.
LEMMA CountedKeeps ==
    ASSUME clock \in Nat,
           NEW l \in Limit, NEW w \in Window,
           NEW A \in Seq(Nat), NEW B \in Seq(Nat), NEW Q \in Seq(Nat),
           Past(A), Windowed(A, Q, w, l),
           \/ B = A
           \/ B = Append(A, clock) /\ Hit(w, l).hits <= l.amount
    PROVE  Windowed(B, Append(Q, clock), Hit(w, l), l)
<1> DEFINE v == Hit(w, l)
           n == l.amount
           P == l.period
           R == Append(Q, clock)
<1>1. /\ v \in Window /\ v.hits \in Nat /\ v.expires \in Nat
      /\ w.hits \in Nat /\ w.expires \in Nat
      /\ n \in Nat /\ n > 0 /\ P \in Nat /\ P > 0 /\ clock \in Nat
  BY HitTyped DEF Window, Limit
<1>2. /\ v.hits > 0
      /\ w.expires <= clock => v.hits = 1 /\ v.expires = clock + P
      /\ w.expires > clock => v.hits = w.hits + 1 /\ v.expires = w.expires
  BY HitTyped
<1>3. /\ w.hits = 0 => w.expires = 0 /\ A = <<>>
      /\ w.hits > 0 => P <= w.expires /\ w.expires <= clock + P
  BY DEF Windowed, Opened, NoWindow
<1>4. /\ Len(A) \in Nat /\ DOMAIN A = 1 .. Len(A)
      /\ Len(Q) \in Nat /\ DOMAIN Q = 1 .. Len(Q)
      /\ \A k \in DOMAIN A : A[k] \in Nat /\ A[k] <= clock
      /\ \A k \in DOMAIN Q : Q[k] \in Nat
  BY DEF Past
<1>5. /\ Len(R) = Len(Q) + 1 /\ DOMAIN R = 1 .. Len(Q) + 1
      /\ R[Len(Q) + 1] = clock
      /\ \A k \in 1 .. Len(Q) : R[k] = Q[k]
  BY <1>4
<1>6. Opened(v, l)
  BY <1>1, <1>2, <1>3 DEF Opened
<1>7. Reached(R, v, l)
  <2>1. w.hits <= Len(Q) /\ \A k \in DOMAIN Q : k + w.hits > Len(Q) => w.expires <= Q[k] + P
    BY DEF Windowed, Reached
  <2> HIDE DEF v, n, P, R
  <2>2. v.hits <= Len(R)
    BY <1>1, <1>2, <1>4, <1>5, <2>1
  <2>3. ASSUME NEW k \in DOMAIN R, k + v.hits > Len(R)
        PROVE  v.expires <= R[k] + P
    <3>1. k \in Nat /\ k <= Len(Q) + 1 /\ k + v.hits > Len(Q) + 1
      BY <1>4, <1>5, <2>3
    <3>2. CASE k \in DOMAIN Q
      <4>1. R[k] \in Nat /\ R[k] = Q[k] /\ k <= Len(Q)
        BY <3>2, <1>4, <1>5
      <4>2. w.expires > clock
        BY <3>1, <4>1, <1>1, <1>2, <1>4
      <4>3. v.hits = w.hits + 1 /\ v.expires = w.expires
        BY <4>2, <1>2
      <4>4. k + w.hits > Len(Q)
        BY <3>1, <4>3, <1>1, <1>4
      <4>5. w.expires <= Q[k] + P
        BY <3>2, <4>4, <2>1
      <4> QED
        BY <4>1, <4>3, <4>5
    <3>3. CASE k \notin DOMAIN Q
      <4>1. R[k] = clock
        BY <3>1, <3>3, <1>4, <1>5, <2>3
      <4> QED
        BY <4>1, <1>1, <1>2, <1>3
    <3> QED
      BY <3>2, <3>3
  <2> QED
    BY <2>2, <2>3 DEF Reached, P
<1>8. Served(B, v, l)
  <2>1. /\ \/ Len(B) = Len(A)
           \/ Len(B) = Len(A) + 1 /\ B[Len(A) + 1] = clock /\ v.hits <= n
        /\ DOMAIN B = 1 .. Len(B)
        /\ \A k \in DOMAIN A : B[k] = A[k]
    <3>1. CASE B = A
      BY <3>1, <1>4
    <3>2. CASE B = Append(A, clock) /\ v.hits <= n
      <4>1. /\ Len(B) = Len(A) + 1 /\ B[Len(A) + 1] = clock /\ DOMAIN B = 1 .. Len(B)
            /\ \A k \in 1 .. Len(A) : B[k] = A[k]
        BY <3>2
      <4> HIDE DEF v, n
      <4> QED
        BY <3>2, <4>1, <1>4
    <3> QED
      BY <3>1, <3>2
  <2>2. ASSUME NEW k \in DOMAIN B, NEW m \in Nat, k + Smaller(v.hits, n) + m * n <= Len(B) + 1
        PROVE  B[k] + m * P + P <= v.expires
    <3> DEFINE before == m * n
               since == m * P
    <3>1. before \in Nat /\ since \in Nat
      BY <1>1, MultipleTyped
    <3>2. v.hits \in Nat /\ Smaller(v.hits, n) \in Nat /\ Smaller(w.hits, n) \in Nat
      BY <1>1 DEF Smaller
    <3>3. k + Smaller(v.hits, n) + before <= Len(B) + 1
      BY <2>2
    <3> SUFFICES B[k] + since + P <= v.expires
      OBVIOUS
    <3>4. CASE k \in DOMAIN A
      <4>1. w.hits > 0 /\ Served(A, w, l)
        BY <3>4, <1>1, <1>3 DEF Windowed
      <4>2. \A j \in Nat : k + Smaller(w.hits, n) + j * n <= Len(A) + 1
                               => A[k] + j * P + P <= w.expires
        BY <3>4, <4>1 DEF Served
      <4>3. /\ k \in Nat /\ A[k] \in Nat /\ A[k] <= clock /\ k <= Len(A) /\ B[k] = A[k]
            /\ Len(A) \in Nat /\ Len(B) \in Nat
            /\ Len(B) = Len(A) \/ (Len(B) = Len(A) + 1 /\ v.hits <= n)
        <5>1. k \in 1 .. Len(A) /\ A[k] \in Nat /\ A[k] <= clock /\ B[k] = A[k]
          BY <3>4, <1>4, <2>1
        <5>2. Len(B) = Len(A) \/ (Len(B) = Len(A) + 1 /\ v.hits <= n)
          BY <2>1
        <5> HIDE DEF v, n
        <5> QED
          BY <5>1, <5>2, <1>4
      <4>4. CASE w.expires <= clock /\ v.hits = 1 /\ v.expires = clock + P
        <5>1. Smaller(v.hits, n) = 1 /\ Smaller(w.hits, n) <= n
          BY <4>4, <1>1 DEF Smaller
        <5>2. CASE m = 0
          <6>1. since = 0
            BY <5>2, <1>1
          <6> HIDE DEF v, n, P, before, since
          <6> QED
            BY <6>1, <4>3, <4>4, <1>1
        <5>3. CASE m # 0
          <6>1. /\ m - 1 \in Nat
                /\ before = (m - 1) * n + n /\ since = (m - 1) * P + P
                /\ (m - 1) * n \in Nat /\ (m - 1) * P \in Nat
            BY <5>3, <1>1, MultipleTyped
          <6> DEFINE before1 == (m - 1) * n
                     since1 == (m - 1) * P
          <6>2. before = before1 + n /\ since = since1 + P /\ before1 \in Nat /\ since1 \in Nat
            BY <6>1
          <6>3. k + Smaller(w.hits, n) + before1 <= Len(A) + 1 => A[k] + since1 + P <= w.expires
            BY <4>2, <6>1
          <6> HIDE DEF v, n, P, before, since, before1, since1
          <6>4. k + n + before1 <= Len(A) + 1
            BY <3>3, <4>3, <5>1, <6>2, <1>1, <3>1
          <6>5. A[k] + since1 + P <= w.expires
            BY <6>3, <6>4, <5>1, <6>2, <4>3, <1>1, <3>2
          <6>6. /\ A[k] \in Nat /\ P \in Nat /\ since1 \in Nat /\ w.expires \in Nat
                /\ clock \in Nat /\ B[k] = A[k] /\ w.expires <= clock
                /\ v.expires = clock + P /\ since = since1 + P
            BY <6>2, <4>3, <4>4, <1>1
          <6>7. A[k] + (since1 + P) + P <= clock + P
            BY <6>5, <6>6, Later
          <6> QED
            BY <6>6, <6>7
        <5> HIDE DEF v, n, P, before, since
        <5> QED
          BY <5>2, <5>3
      <4>5. CASE w.expires > clock /\ v.hits = w.hits + 1 /\ v.expires = w.expires
        <5>1. k + Smaller(w.hits, n) + before <= Len(A) + 1 => A[k] + since + P <= w.expires
          BY <4>2
        <5>2. CASE v.hits <= n
          <6> HIDE DEF v, n, P, before, since
          <6>1. Smaller(v.hits, n) = Smaller(w.hits, n) + 1
            BY <5>2, <4>5, <1>1 DEF Smaller
          <6>2. k + Smaller(w.hits, n) + before <= Len(A) + 1
            <7>1. Len(B) <= Len(A) + 1
              BY <4>3
            <7> QED
              BY <7>1, <6>1, <4>3, <3>1, <3>2, <3>3, OneLess
          <6> QED
            BY <6>2, <5>1, <4>3, <4>5
        <5>3. CASE v.hits > n
          <6> HIDE DEF v, n, P, before, since
          <6>1. Smaller(v.hits, n) = Smaller(w.hits, n)
            BY <5>3, <4>5, <1>1 DEF Smaller
          <6>2. Len(B) = Len(A)
            BY <4>3, <5>3, <3>2, <1>1
          <6> QED
            BY <6>1, <6>2, <5>1, <4>3, <4>5, <3>3
        <5> HIDE DEF v, n, P, before, since
        <5> QED
          BY <5>2, <5>3, <1>1
      <4> HIDE DEF v, n, P, before, since
      <4> QED
        BY <4>4, <4>5, <1>1, <1>2
    <3>5. CASE k \notin DOMAIN A
      <4>1. k = Len(A) + 1 /\ Len(B) = Len(A) + 1 /\ B[k] = clock /\ v.hits <= n
        <5> HIDE DEF v, n
        <5>1. k \in 1 .. Len(B) /\ k \notin 1 .. Len(A)
          BY <3>5, <1>4, <2>1
        <5>2. Len(B) # Len(A)
          BY <5>1
        <5>3. Len(B) = Len(A) + 1 /\ B[Len(A) + 1] = clock /\ v.hits <= n
          BY <5>2, <2>1
        <5> QED
          BY <5>1, <5>3, <1>4
      <4>2. Smaller(v.hits, n) = v.hits
        <5> HIDE DEF v, n
        <5> QED
          BY <4>1 DEF Smaller
      <4>3. v.hits = 1 /\ before = 0
        <5> HIDE DEF v, n, before
        <5> QED
          BY <4>1, <4>2, <3>1, <3>2, <3>3, <1>1, <1>2, <1>4
      <4>4. m = 0
        <5> DEFINE before1 == (m - 1) * n
        <5>1. m # 0 => before = before1 + n /\ before1 \in Nat
          BY <1>1, MultipleTyped
        <5> HIDE DEF v, n, before, before1
        <5> QED
          BY <5>1, <4>3, <1>1
      <4>5. since = 0
        <5> HIDE DEF v, n, before
        <5> QED
          BY <4>4, <1>1
      <4>6. w.expires <= clock /\ v.expires = clock + P
        <5> HIDE DEF v, n, P, before, since
        <5>1. v.expires = w.expires => w.hits = 0
          BY <4>3, <1>1, <1>2
        <5> QED
          BY <4>3, <5>1, <1>1, <1>2, <1>3
      <4> HIDE DEF v, n, P, before, since
      <4> QED
        BY <4>1, <4>5, <4>6, <1>1
    <3> QED
      BY <3>4, <3>5
  <2> QED
    BY <2>2 DEF Served
<1> QED
  BY <1>6, <1>7, <1>8, <1>1, <1>2 DEF Windowed

-----------------------------------------------------------------------------
\* A counter that does not count a request, since an earlier limit refused it,
\* keeps what it knows as well.
LEMMA UncountedKeeps ==
    ASSUME clock \in Nat,
           NEW l \in Limit, NEW w \in Window, NEW A \in Seq(Nat), NEW Q \in Seq(Nat),
           Windowed(A, Q, w, l)
    PROVE  Windowed(A, Append(Q, clock), w, l)
<1> DEFINE R == Append(Q, clock)
<1>1. w.hits \in Nat /\ w.expires \in Nat /\ l.period \in Nat /\ clock \in Nat
  BY DEF Window, Limit
<1>2. /\ Len(Q) \in Nat /\ DOMAIN Q = 1 .. Len(Q)
      /\ Len(R) = Len(Q) + 1 /\ DOMAIN R = 1 .. Len(Q) + 1
      /\ R[Len(Q) + 1] = clock
      /\ \A k \in 1 .. Len(Q) : R[k] = Q[k]
  OBVIOUS
<1>3. /\ w.hits <= Len(Q)
      /\ \A k \in DOMAIN Q : k + w.hits > Len(Q) => w.expires <= Q[k] + l.period
      /\ w.hits > 0 => w.expires <= clock + l.period
      /\ w.hits = 0 => w.expires = 0
  BY DEF Windowed, Reached, Opened, NoWindow
<1>4. ASSUME NEW k \in DOMAIN R, k + w.hits > Len(R)
      PROVE  w.expires <= R[k] + l.period
  <2> HIDE DEF R
  <2>1. CASE k \in DOMAIN Q
    <3>1. k \in Nat /\ k + w.hits > Len(Q) /\ R[k] = Q[k]
      BY <2>1, <1>1, <1>2, <1>4
    <3> QED
      BY <2>1, <3>1, <1>3
  <2>2. CASE k \notin DOMAIN Q
    <3>1. k = Len(Q) + 1
      BY <2>2, <1>2, <1>4
    <3> QED
      BY <3>1, <1>1, <1>2, <1>3
  <2> QED
    BY <2>1, <2>2
<1>5. w.hits <= Len(R)
  BY <1>1, <1>2, <1>3
<1> QED
  BY <1>4, <1>5 DEF Windowed, Reached

\* Past stays past.
LEMMA PastGrows ==
    ASSUME clock \in Nat, NEW A \in Seq(Nat), Past(A)
    PROVE  Past(Append(A, clock))
<1>1. /\ Len(A) \in Nat /\ DOMAIN A = 1 .. Len(A)
      /\ DOMAIN Append(A, clock) = 1 .. Len(A) + 1
      /\ Append(A, clock)[Len(A) + 1] = clock
      /\ \A k \in 1 .. Len(A) : Append(A, clock)[k] = A[k]
  OBVIOUS
<1>2. ASSUME NEW k \in 1 .. Len(A) + 1
      PROVE  Append(A, clock)[k] <= clock
  <2>1. CASE k = Len(A) + 1
    BY <2>1, <1>1
  <2>2. CASE k # Len(A) + 1
    <3>1. k \in 1 .. Len(A)
      BY <2>2, <1>1
    <3> QED
      BY <3>1, <1>1 DEF Past
  <2> QED
    BY <2>1, <2>2
<1> QED
  BY <1>1, <1>2 DEF Past

-----------------------------------------------------------------------------
\* A request that reaches the limiter, let through or not, leaves the counters
\* of its client as they should be.
LEMMA RequestKeeps ==
    ASSUME IInv, NEW c \in Client, NEW last \in 0 .. Len(Limits),
           NEW B \in Seq(Nat),
           \/ B = admitted[c]
           \/ /\ B = Append(admitted[c], clock)
              /\ last = Len(Limits)
              /\ \A i \in DOMAIN Limits : Passes(c, i)
    PROVE  \A i \in DOMAIN Limits :
               Windowed(B, Append(asked[c], clock),
                        IF i <= last THEN Hit(window[c][i], Limits[i]) ELSE window[c][i],
                        Limits[i])
<1> SUFFICES ASSUME NEW i \in DOMAIN Limits
             PROVE  Windowed(B, Append(asked[c], clock),
                             IF i <= last THEN Hit(window[c][i], Limits[i])
                                          ELSE window[c][i],
                             Limits[i])
  OBVIOUS
<1>1. /\ clock \in Nat /\ window[c][i] \in Window /\ Limits[i] \in Limit
      /\ admitted[c] \in Seq(Nat) /\ asked[c] \in Seq(Nat)
      /\ Past(admitted[c])
      /\ Windowed(admitted[c], asked[c], window[c][i], Limits[i])
  BY LimitTyped DEF IInv, TypeOK
<1>2. CASE i <= last
  <2>1. \/ B = admitted[c]
        \/ /\ B = Append(admitted[c], clock)
           /\ Hit(window[c][i], Limits[i]).hits <= Limits[i].amount
    BY DEF Passes
  <2> QED
    BY <1>1, <1>2, <2>1, CountedKeeps
<1>3. CASE ~(i <= last)
  <2>1. i \in 1 .. Len(Limits) /\ Len(Limits) \in Nat
    BY LimitAssumption
  <2>2. B = admitted[c]
    BY <1>3, <2>1
  <2> QED
    BY <1>1, <1>3, <2>2, UncountedKeeps
<1> QED
  BY <1>2, <1>3

-----------------------------------------------------------------------------
\* Requests of A that are m + 1 times the amount apart, less one, are m periods
\* apart.
Spread(A, l) ==
    \A k \in DOMAIN A : \A m \in Nat :
        LET span == m * l.amount + l.amount - 1
        IN  k + span <= Len(A) => A[k] + m * l.period <= A[k + span]

Spaced == \A c \in Client : \A i \in DOMAIN Limits : Spread(admitted[c], Limits[i])

LEMMA SpacedBounds ==
    ASSUME TypeOK, Spaced
    PROVE  BurstBound
<1> SUFFICES ASSUME NEW c \in Client, NEW i \in DOMAIN Limits, NEW m \in DOMAIN admitted[c],
                    NEW k \in DOMAIN admitted[c],
                    k + ((m + 1) * Limits[i].amount - 1) <= Len(admitted[c])
             PROVE  admitted[c][k] + m * Limits[i].period
                        <= admitted[c][k + ((m + 1) * Limits[i].amount - 1)]
  BY DEF BurstBound
<1>1. m \in Nat
  BY DEF TypeOK
<1>2. (m + 1) * Limits[i].amount - 1 = m * Limits[i].amount + Limits[i].amount - 1
  <2>1. \A n \in Nat : (m + 1) * n - 1 = m * n + n - 1
    BY <1>1
  <2> QED
    BY <2>1, LimitTyped
<1> QED
  BY <1>1, <1>2 DEF Spaced, Spread

LEMMA SpreadGrows ==
    ASSUME clock \in Nat,
           NEW l \in Limit, NEW v \in Window, NEW A \in Seq(Nat),
           v.hits > 0, v.hits <= l.amount, v.expires <= clock + l.period,
           Served(Append(A, clock), v, l), Spread(A, l)
    PROVE  Spread(Append(A, clock), l)
<1> DEFINE B == Append(A, clock)
           n == l.amount
           P == l.period
<1>1. /\ n \in Nat /\ n > 0 /\ P \in Nat /\ clock \in Nat
      /\ v.hits \in Nat /\ v.expires \in Nat
      /\ v.hits > 0 /\ v.hits <= n /\ v.expires <= clock + P
  BY DEF Limit, Window
<1>2. /\ Len(A) \in Nat /\ DOMAIN A = 1 .. Len(A)
      /\ Len(B) = Len(A) + 1 /\ DOMAIN B = 1 .. Len(A) + 1
      /\ B[Len(A) + 1] = clock
      /\ \A k \in 1 .. Len(A) : B[k] = A[k]
      /\ \A k \in 1 .. Len(A) : A[k] \in Nat
  OBVIOUS
<1>3. Smaller(v.hits, n) = v.hits
  BY <1>1 DEF Smaller
<1>4. ASSUME NEW k \in DOMAIN B, NEW m \in Nat, k + (m * n + n - 1) <= Len(B)
      PROVE  B[k] + m * P <= B[k + (m * n + n - 1)]
  <2> DEFINE before == m * n
             since == m * P
             span == before + n - 1
  <2>1. before \in Nat /\ since \in Nat
    BY <1>1, MultipleTyped
  <2>2. k + span <= Len(B) /\ k \in 1 .. Len(B) /\ k \in Nat
    BY <1>2, <1>4
  <2> SUFFICES B[k] + since <= B[k + span]
    OBVIOUS
  <2>3. k + Smaller(v.hits, n) + before <= Len(B) + 1 => B[k] + since + P <= v.expires
    BY <1>4 DEF Served
  <2>4. k + span <= Len(A) /\ k \in DOMAIN A => A[k] + since <= A[k + span]
    BY DEF Spread
  <2>5. B[k] \in Nat
    <3>1. CASE k \in 1 .. Len(A)
      BY <3>1, <1>2
    <3>2. CASE k = Len(A) + 1
      BY <3>2, <1>1, <1>2
    <3> QED
      BY <3>1, <3>2, <2>2, <1>2
  <2> HIDE DEF B, n, P, before, since
  <2>6. span \in Nat
    BY <1>1, <2>1
  <2>7. CASE k + span = Len(B)
    <3>1. k + v.hits + before <= Len(B) + 1
      BY <2>7, <1>1, <1>2, <2>1, <2>2
    <3>2. B[k] + since + P <= v.expires
      BY <3>1, <1>3, <2>3
    <3>3. B[k] + since <= clock
      BY <3>2, <2>1, <2>5, <1>1
    <3> QED
      BY <3>3, <2>7, <1>2
  <2>8. CASE k + span # Len(B)
    <3> HIDE DEF span
    <3>1. k \in 1 .. Len(A) /\ k + span \in 1 .. Len(A) /\ k + span <= Len(A)
      BY <2>8, <1>2, <2>2, <2>6
    <3>2. B[k] = A[k] /\ B[k + span] = A[k + span]
      BY <3>1, <1>2
    <3> QED
      BY <3>1, <3>2, <2>4, <1>2
  <2> QED
    BY <2>7, <2>8
<1> QED
  BY <1>4 DEF Spread

-----------------------------------------------------------------------------
LEMMA InitHolds == Init => IInv /\ Spaced /\ RefusalIsEarned
<1> SUFFICES ASSUME Init
             PROVE  IInv /\ Spaced /\ RefusalIsEarned
  OBVIOUS
<1>1. TypeOK
  BY DEF Init, TypeOK, Window, NoWindow
<1>2. ASSUME NEW c \in Client
      PROVE  Past(admitted[c])
  BY DEF Init, Past
<1>3. ASSUME NEW c \in Client, NEW i \in DOMAIN Limits
      PROVE  Windowed(admitted[c], asked[c], window[c][i], Limits[i])
  BY DEF Init, Windowed, Opened, Reached, NoWindow
<1>4. Spaced
  BY DEF Init, Spaced, Spread
<1>5. RefusalIsEarned
  BY LimitAssumption DEF Init, RefusalIsEarned
<1> QED
  BY <1>1, <1>2, <1>3, <1>4, <1>5 DEF IInv

LEMMA RestartKeeps == TypeOK /\ Restart => IInv' /\ Spaced' /\ RefusalIsEarned'
<1> SUFFICES ASSUME TypeOK, Restart
             PROVE  IInv' /\ Spaced' /\ RefusalIsEarned'
  OBVIOUS
<1>1. TypeOK'
  BY DEF Restart, TypeOK, Window, NoWindow
<1>2. ASSUME NEW c \in Client
      PROVE  Past(admitted[c])'
  BY DEF Restart, Past
<1>3. ASSUME NEW c \in Client, NEW i \in DOMAIN Limits
      PROVE  Windowed(admitted[c], asked[c], window[c][i], Limits[i])'
  BY DEF Restart, Windowed, Opened, Reached, NoWindow
<1>4. Spaced'
  BY DEF Restart, Spaced, Spread
<1>5. RefusalIsEarned'
  BY LimitAssumption DEF Restart, RefusalIsEarned
<1> QED
  BY <1>1, <1>2, <1>3, <1>4, <1>5 DEF IInv

LEMMA TickKeeps ==
    IInv /\ Spaced /\ RefusalIsEarned /\ Tick => IInv' /\ Spaced' /\ RefusalIsEarned'
<1> SUFFICES ASSUME IInv, Spaced, RefusalIsEarned, Tick
             PROVE  IInv' /\ Spaced' /\ RefusalIsEarned'
  OBVIOUS
<1>1. TypeOK' /\ clock \in Nat /\ clock' = clock + 1
  BY DEF IInv, Tick, TypeOK
<1>2. ASSUME NEW c \in Client
      PROVE  Past(admitted[c])'
  <2>1. /\ admitted[c] \in Seq(Nat) /\ admitted'[c] = admitted[c]
        /\ \A k \in DOMAIN admitted[c] : admitted[c][k] \in Nat /\ admitted[c][k] <= clock
    BY DEF IInv, TypeOK, Tick, Past
  <2> QED
    BY <1>1, <2>1 DEF Past
<1>3. ASSUME NEW c \in Client, NEW i \in DOMAIN Limits
      PROVE  Windowed(admitted[c], asked[c], window[c][i], Limits[i])'
  <2>1. /\ Windowed(admitted[c], asked[c], window[c][i], Limits[i])
        /\ window[c][i] \in Window /\ Limits[i] \in Limit
    BY LimitTyped DEF IInv, TypeOK
  <2>2. Opened(window[c][i], Limits[i])'
    <3>1. /\ window[c][i].expires \in Nat /\ Limits[i].period \in Nat
          /\ window'[c][i] = window[c][i]
      BY <2>1 DEF Window, Limit, Tick
    <3> QED
      BY <1>1, <2>1, <3>1 DEF Windowed, Opened
  <2> QED
    BY <2>1, <2>2 DEF Windowed, Tick
<1>4. Spaced' /\ RefusalIsEarned'
  BY DEF Spaced, RefusalIsEarned, Tick
<1> QED
  BY <1>1, <1>2, <1>3, <1>4 DEF IInv

\* What Admit and Refuse have in common: c's request is counted by the first
\* limits up to last, and B is what has been let through.
LEMMA AskKeeps ==
    ASSUME IInv, NEW c \in Client, NEW last \in 0 .. Len(Limits),
           NEW B \in Seq(Nat),
           \/ B = admitted[c]
           \/ /\ B = Append(admitted[c], clock)
              /\ last = Len(Limits)
              /\ \A i \in DOMAIN Limits : Passes(c, i),
           Asks(c), Counted(c, last), admitted' = [admitted EXCEPT ![c] = B],
           verdict' \in [Client -> {None, "admitted", "429"}],
           UNCHANGED clock
    PROVE  IInv'
<1>1. /\ clock \in Nat /\ clock' = clock
      /\ window \in [Client -> [DOMAIN Limits -> Window]]
      /\ asked \in [Client -> Seq(Nat)] /\ admitted \in [Client -> Seq(Nat)]
  BY DEF IInv, TypeOK
<1>2. /\ asked'[c] = Append(asked[c], clock) /\ admitted'[c] = B
      /\ \A i \in DOMAIN Limits :
             window'[c][i] = IF i <= last THEN Hit(window[c][i], Limits[i])
                                          ELSE window[c][i]
      /\ \A d \in Client \ {c} : /\ asked'[d] = asked[d]
                                 /\ admitted'[d] = admitted[d]
                                 /\ window'[d] = window[d]
  BY <1>1 DEF Asks, Counted
<1>3. /\ window' \in [Client -> [DOMAIN Limits -> Window]]
      /\ asked' \in [Client -> Seq(Nat)] /\ admitted' \in [Client -> Seq(Nat)]
  <2>1. \A i \in DOMAIN Limits : Hit(window[c][i], Limits[i]) \in Window
    BY <1>1, LimitTyped, HitTyped
  <2>2. [i \in DOMAIN Limits |-> IF i <= last THEN Hit(window[c][i], Limits[i])
                                              ELSE window[c][i]]
            \in [DOMAIN Limits -> Window]
    BY <1>1, <2>1
  <2>3. Append(asked[c], clock) \in Seq(Nat)
    BY <1>1
  <2> QED
    BY <1>1, <2>2, <2>3 DEF Counted, Asks
<1>4. ASSUME NEW d \in Client
      PROVE  Past(admitted[d])'
  <2>1. CASE d = c
    <3>1. Past(admitted[c])
      BY DEF IInv
    <3>2. Past(B)
      BY <1>1, <3>1, PastGrows
    <3> QED
      BY <1>1, <1>2, <2>1, <3>2 DEF Past
  <2>2. CASE d # c
    BY <1>1, <1>2, <2>2 DEF IInv, Past
  <2> QED
    BY <2>1, <2>2
<1>5. ASSUME NEW d \in Client, NEW i \in DOMAIN Limits
      PROVE  Windowed(admitted[d], asked[d], window[d][i], Limits[i])'
  <2>1. CASE d = c
    <3>1. Windowed(B, Append(asked[c], clock),
                   IF i <= last THEN Hit(window[c][i], Limits[i]) ELSE window[c][i],
                   Limits[i])
      BY RequestKeeps
    <3>2. Windowed(admitted'[c], asked'[c], window'[c][i], Limits[i])
      BY <1>2, <3>1
    <3> QED
      BY <1>1, <2>1, <3>2 DEF Windowed, Opened
  <2>2. CASE d # c
    <3>1. Windowed(admitted[d], asked[d], window[d][i], Limits[i])
      BY DEF IInv
    <3> QED
      BY <1>1, <1>2, <2>2, <3>1 DEF Windowed, Opened
  <2> QED
    BY <2>1, <2>2
<1>6. TypeOK'
  <2>1. \A d \in Client : \A i \in DOMAIN Limits :
            window'[d][i].hits = 0 => window'[d][i] = NoWindow /\ admitted'[d] = <<>>
    BY <1>5 DEF Windowed, Opened
  <2> QED
    BY <1>1, <1>3, <2>1 DEF TypeOK
<1> QED
  BY <1>4, <1>5, <1>6 DEF IInv

LEMMA AdmitKeeps ==
    ASSUME IInv, Spaced, RefusalIsEarned, NEW c \in Client, Admit(c)
    PROVE  IInv' /\ Spaced' /\ RefusalIsEarned'
<1>1. /\ clock \in Nat /\ clock' = clock
      /\ asked \in [Client -> Seq(Nat)] /\ admitted \in [Client -> Seq(Nat)]
      /\ verdict \in [Client -> {None, "admitted", "429"}]
      /\ window \in [Client -> [DOMAIN Limits -> Window]]
  BY DEF IInv, TypeOK, Admit
<1>2. Len(Limits) \in 0 .. Len(Limits) /\ Len(Limits) \in Nat /\ DOMAIN Limits = 1 .. Len(Limits)
  BY LimitAssumption
<1>3. Append(admitted[c], clock) \in Seq(Nat)
  BY <1>1
<1>4. IInv'
  <2>1. /\ Asks(c) /\ Counted(c, Len(Limits)) /\ UNCHANGED clock
        /\ \A i \in DOMAIN Limits : Passes(c, i)
        /\ admitted' = [admitted EXCEPT ![c] = Append(admitted[c], clock)]
        /\ verdict' \in [Client -> {None, "admitted", "429"}]
    BY <1>1 DEF Admit
  <2> QED
    BY <1>2, <1>3, <2>1, AskKeeps
<1>5. /\ admitted'[c] = Append(admitted[c], clock)
      /\ \A d \in Client \ {c} : /\ admitted'[d] = admitted[d]
                                 /\ asked'[d] = asked[d]
                                 /\ verdict'[d] = verdict[d]
      /\ verdict'[c] = "admitted"
  BY <1>1 DEF Admit, Asks
<1>6. Spaced'
  <2> SUFFICES ASSUME NEW d \in Client, NEW i \in DOMAIN Limits
               PROVE  Spread(admitted'[d], Limits[i])
    BY DEF Spaced
  <2>1. Spread(admitted[d], Limits[i])
    BY DEF Spaced
  <2>2. CASE d = c
    <3> DEFINE v == Hit(window[c][i], Limits[i])
    <3>1. window'[c][i] = v
      BY <1>1, <1>2 DEF Admit, Counted
    <3>2. /\ v \in Window /\ v.hits > 0 /\ v.hits <= Limits[i].amount
          /\ Limits[i] \in Limit /\ admitted[c] \in Seq(Nat)
      BY <1>1, LimitTyped, HitTyped DEF Admit, Passes
    <3>3. Windowed(admitted[c], asked[c], window[c][i], Limits[i])'
      BY <1>4 DEF IInv
    <3>4. /\ v.expires <= clock + Limits[i].period
          /\ Served(Append(admitted[c], clock), v, Limits[i])
      BY <1>1, <1>5, <3>1, <3>2, <3>3 DEF Windowed, Opened
    <3> HIDE DEF v
    <3> QED
      BY <1>1, <1>5, <2>1, <2>2, <3>2, <3>4, SpreadGrows
  <2>3. CASE d # c
    BY <1>5, <2>1, <2>3
  <2> QED
    BY <2>2, <2>3
<1>7. RefusalIsEarned'
  BY <1>5 DEF RefusalIsEarned
<1> QED
  BY <1>4, <1>6, <1>7

LEMMA RefuseKeeps ==
    ASSUME IInv, Spaced, RefusalIsEarned, NEW c \in Client, Refuse(c)
    PROVE  IInv' /\ Spaced' /\ RefusalIsEarned'
<1>1. /\ clock \in Nat /\ clock' = clock
      /\ asked \in [Client -> Seq(Nat)] /\ admitted \in [Client -> Seq(Nat)]
      /\ verdict \in [Client -> {None, "admitted", "429"}]
      /\ window \in [Client -> [DOMAIN Limits -> Window]]
      /\ UNCHANGED <<clock, admitted>>
  BY DEF IInv, TypeOK, Refuse
<1>2. PICK i \in DOMAIN Limits : ~Passes(c, i) /\ Counted(c, i)
  BY DEF Refuse
<1>3. i \in 0 .. Len(Limits) /\ i \in Nat /\ DOMAIN Limits = 1 .. Len(Limits)
  BY LimitAssumption
<1>4. IInv'
  <2>1. /\ Asks(c) /\ Counted(c, i) /\ UNCHANGED clock
        /\ admitted' = [admitted EXCEPT ![c] = admitted[c]]
        /\ verdict' \in [Client -> {None, "admitted", "429"}]
        /\ admitted[c] \in Seq(Nat)
    BY <1>1, <1>2 DEF Refuse
  <2> QED
    BY <1>3, <2>1, AskKeeps
<1>5. Spaced'
  BY <1>1 DEF Spaced
<1>6. /\ asked'[c] = Append(asked[c], clock)
      /\ \A d \in Client \ {c} : asked'[d] = asked[d] /\ verdict'[d] = verdict[d]
  BY <1>1 DEF Refuse, Asks
<1>7. /\ Len(asked'[c]) > Limits[i].amount
      /\ asked'[c][Len(asked'[c]) - Limits[i].amount] + Limits[i].period
             > asked'[c][Len(asked'[c])]
  <2> DEFINE v == Hit(window[c][i], Limits[i])
             Q == asked'[c]
             n == Limits[i].amount
             P == Limits[i].period
  <2>1. window'[c][i] = v
    BY <1>1, <1>2, <1>3 DEF Counted
  <2>2. /\ v \in Window /\ v.expires > clock /\ v.hits > n
        /\ n \in Nat /\ n > 0 /\ P \in Nat
        /\ v.hits \in Nat /\ v.expires \in Nat
    <3>1. /\ Limits[i] \in Limit /\ n \in Nat /\ n > 0 /\ P \in Nat
          /\ window[c][i] \in Window
      BY <1>1, LimitTyped
    <3>2. v \in Window /\ v.expires > clock /\ v.hits \in Nat /\ v.expires \in Nat
      BY <1>1, <3>1, HitTyped DEF Window
    <3>3. v.hits > n
      BY <1>2, <3>1, <3>2 DEF Passes
    <3> QED
      BY <3>1, <3>2, <3>3
  <2>3. Reached(Q, v, Limits[i])
    BY <1>4, <2>1 DEF IInv, Windowed
  <2>4. /\ Len(Q) \in Nat /\ DOMAIN Q = 1 .. Len(Q) /\ Len(Q) > 0
        /\ Q[Len(Q)] = clock
        /\ \A k \in DOMAIN Q : Q[k] \in Nat
    <3>1. asked[c] \in Seq(Nat) /\ clock \in Nat /\ Q = Append(asked[c], clock)
      BY <1>1, <1>6
    <3> QED
      BY <3>1
  <2>5. /\ v.hits <= Len(Q)
        /\ \A k \in DOMAIN Q : k + v.hits > Len(Q) => v.expires <= Q[k] + P
    BY <2>3 DEF Reached
  <2> HIDE DEF v, Q, n, P
  <2>6. /\ Len(Q) > n /\ Len(Q) - n \in DOMAIN Q
        /\ (Len(Q) - n) + v.hits > Len(Q)
    BY <2>2, <2>4, <2>5
  <2>7. v.expires <= Q[Len(Q) - n] + P /\ Q[Len(Q) - n] \in Nat
    BY <2>4, <2>5, <2>6
  <2>8. Q[Len(Q) - n] + P > Q[Len(Q)]
    BY <1>1, <2>2, <2>4, <2>7
  <2> QED
    BY <2>6, <2>8 DEF Q, n, P
<1>8. RefusalIsEarned'
  <2> SUFFICES ASSUME NEW d \in Client, verdict'[d] = "429"
               PROVE  \E j \in DOMAIN Limits :
                          /\ Len(asked'[d]) > Limits[j].amount
                          /\ asked'[d][Len(asked'[d]) - Limits[j].amount] + Limits[j].period
                                 > asked'[d][Len(asked'[d])]
    BY DEF RefusalIsEarned
  <2>1. CASE d = c
    BY <1>7, <2>1
  <2>2. CASE d # c
    BY <1>6, <2>2 DEF RefusalIsEarned
  <2> QED
    BY <2>1, <2>2
<1> QED
  BY <1>4, <1>5, <1>8

-----------------------------------------------------------------------------
\* The counters, and with them the three properties below, hold in every state.
THEOREM LimiterInvariant == Spec => [](IInv /\ Spaced /\ RefusalIsEarned)
<1>1. ASSUME IInv, Spaced, RefusalIsEarned, [Next]_vars
      PROVE  IInv' /\ Spaced' /\ RefusalIsEarned'
  <2> USE <1>1
  <2>1. ASSUME NEW c \in Client, Admit(c)
        PROVE  IInv' /\ Spaced' /\ RefusalIsEarned'
    BY <2>1, AdmitKeeps
  <2>2. ASSUME NEW c \in Client, Refuse(c)
        PROVE  IInv' /\ Spaced' /\ RefusalIsEarned'
    BY <2>2, RefuseKeeps
  <2>3. CASE Tick
    BY <2>3, TickKeeps
  <2>4. CASE Restart
    BY <2>4, RestartKeeps DEF IInv
  <2>5. CASE UNCHANGED vars
    <3>1. UNCHANGED <<clock, window, asked, admitted, verdict>>
      BY <2>5 DEF vars
    <3>2. TypeOK'
      BY <3>1 DEF IInv, TypeOK
    <3>3. Spaced' /\ RefusalIsEarned'
      BY <3>1 DEF Spaced, RefusalIsEarned
    <3>4. \A c \in Client :
              /\ Past(admitted[c])'
              /\ \A i \in DOMAIN Limits :
                     Windowed(admitted[c], asked[c], window[c][i], Limits[i])'
      BY <3>1 DEF IInv, Past, Windowed, Opened
    <3> QED
      BY <3>2, <3>3, <3>4 DEF IInv
  <2> QED
    BY <2>1, <2>2, <2>3, <2>4, <2>5 DEF Next
<1> QED
  BY <1>1, InitHolds, PTL DEF Spec

\* Every variable has its type, and only counted requests are let through.
THEOREM LimiterTyped == Spec => []TypeOK
<1>1. IInv => TypeOK
  BY DEF IInv
<1> QED
  BY <1>1, LimiterInvariant, PTL

\* Within m periods of any limit, one process lets at most m + 1 times its
\* amount less one through: twice the amount less one in a burst, and no more
\* than the amount per period in the long run, for every list of limits.
THEOREM BurstsAreBounded == Spec => []BurstBound
<1>1. IInv /\ Spaced => BurstBound
  BY SpacedBounds DEF IInv
<1> QED
  BY <1>1, LimiterInvariant, PTL

\* A 429 answers a request that was one too many for some limit.
THEOREM RefusalsAreEarned == Spec => []RefusalIsEarned
  BY LimiterInvariant, PTL

-----------------------------------------------------------------------------
(* Nobody is shut out *)

\* A set of naturals with an upper bound, if not empty, has a greatest one.
LEMMA GreatestExists ==
    ASSUME NEW n \in Nat, NEW S \in SUBSET (0 .. n), S # {}
    PROVE  \E x \in S : \A y \in S : y <= x
<1> DEFINE T == {n - x : x \in S}
<1>1. T \in SUBSET Nat /\ T # {}
  <2>1. ASSUME NEW x \in S
        PROVE  n - x \in Nat
    <3>1. x \in 0 .. n
      OBVIOUS
    <3> QED
      BY <3>1
  <2>2. T \in SUBSET Nat
    BY <2>1
  <2>3. PICK x \in S : TRUE
    OBVIOUS
  <2>4. n - x \in T
    BY <2>3
  <2> QED
    BY <2>2, <2>4
<1>2. PICK t \in T : \A u \in T : ~ (<<u, t>> \in OpToRel(<, Nat))
  BY <1>1, NatLessThanWellFounded, WFMin, Zenon
<1>3. PICK x \in S : t = n - x
  BY <1>2
<1>4. ASSUME NEW y \in S
      PROVE  y <= x
  <2>1. n - y \in T /\ n - y \in Nat /\ t \in Nat
    BY <1>1
  <2>2. ~ (<<n - y, t>> \in OpToRel(<, Nat))
    BY <1>2, <2>1, Zenon
  <2>3. <<n - y, t>> \in Nat \X Nat
    BY <2>1
  <2>4. ~ (n - y < t)
    BY <2>2, <2>3 DEF OpToRel
  <2> HIDE DEF T
  <2> QED
    BY <1>3, <2>1, <2>4
<1> QED
  BY <1>4

\* What is left after a limit is at least what is left before a later one.
LEMMA RestDecreases ==
    ASSUME NEW i \in DOMAIN Limits, NEW k \in DOMAIN Limits, i <= k
    PROVE  /\ Rest[i] \in Nat /\ Rest[k] \in Nat /\ Rest[1] \in Nat
           /\ Rest[i] >= Rest[k]
           /\ i < k => Rest[i] >= Limits[i].period + Rest[k]
<1>1. /\ Len(Limits) \in Nat /\ DOMAIN Limits = 1 .. Len(Limits)
      /\ \A j \in 1 .. Len(Limits) + 1 : Rest[j] \in Nat
      /\ \A j \in 1 .. Len(Limits) : Rest[j] = Limits[j].period + Rest[j + 1]
      /\ \A j \in 1 .. Len(Limits) : Limits[j].period \in Nat
  <2>1. Len(Limits) \in Nat /\ DOMAIN Limits = 1 .. Len(Limits)
    BY LimitAssumption
  <2>2. ASSUME NEW j \in 1 .. Len(Limits) + 1
        PROVE  Rest[j] \in Nat
    BY <2>2, RestAssumption
  <2>3. ASSUME NEW j \in 1 .. Len(Limits)
        PROVE  Rest[j] = Limits[j].period + Rest[j + 1] /\ Limits[j].period \in Nat
    <3>1. j \in DOMAIN Limits
      BY <2>1
    <3> QED
      BY <3>1, RestAssumption, LimitTyped
  <2> QED
    BY <2>1, <2>2, <2>3
<1> DEFINE S == {j \in 1 .. k : Rest[j] < Rest[k]}
<1>2. S = {}
  <2> SUFFICES ASSUME S # {}
               PROVE  FALSE
    OBVIOUS
  <2>1. S \in SUBSET (0 .. k) /\ k \in Nat
    BY <1>1
  <2>2. PICK m \in S : \A j \in S : j <= m
    BY <2>1, GreatestExists
  <2>3. m \in 1 .. k /\ Rest[m] < Rest[k] /\ m # k
    BY <1>1
  <2>4. m + 1 \in 1 .. k /\ m + 1 \notin S
    BY <1>1, <2>2, <2>3
  <2>5. ~ (Rest[m + 1] < Rest[k])
    BY <2>4
  <2>6. /\ Rest[m] = Limits[m].period + Rest[m + 1]
        /\ Rest[m] \in Nat /\ Rest[m + 1] \in Nat /\ Rest[k] \in Nat
        /\ Limits[m].period \in Nat
    BY <1>1, <2>3, <2>4
  <2> QED
    BY <2>3, <2>5, <2>6
<1>3. ASSUME NEW j \in 1 .. k
      PROVE  Rest[j] >= Rest[k]
  <2>1. ~ (Rest[j] < Rest[k])
    BY <1>2
  <2>2. j \in 1 .. Len(Limits) + 1 /\ k \in 1 .. Len(Limits) + 1
    BY <1>1
  <2>3. Rest[j] \in Nat /\ Rest[k] \in Nat
    BY <1>1, <2>2
  <2> QED
    BY <2>1, <2>3
<1> HIDE DEF S
<1>4. i < k => Rest[i] >= Limits[i].period + Rest[k]
  <2> SUFFICES ASSUME i < k
               PROVE  Rest[i] >= Limits[i].period + Rest[k]
    OBVIOUS
  <2>1. i + 1 \in 1 .. k
    BY <1>1
  <2>2. Rest[i + 1] >= Rest[k]
    BY <1>3, <2>1
  <2>3. /\ Rest[i] = Limits[i].period + Rest[i + 1]
        /\ Rest[i + 1] \in Nat /\ Rest[k] \in Nat /\ Limits[i].period \in Nat
    BY <1>1, <2>1
  <2> QED
    BY <2>2, <2>3
<1> QED
  BY <1>1, <1>3, <1>4

\* A counter w of the i-th limit that has counted stands for a request that was
\* let through: no earlier than the periods from i on take before it expires.
Stands(A, w, i) ==
    w.hits > 0 => A # <<>> /\ A[Len(A)] + Rest[i] >= w.expires

Standing == \A c \in Client : \A i \in DOMAIN Limits : Stands(admitted[c], window[c][i], i)

\* A counter that opens for an admitted request stands for it.
LEMMA AdmitStands ==
    ASSUME IInv, IInv', Standing, NEW c \in Client, Admit(c)
    PROVE  Standing'
<1>1. /\ clock \in Nat /\ clock' = clock
      /\ admitted \in [Client -> Seq(Nat)]
      /\ window' \in [Client -> [DOMAIN Limits -> Window]]
      /\ admitted' = [admitted EXCEPT ![c] = Append(admitted[c], clock)]
  BY DEF IInv, TypeOK, Admit
<1>2. \A d \in Client \ {c} : window'[d] = window[d] /\ admitted'[d] = admitted[d]
  BY <1>1 DEF Admit, Counted, IInv, TypeOK
<1>3. /\ admitted'[c] # <<>>
      /\ admitted'[c][Len(admitted'[c])] = clock
  BY <1>1
<1> SUFFICES ASSUME NEW d \in Client, NEW i \in DOMAIN Limits
             PROVE  Stands(admitted'[d], window'[d][i], i)
  BY DEF Standing
<1>4. CASE d = c
  <2> SUFFICES ASSUME window'[c][i].hits > 0
               PROVE  admitted'[c][Len(admitted'[c])] + Rest[i] >= window'[c][i].expires
    BY <1>3, <1>4 DEF Stands
  <2>1. window'[c][i].expires <= clock + Limits[i].period
    BY <1>1 DEF IInv, Windowed, Opened
  <2>2. /\ i \in 1 .. Len(Limits) /\ i + 1 \in 1 .. Len(Limits) + 1
        /\ Rest[i] = Limits[i].period + Rest[i + 1]
    BY LimitAssumption, RestAssumption
  <2>3. /\ Rest[i] \in Nat /\ Rest[i + 1] \in Nat /\ Limits[i].period \in Nat
        /\ window'[c][i].expires \in Nat
    <3>1. window'[c][i] \in Window
      BY <1>1
    <3>2. Rest[i + 1] \in Nat
      BY <2>2, RestAssumption
    <3>3. Rest[i] \in Nat /\ Limits[i].period \in Nat
      BY <2>2, RestAssumption, LimitTyped
    <3> QED
      BY <3>1, <3>2, <3>3 DEF Window
  <2>4. Rest[i] >= Limits[i].period
    BY <2>2, <2>3
  <2>5. clock + Rest[i] >= window'[c][i].expires
    BY <1>1, <2>1, <2>3, <2>4
  <2> QED
    BY <1>3, <2>5
<1>5. CASE d # c
  BY <1>2, <1>5 DEF Standing
<1> QED
  BY <1>4, <1>5

\* A counter that opens for a request that a later limit refuses stands for the
\* request that the later counter stands for.
LEMMA RefuseStands ==
    ASSUME IInv, Standing, NEW c \in Client, Refuse(c)
    PROVE  /\ Standing'
           /\ admitted[c] # <<>>
           /\ admitted[c][Len(admitted[c])] + Rest[1] > clock
<1>1. /\ clock \in Nat /\ admitted' = admitted
      /\ admitted \in [Client -> Seq(Nat)]
      /\ window \in [Client -> [DOMAIN Limits -> Window]]
  BY DEF IInv, TypeOK, Refuse
<1>2. PICK k \in DOMAIN Limits : ~Passes(c, k) /\ Counted(c, k)
  BY DEF Refuse
<1>3. /\ \A i \in DOMAIN Limits :
             window'[c][i] = IF i <= k THEN Hit(window[c][i], Limits[i]) ELSE window[c][i]
      /\ \A d \in Client \ {c} : window'[d] = window[d]
  BY <1>1, <1>2 DEF Counted
<1>4. ASSUME NEW i \in DOMAIN Limits
      PROVE  /\ window[c][i] \in Window
             /\ window[c][i].hits \in Nat /\ window[c][i].expires \in Nat
             /\ Limits[i] \in Limit /\ Limits[i].amount \in Nat /\ Limits[i].amount > 0
             /\ Limits[i].period \in Nat
             /\ window[c][i].expires > clock => window[c][i].hits > 0
             /\ Stands(admitted[c], window[c][i], i)
             /\ i \in 1 .. Len(Limits) /\ Len(Limits) \in Nat
  <2>1. window[c][i] \in Window /\ Windowed(admitted[c], asked[c], window[c][i], Limits[i])
    BY <1>1 DEF IInv
  <2>2. window[c][i].hits \in Nat /\ window[c][i].expires \in Nat
    BY <2>1 DEF Window
  <2>3. window[c][i].hits = 0 => window[c][i].expires = 0
    BY <2>1 DEF Windowed, Opened, NoWindow
  <2>4. window[c][i].expires > clock => window[c][i].hits > 0
    BY <1>1, <2>2, <2>3
  <2>5. Limits[i] \in Limit /\ Limits[i].amount \in Nat /\ Limits[i].amount > 0
        /\ Limits[i].period \in Nat
    BY LimitTyped
  <2> QED
    BY <2>1, <2>2, <2>4, <2>5, LimitAssumption DEF Standing
<1>5. window[c][k].expires > clock
  <2>1. Hit(window[c][k], Limits[k]).hits > Limits[k].amount
    <3>1. Hit(window[c][k], Limits[k]).hits \in Nat
      BY <1>1, <1>4, HitTyped DEF Window
    <3> QED
      BY <1>2, <1>4, <3>1 DEF Passes
  <2>2. window[c][k].expires <= clock => Hit(window[c][k], Limits[k]).hits = 1
    BY <1>1, <1>4, HitTyped
  <2> QED
    BY <1>1, <1>4, <2>1, <2>2
<1> DEFINE last == admitted[c][Len(admitted[c])]
<1>6. admitted[c] # <<>> /\ last + Rest[k] >= window[c][k].expires
  BY <1>4, <1>5 DEF Stands
<1>7. last \in Nat /\ Rest[k] \in Nat /\ Rest[1] \in Nat /\ Rest[1] >= Rest[k]
  <2>1. 1 \in DOMAIN Limits /\ 1 <= k
    BY <1>4, LimitAssumption
  <2>2. last \in Nat
    BY <1>1, <1>6
  <2> QED
    BY <2>1, <2>2, RestDecreases
<1>8. last + Rest[1] > clock
  <2> HIDE DEF last
  <2> QED
    BY <1>1, <1>4, <1>5, <1>6, <1>7
<1>9. ASSUME NEW i \in DOMAIN Limits
      PROVE  Stands(admitted[c], window'[c][i], i)
  <2>1. CASE ~(i <= k)
    BY <1>3, <1>4, <2>1
  <2>2. CASE i <= k /\ window[c][i].expires > clock
    <3>1. window'[c][i].expires = window[c][i].expires
      BY <1>1, <1>3, <1>4, <2>2, HitTyped
    <3> QED
      BY <1>4, <2>2, <3>1 DEF Stands
  <2>3. CASE i <= k /\ ~(window[c][i].expires > clock)
    <3>1. i < k
      BY <1>4, <1>5, <2>3
    <3>2. window'[c][i].expires = clock + Limits[i].period
      <4>1. window[c][i].expires <= clock
        BY <1>1, <1>4, <2>3
      <4>2. Hit(window[c][i], Limits[i]).expires = clock + Limits[i].period
        BY <1>1, <1>4, <4>1, HitTyped
      <4> QED
        BY <1>3, <2>3, <4>2
    <3>3. Rest[i] >= Limits[i].period + Rest[k] /\ Rest[i] \in Nat
      BY <2>3, <3>1, RestDecreases
    <3>4. last + Rest[i] >= clock + Limits[i].period
      <4> HIDE DEF last
      <4>1. window[c][k].expires \in Nat /\ Limits[i].period \in Nat
        BY <1>4
      <4>2. last + Rest[k] > clock
        BY <1>1, <1>5, <1>6, <1>7, <4>1
      <4> QED
        BY <1>1, <1>7, <3>3, <4>1, <4>2
    <3> QED
      BY <1>6, <3>2, <3>4 DEF Stands
  <2> QED
    BY <2>1, <2>2, <2>3
<1>10. Standing'
  <2> SUFFICES ASSUME NEW d \in Client, NEW i \in DOMAIN Limits
               PROVE  Stands(admitted'[d], window'[d][i], i)
    BY DEF Standing
  <2>1. CASE d = c
    BY <1>1, <1>9, <2>1
  <2>2. CASE d # c
    BY <1>1, <1>3, <2>2 DEF Standing
  <2> QED
    BY <2>1, <2>2
<1> QED
  BY <1>6, <1>8, <1>10

\* The counters stand for requests that were let through, and whoever is refused
\* was let through not longer ago than all the periods take together.
THEOREM RefusedAreServed == Spec => []RefusedWereServed
<1>1. Init => Standing /\ RefusedWereServed
  <2> SUFFICES ASSUME Init
               PROVE  Standing /\ RefusedWereServed
    OBVIOUS
  <2>1. Standing
    BY DEF Init, Standing, Stands, NoWindow
  <2>2. RefusedWereServed
    BY LimitAssumption DEF Init, RefusedWereServed
  <2> QED
    BY <2>1, <2>2
<1>2. ASSUME IInv, IInv', Standing, RefusedWereServed, [Next]_vars
      PROVE  Standing' /\ RefusedWereServed'
  <2> USE <1>2
  <2>1. ASSUME NEW c \in Client, Admit(c)
        PROVE  Standing' /\ RefusedWereServed'
    <3>1. /\ verdict'[c] = "admitted"
          /\ \A d \in Client \ {c} : /\ admitted'[d] = admitted[d]
                                     /\ asked'[d] = asked[d]
                                     /\ verdict'[d] = verdict[d]
      BY <2>1 DEF Admit, Asks, IInv, TypeOK
    <3>2. RefusedWereServed'
      BY <3>1 DEF RefusedWereServed
    <3> QED
      BY <2>1, <3>2, AdmitStands
  <2>2. ASSUME NEW c \in Client, Refuse(c)
        PROVE  Standing' /\ RefusedWereServed'
    <3>1. /\ Standing'
          /\ admitted[c] # <<>>
          /\ admitted[c][Len(admitted[c])] + Rest[1] > clock
      BY <2>2, RefuseStands
    <3>2. /\ admitted' = admitted
          /\ asked'[c] = Append(asked[c], clock)
          /\ asked[c] \in Seq(Nat) /\ clock \in Nat
          /\ \A d \in Client \ {c} : asked'[d] = asked[d] /\ verdict'[d] = verdict[d]
      BY <2>2 DEF Refuse, Asks, IInv, TypeOK
    <3>3. asked'[c][Len(asked'[c])] = clock
      BY <3>2
    <3>4. RefusedWereServed'
      BY <3>1, <3>2, <3>3 DEF RefusedWereServed
    <3> QED
      BY <3>1, <3>4
  <2>3. CASE Tick
    BY <2>3 DEF Tick, Standing, RefusedWereServed
  <2>4. CASE Restart
    <3>1. Standing'
      BY <2>4 DEF Restart, Standing, Stands, NoWindow
    <3>2. RefusedWereServed'
      BY <2>4, LimitAssumption DEF Restart, RefusedWereServed
    <3> QED
      BY <3>1, <3>2
  <2>5. CASE UNCHANGED vars
    BY <2>5 DEF vars, Standing, RefusedWereServed
  <2> QED
    BY <2>1, <2>2, <2>3, <2>4, <2>5 DEF Next
<1> QED
  BY <1>1, <1>2, LimiterInvariant, PTL DEF Spec
=============================================================================
