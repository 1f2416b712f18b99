------------------------- MODULE RequestQueueProofs -------------------------
(* Theorems about RequestQueue, for any requests, endpoints and threads.    *)
EXTENDS RequestQueue, SequenceTheorems, TLAPS

-----------------------------------------------------------------------------
(* Sequences.                                                               *)

(* An insertion makes a sequence one longer and moves what comes after.     *)
LEMMA InsertedAt ==
    ASSUME NEW S, NEW s \in Seq(S), NEW k \in 0 .. Len(s), NEW x \in S
    PROVE  /\ InsertAt(s, k, x) \in Seq(S)
           /\ Len(InsertAt(s, k, x)) = Len(s) + 1
           /\ \A i \in 1 .. Len(s) + 1 : InsertAt(s, k, x)[i] =
                 IF i <= k THEN s[i] ELSE IF i = k + 1 THEN x ELSE s[i - 1]
<1> DEFINE a == SubSeq(s, 1, k)
           b == SubSeq(s, k + 1, Len(s))
<1>1. Len(s) \in Nat /\ \A i \in 1 .. Len(s) : s[i] \in S
  BY LenProperties, ElementOfSeq
<1>2. /\ a \in Seq(S) /\ Len(a) = k
      /\ \A i \in 1 .. k : a[i] = s[i]
  BY <1>1, SubSeqProperties, k \in 0 .. Len(s)
<1>3. /\ b \in Seq(S) /\ Len(b) = Len(s) - k
      /\ \A i \in 1 .. Len(s) - k : b[i] = s[k + i]
  BY <1>1, SubSeqProperties, k \in 0 .. Len(s)
<1>4. <<x>> \in Seq(S) /\ Len(<<x>>) = 1 /\ <<x>>[1] = x
  OBVIOUS
<1>5. /\ a \o <<x>> \in Seq(S) /\ Len(a \o <<x>>) = k + 1
      /\ \A i \in 1 .. k + 1 : (a \o <<x>>)[i] = IF i <= k THEN s[i] ELSE x
  BY <1>1, <1>2, <1>4, ConcatProperties
<1> HIDE DEF a, b
<1>6. /\ (a \o <<x>>) \o b \in Seq(S) /\ Len((a \o <<x>>) \o b) = Len(s) + 1
      /\ \A i \in 1 .. Len(s) + 1 : ((a \o <<x>>) \o b)[i] =
            IF i <= k + 1 THEN (a \o <<x>>)[i] ELSE b[i - (k + 1)]
  BY <1>1, <1>3, <1>5, ConcatProperties
<1>7. \A i \in 1 .. Len(s) + 1 : ((a \o <<x>>) \o b)[i] =
            IF i <= k THEN s[i] ELSE IF i = k + 1 THEN x ELSE s[i - 1]
  <2> SUFFICES ASSUME NEW i \in 1 .. Len(s) + 1
               PROVE  ((a \o <<x>>) \o b)[i] =
                         IF i <= k THEN s[i] ELSE IF i = k + 1 THEN x ELSE s[i - 1]
    OBVIOUS
  <2>1. k \in Nat /\ k <= Len(s) /\ i \in Nat /\ i >= 1 /\ i <= Len(s) + 1
    BY <1>1
  <2>2. CASE i <= k + 1
    <3>1. i \in 1 .. k + 1
      BY <2>1, <2>2
    <3> QED
      BY <1>5, <1>6, <2>1, <2>2, <3>1
  <2>3. CASE ~ (i <= k + 1)
    <3>1. i - (k + 1) \in 1 .. Len(s) - k /\ k + (i - (k + 1)) = i - 1
      BY <1>1, <2>1, <2>3
    <3>2. b[i - (k + 1)] = s[i - 1]
      BY <1>3, <3>1
    <3>3. ~ (i <= k + 1) /\ ~ (i <= k) /\ i # k + 1
      BY <2>1, <2>3
    <3> QED
      BY <1>6, <3>2, <3>3
  <2> QED
    BY <2>2, <2>3
<1> QED
  BY <1>6, <1>7 DEF InsertAt, a, b

(* A removal makes a sequence one shorter and moves what comes after.       *)
LEMMA RemovedAt ==
    ASSUME NEW S, NEW s \in Seq(S), NEW k \in 1 .. Len(s)
    PROVE  /\ WithoutAt(s, k) \in Seq(S)
           /\ Len(WithoutAt(s, k)) = Len(s) - 1
           /\ \A i \in 1 .. Len(s) - 1 : WithoutAt(s, k)[i] = IF i < k THEN s[i] ELSE s[i + 1]
<1> DEFINE a == SubSeq(s, 1, k - 1)
           b == SubSeq(s, k + 1, Len(s))
<1>1. Len(s) \in Nat /\ \A i \in 1 .. Len(s) : s[i] \in S
  BY LenProperties, ElementOfSeq
<1>2. /\ a \in Seq(S) /\ Len(a) = k - 1
      /\ \A i \in 1 .. k - 1 : a[i] = s[i]
  BY <1>1, SubSeqProperties, k \in 1 .. Len(s)
<1>3. /\ b \in Seq(S) /\ Len(b) = Len(s) - k
      /\ \A i \in 1 .. Len(s) - k : b[i] = s[k + i]
  BY <1>1, SubSeqProperties, k \in 1 .. Len(s)
<1> HIDE DEF a, b
<1>4. /\ a \o b \in Seq(S) /\ Len(a \o b) = Len(s) - 1
      /\ \A i \in 1 .. Len(s) - 1 : (a \o b)[i] =
            IF i <= k - 1 THEN a[i] ELSE b[i - (k - 1)]
  <2>1. k \in Nat /\ Len(a) + Len(b) = Len(s) - 1
    BY <1>1, <1>2, <1>3
  <2>2. /\ a \o b \in Seq(S) /\ Len(a \o b) = Len(a) + Len(b)
        /\ \A i \in 1 .. Len(a) + Len(b) : (a \o b)[i] =
              IF i <= Len(a) THEN a[i] ELSE b[i - Len(a)]
    BY <1>2, <1>3, ConcatProperties
  <2> QED
    BY <1>2, <2>1, <2>2
<1>5. \A i \in 1 .. Len(s) - 1 : (a \o b)[i] = IF i < k THEN s[i] ELSE s[i + 1]
  <2> SUFFICES ASSUME NEW i \in 1 .. Len(s) - 1
               PROVE  (a \o b)[i] = IF i < k THEN s[i] ELSE s[i + 1]
    OBVIOUS
  <2>1. k \in Nat /\ 1 <= k /\ k <= Len(s) /\ i \in Nat /\ i >= 1 /\ i <= Len(s) - 1
    BY <1>1
  <2>2. CASE i < k
    <3>1. i \in 1 .. k - 1 /\ i <= k - 1
      BY <2>1, <2>2
    <3> QED
      BY <1>2, <1>4, <2>2, <3>1
  <2>3. CASE ~ (i < k)
    <3>1. i - (k - 1) \in 1 .. Len(s) - k /\ k + (i - (k - 1)) = i + 1 /\ ~ (i <= k - 1)
      BY <1>1, <2>1, <2>3
    <3>2. b[i - (k - 1)] = s[i + 1]
      BY <1>3, <3>1
    <3> QED
      BY <1>4, <2>3, <3>1, <3>2
  <2> QED
    BY <2>2, <2>3
<1> QED
  BY <1>4, <1>5 DEF WithoutAt, a, b

LEMMA ElementsOf ==
    ASSUME NEW S, NEW s \in Seq(S)
    PROVE  /\ Elements(s) \subseteq S
           /\ \A x : x \in Elements(s) <=> \E i \in 1 .. Len(s) : s[i] = x
BY LenProperties, ElementOfSeq DEF Elements

LEMMA InsertedElements ==
    ASSUME NEW S, NEW s \in Seq(S), NEW k \in 0 .. Len(s), NEW x \in S
    PROVE  Elements(InsertAt(s, k, x)) = Elements(s) \cup {x}
<1> DEFINE q == InsertAt(s, k, x)
<1>1. /\ q \in Seq(S) /\ Len(q) = Len(s) + 1
      /\ \A i \in 1 .. Len(s) + 1 : q[i] =
            IF i <= k THEN s[i] ELSE IF i = k + 1 THEN x ELSE s[i - 1]
  BY InsertedAt
<1>2. Len(s) \in Nat /\ k \in Nat /\ k <= Len(s)
  BY LenProperties
<1>3. /\ \A y : y \in Elements(s) <=> \E i \in 1 .. Len(s) : s[i] = y
      /\ \A y : y \in Elements(q) <=> \E i \in 1 .. Len(q) : q[i] = y
  BY <1>1, ElementsOf
<1> HIDE DEF q
<1>4. ASSUME NEW y \in Elements(q) PROVE y \in Elements(s) \cup {x}
  <2>1. PICK i \in 1 .. Len(s) + 1 : q[i] = y
    BY <1>1, <1>3, <1>4
  <2>2. CASE i <= k
    <3>1. i \in 1 .. Len(s)
      BY <1>2, <2>2
    <3> QED
      BY <1>1, <1>3, <2>1, <2>2, <3>1
  <2>3. CASE i = k + 1
    <3>1. ~ (i <= k)
      BY <1>2, <2>3
    <3> QED
      BY <1>1, <2>1, <2>3, <3>1
  <2>4. CASE i > k + 1
    <3>1. i - 1 \in 1 .. Len(s) /\ ~ (i <= k) /\ i # k + 1
      BY <1>2, <2>4
    <3> QED
      BY <1>1, <1>3, <2>1, <3>1
  <2> QED
    BY <1>2, <2>2, <2>3, <2>4
<1>5. ASSUME NEW y \in Elements(s) PROVE y \in Elements(q)
  <2>1. PICK i \in 1 .. Len(s) : s[i] = y
    BY <1>3, <1>5
  <2>2. CASE i <= k
    <3>1. i \in 1 .. Len(s) + 1 /\ q[i] = s[i]
      BY <1>1, <1>2, <2>2
    <3> QED
      BY <1>1, <1>3, <2>1, <3>1
  <2>3. CASE i > k
    <3>1. i + 1 \in 1 .. Len(s) + 1 /\ q[i + 1] = s[i]
      BY <1>1, <1>2, <2>1, <2>3
    <3> QED
      BY <1>1, <1>3, <2>1, <3>1
  <2> QED
    BY <1>2, <2>2, <2>3
<1>6. x \in Elements(q)
  <2>1. k + 1 \in 1 .. Len(s) + 1 /\ q[k + 1] = x
    BY <1>1, <1>2
  <2> QED
    BY <1>1, <1>3, <2>1
<1> QED
  BY <1>4, <1>5, <1>6 DEF q

(* No element occurs twice.                                                 *)
Distinct(s) == \A i, j \in DOMAIN s : i # j => s[i] # s[j]

LEMMA InsertedDistinct ==
    ASSUME NEW S, NEW s \in Seq(S), NEW k \in 0 .. Len(s), NEW x \in S
    PROVE  Distinct(s) /\ x \notin Elements(s) => Distinct(InsertAt(s, k, x))
<1> DEFINE q == InsertAt(s, k, x)
<1>1. /\ q \in Seq(S) /\ Len(q) = Len(s) + 1
      /\ \A i \in 1 .. Len(s) + 1 : q[i] =
            IF i <= k THEN s[i] ELSE IF i = k + 1 THEN x ELSE s[i - 1]
  BY InsertedAt
<1> SUFFICES ASSUME Distinct(s), x \notin Elements(s) PROVE Distinct(q)
  OBVIOUS
<1>2. Len(s) \in Nat /\ k \in Nat /\ k <= Len(s) /\ DOMAIN s = 1 .. Len(s)
  BY LenProperties
<1>3. DOMAIN q = 1 .. Len(s) + 1
  BY <1>1, LenProperties
<1>4. \A i, j \in 1 .. Len(s) : i # j => s[i] # s[j]
  BY <1>2 DEF Distinct
<1>5. \A i \in 1 .. Len(s) : s[i] # x
  BY ElementsOf
<1> HIDE DEF q
<1>6. ASSUME NEW i \in DOMAIN q, NEW j \in DOMAIN q, i < j PROVE q[i] # q[j]
  <2>1. i \in 1 .. Len(s) + 1 /\ j \in 1 .. Len(s) + 1
    BY <1>3
  <2> DEFINE down(n) == IF n <= k THEN n ELSE n - 1
  <2>2. \A n \in 1 .. Len(s) + 1 : n # k + 1 => down(n) \in 1 .. Len(s) /\ q[n] = s[down(n)]
    <3> SUFFICES ASSUME NEW n \in 1 .. Len(s) + 1, n # k + 1
                 PROVE  down(n) \in 1 .. Len(s) /\ q[n] = s[down(n)]
      OBVIOUS
    <3>1. q[n] = IF n <= k THEN s[n] ELSE s[n - 1]
      BY <1>1
    <3> QED
      BY <1>2, <3>1
  <2>3. CASE i = k + 1
    <3>1. q[i] = x
      BY <1>1, <1>2, <2>3
    <3>2. j # k + 1 /\ down(j) \in 1 .. Len(s) /\ q[j] = s[down(j)]
      BY <1>6, <2>1, <2>2, <2>3
    <3> HIDE DEF down
    <3> QED
      BY <1>5, <3>1, <3>2
  <2>4. CASE j = k + 1
    <3>1. q[j] = x
      BY <1>1, <1>2, <2>4
    <3>2. i # k + 1 /\ down(i) \in 1 .. Len(s) /\ q[i] = s[down(i)]
      BY <1>6, <2>1, <2>2, <2>4
    <3> HIDE DEF down
    <3> QED
      BY <1>5, <3>1, <3>2
  <2>5. CASE i # k + 1 /\ j # k + 1
    <3>1. /\ down(i) \in 1 .. Len(s) /\ q[i] = s[down(i)]
          /\ down(j) \in 1 .. Len(s) /\ q[j] = s[down(j)]
      BY <2>1, <2>2, <2>5
    <3>2. down(i) # down(j)
      BY <1>2, <1>6, <2>1, <2>5
    <3> HIDE DEF down
    <3> QED
      BY <1>4, <3>1, <3>2
  <2> QED
    BY <2>3, <2>4, <2>5
<1>7. \A i, j \in DOMAIN q : i # j => q[i] # q[j]
  <2> SUFFICES ASSUME NEW i \in DOMAIN q, NEW j \in DOMAIN q, i # j PROVE q[i] # q[j]
    OBVIOUS
  <2>1. i < j \/ j < i
    BY <1>2, <1>3
  <2> QED
    BY <1>6, <2>1
<1> QED
  BY <1>7 DEF Distinct, q

LEMMA RemovedElements ==
    ASSUME NEW S, NEW s \in Seq(S), NEW k \in 1 .. Len(s), Distinct(s)
    PROVE  /\ Elements(WithoutAt(s, k)) = Elements(s) \ {s[k]}
           /\ Distinct(WithoutAt(s, k))
<1> DEFINE q == WithoutAt(s, k)
<1>1. /\ q \in Seq(S) /\ Len(q) = Len(s) - 1
      /\ \A i \in 1 .. Len(s) - 1 : q[i] = IF i < k THEN s[i] ELSE s[i + 1]
  BY RemovedAt
<1>2. Len(s) \in Nat /\ k \in Nat /\ 1 <= k /\ k <= Len(s) /\ DOMAIN s = 1 .. Len(s)
  BY LenProperties
<1>3. /\ \A y : y \in Elements(s) <=> \E i \in 1 .. Len(s) : s[i] = y
      /\ \A y : y \in Elements(q) <=> \E i \in 1 .. Len(q) : q[i] = y
      /\ DOMAIN q = 1 .. Len(s) - 1
  BY <1>1, ElementsOf, LenProperties
<1>4. \A i, j \in 1 .. Len(s) : i # j => s[i] # s[j]
  BY <1>2 DEF Distinct
<1> HIDE DEF q
<1>5. ASSUME NEW y \in Elements(q) PROVE y \in Elements(s) \ {s[k]}
  <2>1. PICK i \in 1 .. Len(s) - 1 : q[i] = y
    BY <1>1, <1>3, <1>5
  <2>2. PICK j \in 1 .. Len(s) : j # k /\ s[j] = y
    BY <1>1, <1>2, <2>1
  <2> QED
    BY <1>2, <1>3, <1>4, <2>2
<1>6. ASSUME NEW y \in Elements(s) \ {s[k]} PROVE y \in Elements(q)
  <2>1. PICK i \in 1 .. Len(s) : s[i] = y /\ i # k
    BY <1>3, <1>6
  <2>2. CASE i < k
    <3>1. i \in 1 .. Len(s) - 1 /\ q[i] = s[i]
      BY <1>1, <1>2, <2>1, <2>2
    <3> QED
      BY <1>1, <1>3, <2>1, <3>1
  <2>3. CASE i > k
    <3>1. i - 1 \in 1 .. Len(s) - 1 /\ q[i - 1] = s[i]
      BY <1>1, <1>2, <2>1, <2>3
    <3> QED
      BY <1>1, <1>3, <2>1, <3>1
  <2> QED
    BY <1>2, <2>1, <2>2, <2>3
<1>7. ASSUME NEW i \in DOMAIN q, NEW j \in DOMAIN q, i # j PROVE q[i] # q[j]
  <2>1. i \in 1 .. Len(s) - 1 /\ j \in 1 .. Len(s) - 1
    BY <1>3
  <2> DEFINE up(n) == IF n < k THEN n ELSE n + 1
  <2>2. q[i] = s[up(i)] /\ q[j] = s[up(j)]
    BY <1>1, <2>1
  <2>3. up(i) \in 1 .. Len(s) /\ up(j) \in 1 .. Len(s) /\ up(i) # up(j)
    BY <1>2, <1>7, <2>1
  <2> QED
    BY <1>4, <2>2, <2>3
<1> QED
  BY <1>5, <1>6, <1>7 DEF Distinct, q

(* The tail of a sequence without repetitions has all but the head.         *)
LEMMA TailElements ==
    ASSUME NEW S, NEW s \in Seq(S), s # << >>
    PROVE  /\ Head(s) \in S /\ Head(s) \in Elements(s)
           /\ Tail(s) \in Seq(S)
           /\ Elements(Tail(s)) \subseteq Elements(s)
           /\ Distinct(s) => Distinct(Tail(s)) /\ Head(s) \notin Elements(Tail(s))
           /\ Tail(s) = << >> <=> Len(s) = 1
<1>1. /\ Head(s) \in S /\ Tail(s) \in Seq(S) /\ Len(Tail(s)) = Len(s) - 1
      /\ \A i \in 1 .. Len(s) - 1 : Tail(s)[i] = s[i + 1]
  BY HeadTailProperties
<1>2. Len(s) \in Nat /\ Len(s) >= 1 /\ Head(s) = s[1] /\ DOMAIN s = 1 .. Len(s)
  BY EmptySeq, LenProperties
<1>3. /\ \A y : y \in Elements(s) <=> \E i \in 1 .. Len(s) : s[i] = y
      /\ \A y : y \in Elements(Tail(s)) <=> \E i \in 1 .. Len(s) - 1 : Tail(s)[i] = y
      /\ DOMAIN Tail(s) = 1 .. Len(s) - 1
  BY <1>1, ElementsOf, LenProperties
<1>4. Head(s) \in Elements(s)
  BY <1>2, <1>3
<1>5. ASSUME NEW y \in Elements(Tail(s)) PROVE \E i \in 2 .. Len(s) : s[i] = y
  <2>1. PICK i \in 1 .. Len(s) - 1 : Tail(s)[i] = y
    BY <1>3, <1>5
  <2>2. i + 1 \in 2 .. Len(s) /\ s[i + 1] = y
    BY <1>1, <1>2, <2>1
  <2> QED
    BY <2>2
<1>6. Elements(Tail(s)) \subseteq Elements(s)
  BY <1>2, <1>3, <1>5
<1>7. ASSUME Distinct(s) PROVE Distinct(Tail(s)) /\ Head(s) \notin Elements(Tail(s))
  <2>1. \A i, j \in 1 .. Len(s) : i # j => s[i] # s[j]
    BY <1>2, <1>7 DEF Distinct
  <2>2. Head(s) \notin Elements(Tail(s))
    BY <1>2, <1>5, <2>1
  <2>3. ASSUME NEW i \in DOMAIN Tail(s), NEW j \in DOMAIN Tail(s), i # j
        PROVE  Tail(s)[i] # Tail(s)[j]
    <3>1. i + 1 \in 1 .. Len(s) /\ j + 1 \in 1 .. Len(s) /\ i + 1 # j + 1
      BY <1>2, <1>3, <2>3
    <3>2. Tail(s)[i] = s[i + 1] /\ Tail(s)[j] = s[j + 1]
      BY <1>1, <1>3
    <3> QED
      BY <2>1, <3>1, <3>2
  <2> QED
    BY <2>2, <2>3 DEF Distinct
<1>8. Tail(s) = << >> <=> Len(s) = 1
  BY <1>1, <1>2, EmptySeq
<1> QED
  BY <1>1, <1>4, <1>6, <1>7, <1>8

-----------------------------------------------------------------------------
(* The inductive invariant.                                                 *)

(* Thread t has begun a connection for r, or tried to, and not yet taken it *)
(* out of the queue.                                                        *)
At(r, t) == pc[t] = "remove" /\ r = Head(view[t])

(* The requests that were taken out of the queue.                           *)
Gone == removals \cup freed

(* TypeOK without the flags.                                                *)
StateOK ==
    /\ requests_in \in Seq(Requests)
    /\ removals \subseteq Requests /\ freed \subseteq Requests /\ posted \subseteq Requests
    /\ limited \subseteq Metered
    /\ open \subseteq Requests
    /\ tasks \in [Requests -> Nat]
    /\ pc \in [Threads -> {"idle", "view", "deliver", "remove"}]
    /\ view \in [Threads -> Seq(Requests)]
    /\ \A t \in Threads : pc[t] \in {"deliver", "remove"} <=> view[t] # << >>
    /\ runs \in [Requests -> [Threads -> Nat]]
    /\ calls \in [Requests -> Nat]
    /\ shared \subseteq Requests

FlagsOK == ticking \in BOOLEAN /\ broken \in BOOLEAN

(* What a thread goes through was posted, each request once; what two go    *)
(* through at one time is shared.                                           *)
ViewsOK ==
    /\ \A t \in Threads : Elements(view[t]) \subseteq posted /\ Distinct(view[t])
    /\ \A t, u \in Threads :
          t # u => Elements(view[t]) \cap Elements(view[u]) \subseteq shared

(* A thread begins a connection for a request once, takes it out before it  *)
(* goes on, and does not meet it again.                                     *)
RunsOK ==
    \A r \in Requests, t \in Threads :
        /\ runs[r][t] <= 1
        /\ runs[r][t] > 0 => r \in Gone \/ At(r, t)
        /\ runs[r][t] > 0 /\ r \in Elements(view[t]) => At(r, t)

(* A request that was never in two views is in none once it is taken out,   *)
(* was begun by one thread, and is answered once.                           *)
AloneOK ==
    \A r \in Requests \ shared :
        /\ r \in Gone => \A t \in Threads : r \notin Elements(view[t])
        /\ \A t, u \in Threads : runs[r][t] > 0 /\ runs[r][u] > 0 => t = u
        /\ r \in open => tasks[r] = 0 /\ calls[r] = 0
        /\ tasks[r] + calls[r] <= 1

(* What is at work was begun, and what is freed has had its handler called. *)
WorkOK ==
    /\ \A r \in Requests :
          r \in open \/ tasks[r] > 0 \/ calls[r] > 0 => \E t \in Threads : runs[r][t] > 0
    /\ \A r \in freed : calls[r] > 0

Inv == StateOK /\ FlagsOK /\ OneOwner /\ ViewsOK /\ RunsOK /\ AloneOK /\ WorkOK

-----------------------------------------------------------------------------
(* Types.                                                                   *)

LEMMA StateInit == Init => StateOK
<1>1. << >> \in Seq(Requests)
  BY EmptySeq
<1> QED
  BY <1>1 DEF Init, StateOK

LEMMA FlagsInit == Init => FlagsOK
BY DEF Init, FlagsOK

(* What a delivery sees first.                                              *)
LEMMA HeadViewed ==
    ASSUME StateOK, NEW t \in Threads, pc[t] \in {"deliver", "remove"}
    PROVE  /\ view[t] \in Seq(Requests) /\ view[t] # << >>
           /\ Head(view[t]) \in Requests
           /\ Head(view[t]) \in Elements(view[t])
           /\ Tail(view[t]) \in Seq(Requests)
           /\ Elements(Tail(view[t])) \subseteq Elements(view[t])
           /\ Distinct(view[t]) => /\ Distinct(Tail(view[t]))
                                   /\ Head(view[t]) \notin Elements(Tail(view[t]))
           /\ Tail(view[t]) = << >> <=> Len(view[t]) = 1
<1>1. view[t] \in Seq(Requests) /\ view[t] # << >>
  BY DEF StateOK
<1> QED
  BY <1>1, TailElements

LEMMA StateStep ==
    ASSUME StateOK, [Next]_vars
    PROVE  StateOK'
<1> USE DEF store, network, threads, history
<1>1. ASSUME NEW t \in Threads, Post(t) PROVE StateOK'
  <2>1. PICK r \in Requests \ posted, k \in 0 .. Len(requests_in) :
            /\ requests_in' = InsertAt(requests_in, k, r)
            /\ posted' = posted \cup {r}
    BY <1>1 DEF Post
  <2>2. requests_in' \in Seq(Requests)
    BY <2>1, InsertedAt DEF StateOK
  <2>3. pc' = [pc EXCEPT ![t] = "view"] /\ pc[t] = "idle"
    BY <1>1 DEF Post
  <2> QED
    BY <1>1, <2>1, <2>2, <2>3 DEF Post, StateOK
<1>2. ASSUME NEW t \in Threads, Copy(t), pc[t] \in {"idle", "view"} PROVE StateOK'
  <2>1. /\ view' = [view EXCEPT ![t] = requests_in]
        /\ pc' = [pc EXCEPT ![t] = IF requests_in = << >> THEN "idle" ELSE "deliver"]
        /\ UNCHANGED <<requests_in, removals, freed, posted, limited, open, tasks, calls, runs>>
    BY <1>2 DEF Copy
  <2>2. shared' \subseteq Requests
    <3>1. Elements(requests_in) \subseteq Requests
      BY ElementsOf DEF StateOK
    <3> QED
      BY <1>2, <3>1 DEF Copy, StateOK
  <2> QED
    BY <2>1, <2>2 DEF StateOK
<1>3. ASSUME NEW t \in Threads, View(t) PROVE StateOK'
  BY <1>2, <1>3 DEF View
<1>4. CASE Tick
  <2>1. Copy(Loop) /\ pc[Loop] = "idle" /\ Loop \in Threads
    BY <1>4 DEF Tick, LoopIdle, Threads
  <2> QED
    BY <1>2, <2>1
<1>5. CASE UseAfterFree
  BY <1>5 DEF UseAfterFree, StateOK
<1>6. ASSUME NEW t \in Threads, Wait(t), pc[t] = "deliver" PROVE StateOK'
  <2>1. << >> \in Seq(Requests)
    BY EmptySeq
  <2> QED
    BY <1>6, <2>1 DEF Wait, StateOK
<1>7. ASSUME NEW t \in Threads, Run(t), pc[t] = "deliver" PROVE StateOK'
  <2>1. Head(view[t]) \in Requests
    BY <1>7, HeadViewed
  <2>2. CASE UNCHANGED <<open, runs>>
    BY <1>7, <2>2 DEF Run, StateOK
  <2>3. CASE /\ open' = open \cup {Head(view[t])}
             /\ runs' = [runs EXCEPT ![Head(view[t])][t] = @ + 1]
    <3>1. runs' \in [Requests -> [Threads -> Nat]]
      BY <2>1, <2>3 DEF StateOK
    <3> QED
      BY <1>7, <2>1, <2>3, <3>1 DEF Run, StateOK
  <2> QED
    BY <1>7, <2>2, <2>3 DEF Run
<1>8. ASSUME NEW t \in Threads, Deliver(t) PROVE StateOK'
  BY <1>5, <1>6, <1>7, <1>8, Zenon DEF Deliver
<1>9. ASSUME NEW t \in Threads, Remove(t) PROVE StateOK'
  <2>1. CASE Head(view[t]) \in freed
    BY <1>5, <1>9, <2>1, Zenon DEF Remove
  <2>2. CASE Head(view[t]) \notin freed
    <3>1. /\ pc[t] = "remove" /\ TakeOut(Head(view[t]))
          /\ view' = [view EXCEPT ![t] = Tail(view[t])]
          /\ pc' = [pc EXCEPT ![t] = IF Len(view[t]) = 1 THEN "idle" ELSE "deliver"]
          /\ UNCHANGED <<freed, posted, limited, open, tasks, calls, runs, shared>>
      BY <1>9, <2>2 DEF Remove
    <3>2. requests_in' \in Seq(Requests) /\ removals' \subseteq Requests
      <4>1. CASE Head(view[t]) \in Elements(requests_in)
        <5>1. PICK k \in DOMAIN requests_in : requests_in' = WithoutAt(requests_in, k)
          BY <3>1, <4>1 DEF TakeOut
        <5>2. requests_in \in Seq(Requests) /\ k \in 1 .. Len(requests_in)
          BY <5>1, LenProperties DEF StateOK
        <5>3. requests_in' \in Seq(Requests)
          BY <5>1, <5>2, RemovedAt
        <5> QED
          BY <3>1, <4>1, <5>3, HeadViewed DEF TakeOut, StateOK
      <4>2. CASE Head(view[t]) \notin Elements(requests_in)
        BY <3>1, <4>2 DEF TakeOut, StateOK
      <4> QED
        BY <4>1, <4>2
    <3> QED
      BY <3>1, <3>2, HeadViewed DEF StateOK
  <2> QED
    BY <2>1, <2>2
<1>10. CASE Sweep
  <2>1. PICK due \in {{}, Swept} : /\ removals' = removals \ due
                                   /\ freed' = freed \cup due
                                   /\ open' = open \ due
    BY <1>10 DEF Sweep
  <2>2. due \subseteq Requests
    BY DEF Swept, Completed
  <2> QED
    BY <1>10, <2>1, <2>2 DEF Sweep, StateOK
<1>11. ASSUME NEW r \in Requests, Answer(r) PROVE StateOK'
  <2>1. /\ open' = open \ {r} /\ tasks' = [tasks EXCEPT ![r] = @ + 1]
        /\ limited' \in {limited \ {endpoint[r]}, limited \cup ({endpoint[r]} \cap Metered)}
        /\ UNCHANGED <<requests_in, removals, freed, posted, calls, pc, view, runs, shared>>
    BY <1>11 DEF Answer
  <2>2. limited' \subseteq Metered
    BY <2>1 DEF StateOK
  <2> QED
    BY <2>1, <2>2 DEF StateOK
<1>12. ASSUME NEW r \in Requests, Complete(r) PROVE StateOK'
  <2>1. CASE r \in freed
    BY <1>5, <1>12, <2>1, Zenon DEF Complete
  <2>2. CASE r \notin freed
    <3>1. /\ tasks[r] > 0
          /\ tasks' = [tasks EXCEPT ![r] = @ - 1]
          /\ calls' = [calls EXCEPT ![r] = @ + 1]
          /\ UNCHANGED <<requests_in, removals, freed, posted, limited, open, pc, view, runs, shared>>
      BY <1>12, <2>2 DEF Complete
    <3> QED
      BY <3>1 DEF StateOK
  <2> QED
    BY <2>1, <2>2
<1>13. ASSUME NEW e \in Metered, TimeUp(e) PROVE StateOK'
  BY <1>13 DEF TimeUp, StateOK
<1>14. CASE UNCHANGED vars
  BY <1>14 DEF vars, StateOK
<1> QED
  BY <1>1, <1>3, <1>4, <1>8, <1>9, <1>10, <1>11, <1>12, <1>13, <1>14 DEF Next, Delivery

-----------------------------------------------------------------------------
(* What a step does to the requests and the threads that deliver them.      *)

Inserted(r, k) ==
    /\ InsertionPoint(requests_in, r, k)
    /\ requests_in' = InsertAt(requests_in, k, r)
    /\ posted' = posted \cup {r}
    /\ UNCHANGED <<removals, freed>>

TakenOut(r) == TakeOut(r) /\ UNCHANGED <<freed, posted>>

SweptOut(due) ==
    /\ due \subseteq Swept
    /\ removals' = removals \ due /\ freed' = freed \cup due
    /\ UNCHANGED <<requests_in, posted>>

SameStore == UNCHANGED <<requests_in, removals, freed, posted>>
SameWork  == UNCHANGED <<open, tasks, calls>>
SameViews == UNCHANGED <<pc, view, shared>>

Posts(t) ==
    /\ \E r \in Requests \ posted : \E k \in 0 .. Len(requests_in) : Inserted(r, k)
    /\ pc[t] = "idle" /\ pc' = [pc EXCEPT ![t] = "view"]
    /\ SameWork /\ UNCHANGED <<view, shared, runs, broken>>

Copies(t) ==
    /\ pc[t] \in {"idle", "view"}
    /\ pc' = [pc EXCEPT ![t] = IF requests_in = << >> THEN "idle" ELSE "deliver"]
    /\ view' = [view EXCEPT ![t] = requests_in]
    /\ shared' = shared \cup {r \in Elements(requests_in) :
                                 \E u \in Threads \ {t} : r \in Elements(view[u])}
    /\ SameStore /\ SameWork /\ UNCHANGED <<runs, broken>>

Waits(t) ==
    /\ pc[t] = "deliver" /\ pc' = [pc EXCEPT ![t] = "idle"]
    /\ view' = [view EXCEPT ![t] = << >>]
    /\ SameStore /\ SameWork /\ UNCHANGED <<shared, runs, broken>>

Runs(t) ==
    /\ pc[t] = "deliver" /\ pc' = [pc EXCEPT ![t] = "remove"]
    /\ Head(view[t]) \notin freed
    /\ \/ /\ open' = open \cup {Head(view[t])}
          /\ runs' = [runs EXCEPT ![Head(view[t])][t] = @ + 1]
       \/ UNCHANGED <<open, runs>>
    /\ SameStore /\ UNCHANGED <<view, shared, tasks, calls, broken>>

Removes(t) ==
    /\ pc[t] = "remove"
    /\ TakenOut(Head(view[t]))
    /\ view' = [view EXCEPT ![t] = Tail(view[t])]
    /\ pc' = [pc EXCEPT ![t] = IF Len(view[t]) = 1 THEN "idle" ELSE "deliver"]
    /\ SameWork /\ UNCHANGED <<shared, runs, broken>>

Sweeps ==
    /\ \E due : SweptOut(due) /\ open' = open \ due
    /\ SameViews /\ UNCHANGED <<tasks, calls, runs, broken>>

Answers(r) ==
    /\ r \in open /\ open' = open \ {r}
    /\ tasks' = [tasks EXCEPT ![r] = @ + 1]
    /\ SameStore /\ SameViews /\ UNCHANGED <<calls, runs, broken>>

Completes(r) ==
    /\ tasks[r] > 0 /\ r \notin freed
    /\ tasks' = [tasks EXCEPT ![r] = @ - 1]
    /\ calls' = [calls EXCEPT ![r] = @ + 1]
    /\ SameStore /\ SameViews /\ UNCHANGED <<open, runs, broken>>

Rests == SameStore /\ SameWork /\ SameViews /\ UNCHANGED runs

(* A freed request is used, in a view or by its completion.                 *)
Misuses ==
    /\ Rests /\ broken' = TRUE
    /\ \/ \E t \in Threads : pc[t] \in {"deliver", "remove"} /\ Head(view[t]) \in freed
       \/ \E r \in freed : tasks[r] > 0

LEMMA StepKinds ==
    ASSUME [Next]_vars
    PROVE  \/ \E t \in Threads : Posts(t) \/ Copies(t) \/ Waits(t) \/ Runs(t) \/ Removes(t)
           \/ Sweeps
           \/ \E r \in Requests : Answers(r) \/ Completes(r)
           \/ Rests /\ UNCHANGED broken
           \/ Misuses
<1> USE DEF store, network, threads, history, SameStore, SameWork, SameViews
<1>1. ASSUME NEW t \in Threads, Post(t) PROVE Posts(t)
  BY <1>1 DEF Post, Posts, Inserted
<1>2. ASSUME NEW t \in Threads, View(t) PROVE Copies(t)
  BY <1>2 DEF View, Copy, Copies
<1>3. CASE Tick
  <2>1. Copies(Loop) /\ Loop \in Threads
    BY <1>3 DEF Tick, LoopIdle, Copy, Copies, Threads
  <2> QED
    BY <2>1
<1>4. ASSUME UseAfterFree PROVE Rests /\ broken' = TRUE
  BY <1>4 DEF UseAfterFree, Rests
<1>5. ASSUME NEW t \in Threads, Deliver(t) PROVE Waits(t) \/ Runs(t) \/ Misuses
  <2>1. pc[t] = "deliver"
    BY <1>5 DEF Deliver
  <2>2. CASE Head(view[t]) \in freed
    <3>1. UseAfterFree
      BY <1>5, <2>2, Zenon DEF Deliver
    <3> QED
      BY <1>4, <2>1, <2>2, <3>1 DEF Misuses
  <2>3. CASE Head(view[t]) \notin freed
    <3>1. Wait(t) \/ Run(t)
      BY <1>5, <2>3, Zenon DEF Deliver
    <3>2. CASE Wait(t)
      BY <2>1, <3>2 DEF Wait, Waits
    <3>3. CASE Run(t)
      BY <2>1, <2>3, <3>3 DEF Run, Runs
    <3> QED
      BY <3>1, <3>2, <3>3
  <2> QED
    BY <2>2, <2>3
<1>6. ASSUME NEW t \in Threads, Remove(t) PROVE Removes(t) \/ Misuses
  <2>1. pc[t] = "remove"
    BY <1>6 DEF Remove
  <2>2. CASE Head(view[t]) \in freed
    <3>1. UseAfterFree
      BY <1>6, <2>2, Zenon DEF Remove
    <3> QED
      BY <1>4, <2>1, <2>2, <3>1 DEF Misuses
  <2>3. CASE Head(view[t]) \notin freed
    BY <1>6, <2>1, <2>3 DEF Remove, Removes, TakenOut
  <2> QED
    BY <2>2, <2>3
<1>7. CASE Sweep
  <2>1. PICK due \in {{}, Swept} : /\ removals' = removals \ due
                                   /\ freed' = freed \cup due
                                   /\ open' = open \ due
    BY <1>7 DEF Sweep
  <2>2. SweptOut(due)
    BY <1>7, <2>1 DEF Sweep, SweptOut
  <2> QED
    BY <1>7, <2>1, <2>2 DEF Sweep, Sweeps
<1>8. ASSUME NEW r \in Requests, Answer(r) PROVE Answers(r)
  BY <1>8 DEF Answer, Answers
<1>9. ASSUME NEW r \in Requests, Complete(r) PROVE Completes(r) \/ Misuses
  <2>1. tasks[r] > 0
    BY <1>9 DEF Complete
  <2>2. CASE r \in freed
    <3>1. UseAfterFree
      BY <1>9, <2>2, Zenon DEF Complete
    <3> QED
      BY <1>4, <2>1, <2>2, <3>1 DEF Misuses
  <2>3. CASE r \notin freed
    BY <1>9, <2>1, <2>3 DEF Complete, Completes
  <2> QED
    BY <2>2, <2>3
<1>10. ASSUME NEW e \in Metered, TimeUp(e) PROVE Rests /\ UNCHANGED broken
  BY <1>10 DEF TimeUp, Rests
<1>11. CASE UNCHANGED vars
  BY <1>11 DEF vars, Rests
<1> QED
  BY <1>1, <1>2, <1>3, <1>5, <1>6, <1>7, <1>8, <1>9, <1>10, <1>11, Zenon
     DEF Next, Delivery

(* How a step moves requests: in, from the queue to removals, or out.       *)
LEMMA StoreStep ==
    ASSUME [Next]_vars
    PROVE  \/ UNCHANGED <<requests_in, removals, freed, posted>>
           \/ \E r \in Requests \ posted : \E k \in 0 .. Len(requests_in) : Inserted(r, k)
           \/ \E t \in Threads : pc[t] = "remove" /\ TakenOut(Head(view[t]))
           \/ \E due : SweptOut(due)
BY StepKinds DEF Posts, Copies, Waits, Runs, Removes, Sweeps, Answers, Completes, Rests,
                 Misuses, SameStore

-----------------------------------------------------------------------------
(* The queue and its owner.                                                 *)

(* TakeOut, where it finds the request: it leaves the queue.                *)
LEMMA TakeOutStep ==
    ASSUME StateOK, OneOwner, NEW r \in Requests, TakeOut(r)
    PROVE  /\ Elements(requests_in') = Elements(requests_in) \ {r}
           /\ Distinct(requests_in')
           /\ removals' = IF r \in Elements(requests_in) THEN removals \cup {r} ELSE removals
<1>1. requests_in \in Seq(Requests) /\ Distinct(requests_in)
  BY DEF StateOK, OneOwner, Distinct
<1>2. CASE r \in Elements(requests_in)
  <2>1. PICK k \in DOMAIN requests_in : /\ requests_in[k] = r
                                        /\ requests_in' = WithoutAt(requests_in, k)
    BY <1>2 DEF TakeOut
  <2>2. k \in 1 .. Len(requests_in)
    BY <1>1, LenProperties
  <2>3. /\ Elements(requests_in') = Elements(requests_in) \ {r}
        /\ Distinct(requests_in')
    BY <1>1, <2>1, <2>2, RemovedElements
  <2> QED
    BY <1>2, <2>3 DEF TakeOut
<1>3. CASE r \notin Elements(requests_in)
  BY <1>1, <1>3 DEF TakeOut
<1> QED
  BY <1>2, <1>3

LEMMA OwnerInit == Init => OneOwner
BY DEF Init, OneOwner, Elements

LEMMA OwnerStep ==
    ASSUME StateOK, OneOwner, [Next]_vars
    PROVE  OneOwner'
<1>1. /\ requests_in \in Seq(Requests)
      /\ Distinct(requests_in)
      /\ posted = Elements(requests_in) \cup removals \cup freed
      /\ Elements(requests_in) \cap removals = {}
      /\ (Elements(requests_in) \cup removals) \cap freed = {}
  BY DEF StateOK, OneOwner, Distinct
<1>2. SUFFICES /\ Distinct(requests_in')
               /\ posted' = Elements(requests_in') \cup removals' \cup freed'
               /\ Elements(requests_in') \cap removals' = {}
               /\ (Elements(requests_in') \cup removals') \cap freed' = {}
  BY DEF OneOwner, Distinct, Elements
<1>3. CASE UNCHANGED <<requests_in, removals, freed, posted>>
  BY <1>1, <1>3
<1>4. ASSUME NEW r \in Requests \ posted, NEW k \in 0 .. Len(requests_in), Inserted(r, k)
      PROVE  /\ Distinct(requests_in')
             /\ posted' = Elements(requests_in') \cup removals' \cup freed'
             /\ Elements(requests_in') \cap removals' = {}
             /\ (Elements(requests_in') \cup removals') \cap freed' = {}
  <2>1. r \notin Elements(requests_in) /\ r \notin removals /\ r \notin freed
    BY <1>1, <1>4
  <2>2. /\ requests_in' = InsertAt(requests_in, k, r)
        /\ posted' = posted \cup {r}
        /\ UNCHANGED <<removals, freed>>
    BY <1>4 DEF Inserted
  <2>3. Elements(requests_in') = Elements(requests_in) \cup {r}
    BY <1>1, <2>2, InsertedElements
  <2>4. Distinct(requests_in')
    BY <1>1, <2>1, <2>2, InsertedDistinct
  <2> QED
    BY <1>1, <2>1, <2>2, <2>3, <2>4
<1>5. ASSUME NEW t \in Threads, pc[t] = "remove", TakenOut(Head(view[t]))
      PROVE  /\ Distinct(requests_in')
             /\ posted' = Elements(requests_in') \cup removals' \cup freed'
             /\ Elements(requests_in') \cap removals' = {}
             /\ (Elements(requests_in') \cup removals') \cap freed' = {}
  <2>1. Head(view[t]) \in Requests /\ TakeOut(Head(view[t])) /\ UNCHANGED <<freed, posted>>
    BY <1>5, HeadViewed DEF TakenOut
  <2>2. /\ Elements(requests_in') = Elements(requests_in) \ {Head(view[t])}
        /\ Distinct(requests_in')
        /\ removals' = IF Head(view[t]) \in Elements(requests_in)
                       THEN removals \cup {Head(view[t])} ELSE removals
    BY <2>1, TakeOutStep
  <2> QED
    BY <1>1, <2>1, <2>2
<1>6. ASSUME NEW due, SweptOut(due)
      PROVE  /\ Distinct(requests_in')
             /\ posted' = Elements(requests_in') \cup removals' \cup freed'
             /\ Elements(requests_in') \cap removals' = {}
             /\ (Elements(requests_in') \cup removals') \cap freed' = {}
  BY <1>1, <1>6 DEF SweptOut, Swept
<1> QED
  BY <1>3, <1>4, <1>5, <1>6, StoreStep

LEMMA SortedInit == Init => QueueSorted
BY DEF Init, QueueSorted

LEMMA SortedStep ==
    ASSUME StateOK, QueueSorted, [Next]_vars
    PROVE  QueueSorted'
<1> DEFINE s == requests_in
           n == Len(requests_in)
           w(i) == endpoint[requests_in[i]]
<1>1. /\ s \in Seq(Requests) /\ n \in Nat /\ DOMAIN s = 1 .. n
      /\ \A i \in 1 .. n : w(i) \in Nat
  <2>1. s \in Seq(Requests)
    BY DEF StateOK
  <2>2. n \in Nat /\ DOMAIN s = 1 .. n
    BY <2>1, LenProperties
  <2>3. \A i \in 1 .. n : s[i] \in Requests
    BY <2>1, ElementOfSeq
  <2>4. \A r \in Requests : endpoint[r] \in Nat
    BY QueueAssumption
  <2> QED
    BY <2>1, <2>2, <2>3, <2>4
<1>2. \A i, j \in 1 .. n : i < j => w(i) <= w(j)
  BY <1>1 DEF QueueSorted
<1>3. CASE UNCHANGED <<requests_in, removals, freed, posted>>
  BY <1>3 DEF QueueSorted
<1>4. ASSUME NEW r \in Requests \ posted, NEW k \in 0 .. Len(requests_in), Inserted(r, k)
      PROVE  QueueSorted'
  <2>1. /\ k \in Nat /\ k <= n
        /\ \A i \in 1 .. k : w(i) < endpoint[r]
        /\ \A i \in k + 1 .. n : w(i) >= endpoint[r]
        /\ endpoint[r] \in Nat
    <3>1. k \in Nat /\ k <= n
      BY <1>1
    <3>2. /\ \A i \in 1 .. k : w(i) < endpoint[r]
          /\ \A i \in k + 1 .. n : w(i) >= endpoint[r]
      BY <1>4 DEF Inserted, InsertionPoint
    <3>3. endpoint[r] \in Nat
      BY QueueAssumption
    <3> QED
      BY <3>1, <3>2, <3>3
  <2>2. /\ requests_in' \in Seq(Requests) /\ Len(requests_in') = n + 1
        /\ \A i \in 1 .. n + 1 : requests_in'[i] =
              IF i <= k THEN s[i] ELSE IF i = k + 1 THEN r ELSE s[i - 1]
    <3>1. requests_in' = InsertAt(requests_in, k, r)
      BY <1>4 DEF Inserted
    <3>2. /\ InsertAt(requests_in, k, r) \in Seq(Requests)
          /\ Len(InsertAt(requests_in, k, r)) = n + 1
          /\ \A i \in 1 .. n + 1 : InsertAt(requests_in, k, r)[i] =
                IF i <= k THEN s[i] ELSE IF i = k + 1 THEN r ELSE s[i - 1]
      <4>1. requests_in \in Seq(Requests) /\ r \in Requests
        BY <1>1
      <4> QED
        BY <4>1, InsertedAt
    <3> QED
      BY <3>1, <3>2
  <2>3. DOMAIN requests_in' = 1 .. n + 1
    BY <2>2, LenProperties
  <2>4. \A i \in 1 .. n + 1 : endpoint[requests_in'[i]] =
              IF i <= k THEN w(i) ELSE IF i = k + 1 THEN endpoint[r] ELSE w(i - 1)
    BY <2>2
  <2> HIDE DEF w, n, s
  <2>5. ASSUME NEW i \in 1 .. n + 1, NEW j \in 1 .. n + 1, i < j
        PROVE  endpoint[requests_in'[i]] <= endpoint[requests_in'[j]]
    <3>1. CASE j <= k
      <4>1. i \in 1 .. n /\ j \in 1 .. n /\ i <= k
        BY <1>1, <2>1, <2>5, <3>1
      <4> QED
        BY <1>2, <2>4, <2>5, <3>1, <4>1
    <3>2. CASE i <= k /\ j = k + 1
      <4>1. w(i) < endpoint[r] /\ w(i) \in Nat /\ ~ (j <= k)
        BY <1>1, <2>1, <3>2
      <4> QED
        BY <2>1, <2>4, <3>2, <4>1
    <3>3. CASE i <= k /\ j > k + 1
      <4>1. i \in 1 .. n /\ j - 1 \in 1 .. n /\ i < j - 1 /\ ~ (j <= k) /\ j # k + 1
        BY <1>1, <2>1, <3>3
      <4> QED
        BY <1>2, <2>4, <3>3, <4>1
    <3>4. CASE i = k + 1
      <4>1. j - 1 \in k + 1 .. n /\ ~ (i <= k) /\ ~ (j <= k) /\ j # k + 1
        BY <1>1, <2>1, <2>5, <3>4
      <4>2. w(j - 1) >= endpoint[r] /\ w(j - 1) \in Nat
        BY <1>1, <2>1, <4>1
      <4> QED
        BY <2>1, <2>4, <3>4, <4>1, <4>2
    <3>5. CASE i > k + 1
      <4>1. /\ i - 1 \in 1 .. n /\ j - 1 \in 1 .. n /\ i - 1 < j - 1
            /\ ~ (i <= k) /\ i # k + 1 /\ ~ (j <= k) /\ j # k + 1
        BY <1>1, <2>1, <2>5, <3>5
      <4> QED
        BY <1>2, <2>4, <4>1
    <3> QED
      BY <1>1, <2>1, <2>5, <3>1, <3>2, <3>3, <3>4, <3>5
  <2> QED
    BY <2>3, <2>5 DEF QueueSorted
<1>5. ASSUME NEW t \in Threads, TakenOut(Head(view[t])) PROVE QueueSorted'
  <2>1. CASE UNCHANGED requests_in
    BY <2>1 DEF QueueSorted
  <2>2. ASSUME NEW k \in DOMAIN requests_in, requests_in' = WithoutAt(requests_in, k)
        PROVE  QueueSorted'
    <3>1. k \in 1 .. n /\ k \in Nat
      BY <1>1
    <3>2. /\ requests_in' \in Seq(Requests) /\ Len(requests_in') = n - 1
          /\ \A i \in 1 .. n - 1 : requests_in'[i] = IF i < k THEN s[i] ELSE s[i + 1]
      BY <1>1, <2>2, <3>1, RemovedAt
    <3>3. DOMAIN requests_in' = 1 .. n - 1
      BY <3>2, LenProperties
    <3>4. \A i \in 1 .. n - 1 : endpoint[requests_in'[i]] = IF i < k THEN w(i) ELSE w(i + 1)
      BY <3>2
    <3> HIDE DEF w, n, s
    <3>5. ASSUME NEW i \in 1 .. n - 1, NEW j \in 1 .. n - 1, i < j
          PROVE  endpoint[requests_in'[i]] <= endpoint[requests_in'[j]]
      <4> DEFINE up(m) == IF m < k THEN m ELSE m + 1
      <4>1. up(i) \in 1 .. n /\ up(j) \in 1 .. n /\ up(i) < up(j)
        BY <1>1, <3>1, <3>5
      <4>2. endpoint[requests_in'[i]] = w(up(i)) /\ endpoint[requests_in'[j]] = w(up(j))
        BY <3>4
      <4> HIDE DEF up
      <4> QED
        BY <1>2, <4>1, <4>2
    <3> QED
      BY <3>3, <3>5 DEF QueueSorted
  <2> QED
    BY <1>5, <2>1, <2>2 DEF TakenOut, TakeOut
<1>6. ASSUME NEW due, SweptOut(due) PROVE QueueSorted'
  BY <1>6 DEF SweptOut, QueueSorted
<1> QED
  BY <1>3, <1>4, <1>5, <1>6, StoreStep

-----------------------------------------------------------------------------
(* The views.                                                               *)

(* What was posted stays so, and what is gone from the queue too.           *)
LEMMA PostedStep ==
    ASSUME StateOK, OneOwner, [Next]_vars
    PROVE  /\ posted \subseteq posted' /\ Gone \subseteq Gone'
           /\ \A r \in Requests \ posted : \A k \in 0 .. Len(requests_in) :
                 Inserted(r, k) => posted' = posted \cup {r} /\ Gone' = Gone
           /\ \A r \in Requests : TakenOut(r) =>
                 /\ posted' = posted /\ Gone' \subseteq Gone \cup {r}
                 /\ r \in posted => r \in Gone'
           /\ \A due : SweptOut(due) => posted' = posted /\ Gone' = Gone
<1>1. ASSUME NEW r \in Requests \ posted, NEW k \in 0 .. Len(requests_in), Inserted(r, k)
      PROVE  posted' = posted \cup {r} /\ Gone' = Gone
  <2>1. requests_in \in Seq(Requests) /\ r \in Requests
    BY DEF StateOK
  <2>2. Elements(InsertAt(requests_in, k, r)) = Elements(requests_in) \cup {r}
    BY <2>1, InsertedElements
  <2>3. Elements(requests_in') = Elements(requests_in) \cup {r}
    BY <1>1, <2>2 DEF Inserted
  <2> QED
    BY <1>1, <2>3 DEF Inserted, Gone
<1>2. ASSUME NEW r \in Requests, TakenOut(r)
      PROVE  /\ posted' = posted /\ Gone \subseteq Gone' /\ Gone' \subseteq Gone \cup {r}
             /\ r \in posted => r \in Gone'
  <2>1. /\ Elements(requests_in') = Elements(requests_in) \ {r}
        /\ removals' = IF r \in Elements(requests_in) THEN removals \cup {r} ELSE removals
        /\ freed' = freed /\ posted' = posted
    BY <1>2, TakeOutStep DEF TakenOut
  <2>2. CASE r \in Elements(requests_in)
    BY <2>1, <2>2 DEF OneOwner, Gone
  <2>3. CASE r \notin Elements(requests_in)
    BY <2>1, <2>3 DEF OneOwner, Gone
  <2> QED
    BY <2>2, <2>3
<1>3. ASSUME NEW due, SweptOut(due) PROVE posted' = posted /\ Gone' = Gone
  BY <1>3 DEF SweptOut, Swept, Gone
<1>4. ASSUME UNCHANGED <<requests_in, removals, freed, posted>>
      PROVE  posted' = posted /\ Gone' = Gone
  BY <1>4 DEF Gone
<1>5. posted \subseteq posted' /\ Gone \subseteq Gone'
  BY <1>1, <1>2, <1>3, <1>4, StoreStep, HeadViewed
<1> QED
  BY <1>1, <1>2, <1>3, <1>5

LEMMA EmptyView == Elements(<< >>) = {} /\ Distinct(<< >>)
BY DEF Elements, Distinct

LEMMA ViewsInit == Init => ViewsOK
<1>1. Init => \A t \in Threads : view[t] = << >>
  BY DEF Init
<1> QED
  BY <1>1, EmptyView DEF ViewsOK

LEMMA ViewsStep ==
    ASSUME StateOK, OneOwner, ViewsOK, [Next]_vars
    PROVE  ViewsOK'
<1>1. posted \subseteq posted' /\ StateOK'
  BY PostedStep, StateStep
<1>2. ASSUME UNCHANGED <<view, shared>> PROVE ViewsOK'
  BY <1>1, <1>2 DEF ViewsOK
<1>3. ASSUME NEW t \in Threads, NEW v,
             view' = [view EXCEPT ![t] = v],
             Elements(v) \subseteq posted, Distinct(v),
             shared \subseteq shared',
             \A u \in Threads \ {t} : Elements(v) \cap Elements(view[u]) \subseteq shared'
      PROVE  ViewsOK'
  <2>1. view'[t] = v /\ \A u \in Threads \ {t} : view'[u] = view[u]
    BY <1>3 DEF StateOK
  <2>2. \A u \in Threads : Elements(view'[u]) \subseteq posted' /\ Distinct(view'[u])
    BY <1>1, <1>3, <2>1 DEF ViewsOK
  <2>3. ASSUME NEW u \in Threads, NEW x \in Threads, u # x
        PROVE  Elements(view'[u]) \cap Elements(view'[x]) \subseteq shared'
    <3>1. CASE u = t
      BY <1>3, <2>1, <2>3, <3>1
    <3>2. CASE x = t
      BY <1>3, <2>1, <2>3, <3>2
    <3>3. CASE u # t /\ x # t
      BY <1>3, <2>1, <2>3, <3>3 DEF ViewsOK
    <3> QED
      BY <3>1, <3>2, <3>3
  <2> QED
    BY <2>2, <2>3 DEF ViewsOK
<1>4. ASSUME NEW t \in Threads, Posts(t) PROVE ViewsOK'
  BY <1>2, <1>4 DEF Posts
<1>5. ASSUME NEW t \in Threads, Copies(t) PROVE ViewsOK'
  <2>1. /\ view' = [view EXCEPT ![t] = requests_in]
        /\ shared' = shared \cup {r \in Elements(requests_in) :
                                     \E u \in Threads \ {t} : r \in Elements(view[u])}
    BY <1>5 DEF Copies
  <2>2. Elements(requests_in) \subseteq posted /\ Distinct(requests_in)
    BY DEF OneOwner, Distinct
  <2>3. \A u \in Threads \ {t} : Elements(requests_in) \cap Elements(view[u]) \subseteq shared'
    BY <2>1
  <2> QED
    BY <1>3, <2>1, <2>2, <2>3
<1>6. ASSUME NEW t \in Threads, Waits(t) PROVE ViewsOK'
  <2>1. view' = [view EXCEPT ![t] = << >>] /\ shared' = shared
    BY <1>6 DEF Waits
  <2> QED
    BY <1>3, <2>1, EmptyView
<1>7. ASSUME NEW t \in Threads, Runs(t) PROVE ViewsOK'
  BY <1>2, <1>7 DEF Runs
<1>8. ASSUME NEW t \in Threads, Removes(t) PROVE ViewsOK'
  <2>1. /\ view' = [view EXCEPT ![t] = Tail(view[t])] /\ shared' = shared
        /\ pc[t] = "remove"
    BY <1>8 DEF Removes
  <2>2. Distinct(view[t]) /\ Elements(view[t]) \subseteq posted
    BY DEF ViewsOK
  <2>3. /\ Elements(Tail(view[t])) \subseteq Elements(view[t])
        /\ Distinct(Tail(view[t]))
    BY <2>1, <2>2, HeadViewed
  <2>4. \A u \in Threads \ {t} : Elements(view[t]) \cap Elements(view[u]) \subseteq shared
    BY DEF ViewsOK
  <2> QED
    BY <1>3, <2>1, <2>2, <2>3, <2>4
<1>9. CASE Sweeps \/ Rests \/ Misuses \/ \E r \in Requests : Answers(r) \/ Completes(r)
  <2>1. UNCHANGED <<view, shared>>
    BY <1>9 DEF Sweeps, Rests, Misuses, Answers, Completes, SameViews
  <2> QED
    BY <1>2, <2>1
<1> QED
  BY <1>4, <1>5, <1>6, <1>7, <1>8, <1>9, StepKinds

-----------------------------------------------------------------------------
(* What each thread has begun.                                              *)

LEMMA RunsInit == Init => RunsOK
<1> SUFFICES ASSUME Init, NEW r \in Requests, NEW t \in Threads PROVE runs[r][t] = 0
  BY DEF RunsOK
<1> QED
  BY DEF Init

LEMMA CountStep ==
    ASSUME StateOK, NEW h \in Requests, NEW t \in Threads,
           runs' = [runs EXCEPT ![h][t] = @ + 1] \/ runs' = runs
    PROVE  /\ runs'[h][t] \in {runs[h][t], runs[h][t] + 1}
           /\ \A r \in Requests, u \in Threads :
                 r # h \/ u # t => runs'[r][u] = runs[r][u]
<1>1. runs \in [Requests -> [Threads -> Nat]]
  BY DEF StateOK
<1>2. CASE runs' = [runs EXCEPT ![h][t] = @ + 1]
  <2>1. runs'[h] = [runs[h] EXCEPT ![t] = @ + 1]
    BY <1>1, <1>2
  <2>2. \A r \in Requests : r # h => runs'[r] = runs[r]
    BY <1>1, <1>2
  <2>3. runs[h] \in [Threads -> Nat]
    BY <1>1
  <2> QED
    BY <2>1, <2>2, <2>3
<1>3. CASE runs' = runs
  BY <1>3
<1> QED
  BY <1>2, <1>3

LEMMA RunsStep ==
    ASSUME StateOK, OneOwner, ViewsOK, RunsOK, [Next]_vars
    PROVE  RunsOK'
<1> DEFINE Fine(r, t) == /\ runs'[r][t] <= 1
                         /\ runs'[r][t] > 0 => r \in Gone' \/ At(r, t)'
                         /\ runs'[r][t] > 0 /\ r \in Elements(view'[t]) => At(r, t)'
<1>1. Gone \subseteq Gone'
  BY PostedStep
<1>2. \A r \in Requests, t \in Threads : runs[r][t] \in Nat
  BY DEF StateOK
<1>3. ASSUME NEW r \in Requests, NEW t \in Threads,
             runs'[r][t] = runs[r][t], pc'[t] = pc[t], view'[t] = view[t]
      PROVE  Fine(r, t)
  BY <1>1, <1>3 DEF RunsOK, At
<1>4. ASSUME NEW r \in Requests, NEW t \in Threads, runs[r][t] > 0, ~ At(r, t)
      PROVE  r \in Gone /\ r \notin Elements(view[t])
  BY <1>4 DEF RunsOK
<1>5. ASSUME NEW t \in Threads, Posts(t), NEW r \in Requests, NEW u \in Threads
      PROVE  Fine(r, u)
  <2>1. /\ pc[t] = "idle" /\ pc' = [pc EXCEPT ![t] = "view"]
        /\ view' = view /\ runs' = runs
    BY <1>5 DEF Posts
  <2>2. CASE u # t
    <3>1. pc'[u] = pc[u]
      BY <2>1, <2>2 DEF StateOK
    <3> QED
      BY <1>3, <2>1, <3>1
  <2>3. CASE u = t /\ runs[r][u] > 0
    <3>1. ~ At(r, u)
      BY <2>1, <2>3 DEF At
    <3>2. r \in Gone /\ r \notin Elements(view[u])
      BY <1>4, <2>3, <3>1
    <3>3. runs[r][u] <= 1
      BY DEF RunsOK
    <3> QED
      BY <1>1, <2>1, <3>2, <3>3
  <2>4. CASE u = t /\ ~ (runs[r][u] > 0)
    BY <1>2, <2>1, <2>4
  <2> QED
    BY <2>2, <2>3, <2>4
<1>6. ASSUME NEW t \in Threads, Copies(t) \/ Waits(t), NEW r \in Requests, NEW u \in Threads
      PROVE  Fine(r, u)
  <2>1. /\ pc[t] # "remove" /\ runs' = runs
        /\ \A x \in Threads \ {t} : pc'[x] = pc[x] /\ view'[x] = view[x]
    BY <1>6 DEF Copies, Waits, StateOK
  <2>2. CASE u # t
    BY <1>3, <2>1, <2>2
  <2>3. CASE u = t /\ runs[r][u] > 0
    <3>1. ~ At(r, u)
      BY <2>1, <2>3 DEF At
    <3>2. r \in Gone
      BY <1>4, <2>3, <3>1
    <3>3. view'[t] \in {requests_in, << >>}
      BY <1>6 DEF Copies, Waits, StateOK
    <3>4. r \notin Elements(view'[t])
      BY <3>2, <3>3, EmptyView DEF OneOwner, Gone
    <3>5. runs[r][u] <= 1
      BY DEF RunsOK
    <3> QED
      BY <1>1, <2>1, <2>3, <3>2, <3>4, <3>5
  <2>4. CASE u = t /\ ~ (runs[r][u] > 0)
    BY <1>2, <2>1, <2>4
  <2> QED
    BY <2>2, <2>3, <2>4
<1>7. ASSUME NEW t \in Threads, Runs(t), NEW r \in Requests, NEW u \in Threads
      PROVE  Fine(r, u)
  <2> DEFINE h == Head(view[t])
  <2>1. /\ pc[t] = "deliver" /\ pc' = [pc EXCEPT ![t] = "remove"] /\ view' = view
        /\ \/ runs' = [runs EXCEPT ![h][t] = @ + 1]
           \/ runs' = runs
    BY <1>7 DEF Runs
  <2>2. h \in Requests /\ h \in Elements(view[t])
    BY <2>1, HeadViewed
  <2>3. CASE u # t
    <3>1. pc'[u] = pc[u]
      BY <2>1, <2>3 DEF StateOK
    <3>2. runs'[r][u] = runs[r][u]
      BY <2>1, <2>2, <2>3, CountStep
    <3> QED
      BY <1>3, <2>1, <3>1, <3>2
  <2>4. CASE u = t /\ r = h
    <3>1. ~ At(h, t)
      BY <2>1 DEF At
    <3>2. ~ (runs[h][t] > 0)
      BY <1>4, <2>2, <3>1
    <3>3. runs[h][t] = 0
      BY <1>2, <2>2, <3>2
    <3>4. runs'[h][t] <= 1
      BY <2>1, <2>2, <3>3, CountStep
    <3>5. At(r, t)'
      BY <2>1, <2>4 DEF StateOK, At
    <3> QED
      BY <2>4, <3>4, <3>5
  <2>5. CASE u = t /\ r # h
    <3>1. runs'[r][t] = runs[r][t]
      BY <2>1, <2>2, <2>5, CountStep
    <3>2. ~ At(r, t)
      BY <2>1 DEF At
    <3>3. runs[r][t] > 0 => r \in Gone /\ r \notin Elements(view[t])
      BY <1>4, <3>2
    <3>4. runs[r][t] <= 1
      BY DEF RunsOK
    <3> QED
      BY <1>1, <2>1, <2>5, <3>1, <3>3, <3>4
  <2> QED
    BY <2>3, <2>4, <2>5
<1>8. ASSUME NEW t \in Threads, Removes(t), NEW r \in Requests, NEW u \in Threads
      PROVE  Fine(r, u)
  <2> DEFINE h == Head(view[t])
  <2>1. /\ pc[t] = "remove" /\ TakenOut(h) /\ runs' = runs
        /\ view' = [view EXCEPT ![t] = Tail(view[t])]
        /\ pc' = [pc EXCEPT ![t] = IF Len(view[t]) = 1 THEN "idle" ELSE "deliver"]
    BY <1>8 DEF Removes
  <2>2. /\ h \in Requests /\ h \in Elements(view[t])
        /\ Elements(Tail(view[t])) \subseteq Elements(view[t])
        /\ h \notin Elements(Tail(view[t]))
        /\ h \in posted
    BY <2>1, HeadViewed DEF ViewsOK
  <2>3. CASE u # t
    <3>1. pc'[u] = pc[u] /\ view'[u] = view[u]
      BY <2>1, <2>3 DEF StateOK
    <3> QED
      BY <1>3, <2>1, <3>1
  <2>4. CASE u = t /\ runs[r][t] > 0
    <3>1. h \in Gone'
      BY <2>1, <2>2, PostedStep
    <3>2. r # h => r \in Gone /\ r \notin Elements(view[t])
      BY <1>4, <2>4 DEF At
    <3>3. r \in Gone' /\ r \notin Elements(Tail(view[t]))
      BY <1>1, <2>2, <3>1, <3>2
    <3>4. view'[t] = Tail(view[t]) /\ runs[r][t] <= 1
      BY <2>1 DEF StateOK, RunsOK
    <3> QED
      BY <2>1, <2>4, <3>3, <3>4
  <2>5. CASE u = t /\ ~ (runs[r][t] > 0)
    BY <1>2, <2>1, <2>5
  <2> QED
    BY <2>3, <2>4, <2>5
<1>9. ASSUME Sweeps \/ Rests \/ Misuses \/ \E r \in Requests : Answers(r) \/ Completes(r)
      PROVE  UNCHANGED <<pc, view, runs>>
  BY <1>9 DEF Sweeps, Rests, Misuses, Answers, Completes, SameViews
<1>10. \A r \in Requests, t \in Threads : Fine(r, t)
  <2> HIDE DEF Fine
  <2> QED
    BY <1>3, <1>5, <1>6, <1>7, <1>8, <1>9, StepKinds
<1> QED
  BY <1>10 DEF RunsOK

-----------------------------------------------------------------------------
(* The requests that one thread has to itself.                              *)

Begun(r) == \E t \in Threads : runs[r][t] > 0

(* A request that is about to be run and is no other thread's was never     *)
(* run before.                                                              *)
LEMMA Unbegun ==
    ASSUME StateOK, ViewsOK, RunsOK, AloneOK,
           NEW t \in Threads, pc[t] = "deliver", Head(view[t]) \notin shared
    PROVE  ~ Begun(Head(view[t]))
<1> DEFINE h == Head(view[t])
<1>1. h \in Requests /\ h \in Elements(view[t])
  BY HeadViewed
<1>2. ASSUME NEW u \in Threads, runs[h][u] > 0 PROVE FALSE
  <2>1. CASE u = t
    BY <1>1, <1>2, <2>1 DEF RunsOK, At
  <2>2. CASE u # t /\ h \in Gone
    BY <1>1, <2>2 DEF AloneOK
  <2>3. CASE u # t /\ At(h, u)
    <3>1. h \in Elements(view[u])
      BY <2>3, HeadViewed DEF At
    <3> QED
      BY <1>1, <2>3, <3>1 DEF ViewsOK
  <2> QED
    BY <1>1, <1>2, <2>1, <2>2, <2>3 DEF RunsOK
<1> QED
  BY <1>2 DEF Begun

LEMMA SharedStep ==
    ASSUME [Next]_vars
    PROVE  shared \subseteq shared'
BY StepKinds DEF Posts, Copies, Waits, Runs, Removes, Sweeps, Answers, Completes, Rests,
                 Misuses, SameViews

LEMMA AloneInit == Init => AloneOK /\ WorkOK
<1>1. ASSUME Init, NEW r \in Requests
      PROVE  /\ tasks[r] = 0 /\ calls[r] = 0
             /\ \A t \in Threads : runs[r][t] = 0
  BY <1>1 DEF Init
<1>2. Init => open = {} /\ Gone = {} /\ freed = {}
  BY DEF Init, Gone
<1> QED
  BY <1>1, <1>2 DEF AloneOK, WorkOK

(* Taken out means out of all views.                                        *)
LEMMA UnseenStep ==
    ASSUME StateOK, OneOwner, ViewsOK, AloneOK, [Next]_vars,
           NEW r \in Requests \ shared', r \in Gone', NEW u \in Threads
    PROVE  r \notin Elements(view'[u])
<1>1. r \in Requests \ shared
  BY SharedStep
<1>2. r \in Gone => \A t \in Threads : r \notin Elements(view[t])
  BY <1>1 DEF AloneOK
<1>3. ASSUME Gone' = Gone, view' = view PROVE r \notin Elements(view'[u])
  BY <1>2, <1>3
<1>4. ASSUME NEW t \in Threads, Posts(t) PROVE Gone' = Gone /\ view' = view
  BY <1>4, PostedStep DEF Posts
<1>5. ASSUME NEW t \in Threads, Copies(t) \/ Waits(t) PROVE r \notin Elements(view'[u])
  <2>1. r \in Gone /\ r \notin Elements(requests_in)
    BY <1>5 DEF Copies, Waits, SameStore, Gone, OneOwner
  <2>2. view'[u] \in {view[u], requests_in, << >>}
    BY <1>5 DEF Copies, Waits, StateOK
  <2> QED
    BY <1>2, <2>1, <2>2, EmptyView
<1>6. ASSUME NEW t \in Threads, Runs(t) PROVE Gone' = Gone /\ view' = view
  BY <1>6 DEF Runs, SameStore, Gone
<1>7. ASSUME NEW t \in Threads, Removes(t) PROVE r \notin Elements(view'[u])
  <2> DEFINE h == Head(view[t])
  <2>1. /\ pc[t] = "remove" /\ TakenOut(h)
        /\ view' = [view EXCEPT ![t] = Tail(view[t])]
    BY <1>7 DEF Removes
  <2>2. /\ h \in Requests /\ h \in Elements(view[t])
        /\ Elements(Tail(view[t])) \subseteq Elements(view[t])
        /\ h \notin Elements(Tail(view[t]))
    BY <2>1, HeadViewed DEF ViewsOK
  <2>3. view'[u] = IF u = t THEN Tail(view[t]) ELSE view[u]
    BY <2>1 DEF StateOK
  <2>4. CASE r = h
    <3>1. u # t => r \notin Elements(view[u])
      BY <1>1, <2>2, <2>4 DEF ViewsOK
    <3> QED
      BY <2>2, <2>3, <2>4, <3>1
  <2>5. CASE r # h
    <3>1. r \in Gone
      BY <2>1, <2>2, <2>5, PostedStep
    <3> QED
      BY <1>2, <2>2, <2>3, <3>1
  <2> QED
    BY <2>4, <2>5
<1>8. CASE Sweeps
  <2>1. Gone' = Gone /\ view' = view
    BY <1>8, PostedStep DEF Sweeps, SameViews
  <2> QED
    BY <1>3, <2>1
<1>9. CASE Rests \/ Misuses \/ \E x \in Requests : Answers(x) \/ Completes(x)
  <2>1. Gone' = Gone /\ view' = view
    BY <1>9 DEF Rests, Misuses, Answers, Completes, SameStore, SameViews, Gone
  <2> QED
    BY <1>3, <2>1
<1> QED
  BY <1>3, <1>4, <1>5, <1>6, <1>7, <1>8, <1>9, StepKinds

(* How the work on a request goes on: it is begun, answered or completed.   *)
LEMMA WorkStep ==
    ASSUME StateOK, [Next]_vars, NEW r \in Requests
    PROVE  \/ /\ r \in open' => r \in open
              /\ tasks'[r] = tasks[r] /\ calls'[r] = calls[r] /\ runs'[r] = runs[r]
           \/ \E t \in Threads :
                 /\ pc[t] = "deliver" /\ r = Head(view[t]) /\ r \in open'
                 /\ tasks'[r] = tasks[r] /\ calls'[r] = calls[r]
                 /\ runs'[r] = [runs[r] EXCEPT ![t] = @ + 1]
           \/ /\ r \in open /\ r \notin open' /\ tasks'[r] = tasks[r] + 1
              /\ calls'[r] = calls[r] /\ runs'[r] = runs[r]
           \/ /\ r \in open' => r \in open
              /\ tasks[r] > 0 /\ tasks'[r] = tasks[r] - 1
              /\ calls'[r] = calls[r] + 1 /\ runs'[r] = runs[r]
<1>1. ASSUME UNCHANGED <<open, tasks, calls, runs>>
      PROVE  /\ r \in open' => r \in open
             /\ tasks'[r] = tasks[r] /\ calls'[r] = calls[r] /\ runs'[r] = runs[r]
  BY <1>1
<1>2. ASSUME NEW t \in Threads, Posts(t) \/ Copies(t) \/ Waits(t) \/ Removes(t)
      PROVE  UNCHANGED <<open, tasks, calls, runs>>
  BY <1>2 DEF Posts, Copies, Waits, Removes, SameWork
<1>3. ASSUME NEW t \in Threads, Runs(t)
      PROVE  \/ /\ r \in open' => r \in open
                /\ tasks'[r] = tasks[r] /\ calls'[r] = calls[r] /\ runs'[r] = runs[r]
             \/ /\ pc[t] = "deliver" /\ r = Head(view[t]) /\ r \in open'
                /\ tasks'[r] = tasks[r] /\ calls'[r] = calls[r]
                /\ runs'[r] = [runs[r] EXCEPT ![t] = @ + 1]
  <2> DEFINE h == Head(view[t])
  <2>1. /\ pc[t] = "deliver" /\ UNCHANGED <<tasks, calls>>
        /\ \/ open' = open \cup {h} /\ runs' = [runs EXCEPT ![h][t] = @ + 1]
           \/ UNCHANGED <<open, runs>>
    BY <1>3 DEF Runs
  <2>2. CASE UNCHANGED <<open, runs>>
    BY <2>1, <2>2
  <2>3. CASE open' = open \cup {h} /\ runs' = [runs EXCEPT ![h][t] = @ + 1]
    <3>1. runs'[r] = IF r = h THEN [runs[r] EXCEPT ![t] = @ + 1] ELSE runs[r]
      BY <2>3 DEF StateOK
    <3> QED
      BY <2>1, <2>3, <3>1
  <2> QED
    BY <2>1, <2>2, <2>3
<1>4. CASE Sweeps
  BY <1>4 DEF Sweeps
<1>5. ASSUME NEW x \in Requests, Answers(x)
      PROVE  \/ /\ r \in open' => r \in open
                /\ tasks'[r] = tasks[r] /\ calls'[r] = calls[r] /\ runs'[r] = runs[r]
             \/ /\ r \in open /\ r \notin open' /\ tasks'[r] = tasks[r] + 1
                /\ calls'[r] = calls[r] /\ runs'[r] = runs[r]
  BY <1>5 DEF Answers, StateOK
<1>6. ASSUME NEW x \in Requests, Completes(x)
      PROVE  \/ /\ r \in open' => r \in open
                /\ tasks'[r] = tasks[r] /\ calls'[r] = calls[r] /\ runs'[r] = runs[r]
             \/ /\ r \in open' => r \in open
                /\ tasks[r] > 0 /\ tasks'[r] = tasks[r] - 1
                /\ calls'[r] = calls[r] + 1 /\ runs'[r] = runs[r]
  BY <1>6 DEF Completes, StateOK
<1>7. CASE Rests \/ Misuses
  BY <1>7 DEF Rests, Misuses, SameWork
<1> QED
  BY <1>1, <1>2, <1>3, <1>4, <1>5, <1>6, <1>7, StepKinds

(* One request's counters, before and after a step.                         *)
LEMMA Counters ==
    ASSUME StateOK, NEW r \in Requests
    PROVE  /\ tasks[r] \in Nat /\ calls[r] \in Nat
           /\ runs[r] \in [Threads -> Nat] /\ \A t \in Threads : runs[r][t] \in Nat
BY DEF StateOK

LEMMA AloneStep ==
    ASSUME StateOK, OneOwner, ViewsOK, RunsOK, AloneOK, WorkOK, [Next]_vars
    PROVE  AloneOK'
<1> SUFFICES ASSUME NEW r \in Requests \ shared'
             PROVE  /\ r \in Gone' => \A t \in Threads : r \notin Elements(view'[t])
                    /\ \A t, u \in Threads : runs'[r][t] > 0 /\ runs'[r][u] > 0 => t = u
                    /\ r \in open' => tasks'[r] = 0 /\ calls'[r] = 0
                    /\ tasks'[r] + calls'[r] <= 1
  BY DEF AloneOK
<1>1. r \in Requests \ shared
  BY SharedStep
<1>2. /\ \A t, u \in Threads : runs[r][t] > 0 /\ runs[r][u] > 0 => t = u
      /\ r \in open => tasks[r] = 0 /\ calls[r] = 0
      /\ tasks[r] + calls[r] <= 1
  BY <1>1 DEF AloneOK
<1>3. /\ tasks[r] \in Nat /\ calls[r] \in Nat
      /\ runs[r] \in [Threads -> Nat] /\ \A t \in Threads : runs[r][t] \in Nat
  BY Counters
<1>4. r \in Gone' => \A t \in Threads : r \notin Elements(view'[t])
  BY UnseenStep
<1>5. CASE /\ r \in open' => r \in open
           /\ tasks'[r] = tasks[r] /\ calls'[r] = calls[r] /\ runs'[r] = runs[r]
  BY <1>2, <1>4, <1>5
<1>6. ASSUME NEW t \in Threads,
             pc[t] = "deliver", r = Head(view[t]),
             tasks'[r] = tasks[r], calls'[r] = calls[r],
             runs'[r] = [runs[r] EXCEPT ![t] = @ + 1]
      PROVE  /\ \A x, u \in Threads : runs'[r][x] > 0 /\ runs'[r][u] > 0 => x = u
             /\ tasks'[r] = 0 /\ calls'[r] = 0
  <2>1. ~ Begun(r)
    BY <1>1, <1>6, Unbegun
  <2>2. \A u \in Threads : ~ (runs[r][u] > 0)
    BY <2>1 DEF Begun
  <2>3. \A u \in Threads \ {t} : runs'[r][u] = runs[r][u]
    BY <1>3, <1>6
  <2>4. ~ (tasks[r] > 0) /\ ~ (calls[r] > 0)
    BY <2>2 DEF WorkOK
  <2>5. tasks'[r] = 0 /\ calls'[r] = 0
    BY <1>3, <1>6, <2>4
  <2> QED
    BY <2>2, <2>3, <2>5
<1>7. CASE /\ r \in open /\ r \notin open' /\ tasks'[r] = tasks[r] + 1
           /\ calls'[r] = calls[r] /\ runs'[r] = runs[r]
  BY <1>2, <1>3, <1>4, <1>7
<1>8. CASE /\ r \in open' => r \in open
           /\ tasks[r] > 0 /\ tasks'[r] = tasks[r] - 1
           /\ calls'[r] = calls[r] + 1 /\ runs'[r] = runs[r]
  <2>1. r \notin open'
    BY <1>2, <1>3, <1>8
  <2>2. tasks'[r] + calls'[r] = tasks[r] + calls[r]
    BY <1>3, <1>8
  <2> QED
    BY <1>2, <1>4, <1>8, <2>1, <2>2
<1>9. ASSUME NEW t \in Threads,
             pc[t] = "deliver", r = Head(view[t]), r \in open',
             tasks'[r] = tasks[r], calls'[r] = calls[r],
             runs'[r] = [runs[r] EXCEPT ![t] = @ + 1]
      PROVE  /\ r \in Gone' => \A x \in Threads : r \notin Elements(view'[x])
             /\ \A x, u \in Threads : runs'[r][x] > 0 /\ runs'[r][u] > 0 => x = u
             /\ r \in open' => tasks'[r] = 0 /\ calls'[r] = 0
             /\ tasks'[r] + calls'[r] <= 1
  BY <1>4, <1>6, <1>9
<1> QED
  BY <1>5, <1>7, <1>8, <1>9, WorkStep

(* A connection once begun stays in the count.                              *)
LEMMA BegunStep ==
    ASSUME StateOK, [Next]_vars, NEW r \in Requests
    PROVE  /\ Begun(r) => Begun(r)'
           /\ calls'[r] > 0 \/ ~ (calls[r] > 0)
           /\ r \in open' \/ tasks'[r] > 0 \/ calls'[r] > 0 =>
                 Begun(r)' \/ r \in open \/ tasks[r] > 0 \/ calls[r] > 0
<1>1. /\ tasks[r] \in Nat /\ calls[r] \in Nat
      /\ runs[r] \in [Threads -> Nat] /\ \A t \in Threads : runs[r][t] \in Nat
  BY Counters
<1>2. CASE /\ r \in open' => r \in open
           /\ tasks'[r] = tasks[r] /\ calls'[r] = calls[r] /\ runs'[r] = runs[r]
  BY <1>2 DEF Begun
<1>3. ASSUME NEW t \in Threads,
             tasks'[r] = tasks[r], calls'[r] = calls[r],
             runs'[r] = [runs[r] EXCEPT ![t] = @ + 1]
      PROVE  Begun(r)'
  <2>1. runs'[r][t] = runs[r][t] + 1
    BY <1>1, <1>3
  <2>2. runs'[r][t] > 0
    BY <1>1, <2>1
  <2> QED
    BY <2>2 DEF Begun
<1>4. CASE /\ r \in open /\ r \notin open' /\ tasks'[r] = tasks[r] + 1
           /\ calls'[r] = calls[r] /\ runs'[r] = runs[r]
  BY <1>1, <1>4 DEF Begun
<1>5. CASE /\ r \in open' => r \in open
           /\ tasks[r] > 0 /\ tasks'[r] = tasks[r] - 1
           /\ calls'[r] = calls[r] + 1 /\ runs'[r] = runs[r]
  BY <1>1, <1>5 DEF Begun
<1> QED
  BY <1>2, <1>3, <1>4, <1>5, WorkStep

LEMMA WorkOKStep ==
    ASSUME StateOK, WorkOK, [Next]_vars
    PROVE  WorkOK'
<1>1. ASSUME NEW r \in Requests, r \in open' \/ tasks'[r] > 0 \/ calls'[r] > 0
      PROVE  Begun(r)'
  <2>1. r \in open \/ tasks[r] > 0 \/ calls[r] > 0 => Begun(r)
    BY DEF WorkOK, Begun
  <2> QED
    BY <1>1, <2>1, BegunStep
<1>2. ASSUME NEW r \in freed' PROVE calls'[r] > 0
  <2>1. r \in freed \/ r \in Completed
    <3>1. CASE UNCHANGED freed
      BY <3>1
    <3>2. ASSUME NEW due, SweptOut(due) PROVE r \in freed \/ r \in Completed
      BY <3>2 DEF SweptOut, Swept
    <3> QED
      BY <3>1, <3>2, StoreStep DEF Inserted, TakenOut
  <2>2. r \in Requests /\ calls[r] > 0
    BY <2>1 DEF WorkOK, StateOK, Completed
  <2> QED
    BY <2>2, BegunStep
<1> QED
  BY <1>1, <1>2 DEF WorkOK, Begun

LEMMA BrokenStep ==
    ASSUME StateOK, ViewsOK, AloneOK, WorkOK, SafeUnlessShared, [Next]_vars
    PROVE  SafeUnlessShared'
<1>1. CASE UNCHANGED broken
  BY <1>1, SharedStep DEF SafeUnlessShared
<1>2. CASE Misuses
  <2>1. ASSUME NEW t \in Threads, pc[t] \in {"deliver", "remove"}, Head(view[t]) \in freed
        PROVE  shared # {}
    <3>1. Head(view[t]) \in Requests /\ Head(view[t]) \in Elements(view[t])
      BY <2>1, HeadViewed
    <3> QED
      BY <2>1, <3>1 DEF AloneOK, Gone
  <2>2. ASSUME NEW r \in freed, tasks[r] > 0 PROVE shared # {}
    <3>1. r \in Requests /\ calls[r] > 0
      BY DEF StateOK, WorkOK
    <3>2. tasks[r] \in Nat /\ calls[r] \in Nat
      BY <3>1, Counters
    <3>3. ~ (tasks[r] + calls[r] <= 1)
      BY <2>2, <3>1, <3>2
    <3> QED
      BY <3>1, <3>3 DEF AloneOK
  <2>3. shared' # {}
    BY <1>2, <2>1, <2>2, SharedStep DEF Misuses
  <2> QED
    BY <2>3 DEF SafeUnlessShared
<1>3. UNCHANGED broken \/ Misuses
  BY StepKinds DEF Posts, Copies, Waits, Runs, Removes, Sweeps, Answers, Completes
<1> QED
  BY <1>1, <1>2, <1>3

LEMMA FlagsStep ==
    ASSUME FlagsOK, [Next]_vars
    PROVE  FlagsOK'
<1> USE DEF threads, history
<1>1. ASSUME NEW t \in Threads, Post(t) \/ View(t) PROVE FlagsOK'
  BY <1>1 DEF Post, View, Copy, FlagsOK
<1>2. CASE Tick
  BY <1>2 DEF Tick, Copy, FlagsOK
<1>3. CASE UseAfterFree
  BY <1>3 DEF UseAfterFree, FlagsOK
<1>4. ASSUME NEW t \in Threads, Deliver(t) PROVE FlagsOK'
  <2>1. UseAfterFree \/ Wait(t) \/ Run(t)
    BY <1>4, Zenon DEF Deliver
  <2> QED
    BY <1>3, <2>1 DEF Wait, Run, FlagsOK
<1>5. ASSUME NEW t \in Threads, Remove(t) PROVE FlagsOK'
  <2>1. UseAfterFree \/ UNCHANGED <<ticking, broken>>
    BY <1>5 DEF Remove
  <2> QED
    BY <1>3, <2>1 DEF FlagsOK
<1>6. CASE Sweep
  BY <1>6 DEF Sweep, FlagsOK
<1>7. ASSUME NEW r \in Requests, Answer(r) PROVE FlagsOK'
  BY <1>7 DEF Answer, FlagsOK
<1>8. ASSUME NEW r \in Requests, Complete(r) PROVE FlagsOK'
  <2>1. UseAfterFree \/ UNCHANGED <<ticking, broken>>
    BY <1>8 DEF Complete
  <2> QED
    BY <1>3, <2>1 DEF FlagsOK
<1>9. ASSUME NEW e \in Metered, TimeUp(e) PROVE FlagsOK'
  BY <1>9 DEF TimeUp, FlagsOK
<1>10. CASE UNCHANGED vars
  BY <1>10 DEF vars, FlagsOK
<1> QED
  BY <1>1, <1>2, <1>4, <1>5, <1>6, <1>7, <1>8, <1>9, <1>10, Zenon DEF Next, Delivery

-----------------------------------------------------------------------------
(* The invariant, and what it gives.                                        *)

LEMMA InvInit == Init => Inv /\ QueueSorted /\ SafeUnlessShared
<1>1. Init => SafeUnlessShared
  BY DEF Init, SafeUnlessShared
<1> QED
  BY <1>1, StateInit, FlagsInit, OwnerInit, ViewsInit, RunsInit, AloneInit, SortedInit DEF Inv

LEMMA InvStep == Inv /\ [Next]_vars => Inv'
BY StateStep, FlagsStep, OwnerStep, ViewsStep, RunsStep, AloneStep, WorkOKStep DEF Inv

THEOREM InvHolds == Spec => []Inv
BY InvInit, InvStep, PTL DEF Spec

(* All variables keep their types, and a thread that delivers has something *)
(* to deliver (queues.cpp:339-431).                                         *)
THEOREM TypesCorrect == Spec => []TypeOK
<1>1. Inv => TypeOK
  BY DEF Inv, StateOK, FlagsOK, TypeOK
<1> QED
  BY <1>1, InvHolds, PTL

(* lower_bound and equal_range always search a sorted queue                 *)
(* (queues.cpp:398, 426).                                                   *)
THEOREM StaysSorted == Spec => []QueueSorted
<1>1. Inv /\ QueueSorted /\ [Next]_vars => QueueSorted'
  BY SortedStep DEF Inv
<1> QED
  BY <1>1, InvInit, InvHolds, PTL DEF Spec

(* Every request that was ever posted is in the queue once, in removals, or *)
(* freed: none is dropped, and none is owned twice (queues.cpp:393-408,     *)
(* 426-427).                                                                *)
THEOREM OwnedOnce == Spec => []OneOwner
<1>1. Inv => OneOwner
  BY DEF Inv
<1> QED
  BY <1>1, InvHolds, PTL

(* No thread sends a request twice, however many deliver at one time        *)
(* (queues.cpp:361-409).                                                    *)
THEOREM SentOncePerThread == Spec => []OncePerThread
<1>1. Inv => OncePerThread
  BY DEF Inv, RunsOK, OncePerThread
<1> QED
  BY <1>1, InvHolds, PTL

(* A request is sent and handled once unless two threads had it in view at  *)
(* one time (queues.cpp:347-389).                                           *)
THEOREM HandledOnceUnlessShared == Spec => []OnceUnlessShared
<1>1. Inv => OnceUnlessShared
  <2> SUFFICES ASSUME Inv, NEW r \in Requests \ shared
               PROVE  /\ calls[r] <= 1
                      /\ \A t, u \in Threads : runs[r][t] > 0 /\ runs[r][u] > 0 => t = u
    BY DEF OnceUnlessShared
  <2>1. /\ \A t, u \in Threads : runs[r][t] > 0 /\ runs[r][u] > 0 => t = u
        /\ tasks[r] + calls[r] <= 1
    BY DEF Inv, AloneOK
  <2>2. tasks[r] \in Nat /\ calls[r] \in Nat
    BY Counters DEF Inv
  <2> QED
    BY <2>1, <2>2
<1> QED
  BY <1>1, InvHolds, PTL

(* Without such an overlap no freed request is ever used                    *)
(* (queues.cpp:300-313, 361-408).                                           *)
THEOREM NoFreedUnlessShared == Spec => []SafeUnlessShared
<1>1. Inv /\ SafeUnlessShared /\ [Next]_vars => SafeUnlessShared'
  BY BrokenStep DEF Inv
<1> QED
  BY <1>1, InvInit, InvHolds, PTL DEF Spec

-----------------------------------------------------------------------------
(* The queue implements what it promises.                                   *)

SentSet == {r \in Requests : \E t \in Threads : runs[r][t] > 0}

HandledSet == {r \in Requests : calls[r] > 0}

LEMMA PromiseInit == Init => Promise!Init
<1> SUFFICES ASSUME Init PROVE Promise!Init
  OBVIOUS
<1>1. posted = {}
  BY DEF Init
<1>2. ~ broken
  BY DEF Init
<1>3. SentSet = {} /\ HandledSet = {}
  BY DEF Init, SentSet, HandledSet
<1> QED
  BY <1>1, <1>2, <1>3 DEF Init, Promise!Init, SentSet, HandledSet

LEMMA PromiseStep ==
    ASSUME Inv, [Next]_vars
    PROVE  [Promise!Next]_Promise!vars
<1>1. StateOK /\ OneOwner /\ ViewsOK /\ WorkOK
  BY DEF Inv
<1>2. CASE broken
  <2>1. UNCHANGED vars
    BY <1>2, Zenon DEF Next, Post, Delivery, View, Deliver, Remove, Tick, Sweep, Answer,
                Complete, TimeUp
  <2>2. UNCHANGED <<posted, SentSet, HandledSet, broken>>
    BY <2>1 DEF vars, store, network, threads, history, SentSet, HandledSet
  <2> QED
    BY <2>2 DEF Promise!vars, SentSet, HandledSet
<1>3. ASSUME ~ broken, NEW t \in Threads, Posts(t) PROVE \E r \in Requests : Promise!Post(r)
  <2>1. PICK r \in Requests \ posted, k \in 0 .. Len(requests_in) : Inserted(r, k)
    BY <1>3 DEF Posts
  <2>2. posted' = posted \cup {r}
    BY <1>1, <2>1, PostedStep
  <2>3. SentSet' = SentSet /\ HandledSet' = HandledSet /\ broken' = broken
    BY <1>3 DEF Posts, SameWork, SentSet, HandledSet
  <2> QED
    BY <1>3, <2>2, <2>3 DEF Promise!Post, SentSet, HandledSet
<1>4. ASSUME UNCHANGED <<tasks, calls, runs, broken>>, posted' = posted
      PROVE  UNCHANGED Promise!vars
  BY <1>4 DEF Promise!vars
<1>5. ASSUME NEW t \in Threads, Copies(t) \/ Waits(t) PROVE UNCHANGED Promise!vars
  BY <1>4, <1>5 DEF Copies, Waits, SameStore, SameWork
<1>6. ASSUME ~ broken, NEW t \in Threads, Runs(t)
      PROVE  (\E r \in Requests : Promise!Send(r)) \/ UNCHANGED Promise!vars
  <2>0. Head(view[t]) \in Requests
    BY <1>1, <1>6, HeadViewed DEF Runs
  <2>5. PICK h \in Requests : h = Head(view[t])
    BY <2>0
  <2>1. /\ pc[t] = "deliver" /\ UNCHANGED <<calls, broken>> /\ posted' = posted
        /\ \/ runs' = [runs EXCEPT ![h][t] = @ + 1]
           \/ UNCHANGED runs
    BY <1>6, <2>5 DEF Runs, SameStore
  <2>2. h \in Requests /\ h \in posted
    BY <1>1, <2>1, <2>5, HeadViewed DEF ViewsOK
  <2>3. CASE UNCHANGED runs
    BY <2>1, <2>3 DEF Promise!vars
  <2>4. CASE runs' = [runs EXCEPT ![h][t] = @ + 1]
    <3>1. runs'[h][t] = runs[h][t] + 1
      BY <1>1, <2>2, <2>4 DEF StateOK
    <3>2. runs'[h][t] > 0
      BY <1>1, <2>2, <3>1, Counters
    <3>3. \A r \in Requests \ {h} : runs'[r] = runs[r]
      BY <1>1, <2>4 DEF StateOK
    <3>4. SentSet' = SentSet \cup {h}
      BY <2>2, <3>2, <3>3 DEF SentSet
    <3>5. HandledSet' = HandledSet
      BY <2>1 DEF HandledSet
    <3>6. Promise!Send(h)
      BY <1>6, <2>1, <2>2, <3>4, <3>5 DEF Promise!Send, SentSet, HandledSet
    <3> QED
      BY <2>2, <3>6
  <2> QED
    BY <2>1, <2>3, <2>4
<1>7. ASSUME NEW t \in Threads, Removes(t) PROVE UNCHANGED Promise!vars
  <2>1. posted' = posted
    BY <1>1, <1>7, HeadViewed, PostedStep DEF Removes
  <2> QED
    BY <1>4, <1>7, <2>1 DEF Removes, SameWork
<1>8. CASE Sweeps
  <2>1. posted' = posted
    BY <1>1, <1>8, PostedStep DEF Sweeps
  <2> QED
    BY <1>4, <1>8, <2>1 DEF Sweeps
<1>9. ASSUME NEW r \in Requests, Answers(r) PROVE UNCHANGED Promise!vars
  BY <1>9 DEF Answers, SameStore, Promise!vars
<1>10. ASSUME ~ broken, NEW r \in Requests, Completes(r) PROVE Promise!Handle(r)
  <2>1. /\ tasks[r] > 0 /\ calls' = [calls EXCEPT ![r] = @ + 1]
        /\ UNCHANGED <<runs, broken>> /\ posted' = posted
    BY <1>10 DEF Completes, SameStore
  <2>2. r \in SentSet /\ SentSet' = SentSet
    BY <1>1, <2>1 DEF WorkOK, SentSet
  <2>3. calls'[r] = calls[r] + 1 /\ calls[r] \in Nat
    BY <1>1, <2>1 DEF StateOK
  <2>4. \A x \in Requests \ {r} : calls'[x] = calls[x]
    BY <1>1, <2>1 DEF StateOK
  <2>5. HandledSet' = HandledSet \cup {r}
    BY <2>3, <2>4 DEF HandledSet
  <2> QED
    BY <1>10, <2>1, <2>2, <2>5 DEF Promise!Handle, SentSet, HandledSet
<1>11. CASE Rests /\ UNCHANGED broken
  BY <1>4, <1>11 DEF Rests, SameStore, SameWork
<1>12. CASE Misuses
  <2>1. UNCHANGED <<posted, SentSet, HandledSet>> /\ broken' = TRUE
    BY <1>12 DEF Misuses, Rests, SameStore, SameWork, SentSet, HandledSet
  <2> QED
    BY <2>1 DEF Promise!Next, Promise!Break, SentSet, HandledSet
<1>13. CASE ~ broken
  <2>1. ASSUME NEW t \in Threads, Runs(t) PROVE [Promise!Next]_Promise!vars
    BY <1>6, <1>13, <2>1 DEF Promise!Next
  <2> QED
    BY <1>3, <1>5, <1>7, <1>8, <1>9, <1>10, <1>11, <1>12, <1>13, <2>1, StepKinds
       DEF Promise!Next
<1> QED
  BY <1>2, <1>13

(* What is sent was posted, and the handler is called only for what was     *)
(* sent, whatever the threads do (queues.cpp:339-431).                      *)
THEOREM KeepsPromise == Spec => Promise!Spec
BY PromiseInit, PromiseStep, InvHolds, PTL DEF Spec, Promise!Spec
=============================================================================
