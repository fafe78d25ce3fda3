----------------------------- MODULE QueueFacts -----------------------------
(***************************************************************************)
(* Facts about the queues of the kernel (QUEUE of tkernel/queue.h), which  *)
(* the models hold as sequences without repetitions: what QueRemove() and  *)
(* QueInsert() do to the tasks of a queue and to their order.              *)
(***************************************************************************)
EXTENDS Integers, Sequences, FiniteSets, SequencesExt, TLAPS, WellFoundedInduction,
        FiniteSetTheorems

\* QueRemove().
Without(q, t) ==
    IF t \in Range(q) THEN RemoveAt(q, CHOOSE i \in DOMAIN q : q[i] = t) ELSE q

\* QueInsert() at the first of the places "after", at the end if there is none.
LinkedBefore(q, t, after) ==
    IF after = {} THEN Append(q, t)
    ELSE InsertAt(q, CHOOSE i \in after : \A j \in after : i <= j, t)

\* Every task once, in the order of the priorities pr.
OrderedBy(q, pr) == \A i, j \in DOMAIN q : i < j => q[i] # q[j] /\ pr[q[i]] <= pr[q[j]]

\* The least of a set of numbers, which the operations on the queue look for.
LEMMA NatMin ==
    ASSUME NEW T \in SUBSET Nat, T # {}
    PROVE  \E x \in T : \A y \in T : x <= y
<1>1. PICK x \in T : \A y \in T : ~(<<y, x>> \in OpToRel(<, Nat))
  BY NatLessThanWellFounded, WFMin
<1>2. \A y \in T : ~(y < x)
  BY <1>1 DEF OpToRel
<1>. QED
  BY <1>2

\* RemoveAt(): what follows the element moves up.
LEMMA RemovedAt ==
    ASSUME NEW S, NEW q \in Seq(S), NEW k \in 1 .. Len(q)
    PROVE  /\ RemoveAt(q, k) \in Seq(S)
           /\ Len(RemoveAt(q, k)) = Len(q) - 1
           /\ \A i \in 1 .. Len(q) - 1 :
                RemoveAt(q, k)[i] = IF i < k THEN q[i] ELSE q[i + 1]
<1>. DEFINE r == RemoveAt(q, k)
            a == SubSeq(q, 1, k - 1)
            b == SubSeq(q, k + 1, Len(q))
<1>1. /\ a \in Seq(S) /\ Len(a) = k - 1
      /\ \A i \in 1 .. k - 1 : a[i] = q[i]
  OBVIOUS
<1>2. /\ b \in Seq(S) /\ Len(b) = Len(q) - k
      /\ \A i \in 1 .. Len(q) - k : b[i] = q[k + i]
  OBVIOUS
<1>3. r = a \o b
  BY DEF RemoveAt
<1>. HIDE DEF a, b, r
<1>4. r \in Seq(S) /\ Len(r) = Len(q) - 1
  BY <1>1, <1>2, <1>3
<1>5. ASSUME NEW i \in 1 .. Len(q) - 1
      PROVE  r[i] = IF i < k THEN q[i] ELSE q[i + 1]
  <2>1. r[i] = IF i <= Len(a) THEN a[i] ELSE b[i - Len(a)]
    BY <1>1, <1>2, <1>3, <1>4
  <2>2. CASE i < k
    BY <1>1, <2>1, <2>2
  <2>3. CASE ~(i < k)
    <3>1. i - Len(a) \in 1 .. Len(q) - k /\ k + (i - Len(a)) = i + 1
      BY <1>1, <2>3
    <3>. QED
      BY <1>1, <1>2, <2>1, <2>3, <3>1
  <2>. QED
    BY <2>2, <2>3
<1>. QED
  BY <1>4, <1>5 DEF r

\* InsertAt(): what followed the place moves down.
LEMMA InsertedAt ==
    ASSUME NEW S, NEW q \in Seq(S), NEW k \in 1 .. Len(q), NEW e \in S
    PROVE  /\ InsertAt(q, k, e) \in Seq(S)
           /\ Len(InsertAt(q, k, e)) = Len(q) + 1
           /\ \A i \in 1 .. Len(q) + 1 :
                InsertAt(q, k, e)[i] = IF i < k THEN q[i] ELSE IF i = k THEN e ELSE q[i - 1]
<1>. DEFINE r == InsertAt(q, k, e)
            a == SubSeq(q, 1, k - 1)
            b == SubSeq(q, k, Len(q))
            m == a \o <<e>>
<1>1. /\ a \in Seq(S) /\ Len(a) = k - 1
      /\ \A i \in 1 .. k - 1 : a[i] = q[i]
  OBVIOUS
<1>2. /\ b \in Seq(S) /\ Len(b) = Len(q) - k + 1
      /\ \A i \in 1 .. Len(q) - k + 1 : b[i] = q[k + i - 1]
  OBVIOUS
<1>3. r = m \o b
  BY DEF InsertAt
<1>. HIDE DEF a, b, r
<1>4. /\ m \in Seq(S) /\ Len(m) = k
      /\ \A i \in 1 .. k : m[i] = IF i < k THEN q[i] ELSE e
  BY <1>1
<1>. HIDE DEF m
<1>5. r \in Seq(S) /\ Len(r) = Len(q) + 1
  BY SMTT(20), <1>2, <1>3, <1>4
<1>6. ASSUME NEW i \in 1 .. Len(q) + 1
      PROVE  r[i] = IF i < k THEN q[i] ELSE IF i = k THEN e ELSE q[i - 1]
  <2>1. r[i] = IF i <= Len(m) THEN m[i] ELSE b[i - Len(m)]
    BY <1>2, <1>3, <1>4, <1>5
  <2>2. CASE i <= k
    BY <1>4, <2>1, <2>2
  <2>3. CASE ~(i <= k)
    <3>1. i - Len(m) \in 1 .. Len(q) - k + 1 /\ k + (i - Len(m)) - 1 = i - 1
      BY <1>4, <2>3
    <3>. QED
      BY <1>2, <1>4, <2>1, <2>3, <3>1
  <2>. QED
    BY <2>2, <2>3
<1>. QED
  BY <1>5, <1>6 DEF r

\* The elements of a queue, by their places.
LEMMA InRange ==
    ASSUME NEW S, NEW q \in Seq(S)
    PROVE  /\ DOMAIN q = 1 .. Len(q)
           /\ \A x : x \in Range(q) <=> \E i \in 1 .. Len(q) : q[i] = x
BY DEF Range

\* QueRemove(): t is gone, and nothing else.
LEMMA WithoutKeeps ==
    ASSUME NEW S, NEW q \in Seq(S), NEW pr, NEW t \in S, OrderedBy(q, pr)
    PROVE  /\ Without(q, t) \in Seq(S)
           /\ Range(Without(q, t)) = Range(q) \ {t}
           /\ OrderedBy(Without(q, t), pr)
<1>1. CASE t \notin Range(q)
  BY <1>1 DEF Without
<1>2. CASE t \in Range(q)
  <2>. DEFINE k == CHOOSE i \in DOMAIN q : q[i] = t
              r == Without(q, t)
              at(i) == IF i < k THEN i ELSE i + 1
  <2>1. k \in 1 .. Len(q) /\ q[k] = t
    BY <1>2, InRange
  <2>2. r = RemoveAt(q, k)
    BY <1>2 DEF Without
  <2>. HIDE DEF k
  <2>3. /\ r \in Seq(S) /\ Len(r) = Len(q) - 1 /\ DOMAIN r = 1 .. Len(q) - 1
        /\ \A i \in 1 .. Len(q) - 1 : r[i] = q[at(i)]
    <3>. HIDE DEF r
    <3>1. /\ r \in Seq(S) /\ Len(r) = Len(q) - 1
          /\ \A i \in 1 .. Len(q) - 1 : r[i] = IF i < k THEN q[i] ELSE q[i + 1]
      BY <2>1, <2>2, RemovedAt
    <3>2. DOMAIN r = 1 .. Len(q) - 1
      BY <3>1
    <3>3. ASSUME NEW i \in 1 .. Len(q) - 1 PROVE r[i] = q[at(i)]
      BY <3>1
    <3>. QED
      BY <3>1, <3>2, <3>3
  <2>. HIDE DEF r
  <2>4. \A i, j \in 1 .. Len(q) : i # j => q[i] # q[j]
    BY DEF OrderedBy
  <2>5. Range(r) = Range(q) \ {t}
    <3>1. ASSUME NEW i \in 1 .. Len(q) - 1 PROVE q[at(i)] \in Range(q) \ {t}
      <4>1. at(i) \in 1 .. Len(q) /\ at(i) # k
        BY <2>1
      <4>. QED
        BY <2>1, <2>4, <4>1, InRange
    <3>2. ASSUME NEW i \in 1 .. Len(q), q[i] # t
          PROVE  \E j \in 1 .. Len(q) - 1 : q[i] = q[at(j)]
      <4>1. i # k
        BY <2>1, <3>2
      <4>2. CASE i < k
        BY <2>1, <4>2
      <4>3. CASE i > k
        <5>1. i - 1 \in 1 .. Len(q) - 1 /\ at(i - 1) = i
          BY <2>1, <4>3
        <5>. QED
          BY <5>1
      <4>. QED
        BY <2>1, <4>1, <4>2, <4>3
    <3>. QED
      <4>. HIDE DEF at
      <4>1. \A x : x \in Range(r) <=> \E i \in 1 .. Len(q) - 1 : q[at(i)] = x
        BY <2>3, InRange
      <4>2. \A x : x \in Range(q) <=> \E i \in 1 .. Len(q) : q[i] = x
        BY InRange
      <4>. QED
        BY <3>1, <3>2, <4>1, <4>2
  <2>6. OrderedBy(r, pr)
    <3>1. SUFFICES ASSUME NEW i \in 1 .. Len(q) - 1, NEW j \in 1 .. Len(q) - 1, i < j
                   PROVE  q[at(i)] # q[at(j)] /\ pr[q[at(i)]] <= pr[q[at(j)]]
      BY <2>3 DEF OrderedBy
    <3>2. at(i) \in 1 .. Len(q) /\ at(j) \in 1 .. Len(q) /\ at(i) < at(j)
      BY <2>1, <3>1
    <3>. QED
      BY <3>2 DEF OrderedBy
  <2>. QED
    BY <2>3, <2>5, <2>6 DEF r
<1>. QED
  BY <1>1, <1>2

\* QueInsert(): t is added, between what is at least and what is at most as
\* urgent.
LEMMA LinkedKeeps ==
    ASSUME NEW S, NEW q \in Seq(S), NEW pr \in [S -> Nat], NEW t \in S \ Range(q),
           OrderedBy(q, pr), NEW after \in SUBSET DOMAIN q,
           \A i \in DOMAIN q \ after : pr[q[i]] <= pr[t],
           \A i \in after : pr[t] <= pr[q[i]]
    PROVE  /\ LinkedBefore(q, t, after) \in Seq(S)
           /\ Range(LinkedBefore(q, t, after)) = Range(q) \cup {t}
           /\ OrderedBy(LinkedBefore(q, t, after), pr)
<1>. DEFINE r == LinkedBefore(q, t, after)
<1>0. \A i \in 1 .. Len(q) : q[i] \in S /\ q[i] # t /\ pr[q[i]] \in Nat
  BY InRange
<1>1. DOMAIN q = 1 .. Len(q) /\ \A x : x \in Range(q) <=> \E i \in 1 .. Len(q) : q[i] = x
  BY InRange
<1>2. pr[t] \in Nat /\ Len(q) \in Nat
  OBVIOUS
<1>3. \A i, j \in 1 .. Len(q) : i < j => q[i] # q[j] /\ pr[q[i]] <= pr[q[j]]
  BY <1>1 DEF OrderedBy
<1>4. CASE after = {}
  <2>1. r = Append(q, t)
    BY <1>4 DEF LinkedBefore
  <2>2. \A i \in 1 .. Len(q) : pr[q[i]] <= pr[t]
    BY <1>1, <1>4
  <2>3. /\ r \in Seq(S) /\ Len(r) = Len(q) + 1
        /\ \A i \in 1 .. Len(q) + 1 : r[i] = IF i <= Len(q) THEN q[i] ELSE t
    BY <2>1
  <2>. HIDE DEF r
  <2>4. DOMAIN r = 1 .. Len(q) + 1 /\ \A x : x \in Range(r) <=> \E i \in 1 .. Len(q) + 1 : r[i] = x
    BY <2>3, InRange
  <2>5. r[Len(q) + 1] = t /\ \A i \in 1 .. Len(q) : r[i] = q[i]
    BY SMTT(20), <2>3
  <2>6. \A i \in 1 .. Len(q) + 1 : i \in 1 .. Len(q) \/ i = Len(q) + 1
    OBVIOUS
  <2>7. Len(q) + 1 \in 1 .. Len(q) + 1 /\ 1 .. Len(q) \subseteq 1 .. Len(q) + 1
    OBVIOUS
  <2>8. Range(r) = Range(q) \cup {t}
    BY <1>1, <2>4, <2>5, <2>6, <2>7
  <2>9. OrderedBy(r, pr)
    <3>1. SUFFICES ASSUME NEW i \in 1 .. Len(q) + 1, NEW j \in 1 .. Len(q) + 1, i < j
                   PROVE  r[i] # r[j] /\ pr[r[i]] <= pr[r[j]]
      BY <2>4 DEF OrderedBy
    <3>2. i \in 1 .. Len(q)
      BY <3>1
    <3>3. CASE j = Len(q) + 1
      BY <1>0, <2>2, <2>5, <3>2, <3>3
    <3>4. CASE j \in 1 .. Len(q)
      BY <1>3, <2>5, <3>1, <3>2, <3>4
    <3>. QED
      BY <2>6, <3>3, <3>4
  <2>. QED
    BY <2>3, <2>8, <2>9 DEF r
<1>5. CASE after # {}
  <2>. DEFINE k == CHOOSE i \in after : \A j \in after : i <= j
              at(n) == IF n < k THEN n ELSE n - 1
  <2>1. after \in SUBSET Nat
    BY <1>1
  <2>2. k \in after /\ \A j \in after : k <= j
    BY <1>5, <2>1, NatMin
  <2>3. r = InsertAt(q, k, t)
    BY <1>5 DEF LinkedBefore
  <2>. HIDE DEF k
  <2>4. k \in 1 .. Len(q) /\ pr[t] <= pr[q[k]]
    BY <1>1, <2>2
  <2>5. \A i \in 1 .. Len(q) : i < k => pr[q[i]] <= pr[t]
    <3>1. SUFFICES ASSUME NEW i \in 1 .. Len(q), i < k PROVE pr[q[i]] <= pr[t]
      OBVIOUS
    <3>2. i \notin after
      BY <2>2, <2>4, <3>1
    <3>. QED
      BY <1>1, <3>1, <3>2
  <2>. HIDE DEF r
  <2>6. /\ r \in Seq(S) /\ Len(r) = Len(q) + 1
        /\ \A i \in 1 .. Len(q) + 1 : r[i] = IF i < k THEN q[i] ELSE IF i = k THEN t ELSE q[i - 1]
    <3>1. t \in S
      OBVIOUS
    <3>2. /\ InsertAt(q, k, t) \in Seq(S)
          /\ Len(InsertAt(q, k, t)) = Len(q) + 1
          /\ \A i \in 1 .. Len(q) + 1 :
               InsertAt(q, k, t)[i] = IF i < k THEN q[i] ELSE IF i = k THEN t ELSE q[i - 1]
      BY <2>4, <3>1, InsertedAt
    <3>. QED
      BY <2>3, <3>2
  <2>7. DOMAIN r = 1 .. Len(q) + 1 /\ \A x : x \in Range(r) <=> \E i \in 1 .. Len(q) + 1 : r[i] = x
    BY <2>6, InRange
  <2>8. k \in 1 .. Len(q) + 1 /\ r[k] = t
    BY <2>4, <2>6
  <2>9. \A i \in 1 .. Len(q) + 1 : i # k => at(i) \in 1 .. Len(q) /\ r[i] = q[at(i)]
    <3>1. SUFFICES ASSUME NEW i \in 1 .. Len(q) + 1, i # k
                   PROVE  at(i) \in 1 .. Len(q) /\ r[i] = q[at(i)]
      OBVIOUS
    <3>2. r[i] = IF i < k THEN q[i] ELSE q[i - 1]
      BY <2>6, <3>1
    <3>. QED
      BY <2>4, <3>1, <3>2
  <2>10. Range(r) = Range(q) \cup {t}
    <3>1. ASSUME NEW i \in 1 .. Len(q) PROVE \E j \in 1 .. Len(q) + 1 : r[j] = q[i]
      <4>1. CASE i < k
        <5>1. i \in 1 .. Len(q) + 1 /\ r[i] = q[i]
          BY <2>6, <4>1
        <5>. QED
          BY <5>1
      <4>2. CASE ~(i < k)
        <5>1. i + 1 \in 1 .. Len(q) + 1 /\ ~(i + 1 < k) /\ i + 1 # k /\ (i + 1) - 1 = i
          BY <2>4, <4>2
        <5>. QED
          BY <2>6, <5>1
      <4>. QED
        BY <4>1, <4>2
    <3>. HIDE DEF at
    <3>2. Range(r) \subseteq Range(q) \cup {t}
      BY <1>1, <2>7, <2>8, <2>9
    <3>3. Range(q) \cup {t} \subseteq Range(r)
      BY <1>1, <2>7, <2>8, <3>1
    <3>. QED
      BY <3>2, <3>3
  <2>11. OrderedBy(r, pr)
    <3>1. SUFFICES ASSUME NEW i \in 1 .. Len(q) + 1, NEW j \in 1 .. Len(q) + 1, i < j
                   PROVE  r[i] # r[j] /\ pr[r[i]] <= pr[r[j]]
      BY <2>7 DEF OrderedBy
    <3>2. CASE i # k /\ j # k
      <4>1. at(i) \in 1 .. Len(q) /\ at(j) \in 1 .. Len(q) /\ at(i) < at(j)
        BY <2>4, <3>1, <3>2
      <4>2. r[i] = q[at(i)] /\ r[j] = q[at(j)]
        BY <2>9, <3>2
      <4>. HIDE DEF at
      <4>. QED
        BY <1>3, <4>1, <4>2
    <3>3. CASE i = k
      <4>1. j # k /\ ~(j < k) /\ at(j) = j - 1 /\ k <= j - 1
        BY <2>4, <3>1, <3>3
      <4>2. j - 1 \in 1 .. Len(q) /\ r[j] = q[j - 1]
        BY <2>9, <4>1
      <4>3. pr[q[k]] <= pr[q[j - 1]]
        <5>1. CASE k = j - 1
          BY <1>0, <2>4, <5>1
        <5>2. CASE k < j - 1
          BY <1>3, <2>4, <4>2, <5>2
        <5>. QED
          BY <2>4, <4>1, <5>1, <5>2
      <4>. QED
        BY <1>0, <1>2, <2>4, <2>8, <3>3, <4>2, <4>3
    <3>4. CASE j = k
      <4>1. i \in 1 .. Len(q) /\ r[i] = q[i]
        BY <2>4, <2>6, <3>1, <3>4
      <4>. QED
        BY <1>0, <2>5, <2>8, <3>1, <3>4, <4>1
    <3>. QED
      BY <3>2, <3>3, <3>4
  <2>. QED
    BY <2>6, <2>10, <2>11 DEF r
<1>. QED
  BY <1>4, <1>5

\* The head is gone, and nothing else.
LEMMA TailKeeps ==
    ASSUME NEW S, NEW s \in Seq(S), NEW pr, s # << >>, OrderedBy(s, pr)
    PROVE  /\ Head(s) \in S /\ Head(s) \in Range(s)
           /\ Tail(s) \in Seq(S)
           /\ Range(Tail(s)) = Range(s) \ {Head(s)}
           /\ OrderedBy(Tail(s), pr)
<1>1. /\ Len(s) \in Nat \ {0} /\ Head(s) = s[1] /\ Head(s) \in S
      /\ Tail(s) \in Seq(S) /\ Len(Tail(s)) = Len(s) - 1
      /\ \A i \in 1 .. Len(s) - 1 : Tail(s)[i] = s[i + 1]
  OBVIOUS
<1>2. /\ DOMAIN s = 1 .. Len(s) /\ DOMAIN Tail(s) = 1 .. Len(s) - 1
      /\ \A x : x \in Range(s) <=> \E i \in 1 .. Len(s) : s[i] = x
      /\ \A x : x \in Range(Tail(s)) <=> \E i \in 1 .. Len(s) - 1 : Tail(s)[i] = x
  <2>1. /\ DOMAIN s = 1 .. Len(s)
        /\ \A x : x \in Range(s) <=> \E i \in 1 .. Len(s) : s[i] = x
    BY InRange
  <2>2. /\ DOMAIN Tail(s) = 1 .. Len(Tail(s))
        /\ \A x : x \in Range(Tail(s)) <=> \E i \in 1 .. Len(Tail(s)) : Tail(s)[i] = x
    BY <1>1, InRange
  <2>. QED
    BY <2>1, <2>2, <1>1
<1>3. OrderedBy(Tail(s), pr)
  BY <1>1, <1>2 DEF OrderedBy
<1>4. ASSUME NEW x PROVE x \in Range(Tail(s)) <=> x \in Range(s) \ {Head(s)}
  <2>1. ASSUME x \in Range(Tail(s)) PROVE x \in Range(s) /\ x # Head(s)
    <3>1. PICK i \in 1 .. Len(s) - 1 : s[i + 1] = x
      BY <2>1, <1>1, <1>2
    <3>2. i + 1 \in 1 .. Len(s) /\ 1 \in 1 .. Len(s) /\ 1 < i + 1
      BY <1>1, <3>1
    <3>. QED
      BY <3>1, <3>2, <1>1, <1>2 DEF OrderedBy
  <2>2. ASSUME x \in Range(s), x # Head(s) PROVE x \in Range(Tail(s))
    <3>1. PICK i \in 1 .. Len(s) : s[i] = x
      BY <2>2, <1>2
    <3>2. i # 1 /\ i - 1 \in 1 .. Len(s) - 1 /\ (i - 1) + 1 = i
      BY <3>1, <2>2, <1>1
    <3>. QED
      BY <3>1, <3>2, <1>1, <1>2
  <2>. QED
    BY <2>1, <2>2
<1>5. Head(s) \in Range(s)
  BY <1>1, <1>2
<1>. QED
  BY <1>1, <1>3, <1>4, <1>5

\* A task at the end of a queue in the order of arrival.
LEMMA AppendKeeps ==
    ASSUME NEW S, NEW s \in Seq(S), NEW pr \in [S -> Nat], NEW t \in S \ Range(s),
           OrderedBy(s, pr), \A x \in S : pr[x] <= pr[t]
    PROVE  /\ Append(s, t) \in Seq(S)
           /\ Range(Append(s, t)) = Range(s) \cup {t}
           /\ OrderedBy(Append(s, t), pr)
<1>1. /\ LinkedBefore(s, t, {}) \in Seq(S)
      /\ Range(LinkedBefore(s, t, {})) = Range(s) \cup {t}
      /\ OrderedBy(LinkedBefore(s, t, {}), pr)
  <2>1. \A i \in DOMAIN s \ {} : s[i] \in S
    BY InRange
  <2>. QED
    BY <2>1, LinkedKeeps
<1>. QED
  BY <1>1 DEF LinkedBefore

\* InsertAt(), behind the last.
LEMMA InsertedAtEnd ==
    ASSUME NEW S, NEW q \in Seq(S), NEW t \in S
    PROVE  InsertAt(q, Len(q) + 1, t) = Append(q, t)
<1>1. SubSeq(q, 1, Len(q)) = q /\ SubSeq(q, Len(q) + 1, Len(q)) = << >>
  OBVIOUS
<1>2. (q \o <<t>>) \o << >> = Append(q, t) /\ (Len(q) + 1) - 1 = Len(q)
  OBVIOUS
<1>3. InsertAt(q, Len(q) + 1, t)
        = (SubSeq(q, 1, (Len(q) + 1) - 1) \o <<t>>) \o SubSeq(q, Len(q) + 1, Len(q))
  BY DEF InsertAt
<1>. QED
  BY <1>1, <1>2, <1>3

\* The order of a queue depends on the priorities of its tasks only.
LEMMA OrderedByItsTasks ==
    ASSUME NEW q, NEW p1, NEW p2, OrderedBy(q, p1), \A t \in Range(q) : p1[t] = p2[t]
    PROVE  OrderedBy(q, p2)
BY DEF OrderedBy, Range

-----------------------------------------------------------------------------
(***************************************************************************)
(* Sequences whose elements may repeat: one behind the other, and an       *)
(* element more or less at any place.                                      *)
(***************************************************************************)
\* Sequences that agree everywhere.
LEMMA SameSeq ==
    ASSUME NEW S, NEW s \in Seq(S), NEW t \in Seq(S), Len(s) = Len(t),
           \A i \in 1 .. Len(s) : s[i] = t[i]
    PROVE  s = t
OBVIOUS

\* One behind the other.
LEMMA JoinedAt ==
    ASSUME NEW S, NEW a \in Seq(S), NEW b \in Seq(S)
    PROVE  /\ a \o b \in Seq(S) /\ Len(a \o b) = Len(a) + Len(b)
           /\ \A i \in 1 .. Len(a) + Len(b) : (a \o b)[i] = IF i <= Len(a) THEN a[i] ELSE b[i - Len(a)]
OBVIOUS

\* InsertAt() at any place, the last one included.
LEMMA AddedAt ==
    ASSUME NEW S, NEW s \in Seq(S), NEW e \in S, NEW k \in 1 .. Len(s) + 1
    PROVE  /\ InsertAt(s, k, e) \in Seq(S) /\ Len(InsertAt(s, k, e)) = Len(s) + 1
           /\ \A i \in 1 .. Len(s) + 1 :
                InsertAt(s, k, e)[i] = IF i < k THEN s[i] ELSE IF i = k THEN e ELSE s[i - 1]
<1>1. CASE k \in 1 .. Len(s)
  <2>1. /\ InsertAt(s, k, e) \in Seq(S)
        /\ Len(InsertAt(s, k, e)) = Len(s) + 1
        /\ \A i \in 1 .. Len(s) + 1 :
             InsertAt(s, k, e)[i] = IF i < k THEN s[i] ELSE IF i = k THEN e ELSE s[i - 1]
    BY <1>1, InsertedAt
  <2>. QED
    BY <2>1
<1>2. CASE k = Len(s) + 1
  <2>1. InsertAt(s, k, e) = Append(s, e)
    BY <1>2, InsertedAtEnd
  <2>2. /\ Append(s, e) \in Seq(S) /\ Len(Append(s, e)) = Len(s) + 1
        /\ \A i \in 1 .. Len(s) + 1 : Append(s, e)[i] = IF i <= Len(s) THEN s[i] ELSE e
    OBVIOUS
  <2>3. \A i \in 1 .. Len(s) + 1 : i < k <=> i <= Len(s)
    BY <1>2
  <2>4. \A i \in 1 .. Len(s) + 1 : ~(i < k) => i = k
    BY <1>2
  <2>. QED
    BY <2>1, <2>2, <2>3, <2>4
<1>. QED
  BY <1>1, <1>2

\* d is s with e more at place k.
WithAt(d, s, k, e) ==
    /\ Len(d) = Len(s) + 1
    /\ \A i \in 1 .. Len(s) + 1 : d[i] = IF i < k THEN s[i] ELSE IF i = k THEN e ELSE s[i - 1]

\* The same as AddedAt, without the arithmetic.
LEMMA AddedIs ==
    ASSUME NEW S, NEW s \in Seq(S), NEW e \in S, NEW k \in 1 .. Len(s) + 1
    PROVE  InsertAt(s, k, e) \in Seq(S) /\ WithAt(InsertAt(s, k, e), s, k, e)
BY AddedAt DEF WithAt

\* A place behind a is a place of what follows.
LEMMA AddedBehind ==
    ASSUME NEW S, NEW a \in Seq(S), NEW b \in Seq(S), NEW e \in S, NEW k \in 1 .. Len(b) + 1
    PROVE  InsertAt(a \o b, Len(a) + k, e) = a \o InsertAt(b, k, e)
<1>1. PICK c : c = a \o b
  OBVIOUS
<1>1a. /\ c \in Seq(S) /\ Len(c) = Len(a) + Len(b)
       /\ \A i \in 1 .. Len(a) + Len(b) : c[i] = IF i <= Len(a) THEN a[i] ELSE b[i - Len(a)]
  <2>1. /\ a \o b \in Seq(S) /\ Len(a \o b) = Len(a) + Len(b)
        /\ \A i \in 1 .. Len(a) + Len(b) : (a \o b)[i] = IF i <= Len(a) THEN a[i] ELSE b[i - Len(a)]
    BY JoinedAt
  <2>. QED
    BY <1>1, <2>1
<1>2. Len(a) + k \in 1 .. Len(c) + 1
  BY <1>1a
<1>3. PICK d : d = InsertAt(c, Len(a) + k, e)
  OBVIOUS
<1>3a. /\ d \in Seq(S) /\ Len(d) = Len(c) + 1
       /\ \A i \in 1 .. Len(c) + 1 : d[i] = IF i < Len(a) + k THEN c[i]
                                            ELSE IF i = Len(a) + k THEN e ELSE c[i - 1]
  <2>1. PICK m \in 1 .. Len(c) + 1 : m = Len(a) + k
    BY <1>2
  <2>2. InsertAt(c, m, e) \in Seq(S) /\ WithAt(InsertAt(c, m, e), c, m, e)
    <3>1. c \in Seq(S)
      BY <1>1a
    <3>. QED
      BY <2>1, <3>1, AddedIs
  <2>3. d \in Seq(S) /\ WithAt(d, c, m, e)
    BY <1>3, <2>1, <2>2
  <2>. QED
    BY <2>1, <2>3 DEF WithAt
<1>4. PICK f : f = InsertAt(b, k, e)
  OBVIOUS
<1>4a. /\ f \in Seq(S) /\ Len(f) = Len(b) + 1
       /\ \A i \in 1 .. Len(b) + 1 : f[i] = IF i < k THEN b[i] ELSE IF i = k THEN e ELSE b[i - 1]
  <2>1. InsertAt(b, k, e) \in Seq(S) /\ WithAt(InsertAt(b, k, e), b, k, e)
    BY AddedIs
  <2>2. f \in Seq(S) /\ WithAt(f, b, k, e)
    BY <1>4, <2>1
  <2>. QED
    BY <2>2 DEF WithAt
<1>5. PICK g : g = a \o f
  OBVIOUS
<1>5a. /\ g \in Seq(S) /\ Len(g) = Len(a) + Len(f)
       /\ \A i \in 1 .. Len(a) + Len(f) : g[i] = IF i <= Len(a) THEN a[i] ELSE f[i - Len(a)]
  <2>1. /\ a \o f \in Seq(S) /\ Len(a \o f) = Len(a) + Len(f)
        /\ \A i \in 1 .. Len(a) + Len(f) : (a \o f)[i] = IF i <= Len(a) THEN a[i] ELSE f[i - Len(a)]
    BY <1>4a, JoinedAt
  <2>. QED
    BY <1>5, <2>1
<1>6. PICK l \in Nat, n \in Nat : l = Len(a) /\ n = Len(b)
  OBVIOUS
<1>7. Len(d) = l + n + 1 /\ Len(g) = l + n + 1
  BY <1>1a, <1>3a, <1>4a, <1>5a, <1>6
<1>8. ASSUME NEW i \in 1 .. l + n + 1 PROVE d[i] = g[i]
  <2>1. CASE i <= l
    <3>1. i \in 1 .. l + n /\ i < l + k /\ i \in 1 .. l + (n + 1)
      BY <1>6, <2>1
    <3>. QED
      BY <1>1a, <1>3a, <1>4a, <1>5a, <1>6, <2>1, <3>1
  <2>2. CASE ~(i <= l)
    <3>1. PICK j \in 1 .. n + 1 : i = l + j /\ j = i - l
      <4>1. i - l \in 1 .. n + 1 /\ i = l + (i - l)
        BY <1>6, <2>2
      <4>. QED
        BY <4>1
    <3>2. g[i] = f[j] /\ f[j] = IF j < k THEN b[j] ELSE IF j = k THEN e ELSE b[j - 1]
      BY <1>4a, <1>5a, <1>6, <2>2, <3>1
    <3>3. CASE j < k
      <4>1. i \in 1 .. l + n /\ i < l + k
        BY <1>6, <3>1, <3>3
      <4>. QED
        BY <1>1a, <1>3a, <1>6, <2>2, <3>1, <3>2, <3>3, <4>1
    <3>4. CASE j = k
      <4>1. i = l + k /\ ~(i < l + k)
        BY <1>6, <3>1, <3>4
      <4>2. d[i] = e
        BY <1>1a, <1>3a, <1>6, <4>1
      <4>. QED
        BY <3>2, <3>4, <4>2
    <3>5. CASE k < j
      <4>1. ~(i < l + k) /\ i # l + k /\ i - 1 \in 1 .. l + n /\ ~(i - 1 <= l) /\ (i - 1) - l = j - 1
        BY <1>6, <3>1, <3>5
      <4>2. d[i] = c[i - 1]
        BY <1>1a, <1>3a, <1>6, <4>1
      <4>3. c[i - 1] = b[j - 1]
        BY <1>1a, <1>6, <4>1
      <4>4. ~(j < k) /\ j # k
        BY <3>1, <3>5
      <4>. QED
        BY <3>2, <4>2, <4>3, <4>4
    <3>. QED
      BY <3>1, <3>3, <3>4, <3>5
  <2>. QED
    BY <2>1, <2>2
<1>9. d = g
  BY <1>3a, <1>5a, <1>7, <1>8, SameSeq
<1>. QED
  BY <1>1, <1>3, <1>4, <1>5, <1>9

\* The same for RemoveAt().
LEMMA RemovedBehind ==
    ASSUME NEW S, NEW a \in Seq(S), NEW b \in Seq(S), NEW k \in 1 .. Len(b)
    PROVE  RemoveAt(a \o b, Len(a) + k) = a \o RemoveAt(b, k)
<1>1. PICK c : c = a \o b
  OBVIOUS
<1>1a. /\ c \in Seq(S) /\ Len(c) = Len(a) + Len(b)
       /\ \A i \in 1 .. Len(a) + Len(b) : c[i] = IF i <= Len(a) THEN a[i] ELSE b[i - Len(a)]
  <2>1. /\ a \o b \in Seq(S) /\ Len(a \o b) = Len(a) + Len(b)
        /\ \A i \in 1 .. Len(a) + Len(b) : (a \o b)[i] = IF i <= Len(a) THEN a[i] ELSE b[i - Len(a)]
    BY JoinedAt
  <2>. QED
    BY <1>1, <2>1
<1>2. Len(a) + k \in 1 .. Len(c)
  BY <1>1a
<1>3. PICK d : d = RemoveAt(c, Len(a) + k)
  OBVIOUS
<1>3a. /\ d \in Seq(S) /\ Len(d) = Len(c) - 1
       /\ \A i \in 1 .. Len(c) - 1 : d[i] = IF i < Len(a) + k THEN c[i] ELSE c[i + 1]
  <2>1. /\ RemoveAt(c, Len(a) + k) \in Seq(S) /\ Len(RemoveAt(c, Len(a) + k)) = Len(c) - 1
        /\ \A i \in 1 .. Len(c) - 1 : RemoveAt(c, Len(a) + k)[i] = IF i < Len(a) + k THEN c[i] ELSE c[i + 1]
    BY <1>1a, <1>2, RemovedAt
  <2>. QED
    BY <1>3, <2>1
<1>4. PICK f : f = RemoveAt(b, k)
  OBVIOUS
<1>4a. /\ f \in Seq(S) /\ Len(f) = Len(b) - 1
       /\ \A i \in 1 .. Len(b) - 1 : f[i] = IF i < k THEN b[i] ELSE b[i + 1]
  <2>1. /\ RemoveAt(b, k) \in Seq(S) /\ Len(RemoveAt(b, k)) = Len(b) - 1
        /\ \A i \in 1 .. Len(b) - 1 : RemoveAt(b, k)[i] = IF i < k THEN b[i] ELSE b[i + 1]
    BY RemovedAt
  <2>. QED
    BY <1>4, <2>1
<1>5. PICK g : g = a \o f
  OBVIOUS
<1>5a. /\ g \in Seq(S) /\ Len(g) = Len(a) + Len(f)
       /\ \A i \in 1 .. Len(a) + Len(f) : g[i] = IF i <= Len(a) THEN a[i] ELSE f[i - Len(a)]
  <2>1. /\ a \o f \in Seq(S) /\ Len(a \o f) = Len(a) + Len(f)
        /\ \A i \in 1 .. Len(a) + Len(f) : (a \o f)[i] = IF i <= Len(a) THEN a[i] ELSE f[i - Len(a)]
    BY <1>4a, JoinedAt
  <2>. QED
    BY <1>5, <2>1
<1>6. PICK l \in Nat, n \in Nat : l = Len(a) /\ n = Len(b)
  OBVIOUS
<1>7. Len(d) = l + n - 1 /\ Len(g) = l + n - 1
  BY <1>1a, <1>3a, <1>4a, <1>5a, <1>6
<1>8. ASSUME NEW i \in 1 .. l + n - 1 PROVE d[i] = g[i]
  <2>1. CASE i <= l
    <3>1. i \in 1 .. l + n /\ i < l + k /\ i \in 1 .. l + (n - 1)
      BY <1>6, <2>1
    <3>. QED
      BY <1>1a, <1>3a, <1>4a, <1>5a, <1>6, <2>1, <3>1
  <2>2. CASE ~(i <= l)
    <3>1. PICK j \in 1 .. n - 1 : i = l + j /\ j = i - l
      <4>1. i - l \in 1 .. n - 1 /\ i = l + (i - l)
        BY <1>6, <2>2
      <4>. QED
        BY <4>1
    <3>2. g[i] = f[j] /\ f[j] = IF j < k THEN b[j] ELSE b[j + 1]
      BY <1>4a, <1>5a, <1>6, <2>2, <3>1
    <3>3. CASE j < k
      <4>1. i \in 1 .. l + n /\ i < l + k
        BY <1>6, <3>1, <3>3
      <4>. QED
        BY <1>1a, <1>3a, <1>6, <2>2, <3>1, <3>2, <3>3, <4>1
    <3>4. CASE ~(j < k)
      <4>1. ~(i < l + k) /\ i + 1 \in 1 .. l + n /\ ~(i + 1 <= l) /\ (i + 1) - l = j + 1
        BY <1>6, <3>1, <3>4
      <4>2. d[i] = c[i + 1]
        BY <1>1a, <1>3a, <1>6, <4>1
      <4>3. c[i + 1] = b[(i + 1) - l]
        BY <1>1a, <1>6, <4>1
      <4>. QED
        BY <3>2, <3>4, <4>1, <4>2, <4>3
    <3>. QED
      BY <3>3, <3>4
  <2>. QED
    BY <2>1, <2>2
<1>9. d = g
  BY <1>3a, <1>5a, <1>7, <1>8, SameSeq
<1>. QED
  BY <1>1, <1>3, <1>4, <1>5, <1>9

\* What was added can be removed.
LEMMA AddedRemoved ==
    ASSUME NEW S, NEW s \in Seq(S), NEW e \in S, NEW k \in 1 .. Len(s) + 1
    PROVE  RemoveAt(InsertAt(s, k, e), k) = s
<1>1. PICK d : d = InsertAt(s, k, e)
  OBVIOUS
<1>1a. /\ d \in Seq(S) /\ Len(d) = Len(s) + 1
       /\ \A i \in 1 .. Len(s) + 1 : d[i] = IF i < k THEN s[i] ELSE IF i = k THEN e ELSE s[i - 1]
  <2>1. /\ InsertAt(s, k, e) \in Seq(S) /\ Len(InsertAt(s, k, e)) = Len(s) + 1
        /\ \A i \in 1 .. Len(s) + 1 : InsertAt(s, k, e)[i] = IF i < k THEN s[i] ELSE IF i = k THEN e ELSE s[i - 1]
    BY AddedAt
  <2>. QED
    BY <1>1, <2>1
<1>2. k \in 1 .. Len(d)
  BY <1>1a
<1>3. PICK f : f = RemoveAt(d, k)
  OBVIOUS
<1>3a. /\ f \in Seq(S) /\ Len(f) = Len(d) - 1
       /\ \A i \in 1 .. Len(d) - 1 : f[i] = IF i < k THEN d[i] ELSE d[i + 1]
  <2>1. /\ RemoveAt(d, k) \in Seq(S) /\ Len(RemoveAt(d, k)) = Len(d) - 1
        /\ \A i \in 1 .. Len(d) - 1 : RemoveAt(d, k)[i] = IF i < k THEN d[i] ELSE d[i + 1]
    BY <1>1a, <1>2, RemovedAt
  <2>. QED
    BY <1>3, <2>1
<1>4. PICK n \in Nat : n = Len(s)
  OBVIOUS
<1>4a. Len(f) = n /\ Len(d) - 1 = n
  BY <1>1a, <1>3a, <1>4
<1>5. ASSUME NEW i \in 1 .. n PROVE f[i] = s[i]
  <2>1. CASE i < k
    <3>1. f[i] = d[i]
      BY <1>3a, <1>4a, <2>1
    <3>2. i \in 1 .. Len(s) + 1
      BY <1>4
    <3>. QED
      BY <1>1a, <2>1, <3>1, <3>2
  <2>2. CASE ~(i < k)
    <3>1. i + 1 \in 1 .. n + 1 /\ ~(i + 1 < k) /\ i + 1 # k /\ (i + 1) - 1 = i
      BY <1>4, <2>2
    <3>2. f[i] = d[i + 1]
      BY <1>3a, <1>4a, <2>2
    <3>3. d[i + 1] = s[i]
      BY <1>1a, <1>4, <3>1
    <3>. QED
      BY <3>2, <3>3
  <2>. QED
    BY <2>1, <2>2
<1>6. f = s
  BY <1>3a, <1>4, <1>4a, <1>5, SameSeq
<1>. QED
  BY <1>1, <1>3, <1>6

\* The first one, and what follows it.
LEMMA FirstOf ==
    ASSUME NEW S, NEW a \in Seq(S), a # << >>
    PROVE  /\ Head(a) \in S /\ Tail(a) \in Seq(S) /\ RemoveAt(a, 1) = Tail(a)
           /\ \A b \in Seq(S) : Head(a \o b) = Head(a) /\ Tail(a \o b) = Tail(a) \o b /\ a \o b # << >>
<1>1. Head(a) \in S /\ Tail(a) \in Seq(S) /\ Len(Tail(a)) = Len(a) - 1 /\ Len(a) \in Nat \ {0}
      /\ \A i \in 1 .. Len(a) - 1 : Tail(a)[i] = a[i + 1]
  OBVIOUS
<1>2. RemoveAt(a, 1) = Tail(a)
  <2>1. PICK d : d = RemoveAt(a, 1)
    OBVIOUS
  <2>2. 1 \in 1 .. Len(a)
    BY <1>1
  <2>3. /\ d \in Seq(S) /\ Len(d) = Len(a) - 1
        /\ \A i \in 1 .. Len(a) - 1 : d[i] = IF i < 1 THEN a[i] ELSE a[i + 1]
    <3>1. /\ RemoveAt(a, 1) \in Seq(S) /\ Len(RemoveAt(a, 1)) = Len(a) - 1
          /\ \A i \in 1 .. Len(a) - 1 : RemoveAt(a, 1)[i] = IF i < 1 THEN a[i] ELSE a[i + 1]
      BY <2>2, RemovedAt
    <3>. QED
      BY <2>1, <3>1
  <2>4. \A i \in 1 .. Len(d) : d[i] = Tail(a)[i]
    BY <1>1, <2>3
  <2>5. d = Tail(a)
    BY <1>1, <2>3, <2>4, SameSeq
  <2>. QED
    BY <2>1, <2>5
<1>3. ASSUME NEW b \in Seq(S)
      PROVE  Head(a \o b) = Head(a) /\ Tail(a \o b) = Tail(a) \o b /\ a \o b # << >>
  <2>1. PICK c : c = a \o b
    OBVIOUS
  <2>2. /\ c \in Seq(S) /\ Len(c) = Len(a) + Len(b)
        /\ \A i \in 1 .. Len(a) + Len(b) : c[i] = IF i <= Len(a) THEN a[i] ELSE b[i - Len(a)]
    <3>1. /\ a \o b \in Seq(S) /\ Len(a \o b) = Len(a) + Len(b)
          /\ \A i \in 1 .. Len(a) + Len(b) : (a \o b)[i] = IF i <= Len(a) THEN a[i] ELSE b[i - Len(a)]
      BY JoinedAt
    <3>. QED
      BY <2>1, <3>1
  <2>3. PICK l \in Nat, n \in Nat : l = Len(a) /\ n = Len(b)
    OBVIOUS
  <2>4. l >= 1
    BY <1>1, <2>3
  <2>5. c # << >>
    BY <2>2, <2>3, <2>4
  <2>6. Head(c) = Head(a)
    <3>1. Head(c) = c[1] /\ Head(a) = a[1]
      BY <2>2, <2>5
    <3>2. 1 \in 1 .. l + n /\ 1 <= l
      BY <2>4
    <3>3. c[1] = a[1]
      BY <2>2, <2>3, <3>2
    <3>. QED
      BY <3>1, <3>3
  <2>7. Tail(c) = Tail(a) \o b
    <3>1. PICK t : t = Tail(a)
      OBVIOUS
    <3>2. PICK d : d = t \o b
      OBVIOUS
    <3>3. t \in Seq(S) /\ Len(t) = l - 1 /\ \A i \in 1 .. l - 1 : t[i] = a[i + 1]
      BY <1>1, <2>3, <3>1
    <3>4. /\ d \in Seq(S) /\ Len(d) = Len(t) + Len(b)
          /\ \A i \in 1 .. Len(t) + Len(b) : d[i] = IF i <= Len(t) THEN t[i] ELSE b[i - Len(t)]
      <4>1. /\ t \o b \in Seq(S) /\ Len(t \o b) = Len(t) + Len(b)
            /\ \A i \in 1 .. Len(t) + Len(b) : (t \o b)[i] = IF i <= Len(t) THEN t[i] ELSE b[i - Len(t)]
        BY <3>3, JoinedAt
      <4>. QED
        BY <3>2, <4>1
    <3>5. PICK f : f = Tail(c)
      OBVIOUS
    <3>6. f \in Seq(S) /\ Len(f) = Len(c) - 1 /\ \A i \in 1 .. Len(c) - 1 : f[i] = c[i + 1]
      BY <2>2, <2>5, <3>5
    <3>7. Len(f) = l + n - 1 /\ Len(d) = l + n - 1 /\ Len(c) - 1 = l + n - 1
      BY <2>2, <2>3, <3>3, <3>4, <3>6
    <3>8. ASSUME NEW i \in 1 .. l + n - 1 PROVE f[i] = d[i]
      <4>1. f[i] = c[i + 1]
        BY <3>6, <3>7
      <4>2. CASE i <= l - 1
        <5>1. i \in 1 .. Len(t) + Len(b) /\ i \in 1 .. l - 1 /\ i <= Len(t)
              /\ i + 1 \in 1 .. Len(a) + Len(b) /\ i + 1 <= Len(a)
          BY <2>3, <3>3, <4>2
        <5>2. d[i] = t[i] /\ t[i] = a[i + 1] /\ c[i + 1] = a[i + 1]
          BY <2>2, <3>3, <3>4, <5>1
        <5>. QED
          BY <4>1, <5>2
      <4>3. CASE ~(i <= l - 1)
        <5>1. i \in 1 .. Len(t) + Len(b) /\ ~(i <= Len(t)) /\ i - Len(t) = i + 1 - Len(a)
              /\ i + 1 \in 1 .. Len(a) + Len(b) /\ ~(i + 1 <= Len(a))
          BY <2>3, <3>3, <4>3
        <5>2. d[i] = b[i - Len(t)] /\ c[i + 1] = b[i + 1 - Len(a)]
          BY <2>2, <3>4, <5>1
        <5>. QED
          BY <4>1, <5>1, <5>2
      <4>. QED
        BY <4>2, <4>3
    <3>9. f = d
      BY <3>4, <3>6, <3>7, <3>8, SameSeq
    <3>. QED
      BY <3>1, <3>2, <3>5, <3>9
  <2>. QED
    BY <2>1, <2>5, <2>6, <2>7
<1>. QED
  BY <1>1, <1>2, <1>3

\* A place at the end of a is the first one of what follows.
Shifts(a, e, b) == Append(a, e) \o b = a \o InsertAt(b, 1, e)
LEMMA AppendedBefore ==
    ASSUME NEW S, NEW a \in Seq(S), NEW b \in Seq(S), NEW e \in S
    PROVE  Shifts(a, e, b)
<1>1. InsertAt(b, 1, e) = <<e>> \o b
  <2>1. PICK d : d = InsertAt(b, 1, e)
    OBVIOUS
  <2>2. 1 \in 1 .. Len(b) + 1
    OBVIOUS
  <2>3. /\ d \in Seq(S) /\ Len(d) = Len(b) + 1
        /\ \A i \in 1 .. Len(b) + 1 : d[i] = IF i < 1 THEN b[i] ELSE IF i = 1 THEN e ELSE b[i - 1]
    <3>1. /\ InsertAt(b, 1, e) \in Seq(S) /\ Len(InsertAt(b, 1, e)) = Len(b) + 1
          /\ \A i \in 1 .. Len(b) + 1 : InsertAt(b, 1, e)[i] = IF i < 1 THEN b[i] ELSE IF i = 1 THEN e ELSE b[i - 1]
      BY <2>2, AddedAt
    <3>. QED
      BY <2>1, <3>1
  <2>4. PICK f : f = <<e>> \o b
    OBVIOUS
  <2>5. PICK o : o = <<e>>
    OBVIOUS
  <2>6. o \in Seq(S) /\ Len(o) = 1 /\ o[1] = e
    BY <2>5
  <2>7. /\ f \in Seq(S) /\ Len(f) = Len(o) + Len(b)
        /\ \A i \in 1 .. Len(o) + Len(b) : f[i] = IF i <= Len(o) THEN o[i] ELSE b[i - Len(o)]
    <3>1. /\ <<e>> \o b \in Seq(S) /\ Len(<<e>> \o b) = Len(o) + Len(b)
          /\ \A i \in 1 .. Len(o) + Len(b) : (<<e>> \o b)[i] = IF i <= Len(o) THEN o[i] ELSE b[i - Len(o)]
      BY <2>5, <2>6, JoinedAt
    <3>. QED
      BY <2>4, <3>1
  <2>8. ASSUME NEW i \in 1 .. Len(d) PROVE d[i] = f[i]
    <3>1. i \in 1 .. Len(b) + 1 /\ i \in 1 .. Len(o) + Len(b) /\ ~(i < 1)
      BY <2>3, <2>6
    <3>2. CASE i = 1
      BY <2>3, <2>6, <2>7, <3>1, <3>2
    <3>3. CASE i # 1
      <4>1. ~(i <= Len(o)) /\ i - Len(o) = i - 1
        BY <2>6, <3>1, <3>3
      <4>2. f[i] = b[i - Len(o)] /\ d[i] = b[i - 1]
        BY <2>3, <2>7, <3>1, <3>3, <4>1
      <4>. QED
        BY <4>1, <4>2
    <3>. QED
      BY <3>2, <3>3
  <2>9. d = f
    <3>1. d \in Seq(S) /\ f \in Seq(S)
      BY <2>3, <2>7
    <3>2. Len(d) = Len(f)
      BY <2>3, <2>6, <2>7
    <3>. QED
      BY <2>8, <3>1, <3>2, SameSeq
  <2>. QED
    BY <2>1, <2>4, <2>9
<1>2. Append(a, e) \o b = a \o (<<e>> \o b)
  OBVIOUS
<1>. QED
  BY <1>1, <1>2 DEF Shifts

\* The same place, in the whole.
LEMMA AppendedPlace ==
    ASSUME NEW S, NEW a \in Seq(S), NEW b \in Seq(S), NEW e \in S
    PROVE  Append(a, e) \o b = InsertAt(a \o b, Len(a) + 1, e)
<1>1. Append(a, e) \o b = a \o InsertAt(b, 1, e)
  <2>1. Shifts(a, e, b)
    BY AppendedBefore
  <2>. QED
    BY <2>1 DEF Shifts
<1>2. InsertAt(a \o b, Len(a) + 1, e) = a \o InsertAt(b, 1, e)
  <2>1. 1 \in 1 .. Len(b) + 1
    OBVIOUS
  <2>. QED
    BY <2>1, AddedBehind
<1>. QED
  BY <1>1, <1>2
=============================================================================
