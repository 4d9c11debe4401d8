------------------------- MODULE SleepQueue_proofs --------------------------
(***************************************************************************)
(* Lemmas about what all the primitives are built from: sleep queues and   *)
(* wakeup chains, which are sequences of LWPs, each LWP at most once, and  *)
(* the sets of LWPs and of wakeups that the counters of the kernel count.  *)
(***************************************************************************)
EXTENDS LwpState, SequenceTheorems, FiniteSetTheorems, TLAPS

(***************************************************************************)
(* Sleep queues are sequences, whatever is done to them.                   *)
(***************************************************************************)

(* The part of a sequence between two positions.                           *)
LEMMA PartLen ==
  ASSUME NEW S, NEW q \in Seq(S), NEW m \in Int, NEW n \in Int,
         1 <= m, n <= Len(q), m <= n + 1
  PROVE  /\ SubSeq(q, m, n) \in Seq(S)
         /\ Len(SubSeq(q, m, n)) = n - m + 1
         /\ \A i \in 1 .. n - m + 1 : SubSeq(q, m, n)[i] = q[m + i - 1]
<1>1. Len(q) \in Nat /\ q \in [1 .. Len(q) -> S]
  BY LenProperties
<1>2. \A i \in m .. n : q[i] \in S
  BY <1>1
<1>3. /\ SubSeq(q, m, n) \in Seq(S)
      /\ Len(SubSeq(q, m, n)) = IF m <= n THEN n - m + 1 ELSE 0
      /\ \A i \in 1 .. n - m + 1 : SubSeq(q, m, n)[i] = q[m + i - 1]
  BY <1>2, SubSeqProperties
<1>4. (IF m <= n THEN n - m + 1 ELSE 0) = n - m + 1
  OBVIOUS
<1> QED BY <1>3, <1>4, Zenon

(* Nobody is on an empty queue.                                            *)
LEMMA EmptyQueue ==
  /\ \A l : ~Contains(<<>>, l)
  /\ IsInjective(<<>>)
  /\ \A S : <<>> \in Seq(S)
<1>1. \A S : <<>> \in Seq(S) /\ Len(<<>>) = 0
  BY EmptySeq
<1>2. Len(<<>>) = 0 /\ DOMAIN <<>> = 1 .. Len(<<>>)
  BY <1>1, LenProperties
<1> QED BY <1>1, <1>2 DEF Contains, IsInjective

(* Who is on a queue is of its type.                                       *)
LEMMA OnQueue ==
  ASSUME NEW S, NEW q \in Seq(S), NEW l, Contains(q, l)
  PROVE  l \in S /\ q # <<>>
<1>1. q \in [1 .. Len(q) -> S]
  BY LenProperties
<1> QED BY <1>1, EmptyQueue DEF Contains

(* A queue without anybody on it is empty.                                 *)
LEMMA NobodyQueued ==
  ASSUME NEW S, NEW q \in Seq(S), q # <<>>
  PROVE  Contains(q, Head(q)) /\ Head(q) \in S
<1>1. Len(q) \in Nat \ {0}
  BY EmptySeq
<1>2. Head(q) = q[1] /\ Head(q) \in S
  BY <1>1, HeadTailProperties
<1>3. 1 \in 1 .. Len(q)
  BY <1>1
<1> QED BY <1>2, <1>3 DEF Contains

(* Onto the tail.                                                          *)
LEMMA AppendQueue ==
  ASSUME NEW S, NEW q \in Seq(S), NEW l \in S
  PROVE  /\ Append(q, l) \in Seq(S) /\ Append(q, l) # <<>>
         /\ Len(Append(q, l)) = Len(q) + 1
         /\ \A m : Contains(Append(q, l), m) <=> (Contains(q, m) \/ m = l)
         /\ IsInjective(q) /\ ~Contains(q, l) => IsInjective(Append(q, l))
<1> DEFINE a == Append(q, l)
<1>1. Len(q) \in Nat /\ DOMAIN q = 1 .. Len(q)
  BY LenProperties
<1>2. /\ a \in Seq(S) /\ Len(a) = Len(q) + 1 /\ a # <<>>
      /\ \A i \in 1 .. Len(q) : a[i] = q[i]
      /\ a[Len(q) + 1] = l
  BY AppendProperties
<1>3. DOMAIN a = 1 .. Len(a)
  BY <1>2, LenProperties
<1> HIDE DEF a
<1>4. \A m : Contains(a, m) <=> (Contains(q, m) \/ m = l)
  BY <1>1, <1>2 DEF Contains
<1>5. IsInjective(q) /\ ~Contains(q, l) => IsInjective(a)
  BY <1>1, <1>2, <1>3 DEF IsInjective, Contains
<1> QED BY <1>2, <1>4, <1>5 DEF a

(* Onto the head.                                                          *)
LEMMA PrependQueue ==
  ASSUME NEW S, NEW q \in Seq(S), NEW l \in S
  PROVE  /\ <<l>> \o q \in Seq(S)
         /\ Len(<<l>> \o q) = Len(q) + 1
         /\ \A m : Contains(<<l>> \o q, m) <=> (Contains(q, m) \/ m = l)
         /\ IsInjective(q) /\ ~Contains(q, l) => IsInjective(<<l>> \o q)
<1> DEFINE a == <<l>> \o q
<1>1. Len(q) \in Nat /\ DOMAIN q = 1 .. Len(q)
  BY LenProperties
<1>2. <<l>> \in Seq(S) /\ Len(<<l>>) = 1 /\ <<l>>[1] = l
  OBVIOUS
<1>3. /\ a \in Seq(S) /\ Len(a) = Len(q) + 1
      /\ \A i \in 1 .. Len(q) + 1 : a[i] = IF i <= 1 THEN l ELSE q[i - 1]
  <2>1. /\ a \in Seq(S) /\ Len(a) = 1 + Len(q)
        /\ \A i \in 1 .. 1 + Len(q) : a[i] = IF i <= 1 THEN <<l>>[i] ELSE q[i - 1]
    BY <1>2, ConcatProperties
  <2> HIDE DEF a
  <2> QED BY <1>1, <1>2, <2>1
<1>4. DOMAIN a = 1 .. Len(a)
  BY <1>3, LenProperties
<1> HIDE DEF a
<1>5. \A m : Contains(a, m) <=> (Contains(q, m) \/ m = l)
  <2>1. a[1] = l /\ 1 \in 1 .. Len(a)
    BY <1>1, <1>3
  <2>2. \A i \in 1 .. Len(q) : i + 1 \in 1 .. Len(a) /\ a[i + 1] = q[i]
    BY <1>1, <1>3
  <2>3. \A i \in 1 .. Len(a) : i = 1 \/ (i - 1 \in 1 .. Len(q) /\ a[i] = q[i - 1])
    BY <1>1, <1>3
  <2>4. \A m : Contains(q, m) \/ m = l => Contains(a, m)
    BY <2>1, <2>2 DEF Contains
  <2>5. \A m : Contains(a, m) => Contains(q, m) \/ m = l
    BY <2>1, <2>3 DEF Contains
  <2> QED BY <2>4, <2>5
<1>6. IsInjective(q) /\ ~Contains(q, l) => IsInjective(a)
  <2> SUFFICES ASSUME IsInjective(q), ~Contains(q, l),
                      NEW i \in 1 .. Len(a), NEW j \in 1 .. Len(a), a[i] = a[j]
               PROVE  i = j
    BY <1>4 DEF IsInjective
  <2>1. \A k \in 1 .. Len(a) : (k = 1 /\ a[k] = l) \/ (k - 1 \in 1 .. Len(q) /\ a[k] = q[k - 1])
    BY <1>1, <1>3
  <2>2. \A k \in 1 .. Len(q) : q[k] # l
    BY DEF Contains
  <2>3. i = j \/ i - 1 = j - 1
    BY <1>1, <2>1, <2>2 DEF IsInjective
  <2> QED BY <2>3
<1> QED BY <1>3, <1>5, <1>6 DEF a

(* The first one goes.                                                     *)
LEMMA TailQueue ==
  ASSUME NEW S, NEW q \in Seq(S), q # <<>>
  PROVE  /\ Head(q) \in S /\ Contains(q, Head(q))
         /\ Tail(q) \in Seq(S) /\ Len(Tail(q)) = Len(q) - 1
         /\ \A m : Contains(q, m) <=> (m = Head(q) \/ Contains(Tail(q), m))
         /\ IsInjective(q) => IsInjective(Tail(q)) /\ ~Contains(Tail(q), Head(q))
<1> DEFINE b == Tail(q)
<1>1. Len(q) \in Nat \ {0} /\ DOMAIN q = 1 .. Len(q)
  BY LenProperties, EmptySeq
<1>2. /\ Head(q) \in S /\ b \in Seq(S) /\ Len(b) = Len(q) - 1
      /\ \A i \in 1 .. Len(b) : b[i] = q[i + 1]
  BY HeadTailProperties
<1>3. Head(q) = q[1] /\ Contains(q, Head(q))
  BY <1>1, <1>2, HeadTailProperties, NobodyQueued
<1>4. DOMAIN b = 1 .. Len(b)
  BY <1>2, LenProperties
<1> HIDE DEF b
<1>5. \A m : Contains(q, m) <=> (m = Head(q) \/ Contains(b, m))
  <2>1. 1 \in 1 .. Len(q)
    BY <1>1
  <2>2. \A i \in 1 .. Len(b) : i + 1 \in 1 .. Len(q) /\ q[i + 1] = b[i]
    BY <1>1, <1>2
  <2>3. \A i \in 1 .. Len(q) : i = 1 \/ (i - 1 \in 1 .. Len(b) /\ b[i - 1] = q[i])
    BY <1>1, <1>2
  <2> QED BY <1>3, <2>1, <2>2, <2>3 DEF Contains
<1>6. IsInjective(q) => IsInjective(b) /\ ~Contains(b, Head(q))
  <2> SUFFICES ASSUME \A i, j \in 1 .. Len(q) : q[i] = q[j] => i = j
               PROVE  IsInjective(b) /\ ~Contains(b, Head(q))
    BY <1>1 DEF IsInjective
  <2>1. \A i \in 1 .. Len(b) : i + 1 \in 1 .. Len(q) /\ b[i] = q[i + 1]
    BY <1>1, <1>2
  <2>2. \A i, j \in 1 .. Len(b) : b[i] = b[j] => i + 1 = j + 1
    BY <2>1
  <2>3. IsInjective(b)
    BY <1>1, <1>2, <1>4, <2>2 DEF IsInjective
  <2>4. \A i \in 1 .. Len(b) : i + 1 # 1 /\ 1 \in 1 .. Len(q)
    BY <1>1, <1>2
  <2>5. \A i \in 1 .. Len(b) : b[i] # q[1]
    BY <2>1, <2>4
  <2> QED BY <1>3, <2>3, <2>5 DEF Contains
<1> QED BY <1>2, <1>3, <1>5, <1>6 DEF b

(* Whoever is on a queue is taken off it, and nobody else.                 *)
LEMMA SlpdequeQueue ==
  ASSUME NEW S, NEW q \in Seq(S), NEW l
  PROVE  /\ slpdeque(q, l) \in Seq(S)
         /\ Len(slpdeque(q, l)) = IF Contains(q, l) THEN Len(q) - 1 ELSE Len(q)
         /\ \A m : m # l => (Contains(slpdeque(q, l), m) <=> Contains(q, m))
         /\ IsInjective(q) => IsInjective(slpdeque(q, l)) /\ ~Contains(slpdeque(q, l), l)
<1>1. CASE ~Contains(q, l)
  BY <1>1 DEF slpdeque
<1>2. CASE Contains(q, l)
  <2> DEFINE k == CHOOSE j \in 1 .. Len(q) : q[j] = l
             a == SubSeq(q, 1, k - 1)
             b == SubSeq(q, k + 1, Len(q))
             r == slpdeque(q, l)
  <2>1. k \in 1 .. Len(q) /\ q[k] = l
    BY <1>2 DEF Contains
  <2>2. Len(q) \in Nat /\ DOMAIN q = 1 .. Len(q)
    BY LenProperties
  <2>3. r = a \o b
    BY <1>2 DEF slpdeque, RemoveAt
  <2> HIDE DEF k, r
  <2>4. a \in Seq(S) /\ Len(a) = k - 1 /\ \A i \in 1 .. k - 1 : a[i] = q[i]
    <3>1. /\ a \in Seq(S) /\ Len(a) = (k - 1) - 1 + 1
          /\ \A i \in 1 .. (k - 1) - 1 + 1 : a[i] = q[1 + i - 1]
      <4>1. 1 \in Int /\ k - 1 \in Int /\ 1 <= 1 /\ k - 1 <= Len(q) /\ 1 <= (k - 1) + 1
        BY <2>1, <2>2
      <4> QED BY <4>1, PartLen, Zenon
    <3> HIDE DEF a
    <3> QED BY <2>1, <2>2, <3>1
  <2>5. b \in Seq(S) /\ Len(b) = Len(q) - k /\ \A i \in 1 .. Len(q) - k : b[i] = q[k + i]
    <3>1. /\ b \in Seq(S) /\ Len(b) = Len(q) - (k + 1) + 1
          /\ \A i \in 1 .. Len(q) - (k + 1) + 1 : b[i] = q[(k + 1) + i - 1]
      <4>1. k + 1 \in Int /\ Len(q) \in Int /\ 1 <= k + 1 /\ Len(q) <= Len(q)
            /\ k + 1 <= Len(q) + 1
        BY <2>1, <2>2
      <4> QED BY <4>1, PartLen, Zenon
    <3> HIDE DEF b
    <3> QED BY <2>1, <2>2, <3>1
  <2> HIDE DEF a, b
  <2>6. /\ r \in Seq(S) /\ Len(r) = Len(a) + Len(b)
        /\ \A i \in 1 .. Len(a) + Len(b) : r[i] = IF i <= Len(a) THEN a[i] ELSE b[i - Len(a)]
    BY <2>3, <2>4, <2>5, ConcatProperties
  <2>7. Len(r) = Len(q) - 1 /\ DOMAIN r = 1 .. Len(r)
    BY <2>1, <2>2, <2>4, <2>5, <2>6, LenProperties
  <2>8. ASSUME NEW i \in 1 .. Len(r)
        PROVE  r[i] = IF i < k THEN q[i] ELSE q[i + 1]
    <3>1. CASE i < k
      <4>1. i \in 1 .. k - 1 /\ i \in 1 .. Len(a) + Len(b) /\ i <= Len(a)
        BY <2>1, <2>2, <2>4, <2>5, <2>7, <3>1
      <4> QED BY <2>4, <2>6, <3>1, <4>1
    <3>2. CASE ~(i < k)
      <4>1. /\ i - Len(a) \in 1 .. Len(q) - k /\ i \in 1 .. Len(a) + Len(b)
            /\ ~(i <= Len(a)) /\ k + (i - Len(a)) = i + 1
        BY <2>1, <2>2, <2>4, <2>5, <2>7, <3>2
      <4>2. r[i] = b[i - Len(a)]
        BY <2>6, <4>1
      <4>3. b[i - Len(a)] = q[k + (i - Len(a))]
        BY <2>5, <4>1
      <4> QED BY <3>2, <4>1, <4>2, <4>3
    <3> QED BY <3>1, <3>2
  <2>9. ASSUME NEW m, m # l PROVE Contains(r, m) <=> Contains(q, m)
    <3>1. ASSUME NEW i \in 1 .. Len(q), q[i] = m PROVE Contains(r, m)
      <4>1. i # k
        BY <2>1, <2>9, <3>1
      <4>2. CASE i < k
        <5>1. i \in 1 .. Len(r) /\ r[i] = m
          BY <2>1, <2>2, <2>7, <2>8, <3>1, <4>2
        <5> QED BY <5>1 DEF Contains
      <4>3. CASE i > k
        <5>1. i - 1 \in 1 .. Len(r) /\ r[i - 1] = m
          BY <2>1, <2>2, <2>7, <2>8, <3>1, <4>3
        <5> QED BY <5>1 DEF Contains
      <4> QED BY <2>1, <2>2, <4>1, <4>2, <4>3
    <3>2. ASSUME NEW i \in 1 .. Len(r), r[i] = m PROVE Contains(q, m)
      <4>1. i \in 1 .. Len(q) /\ i + 1 \in 1 .. Len(q)
        BY <2>2, <2>7
      <4> QED BY <2>8, <3>2, <4>1 DEF Contains
    <3> QED BY <3>1, <3>2 DEF Contains
  <2>10. ASSUME IsInjective(q) PROVE IsInjective(r) /\ ~Contains(r, l)
    <3>1. \A i, j \in 1 .. Len(q) : q[i] = q[j] => i = j
      BY <2>2, <2>10 DEF IsInjective
    <3> DEFINE p(i) == IF i < k THEN i ELSE i + 1
    <3>2. \A i \in 1 .. Len(r) : p(i) \in 1 .. Len(q) /\ r[i] = q[p(i)] /\ p(i) # k
      BY <2>1, <2>2, <2>7, <2>8
    <3>3. \A i, j \in 1 .. Len(r) : p(i) = p(j) => i = j
      BY <2>1, <2>2, <2>7
    <3> HIDE DEF p
    <3>4. \A i, j \in 1 .. Len(r) : r[i] = r[j] => i = j
      BY <3>1, <3>2, <3>3
    <3>5. \A i \in 1 .. Len(r) : r[i] # l
      BY <2>1, <3>1, <3>2
    <3> QED BY <2>7, <3>4, <3>5 DEF IsInjective, Contains
  <2> QED BY <1>2, <2>6, <2>7, <2>9, <2>10 DEF r
<1> QED BY <1>1, <1>2

(* A queue turned round.                                                   *)
LEMMA ReverseQueue ==
  ASSUME NEW S, NEW q \in Seq(S)
  PROVE  /\ Reverse(q) \in Seq(S)
         /\ \A m : Contains(Reverse(q), m) <=> Contains(q, m)
         /\ IsInjective(q) => IsInjective(Reverse(q))
<1> DEFINE r == Reverse(q)
<1>1. Len(q) \in Nat /\ q \in [1 .. Len(q) -> S] /\ DOMAIN q = 1 .. Len(q)
  BY LenProperties
<1>2. \A i \in 1 .. Len(q) : (Len(q) - i) + 1 \in 1 .. Len(q)
  BY <1>1
<1>3. r \in [1 .. Len(q) -> S] /\ \A i \in 1 .. Len(q) : r[i] = q[(Len(q) - i) + 1]
  BY <1>1, <1>2 DEF Reverse
<1> HIDE DEF r
<1>4. r \in Seq(S) /\ Len(r) = Len(q)
  BY <1>1, <1>3, SeqDef
<1>5. \A m : Contains(r, m) <=> Contains(q, m)
  <2>1. \A i \in 1 .. Len(q) : r[(Len(q) - i) + 1] = q[i]
    <3>1. \A i \in 1 .. Len(q) : (Len(q) - ((Len(q) - i) + 1)) + 1 = i
      BY <1>1
    <3> QED BY <1>2, <1>3, <3>1
  <2> QED BY <1>2, <1>3, <1>4, <2>1 DEF Contains
<1>6. IsInjective(q) => IsInjective(r)
  <2> SUFFICES ASSUME IsInjective(q), NEW i \in 1 .. Len(q), NEW j \in 1 .. Len(q),
                      r[i] = r[j]
               PROVE  i = j
    BY <1>3 DEF IsInjective
  <2>1. (Len(q) - i) + 1 = (Len(q) - j) + 1
    BY <1>1, <1>2, <1>3 DEF IsInjective
  <2> QED BY <1>1, <2>1
<1> QED BY <1>4, <1>5, <1>6 DEF r

(* A queue cut in two.                                                     *)
LEMMA SplitQueue ==
  ASSUME NEW S, NEW q \in Seq(S), NEW n \in 0 .. Len(q)
  PROVE  LET a == SubSeq(q, 1, n)
             b == SubSeq(q, n + 1, Len(q))
         IN  /\ a \in Seq(S) /\ Len(a) = n
             /\ b \in Seq(S) /\ Len(b) = Len(q) - n
             /\ \A m : Contains(q, m) <=> (Contains(a, m) \/ Contains(b, m))
             /\ IsInjective(q) => /\ IsInjective(a) /\ IsInjective(b)
                                  /\ \A m : ~(Contains(a, m) /\ Contains(b, m))
<1> DEFINE a == SubSeq(q, 1, n)
           b == SubSeq(q, n + 1, Len(q))
<1>1. Len(q) \in Nat /\ DOMAIN q = 1 .. Len(q) /\ n \in Nat
  BY LenProperties
<1>2. a \in Seq(S) /\ Len(a) = n /\ \A i \in 1 .. n : a[i] = q[i]
  <2>1. /\ a \in Seq(S) /\ Len(a) = n - 1 + 1
        /\ \A i \in 1 .. n - 1 + 1 : a[i] = q[1 + i - 1]
    <3>1. 1 \in Int /\ n \in Int /\ 1 <= 1 /\ n <= Len(q) /\ 1 <= n + 1
      BY <1>1
    <3> QED BY <3>1, PartLen, Zenon
  <2> HIDE DEF a
  <2> QED BY <1>1, <2>1
<1>3. b \in Seq(S) /\ Len(b) = Len(q) - n /\ \A i \in 1 .. Len(q) - n : b[i] = q[n + i]
  <2>1. /\ b \in Seq(S) /\ Len(b) = Len(q) - (n + 1) + 1
        /\ \A i \in 1 .. Len(q) - (n + 1) + 1 : b[i] = q[(n + 1) + i - 1]
    <3>1. n + 1 \in Int /\ Len(q) \in Int /\ 1 <= n + 1 /\ Len(q) <= Len(q)
          /\ n + 1 <= Len(q) + 1
      BY <1>1
    <3> QED BY <3>1, PartLen, Zenon
  <2> HIDE DEF b
  <2> QED BY <1>1, <2>1
<1>4. DOMAIN a = 1 .. Len(a) /\ DOMAIN b = 1 .. Len(b)
  BY <1>2, <1>3, LenProperties
<1> HIDE DEF a, b
<1>5. \A m : Contains(q, m) <=> (Contains(a, m) \/ Contains(b, m))
  <2>1. \A i \in 1 .. n : i \in 1 .. Len(q)
    BY <1>1
  <2>2. \A i \in 1 .. Len(q) - n : n + i \in 1 .. Len(q)
    BY <1>1
  <2>3. ASSUME NEW i \in 1 .. Len(q), i \notin 1 .. n
        PROVE  i - n \in 1 .. Len(q) - n /\ b[i - n] = q[i]
    <3>1. i - n \in 1 .. Len(q) - n /\ n + (i - n) = i
      BY <1>1, <2>3
    <3>2. b[i - n] = q[n + (i - n)]
      BY <1>3, <3>1
    <3> QED BY <3>1, <3>2
  <2> QED BY <1>2, <1>3, <2>1, <2>2, <2>3 DEF Contains
<1>6. ASSUME IsInjective(q)
      PROVE  /\ IsInjective(a) /\ IsInjective(b)
             /\ \A m : ~(Contains(a, m) /\ Contains(b, m))
  <2>1. \A i, j \in 1 .. Len(q) : q[i] = q[j] => i = j
    BY <1>1, <1>6 DEF IsInjective
  <2>2. \A i, j \in 1 .. n : a[i] = a[j] => i = j
    BY <1>1, <1>2, <2>1
  <2>3. \A i, j \in 1 .. Len(q) - n : b[i] = b[j] => i = j
    <3>1. \A i \in 1 .. Len(q) - n : n + i \in 1 .. Len(q) /\ b[i] = q[n + i]
      BY <1>1, <1>3
    <3>2. \A i, j \in 1 .. Len(q) - n : b[i] = b[j] => n + i = n + j
      BY <2>1, <3>1
    <3> QED BY <1>1, <3>2
  <2>4. \A i \in 1 .. n, j \in 1 .. Len(q) - n : a[i] # b[j]
    BY <1>1, <1>2, <1>3, <2>1
  <2>5. DOMAIN a = 1 .. n /\ DOMAIN b = 1 .. Len(q) - n
    BY <1>2, <1>3, <1>4
  <2>6. IsInjective(a) /\ IsInjective(b)
    BY <2>2, <2>3, <2>5 DEF IsInjective
  <2>7. \A m : ~(Contains(a, m) /\ Contains(b, m))
    <3>1. \A m : Contains(a, m) => \E i \in 1 .. n : a[i] = m
      BY <1>2 DEF Contains
    <3>2. \A m : Contains(b, m) => \E j \in 1 .. Len(q) - n : b[j] = m
      BY <1>3 DEF Contains
    <3> QED BY <2>4, <3>1, <3>2
  <2> QED BY <2>6, <2>7
<1> QED BY <1>2, <1>3, <1>5, <1>6 DEF a, b

-----------------------------------------------------------------------------
(***************************************************************************)
(* Who will wake a sleeper.  q is a sleep queue, ch[c] the wakeup chain    *)
(* that c walks, and S the set of LWPs that sleep or are about to: each of *)
(* S is in one place, once, and nobody else is in any.                     *)
(***************************************************************************)
Keeps(q, ch, C, S) ==
  /\ q \in Seq(Lwps) /\ IsInjective(q)
  /\ ch \in [C -> Seq(Lwps)] /\ \A c \in C : IsInjective(ch[c])
  /\ \A l \in Lwps : Contains(q, l) => l \in S /\ \A c \in C : ~Contains(ch[c], l)
  /\ \A l \in Lwps, c \in C : Contains(ch[c], l) =>
       l \in S /\ \A d \in C : Contains(ch[d], l) => c = d
  /\ \A l \in S : l \in Lwps /\ (Contains(q, l) \/ \E c \in C : Contains(ch[c], l))

(* At first nobody sleeps.                                                 *)
LEMMA KeepsNobody ==
  ASSUME NEW C
  PROVE  Keeps(<<>>, [c \in C |-> <<>>], C, {})
  BY EmptyQueue DEF Keeps

(* Somebody who is not asleep queues, at the tail or at the head.          *)
LEMMA KeepsQueued ==
  ASSUME NEW q, NEW ch, NEW C, NEW S, Keeps(q, ch, C, S),
         NEW l \in Lwps, l \notin S,
         NEW r \in {Append(q, l), <<l>> \o q}
  PROVE  Keeps(r, ch, C, S \union {l})
<1>1. q \in Seq(Lwps) /\ IsInjective(q) /\ ~Contains(q, l)
  BY DEF Keeps
<1>2. /\ r \in Seq(Lwps) /\ IsInjective(r)
      /\ \A m : Contains(r, m) <=> (Contains(q, m) \/ m = l)
  <2>1. CASE r = Append(q, l)
    BY <1>1, <2>1, AppendQueue
  <2>2. CASE r = <<l>> \o q
    BY <1>1, <2>2, PrependQueue
  <2> QED BY <2>1, <2>2
<1> QED BY <1>2 DEF Keeps

(* Some of the queue move to the chain of somebody who has none.           *)
LEMMA KeepsDequeued ==
  ASSUME NEW q, NEW ch, NEW C, NEW S, Keeps(q, ch, C, S),
         NEW c \in C, ch[c] = <<>>,
         NEW a \in Seq(Lwps), NEW b \in Seq(Lwps), IsInjective(a), IsInjective(b),
         \A m : Contains(q, m) <=> (Contains(a, m) \/ Contains(b, m)),
         \A m : ~(Contains(a, m) /\ Contains(b, m))
  PROVE  Keeps(b, [ch EXCEPT ![c] = a], C, S)
<1> DEFINE h == [ch EXCEPT ![c] = a]
<1>1. h \in [C -> Seq(Lwps)] /\ \A d \in C : h[d] = IF d = c THEN a ELSE ch[d]
  BY DEF Keeps
<1>2. \A m : ~Contains(ch[c], m)
  BY EmptyQueue
<1> HIDE DEF h
<1>3. \A l \in Lwps, d \in C :
        Contains(h[d], l) <=> (Contains(ch[d], l) \/ (d = c /\ Contains(a, l)))
  BY <1>1, <1>2
<1>4. \A d \in C : IsInjective(h[d])
  BY <1>1 DEF Keeps
<1>5. \A l \in Lwps : Contains(b, l) => l \in S /\ \A d \in C : ~Contains(h[d], l)
  BY <1>3 DEF Keeps
<1>6. \A l \in Lwps, d \in C : Contains(h[d], l) =>
        l \in S /\ \A e \in C : Contains(h[e], l) => d = e
  BY <1>3 DEF Keeps
<1>7. \A l \in S : l \in Lwps /\ (Contains(b, l) \/ \E d \in C : Contains(h[d], l))
  BY <1>3 DEF Keeps
<1> QED BY <1>1, <1>4, <1>5, <1>6, <1>7 DEF Keeps, h

(* The first of the queue goes to the front of a chain.                    *)
LEMMA KeepsTaken ==
  ASSUME NEW q, NEW ch, NEW C, NEW S, Keeps(q, ch, C, S),
         NEW c \in C, q # <<>>
  PROVE  /\ Head(q) \in Lwps /\ Contains(q, Head(q)) /\ ~Contains(Tail(q), Head(q))
         /\ \A m : m # Head(q) => (Contains(Tail(q), m) <=> Contains(q, m))
         /\ <<Head(q)>> \o ch[c] # <<>>
         /\ Keeps(Tail(q), [ch EXCEPT ![c] = <<Head(q)>> \o ch[c]], C, S)
<1> DEFINE w == Head(q)
           a == <<w>> \o ch[c]
           r == Tail(q)
           h == [ch EXCEPT ![c] = a]
<1>1. q \in Seq(Lwps) /\ IsInjective(q) /\ ch[c] \in Seq(Lwps) /\ IsInjective(ch[c])
  BY DEF Keeps
<1>2. /\ w \in Lwps /\ Contains(q, w) /\ r \in Seq(Lwps) /\ IsInjective(r)
      /\ ~Contains(r, w) /\ \A m : Contains(q, m) <=> (m = w \/ Contains(r, m))
  BY <1>1, TailQueue
<1>3. ~Contains(ch[c], w)
  BY <1>2 DEF Keeps
<1>4. /\ a \in Seq(Lwps) /\ IsInjective(a) /\ Len(a) = Len(ch[c]) + 1
      /\ \A m : Contains(a, m) <=> (Contains(ch[c], m) \/ m = w)
  BY <1>1, <1>2, <1>3, PrependQueue
<1>5. a # <<>>
  BY <1>4, EmptyQueue
<1>6. h \in [C -> Seq(Lwps)] /\ \A d \in C : h[d] = IF d = c THEN a ELSE ch[d]
  BY <1>4 DEF Keeps
<1> HIDE DEF h, w, a, r
<1>7. \A l \in Lwps, d \in C :
        Contains(h[d], l) <=> (Contains(ch[d], l) \/ (d = c /\ l = w))
  BY <1>4, <1>6
<1>8. \A d \in C : IsInjective(h[d])
  BY <1>4, <1>6 DEF Keeps
<1>9. \A l \in Lwps : Contains(r, l) => l \in S /\ \A d \in C : ~Contains(h[d], l)
  BY <1>2, <1>7 DEF Keeps
<1>10. \A l \in Lwps, d \in C : Contains(h[d], l) =>
         l \in S /\ \A e \in C : Contains(h[e], l) => d = e
  BY <1>2, <1>7 DEF Keeps
<1>11. \A l \in S : l \in Lwps /\ (Contains(r, l) \/ \E d \in C : Contains(h[d], l))
  BY <1>2, <1>7 DEF Keeps
<1>12. Keeps(r, h, C, S)
  BY <1>2, <1>6, <1>8, <1>9, <1>10, <1>11 DEF Keeps
<1> QED BY <1>2, <1>5, <1>12 DEF h, a, r, w

(* The first of a chain is woken.                                          *)
LEMMA KeepsWoken ==
  ASSUME NEW q, NEW ch, NEW C, NEW S, Keeps(q, ch, C, S),
         NEW c \in C, ch[c] # <<>>
  PROVE  /\ Head(ch[c]) \in S /\ Head(ch[c]) \in Lwps
         /\ Keeps(q, [ch EXCEPT ![c] = Tail(ch[c])], C, S \ {Head(ch[c])})
<1> DEFINE h == [ch EXCEPT ![c] = Tail(ch[c])]
           w == Head(ch[c])
<1>1. ch[c] \in Seq(Lwps) /\ IsInjective(ch[c])
  BY DEF Keeps
<1>2. /\ w \in Lwps /\ Contains(ch[c], w)
      /\ Tail(ch[c]) \in Seq(Lwps) /\ IsInjective(Tail(ch[c]))
      /\ ~Contains(Tail(ch[c]), w)
      /\ \A m : Contains(ch[c], m) <=> (m = w \/ Contains(Tail(ch[c]), m))
  BY <1>1, TailQueue
<1>3. h \in [C -> Seq(Lwps)] /\ \A d \in C : h[d] = IF d = c THEN Tail(ch[c]) ELSE ch[d]
  BY <1>2 DEF Keeps
<1> HIDE DEF h, w
<1>4. w \in S /\ ~Contains(q, w) /\ \A d \in C : Contains(ch[d], w) => d = c
  BY <1>2 DEF Keeps
<1>5. \A l \in Lwps, d \in C : Contains(h[d], l) <=> (Contains(ch[d], l) /\ l # w)
  BY <1>2, <1>3, <1>4
<1>6. \A d \in C : IsInjective(h[d])
  BY <1>2, <1>3 DEF Keeps
<1> QED BY <1>2, <1>3, <1>4, <1>5, <1>6 DEF Keeps, h, w

(* A signal takes a sleeper off the queue.                                 *)
LEMMA KeepsInterrupted ==
  ASSUME NEW q, NEW ch, NEW C, NEW S, Keeps(q, ch, C, S),
         NEW l \in Lwps
  PROVE  Keeps(slpdeque(q, l), ch, C, IF Contains(q, l) THEN S \ {l} ELSE S)
<1> DEFINE r == slpdeque(q, l)
<1>1. q \in Seq(Lwps) /\ IsInjective(q)
  BY DEF Keeps
<1>2. CASE ~Contains(q, l)
  BY <1>2 DEF slpdeque
<1>3. CASE Contains(q, l)
  <2>1. /\ r \in Seq(Lwps) /\ IsInjective(r) /\ ~Contains(r, l)
        /\ \A m : m # l => (Contains(r, m) <=> Contains(q, m))
    BY <1>1, SlpdequeQueue
  <2> HIDE DEF r
  <2>2. Keeps(r, ch, C, S \ {l})
    BY <1>3, <2>1 DEF Keeps
  <2> QED BY <1>3, <2>2 DEF r
<1> QED BY <1>2, <1>3

-----------------------------------------------------------------------------
(***************************************************************************)
(* Counts kept for each LWP, and their sum: the number of units.           *)
(***************************************************************************)

(* What the units are.                                                     *)
LEMMA UnitsAre ==
  ASSUME NEW S, NEW f \in [S -> Nat]
  PROVE  \A x : x \in Units(f) <=> \E l \in S : \E i \in 1 .. f[l] : x = <<l, i>>
<1>1. DOMAIN f = S
  OBVIOUS
<1>2. \A x : x \in Units(f) <=> \E l \in S : x \in {l} \X (1 .. f[l])
  BY <1>1 DEF Units
<1>3. \A x, l : x \in {l} \X (1 .. f[l]) <=> \E i \in 1 .. f[l] : x = <<l, i>>
  OBVIOUS
<1>4. TAKE x
<1> DEFINE P(l) == x \in {l} \X (1 .. f[l])
           R(l) == \E i \in 1 .. f[l] : x = <<l, i>>
<1>5. x \in Units(f) <=> \E l \in S : P(l)
  BY <1>2
<1>6. \A l : P(l) <=> R(l)
  BY <1>3
<1> HIDE DEF P, R
<1>7. x \in Units(f) <=> \E l \in S : R(l)
  BY <1>5, <1>6, Zenon
<1> QED BY <1>7 DEF R

(* There are finitely many of them.                                        *)
LEMMA UnitsFinite ==
  ASSUME NEW S, IsFiniteSet(S), NEW f \in [S -> Nat]
  PROVE  IsFiniteSet(Units(f)) /\ Cardinality(Units(f)) \in Nat
<1> DEFINE U == {{l} \X (1 .. f[l]) : l \in S}
           g == [l \in S |-> {l} \X (1 .. f[l])]
<1>1. Units(f) = UNION U
  BY DEF Units
<1>2. g \in Surjection(S, U)
  BY DEF Surjection
<1>3. IsFiniteSet(U)
  BY <1>2, FS_Surjection
<1>4. ASSUME NEW T \in U PROVE IsFiniteSet(T)
  <2>1. PICK l \in S : T = {l} \X (1 .. f[l])
    BY <1>4
  <2>2. IsFiniteSet({l}) /\ IsFiniteSet(1 .. f[l])
    <3>1. 1 \in Int /\ f[l] \in Int
      OBVIOUS
    <3> QED BY <3>1, FS_Singleton, FS_Interval, Zenon
  <2> QED BY <2>1, <2>2, FS_Product
<1> HIDE DEF U
<1>5. IsFiniteSet(Units(f))
  BY <1>1, <1>3, <1>4, FS_UNION
<1> QED BY <1>5, FS_CardinalityType

(* Where nothing is counted there are none.                                *)
LEMMA UnitsNone ==
  ASSUME NEW S, NEW f \in [S -> Nat], \A l \in S : f[l] = 0
  PROVE  Cardinality(Units(f)) = 0
<1>1. Units(f) = {}
  BY UnitsAre
<1> QED BY <1>1, FS_EmptySet

(* As many numbers as there are up to n.                                   *)
LEMMA UnitsOfOne ==
  ASSUME NEW l, NEW n \in Nat
  PROVE  IsFiniteSet({l} \X (1 .. n)) /\ Cardinality({l} \X (1 .. n)) = n
<1>1. /\ IsFiniteSet({l}) /\ Cardinality({l}) = 1
      /\ IsFiniteSet(1 .. n) /\ Cardinality(1 .. n) = n
  <2>1. 1 \in Int /\ n \in Int
    OBVIOUS
  <2>2. /\ IsFiniteSet(1 .. n)
        /\ Cardinality(1 .. n) = IF 1 > n THEN 0 ELSE n - 1 + 1
    BY <2>1, FS_Interval, Zenon
  <2>3. Cardinality(1 .. n) = n
    BY <2>2
  <2> QED BY <2>2, <2>3, FS_Singleton, Zenon
<1>2. /\ IsFiniteSet({l} \X (1 .. n))
      /\ Cardinality({l} \X (1 .. n)) = Cardinality({l}) * Cardinality(1 .. n)
  BY <1>1, FS_Product, Zenon
<1> QED BY <1>1, <1>2

(* One count is cleared: the sum loses what it was.                        *)
LEMMA UnitsCleared ==
  ASSUME NEW S, IsFiniteSet(S), NEW f \in [S -> Nat], NEW g \in [S -> Nat],
         NEW l \in S, g[l] = 0, \A m \in S : m # l => g[m] = f[m]
  PROVE  Cardinality(Units(g)) = Cardinality(Units(f)) - f[l]
<1> DEFINE D == {l} \X (1 .. f[l])
<1>1. IsFiniteSet(Units(f)) /\ Cardinality(Units(f)) \in Nat
  BY UnitsFinite
<1>2. IsFiniteSet(D) /\ Cardinality(D) = f[l]
  BY UnitsOfOne
<1>3. \A x : x \in D <=> \E i \in 1 .. f[l] : x = <<l, i>>
  OBVIOUS
<1> HIDE DEF D
<1>4. Units(g) = Units(f) \ D
  <2>1. ASSUME NEW x \in Units(g) PROVE x \in Units(f) \ D
    <3>0. PICK m \in S : \E i \in 1 .. g[m] : x = <<m, i>>
      BY UnitsAre
    <3>1. PICK i \in 1 .. g[m] : x = <<m, i>>
      BY <3>0
    <3>2. m # l /\ i \in 1 .. f[m]
      BY <3>1
    <3> QED BY <1>3, <3>1, <3>2, UnitsAre
  <2>2. ASSUME NEW x \in Units(f), x \notin D PROVE x \in Units(g)
    <3>0. PICK m \in S : \E i \in 1 .. f[m] : x = <<m, i>>
      BY UnitsAre
    <3>1. PICK i \in 1 .. f[m] : x = <<m, i>>
      BY <3>0
    <3>2. m # l
      BY <1>3, <2>2, <3>1
    <3> QED BY <3>1, <3>2, UnitsAre
  <2> QED BY <2>1, <2>2
<1>5. Units(f) \cap D = D
  BY <1>3, UnitsAre
<1> QED BY <1>1, <1>2, <1>4, <1>5, FS_Difference

(* One count changes, and the sum with it.                                 *)
LEMMA UnitsMoved ==
  ASSUME NEW S, IsFiniteSet(S), NEW f \in [S -> Nat], NEW g \in [S -> Nat],
         NEW l \in S, \A m \in S : m # l => g[m] = f[m]
  PROVE  Cardinality(Units(g)) = Cardinality(Units(f)) + g[l] - f[l]
<1> DEFINE k == [f EXCEPT ![l] = 0]
<1>1. k \in [S -> Nat] /\ k[l] = 0 /\ \A m \in S : m # l => k[m] = f[m] /\ k[m] = g[m]
  OBVIOUS
<1> HIDE DEF k
<1>2. Cardinality(Units(k)) = Cardinality(Units(f)) - f[l]
  BY <1>1, UnitsCleared
<1>3. Cardinality(Units(k)) = Cardinality(Units(g)) - g[l]
  BY <1>1, UnitsCleared
<1>4. Cardinality(Units(f)) \in Nat /\ Cardinality(Units(g)) \in Nat /\ f[l] \in Nat
      /\ g[l] \in Nat
  BY UnitsFinite
<1> QED BY <1>2, <1>3, <1>4

(* What is counted for one is part of the sum.                             *)
LEMMA UnitsPart ==
  ASSUME NEW S, IsFiniteSet(S), NEW f \in [S -> Nat], NEW l \in S
  PROVE  f[l] <= Cardinality(Units(f))
<1>1. {l} \X (1 .. f[l]) \subseteq Units(f)
  BY UnitsAre
<1>2. IsFiniteSet(Units(f))
  BY UnitsFinite
<1>3. Cardinality({l} \X (1 .. f[l])) <= Cardinality(Units(f))
  BY <1>1, <1>2, FS_Subset
<1> QED BY <1>3, UnitsOfOne

(* One more for each of a queue: the sum grows by its length.              *)
OneMore(S, q, f, g) ==
  \A l \in S : g[l] = IF Contains(q, l) THEN f[l] + 1 ELSE f[l]

LEMMA UnitsCounted ==
  ASSUME NEW S, IsFiniteSet(S), NEW f \in [S -> Nat], NEW g \in [S -> Nat],
         NEW q \in Seq(S), IsInjective(q), OneMore(S, q, f, g)
  PROVE  Cardinality(Units(g)) = Cardinality(Units(f)) + Len(q)
<1>0. \A l \in S : g[l] = IF Contains(q, l) THEN f[l] + 1 ELSE f[l]
  BY DEF OneMore
<1> DEFINE N == 1 .. Len(q)
           b == [i \in N |-> <<q[i], f[q[i]] + 1>>]
           T == {b[i] : i \in N}
<1>1. Len(q) \in Nat /\ DOMAIN q = N /\ \A i \in N : q[i] \in S
  BY LenProperties
<1>2. IsFiniteSet(N) /\ Cardinality(N) = Len(q)
  <2> DEFINE k == Len(q)
  <2>1. k \in Nat /\ 1 \in Int /\ k \in Int
    BY <1>1
  <2> HIDE DEF k
  <2>2. IsFiniteSet(1 .. k) /\ Cardinality(1 .. k) = IF 1 > k THEN 0 ELSE k - 1 + 1
    BY <2>1, FS_Interval, Zenon
  <2>3. Cardinality(1 .. k) = k
    BY <2>1, <2>2
  <2> QED BY <2>2, <2>3 DEF k
<1> HIDE DEF N
<1>3. b \in Bijection(N, T)
  <2>1. b \in [N -> T] /\ \A t \in T : \E i \in N : b[i] = t
    OBVIOUS
  <2>2. \A i, j \in N : b[i] = b[j] => i = j
    BY <1>1 DEF IsInjective
  <2> HIDE DEF b, T
  <2> QED BY <2>1, <2>2 DEF Bijection, Injection, Surjection, IsInjective
<1>4. IsFiniteSet(T) /\ Cardinality(T) = Len(q)
  BY <1>2, <1>3, FS_Bijection DEF ExistsBijection
<1>5. \A x : x \in T <=> \E l \in S : Contains(q, l) /\ x = <<l, f[l] + 1>>
  <2>1. \A x : x \in T <=> \E i \in N : x = <<q[i], f[q[i]] + 1>>
    OBVIOUS
  <2> HIDE DEF T
  <2>2. \A l : Contains(q, l) <=> \E i \in N : q[i] = l
    BY <1>1 DEF Contains, N
  <2>3. ASSUME NEW x, NEW i \in N, x = <<q[i], f[q[i]] + 1>>
        PROVE  \E l \in S : Contains(q, l) /\ x = <<l, f[l] + 1>>
    <3>1. q[i] \in S /\ Contains(q, q[i])
      BY <1>1, <2>2
    <3> QED BY <2>3, <3>1
  <2>4. ASSUME NEW x, NEW l \in S, Contains(q, l), x = <<l, f[l] + 1>>
        PROVE  \E i \in N : x = <<q[i], f[q[i]] + 1>>
    <3>1. PICK i \in N : q[i] = l
      BY <2>2, <2>4
    <3> QED BY <2>4, <3>1
  <2> QED BY <2>1, <2>3, <2>4
<1> HIDE DEF T
<1>6. Units(g) = Units(f) \cup T
  <2>1. ASSUME NEW x \in Units(g) PROVE x \in Units(f) \cup T
    <3>0. PICK l \in S : \E i \in 1 .. g[l] : x = <<l, i>>
      BY UnitsAre
    <3>1. PICK i \in 1 .. g[l] : x = <<l, i>>
      BY <3>0
    <3>2. i \in 1 .. f[l] \/ (Contains(q, l) /\ i = f[l] + 1)
      <4>1. f[l] \in Nat /\ (g[l] = f[l] \/ (Contains(q, l) /\ g[l] = f[l] + 1))
        BY <1>0
      <4> QED BY <3>1, <4>1
    <3>3. CASE i \in 1 .. f[l]
      BY <3>1, <3>3, UnitsAre
    <3>4. CASE Contains(q, l) /\ i = f[l] + 1
      BY <1>5, <3>1, <3>4
    <3> QED BY <3>2, <3>3, <3>4
  <2>2. ASSUME NEW x \in Units(f) PROVE x \in Units(g)
    <3>0. PICK l \in S : \E i \in 1 .. f[l] : x = <<l, i>>
      BY UnitsAre
    <3>1. PICK i \in 1 .. f[l] : x = <<l, i>>
      BY <3>0
    <3>2. i \in 1 .. g[l]
      <4>1. f[l] \in Nat /\ (g[l] = f[l] \/ g[l] = f[l] + 1)
        BY <1>0
      <4> QED BY <3>1, <4>1
    <3> QED BY <3>1, <3>2, UnitsAre
  <2>3. ASSUME NEW x \in T PROVE x \in Units(g)
    <3>1. PICK l \in S : Contains(q, l) /\ x = <<l, f[l] + 1>>
      BY <1>5
    <3>2. f[l] + 1 \in 1 .. g[l]
      BY <1>0, <3>1
    <3>3. \E m \in S : \E i \in 1 .. g[m] : x = <<m, i>>
      BY <3>1, <3>2, Zenon
    <3> QED BY <3>3, UnitsAre
  <2> QED BY <2>1, <2>2, <2>3
<1>7. Units(f) \cap T = {}
  <2>1. ASSUME NEW x \in Units(f), x \in T PROVE FALSE
    <3>0. PICK l \in S : \E i \in 1 .. f[l] : x = <<l, i>>
      BY UnitsAre
    <3>1. PICK i \in 1 .. f[l] : x = <<l, i>>
      BY <3>0
    <3>2. PICK m \in S : x = <<m, f[m] + 1>>
      BY <1>5, <2>1
    <3>3. l = m /\ i = f[l] + 1
      BY <3>1, <3>2
    <3> QED BY <3>3
  <2> QED BY <2>1
<1>8. IsFiniteSet(Units(f)) /\ Cardinality(Units(f)) \in Nat
  BY UnitsFinite
<1>9. Cardinality({}) = 0
  BY FS_EmptySet
<1>10. Cardinality(Units(g)) = Cardinality(Units(f)) + Cardinality(T)
                                 - Cardinality(Units(f) \cap T)
  BY <1>4, <1>6, <1>8, FS_Union, Zenon
<1>11. Cardinality(Units(f) \cap T) = 0 /\ Cardinality(T) = Len(q)
  BY <1>4, <1>7, <1>9, Zenon
<1> HIDE DEF b
<1> QED BY <1>1, <1>8, <1>10, <1>11

-----------------------------------------------------------------------------
(***************************************************************************)
(* Counts kept for each process, of the LWPs of it that are in a set B.    *)
(***************************************************************************)
CountsOf(n, P, Q, B) ==
  n \in [Q -> Int] /\ \A p \in Q : n[p] = Cardinality({m \in B : P[m] = p})

(* Nobody is counted at first.                                             *)
LEMMA CountsNobody ==
  ASSUME NEW P, NEW Q
  PROVE  CountsOf([p \in Q |-> 0], P, Q, {})
<1>1. \A p : {m \in {} : P[m] = p} = {}
  OBVIOUS
<1> QED BY <1>1, FS_EmptySet DEF CountsOf

(* One LWP more.                                                           *)
LEMMA CountsMore ==
  ASSUME NEW B \in SUBSET Lwps, NEW P, NEW Q, NEW n, CountsOf(n, P, Q, B),
         NEW l \in Lwps, l \notin B, P[l] \in Q
  PROVE  CountsOf([n EXCEPT ![P[l]] = @ + 1], P, Q, B \union {l})
<1> DEFINE k == [n EXCEPT ![P[l]] = @ + 1]
<1>1. k \in [Q -> Int] /\ \A p \in Q : k[p] = IF p = P[l] THEN n[p] + 1 ELSE n[p]
  BY DEF CountsOf
<1> HIDE DEF k
<1>2. ASSUME NEW p \in Q PROVE k[p] = Cardinality({m \in B \union {l} : P[m] = p})
  <2> DEFINE T == {m \in B : P[m] = p}
  <2>1. n[p] = Cardinality(T) /\ T \subseteq Lwps /\ l \notin T
    BY DEF CountsOf
  <2>2. IsFiniteSet(T)
    BY <2>1, LwpAssumption, FS_Subset
  <2>3. CASE p = P[l]
    <3>1. {m \in B \union {l} : P[m] = p} = T \cup {l}
      BY <2>3
    <3>2. Cardinality(T \cup {l}) = Cardinality(T) + 1
      BY <2>1, <2>2, <2>3, FS_AddElement
    <3> HIDE DEF T
    <3> QED BY <1>1, <2>1, <2>3, <3>1, <3>2
  <2>4. CASE p # P[l]
    <3>1. {m \in B \union {l} : P[m] = p} = T
      BY <2>4
    <3> HIDE DEF T
    <3> QED BY <1>1, <2>1, <2>4, <3>1
  <2> QED BY <2>3, <2>4
<1> QED BY <1>1, <1>2 DEF CountsOf, k

(* One LWP less.                                                           *)
LEMMA CountsLess ==
  ASSUME NEW B \in SUBSET Lwps, NEW P, NEW Q, NEW n, CountsOf(n, P, Q, B),
         NEW l \in B, P[l] \in Q
  PROVE  CountsOf([n EXCEPT ![P[l]] = @ + -1], P, Q, B \ {l})
<1> DEFINE k == [n EXCEPT ![P[l]] = @ + -1]
<1>1. k \in [Q -> Int] /\ \A p \in Q : k[p] = IF p = P[l] THEN n[p] - 1 ELSE n[p]
  BY DEF CountsOf
<1> HIDE DEF k
<1>2. ASSUME NEW p \in Q PROVE k[p] = Cardinality({m \in B \ {l} : P[m] = p})
  <2> DEFINE T == {m \in B : P[m] = p}
  <2>1. n[p] = Cardinality(T) /\ T \subseteq Lwps /\ (p = P[l] => l \in T)
    BY DEF CountsOf
  <2>2. IsFiniteSet(T)
    BY <2>1, LwpAssumption, FS_Subset
  <2>3. CASE p = P[l]
    <3>1. {m \in B \ {l} : P[m] = p} = T \ {l}
      BY <2>3
    <3>2. Cardinality(T \ {l}) = Cardinality(T) - 1
      BY <2>1, <2>2, <2>3, FS_RemoveElement
    <3> HIDE DEF T
    <3> QED BY <1>1, <2>1, <2>3, <3>1, <3>2
  <2>4. CASE p # P[l]
    <3>1. {m \in B \ {l} : P[m] = p} = T
      BY <2>4
    <3> HIDE DEF T
    <3> QED BY <1>1, <2>1, <2>4, <3>1
  <2> QED BY <2>3, <2>4
<1> QED BY <1>1, <1>2 DEF CountsOf, k
-----------------------------------------------------------------------------
(* A post leaves the state of LWPs well typed.                             *)
LEMMA PostTypes ==
  ASSUME LwpTypeOK, NEW t \in Lwps, NEW c \in Ctxs, PostSignal(t, c)
  PROVE  LwpTypeOK'
<1>1. CASE Interruptible(t)
  BY <1>1 DEF PostSignal, LockMutex, LwpTypeOK
<1>2. CASE ~Interruptible(t)
  BY <1>2 DEF PostSignal, LwpTypeOK
<1> QED BY <1>1, <1>2

-----------------------------------------------------------------------------
(***************************************************************************)
(* The protocol of condition variables and events, which signals interrupt *)
(* as well: pc, tg and ch say where each context is, whom it takes off the *)
(* queue for a signal and whom it has dequeued to wake; mu and st are the  *)
(* l_mutex and l_stat of the LWPs, and M the points at which an LWP holds  *)
(* its own l_mutex, the last of them "sleep".                              *)
(***************************************************************************)
Drowsy(pc, st) == {l \in Lwps : pc[l] = "sleep" \/ st[l] = "SSLEEP"}

(* A poster keeps the l_mutex of the sleeper it is about to dequeue, and   *)
(* the sleeper its own until it sleeps.                                    *)
Attended(q, ch, pc, tg, mu, st, M) ==
  /\ Keeps(q, ch, Ctxs, Drowsy(pc, st))
  /\ \A c \in Ctxs : ch[c] # <<>> <=> pc[c] = "wake"
  /\ \A l \in Lwps : st[l] = "SONPROC" <=> pc[l] # "asleep"
  /\ \A l \in Lwps : pc[l] \in M => mu[l] = l
  /\ \A c \in Ctxs : pc[c] = "unsleep" => tg[c] \in Lwps /\ mu[tg[c]] = c /\ st[tg[c]] = "SSLEEP"
  /\ "sleep" \in M /\ M \cap {"asleep", "unsleep", "wake", "idle"} = {}

RestPcs == {"sleep", "asleep", "unsleep"}

(* At first all are idle.                                                  *)
LEMMA AttendedAtFirst ==
  ASSUME NEW M, "sleep" \in M, M \cap {"asleep", "unsleep", "wake", "idle"} = {}, NEW tg
  PROVE  Attended(<<>>, [c \in Ctxs |-> <<>>], [c \in Ctxs |-> "idle"], tg,
                  [l \in Lwps |-> Nobody], [l \in Lwps |-> "SONPROC"], M)
<1> DEFINE pc == [c \in Ctxs |-> "idle"]
           st == [l \in Lwps |-> "SONPROC"]
           ch == [c \in Ctxs |-> <<>>]
<1>1. /\ \A c \in Ctxs : pc[c] = "idle" /\ ch[c] = <<>>
      /\ \A l \in Lwps : pc[l] = "idle" /\ st[l] = "SONPROC"
  BY DEF Ctxs
<1>2. Drowsy(pc, st) = {}
  BY <1>1 DEF Drowsy
<1>3. Keeps(<<>>, ch, Ctxs, Drowsy(pc, st))
  BY <1>2, KeepsNobody
<1> HIDE DEF pc, st, ch
<1>4. Attended(<<>>, ch, pc, tg, [l \in Lwps |-> Nobody], st, M)
  BY <1>1, <1>3 DEF Attended
<1> QED BY <1>4 DEF pc, st, ch

(* A step that has to do neither with a sleep nor with a wakeup; an LWP    *)
(* may take or release its own l_mutex in it.                              *)
LEMMA AttendedMove ==
  ASSUME NEW q, NEW ch, NEW T, NEW pc \in [Ctxs -> T], NEW st, NEW M,
         NEW tg \in [Ctxs -> Lwps \union {Nobody}], NEW mu \in [Lwps -> Ctxs \union {Nobody}],
         Attended(q, ch, pc, tg, mu, st, M),
         NEW c \in Ctxs, NEW p, NEW t, NEW m,
         pc[c] \notin RestPcs, pc[c] # "wake", p \notin RestPcs \union {"wake"},
         p \in M => m = c
  PROVE  Attended(q, ch, [pc EXCEPT ![c] = p], [tg EXCEPT ![c] = t], [mu EXCEPT ![c] = m],
                  st, M)
<1> DEFINE pd == [pc EXCEPT ![c] = p]
           th == [tg EXCEPT ![c] = t]
           mv == [mu EXCEPT ![c] = m]
<1>1. /\ \A d \in Ctxs : /\ pd[d] = IF d = c THEN p ELSE pc[d]
                         /\ th[d] = IF d = c THEN t ELSE tg[d]
      /\ \A l \in Lwps : mv[l] = IF l = c THEN m ELSE mu[l]
  OBVIOUS
<1> HIDE DEF pd, th, mv
<1>2. Lwps \subseteq Ctxs
  BY DEF Ctxs
<1>3. Drowsy(pd, st) = Drowsy(pc, st)
  BY <1>1, <1>2 DEF Drowsy, RestPcs
<1>4. \A d \in Ctxs : pc[d] = "unsleep" => tg[d] # c
  BY <1>2 DEF Attended, RestPcs
<1>5. Attended(q, ch, pd, th, mv, st, M)
  BY <1>1, <1>2, <1>3, <1>4 DEF Attended, RestPcs
<1> QED BY <1>5 DEF pd, th, mv

(* An LWP queues.                                                          *)
LEMMA AttendedQueued ==
  ASSUME NEW q, NEW ch, NEW T, NEW pc \in [Ctxs -> T], NEW tg, NEW mu, NEW st, NEW M,
         Attended(q, ch, pc, tg, mu, st, M),
         NEW l \in Lwps, pc[l] \in M, pc[l] # "sleep"
  PROVE  /\ Attended(Append(q, l), ch, [pc EXCEPT ![l] = "sleep"], tg, mu, st, M)
         /\ l \notin Drowsy(pc, st)
<1> DEFINE pd == [pc EXCEPT ![l] = "sleep"]
<1>1. \A d \in Ctxs : pd[d] = IF d = l THEN "sleep" ELSE pc[d]
  OBVIOUS
<1> HIDE DEF pd
<1>2. Lwps \subseteq Ctxs
  BY DEF Ctxs
<1>3. pc[l] \notin RestPcs \union {"wake"} /\ l \notin Drowsy(pc, st)
  BY DEF Attended, RestPcs, Drowsy
<1>4. Drowsy(pd, st) = Drowsy(pc, st) \union {l}
  BY <1>1, <1>2 DEF Drowsy
<1>5. Keeps(Append(q, l), ch, Ctxs, Drowsy(pd, st))
  <2>1. Keeps(q, ch, Ctxs, Drowsy(pc, st))
    BY DEF Attended
  <2>2. Append(q, l) \in {Append(q, l), <<l>> \o q}
    OBVIOUS
  <2>3. Keeps(Append(q, l), ch, Ctxs, Drowsy(pc, st) \union {l})
    BY <1>3, <2>1, <2>2, KeepsQueued
  <2> QED BY <1>4, <2>3
<1>6. Attended(Append(q, l), ch, pd, tg, mu, st, M)
  BY <1>1, <1>2, <1>3, <1>5 DEF Attended, RestPcs
<1> QED BY <1>3, <1>6 DEF pd

(* It sleeps, and its l_mutex is released.                                 *)
LEMMA AttendedSlept ==
  ASSUME NEW q, NEW ch, NEW T, NEW pc \in [Ctxs -> T], NEW tg, NEW U, NEW st \in [Lwps -> U],
         NEW mu \in [Lwps -> Ctxs \union {Nobody}], NEW M,
         Attended(q, ch, pc, tg, mu, st, M),
         NEW l \in Lwps, pc[l] = "sleep"
  PROVE  Attended(q, ch, [pc EXCEPT ![l] = "asleep"], tg, [mu EXCEPT ![l] = Nobody],
                  [st EXCEPT ![l] = "SSLEEP"], M)
<1> DEFINE pd == [pc EXCEPT ![l] = "asleep"]
           mv == [mu EXCEPT ![l] = Nobody]
           su == [st EXCEPT ![l] = "SSLEEP"]
<1>1. /\ \A d \in Ctxs : pd[d] = IF d = l THEN "asleep" ELSE pc[d]
      /\ \A k \in Lwps : /\ mv[k] = IF k = l THEN Nobody ELSE mu[k]
                         /\ su[k] = IF k = l THEN "SSLEEP" ELSE st[k]
  OBVIOUS
<1> HIDE DEF pd, mv, su
<1>2. Lwps \subseteq Ctxs
  BY DEF Ctxs
<1>3. Drowsy(pd, su) = Drowsy(pc, st)
  BY <1>1, <1>2 DEF Drowsy
<1>4. \A d \in Ctxs : pc[d] = "unsleep" => tg[d] # l
  BY DEF Attended
<1>5. Attended(q, ch, pd, tg, mv, su, M)
  BY <1>1, <1>2, <1>3, <1>4 DEF Attended
<1> QED BY <1>5 DEF pd, mv, su

(* An LWP that was made runnable runs.                                     *)
LEMMA AttendedResumed ==
  ASSUME NEW q, NEW ch, NEW T, NEW pc \in [Ctxs -> T], NEW tg, NEW U, NEW st \in [Lwps -> U],
         NEW mu, NEW M, Attended(q, ch, pc, tg, mu, st, M),
         NEW l \in Lwps, pc[l] = "asleep", st[l] = "SRUN", NEW p,
         p \notin RestPcs \union M \union {"wake"}
  PROVE  /\ Attended(q, ch, [pc EXCEPT ![l] = p], tg, mu, [st EXCEPT ![l] = "SONPROC"], M)
         /\ ~Contains(q, l) /\ \A c \in Ctxs : ~Contains(ch[c], l)
<1> DEFINE pd == [pc EXCEPT ![l] = p]
           su == [st EXCEPT ![l] = "SONPROC"]
<1>1. /\ \A d \in Ctxs : pd[d] = IF d = l THEN p ELSE pc[d]
      /\ \A k \in Lwps : su[k] = IF k = l THEN "SONPROC" ELSE st[k]
  OBVIOUS
<1> HIDE DEF pd, su
<1>2. Lwps \subseteq Ctxs
  BY DEF Ctxs
<1>3. Drowsy(pd, su) = Drowsy(pc, st) /\ l \notin Drowsy(pc, st)
  BY <1>1, <1>2 DEF Drowsy, RestPcs
<1>4. \A d \in Ctxs : pc[d] = "unsleep" => tg[d] # l
  BY DEF Attended
<1>5. Attended(q, ch, pd, tg, mu, su, M)
  BY <1>1, <1>2, <1>3, <1>4 DEF Attended, RestPcs
<1>6. ~Contains(q, l) /\ \A c \in Ctxs : ~Contains(ch[c], l)
  BY <1>3 DEF Attended, Keeps
<1> QED BY <1>5, <1>6 DEF pd, su

(* A waker takes the front of the queue, a, or all of it.                  *)
LEMMA AttendedTaken ==
  ASSUME NEW q, NEW ch, NEW T, NEW pc \in [Ctxs -> T], NEW tg, NEW mu, NEW st, NEW M,
         Attended(q, ch, pc, tg, mu, st, M),
         NEW c \in Ctxs, pc[c] = "idle",
         NEW a \in Seq(Lwps), NEW b \in Seq(Lwps), a # <<>>, IsInjective(a), IsInjective(b),
         \A m : Contains(q, m) <=> (Contains(a, m) \/ Contains(b, m)),
         \A m : ~(Contains(a, m) /\ Contains(b, m))
  PROVE  Attended(b, [ch EXCEPT ![c] = a], [pc EXCEPT ![c] = "wake"], tg, mu, st, M)
<1> DEFINE pd == [pc EXCEPT ![c] = "wake"]
           ci == [ch EXCEPT ![c] = a]
<1>0. Keeps(q, ch, Ctxs, Drowsy(pc, st)) /\ ch[c] = <<>> /\ ch \in [Ctxs -> Seq(Lwps)]
  BY DEF Attended, Keeps
<1>1. /\ \A d \in Ctxs : pd[d] = IF d = c THEN "wake" ELSE pc[d]
      /\ \A d \in Ctxs : ci[d] = IF d = c THEN a ELSE ch[d]
  BY <1>0
<1>2. Keeps(b, ci, Ctxs, Drowsy(pc, st))
  BY <1>0, KeepsDequeued
<1> HIDE DEF pd, ci
<1>3. Lwps \subseteq Ctxs
  BY DEF Ctxs
<1>4. Drowsy(pd, st) = Drowsy(pc, st)
  BY <1>1, <1>3 DEF Drowsy
<1>5. Attended(b, ci, pd, tg, mu, st, M)
  BY <1>1, <1>2, <1>3, <1>4 DEF Attended
<1> QED BY <1>5 DEF pd, ci

(* Of a queue that has a head: its head, and all of it.                    *)
LEMMA TakenParts ==
  ASSUME NEW q \in Seq(Lwps), IsInjective(q), q # <<>>
  PROVE  /\ <<Head(q)>> \in Seq(Lwps) /\ <<Head(q)>> # <<>> /\ IsInjective(<<Head(q)>>)
         /\ Tail(q) \in Seq(Lwps) /\ IsInjective(Tail(q))
         /\ \A m : Contains(q, m) <=> (Contains(<<Head(q)>>, m) \/ Contains(Tail(q), m))
         /\ \A m : ~(Contains(<<Head(q)>>, m) /\ Contains(Tail(q), m))
         /\ \A m : Contains(<<Head(q)>>, m) <=> m = Head(q)
<1>1. /\ Head(q) \in Lwps /\ Tail(q) \in Seq(Lwps) /\ IsInjective(Tail(q))
      /\ ~Contains(Tail(q), Head(q))
      /\ \A m : Contains(q, m) <=> (m = Head(q) \/ Contains(Tail(q), m))
  BY TailQueue
<1> DEFINE h == Head(q)
           s == <<h>>
<1>2. s \in Seq(Lwps) /\ Len(s) = 1 /\ s[1] = h /\ DOMAIN s = 1 .. 1
  BY <1>1
<1> HIDE DEF s
<1>3. s # <<>> /\ IsInjective(s) /\ \A m : Contains(s, m) <=> m = h
  <2>1. s # <<>>
    <3>1. Len(s) # 0
      BY <1>2
    <3> QED BY <3>1, <1>2, EmptySeq
  <2>2. \A i \in 1 .. 1 : i = 1
    OBVIOUS
  <2>3. \A m : Contains(s, m) <=> m = h
    BY <1>2, <2>2 DEF Contains
  <2>4. IsInjective(s)
    BY <1>2, <2>2 DEF IsInjective
  <2> QED BY <2>1, <2>3, <2>4
<1> QED BY <1>1, <1>2, <1>3 DEF s

(* The first of the chain of a waker that can have its l_mutex.            *)
LEMMA AttendedHead ==
  ASSUME NEW q, NEW ch, NEW pc, NEW tg, NEW mu, NEW st, NEW M,
         Attended(q, ch, pc, tg, mu, st, M),
         NEW c \in Ctxs, pc[c] = "wake", mu[Head(ch[c])] = Nobody
  PROVE  /\ Head(ch[c]) \in Lwps /\ Contains(ch[c], Head(ch[c])) /\ pc[Head(ch[c])] = "asleep"
         /\ \A k \in Lwps : k # Head(ch[c]) =>
              (Contains(Tail(ch[c]), k) <=> Contains(ch[c], k))
<1>1. Keeps(q, ch, Ctxs, Drowsy(pc, st)) /\ ch[c] # <<>> /\ ch[c] \in Seq(Lwps)
      /\ IsInjective(ch[c])
  BY DEF Attended, Keeps
<1>2. PICK w \in Lwps : /\ w = Head(ch[c]) /\ Contains(ch[c], w)
                        /\ \A k : k # w => (Contains(Tail(ch[c]), k) <=> Contains(ch[c], k))
  BY <1>1, TailQueue
<1>3. w \in Drowsy(pc, st)
  BY <1>1, <1>2 DEF Keeps
<1>4. mu[w] = Nobody /\ Nobody \notin Ctxs /\ w \in Ctxs
  BY <1>2, LwpAssumption DEF Ctxs
<1>5. pc[w] = "asleep"
  BY <1>3, <1>4 DEF Drowsy, Attended
<1> QED BY <1>2, <1>5

(* A waker makes the first of its chain runnable, and comes to the next.   *)
LEMMA AttendedWoken ==
  ASSUME NEW q, NEW ch, NEW T, NEW pc \in [Ctxs -> T], NEW tg, NEW mu, NEW M,
         NEW U, NEW st \in [Lwps -> U], Attended(q, ch, pc, tg, mu, st, M),
         NEW c \in Ctxs, pc[c] = "wake", mu[Head(ch[c])] = Nobody
  PROVE  Attended(q, [ch EXCEPT ![c] = Tail(ch[c])],
                  [pc EXCEPT ![c] = IF Tail(ch[c]) = <<>> THEN "idle" ELSE "wake"],
                  tg, mu, [st EXCEPT ![Head(ch[c])] = "SRUN"], M)
<1> DEFINE w == Head(ch[c])
           r == Tail(ch[c])
           p == IF r = <<>> THEN "idle" ELSE "wake"
           pd == [pc EXCEPT ![c] = p]
           ci == [ch EXCEPT ![c] = r]
           su == [st EXCEPT ![w] = "SRUN"]
<1>0. Keeps(q, ch, Ctxs, Drowsy(pc, st)) /\ ch[c] # <<>> /\ ch \in [Ctxs -> Seq(Lwps)]
  BY DEF Attended, Keeps
<1>1. w \in Drowsy(pc, st) /\ w \in Lwps /\ Keeps(q, ci, Ctxs, Drowsy(pc, st) \ {w})
  BY <1>0, KeepsWoken
<1>2. /\ \A d \in Ctxs : /\ pd[d] = IF d = c THEN p ELSE pc[d]
                         /\ ci[d] = IF d = c THEN r ELSE ch[d]
      /\ \A k \in Lwps : su[k] = IF k = w THEN "SRUN" ELSE st[k]
  BY <1>0
<1>3. p \in {"idle", "wake"} /\ (p = "wake" <=> r # <<>>)
  OBVIOUS
<1>4. mu[w] = Nobody
  OBVIOUS
<1> HIDE DEF w, r, p, pd, ci, su
<1>5. Lwps \subseteq Ctxs /\ Nobody \notin Ctxs
  BY LwpAssumption DEF Ctxs
<1>6. pc[w] # "sleep" /\ st[w] = "SSLEEP" /\ pc[w] = "asleep"
  BY <1>1, <1>4, <1>5 DEF Drowsy, Attended
<1>7. \A d \in Ctxs : pc[d] = "unsleep" => tg[d] # w
  BY <1>4, <1>5 DEF Attended
<1>8. Drowsy(pd, su) = Drowsy(pc, st) \ {w}
  BY <1>2, <1>3, <1>5, <1>6 DEF Drowsy
<1>9. \A d \in Ctxs : ci[d] # <<>> <=> pd[d] = "wake"
  BY <1>2, <1>3 DEF Attended
<1>10. \A l \in Lwps : /\ su[l] = "SONPROC" <=> pd[l] # "asleep"
                       /\ pd[l] \in M => mu[l] = l
  BY <1>2, <1>3, <1>5, <1>6 DEF Attended
<1>11. \A d \in Ctxs : pd[d] = "unsleep" =>
         tg[d] \in Lwps /\ mu[tg[d]] = d /\ su[tg[d]] = "SSLEEP"
  BY <1>2, <1>3, <1>7 DEF Attended
<1>12. Attended(q, ci, pd, tg, mu, su, M)
  BY <1>1, <1>8, <1>9, <1>10, <1>11 DEF Attended
<1> QED BY <1>12 DEF w, r, p, pd, ci, su

(* A poster marks an interruptible sleeper and keeps its l_mutex.          *)
LEMMA AttendedPosted ==
  ASSUME NEW q, NEW ch, NEW T, NEW pc \in [Ctxs -> T], NEW st, NEW M,
         NEW tg \in [Ctxs -> Lwps \union {Nobody}], NEW mu \in [Lwps -> Ctxs \union {Nobody}],
         Attended(q, ch, pc, tg, mu, st, M),
         NEW c \in Ctxs, pc[c] \notin RestPcs, pc[c] # "wake",
         NEW t \in Lwps, mu[t] = Nobody, st[t] = "SSLEEP"
  PROVE  /\ Attended(q, ch, [pc EXCEPT ![c] = "unsleep"], [tg EXCEPT ![c] = t],
                     [mu EXCEPT ![t] = c], st, M)
         /\ pc[t] = "asleep"
<1> DEFINE pd == [pc EXCEPT ![c] = "unsleep"]
           th == [tg EXCEPT ![c] = t]
           mv == [mu EXCEPT ![t] = c]
<1>1. /\ \A d \in Ctxs : /\ pd[d] = IF d = c THEN "unsleep" ELSE pc[d]
                         /\ th[d] = IF d = c THEN t ELSE tg[d]
      /\ \A k \in Lwps : mv[k] = IF k = t THEN c ELSE mu[k]
  OBVIOUS
<1> HIDE DEF pd, th, mv
<1>2. Lwps \subseteq Ctxs /\ Nobody \notin Ctxs
  BY LwpAssumption DEF Ctxs
<1>3. Drowsy(pd, st) = Drowsy(pc, st)
  BY <1>1, <1>2 DEF Drowsy, RestPcs
<1>4. pc[t] = "asleep" /\ \A d \in Ctxs : pc[d] = "unsleep" => tg[d] # t
  BY <1>2 DEF Attended
<1>5. Attended(q, ch, pd, th, mv, st, M)
  BY <1>1, <1>2, <1>3, <1>4 DEF Attended, RestPcs
<1> QED BY <1>4, <1>5 DEF pd, th, mv

(* The poster takes the LWP off the queue if it is still there, and only   *)
(* then makes it runnable.                                                 *)
LEMMA AttendedUnslept ==
  ASSUME NEW q, NEW ch, NEW T, NEW pc \in [Ctxs -> T], NEW tg, NEW M,
         NEW mu \in [Lwps -> Ctxs \union {Nobody}], NEW U, NEW st \in [Lwps -> U], NEW tg2,
         Attended(q, ch, pc, tg, mu, st, M),
         NEW c \in Ctxs, pc[c] = "unsleep", NEW p,
         p \notin RestPcs \union M \union {"wake"},
         \A d \in Ctxs : d # c => tg2[d] = tg[d]
  PROVE  /\ Attended(slpdeque(q, tg[c]), ch, [pc EXCEPT ![c] = p], tg2,
                     [mu EXCEPT ![tg[c]] = Nobody],
                     [st EXCEPT ![tg[c]] = IF Contains(q, tg[c]) THEN "SRUN" ELSE @], M)
         /\ tg[c] \in Lwps /\ pc[tg[c]] = "asleep" /\ tg[c] # c
<1> DEFINE t == tg[c]
           pd == [pc EXCEPT ![c] = p]
           mv == [mu EXCEPT ![t] = Nobody]
           su == [st EXCEPT ![t] = IF Contains(q, t) THEN "SRUN" ELSE @]
<1>0. /\ t \in Lwps /\ mu[t] = c /\ st[t] = "SSLEEP" /\ pc[t] = "asleep" /\ t # c
      /\ Keeps(q, ch, Ctxs, Drowsy(pc, st))
  BY DEF Attended
<1>1. /\ \A d \in Ctxs : pd[d] = IF d = c THEN p ELSE pc[d]
      /\ \A k \in Lwps : /\ mv[k] = IF k = t THEN Nobody ELSE mu[k]
                         /\ su[k] = IF k = t /\ Contains(q, t) THEN "SRUN" ELSE st[k]
  OBVIOUS
<1>2. Keeps(slpdeque(q, t), ch, Ctxs,
            IF Contains(q, t) THEN Drowsy(pc, st) \ {t} ELSE Drowsy(pc, st))
  BY <1>0, KeepsInterrupted
<1>3. \A d \in Ctxs : pc[d] = "unsleep" /\ d # c => tg[d] # t
  BY <1>0 DEF Attended
<1> HIDE DEF pd, mv, su, t
<1>4. Lwps \subseteq Ctxs
  BY DEF Ctxs
<1>5. Drowsy(pd, su) = IF Contains(q, t) THEN Drowsy(pc, st) \ {t} ELSE Drowsy(pc, st)
  BY <1>0, <1>1, <1>4 DEF Drowsy, RestPcs
<1>6. \A d \in Ctxs : ch[d] # <<>> <=> pd[d] = "wake"
  BY <1>1 DEF Attended
<1>7. \A l \in Lwps : /\ su[l] = "SONPROC" <=> pd[l] # "asleep"
                      /\ pd[l] \in M => mv[l] = l
  BY <1>0, <1>1, <1>4 DEF Attended, RestPcs
<1>8. \A d \in Ctxs : pd[d] = "unsleep" =>
        tg2[d] \in Lwps /\ mv[tg2[d]] = d /\ su[tg2[d]] = "SSLEEP"
  BY <1>1, <1>3 DEF Attended, RestPcs
<1>9. Attended(slpdeque(q, t), ch, pd, tg2, mv, su, M)
  BY <1>2, <1>5, <1>6, <1>7, <1>8 DEF Attended
<1> QED BY <1>0, <1>9 DEF pd, mv, su, t
=============================================================================
