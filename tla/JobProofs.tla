----------------------------- MODULE JobProofs ------------------------------
(***************************************************************************)
(* Proofs about a job (MapReduceImpl): what a shard is, that every line is *)
(* mapped once, and that reduce gets exactly what map emitted.             *)
(*                                                                         *)
(* The operators of the model are recursive functions and folds over data  *)
(* of any size.  What they compute is proved by induction along the        *)
(* natural numbers, with the set of the numbers for which a fact holds in  *)
(* the place of the predicate (UpTo).                                      *)
(***************************************************************************)
EXTENDS MapReduceImpl, SequenceTheorems, FiniteSetTheorems, WellFoundedInduction, TLAPS

-----------------------------------------------------------------------------
(* Induction and recursion along the natural numbers *)

\* A nonempty set of natural numbers has a least member.
LEMMA Least ==
    ASSUME NEW S \in SUBSET Nat, S # {}
    PROVE  \E t \in S : \A u \in S : t <= u
  <1>1. PICK t \in S : \A u \in S : ~(<<u, t>> \in OpToRel(<, Nat))
    BY NatLessThanWellFounded, WFMin, Zenon
  <1>2. \A u \in S : ~(u < t)
    BY <1>1 DEF OpToRel
  <1> QED
    BY <1>2

\* A set with 0 and with the successor of each of its members below n has all
\* numbers up to n.
LEMMA UpTo ==
    ASSUME NEW n \in Nat, NEW S, 0 \in S, \A k \in 0 .. n - 1 : k \in S => k + 1 \in S
    PROVE  \A k \in 0 .. n : k \in S
  <1> DEFINE F == {k \in 0 .. n : k \notin S}
  <1> SUFFICES ASSUME F # {} PROVE FALSE
    OBVIOUS
  <1>1. F \in SUBSET Nat
    OBVIOUS
  <1>2. PICK m \in F : \A j \in F : m <= j
    <2> HIDE DEF F
    <2> QED
      BY <1>1, Least
  <1>3. m # 0
    OBVIOUS
  <1>4. m - 1 \in 0 .. n - 1 /\ m - 1 \notin F
    BY <1>2, <1>3
  <1>5. m - 1 \in S /\ (m - 1) + 1 = m
    BY <1>4
  <1> QED
    BY <1>4, <1>5

\* f starts at b, and its k-th step is g[k].
Iterates(f, n, T, b, g) ==
    /\ f \in [0 .. n -> T]
    /\ f[0] = b
    /\ \A k \in 1 .. n : f[k] = g[k][f[k - 1]]

\* There is a function with these steps.
LEMMA Recursion ==
    ASSUME NEW n \in Nat, NEW T, NEW b \in T, NEW g \in [1 .. n -> [T -> T]]
    PROVE  \E f : Iterates(f, n, T, b, g)
  <1> DEFINE Good(m, f) == f[0] = b /\ \A k \in 1 .. m : f[k] = g[k][f[k - 1]]
             S == {m \in 0 .. n : \E f \in [0 .. m -> T] : Good(m, f)}
  <1>1. 0 \in S
    <2>1. [k \in 0 .. 0 |-> b] \in [0 .. 0 -> T] /\ Good(0, [k \in 0 .. 0 |-> b])
      OBVIOUS
    <2>2. 0 \in 0 .. n
      OBVIOUS
    <2> HIDE DEF Good
    <2> QED
      BY <2>1, <2>2
  <1>2. ASSUME NEW m \in 0 .. n - 1, m \in S PROVE m + 1 \in S
    <2>1. PICK f \in [0 .. m -> T] : Good(m, f)
      BY <1>2
    <2> DEFINE x == g[m + 1][f[m]]
               h == [k \in 0 .. m + 1 |-> IF k = m + 1 THEN x ELSE f[k]]
    <2>2. f[m] \in T /\ m + 1 \in 1 .. n
      OBVIOUS
    <2>3. x \in T
      BY <2>2
    <2> HIDE DEF x
    <2>4. h \in [0 .. m + 1 -> T] /\ h[0] = b
      BY <2>1, <2>3
    <2>5. ASSUME NEW k \in 1 .. m + 1 PROVE h[k] = g[k][h[k - 1]]
      <3>1. CASE k = m + 1
        <4>1. h[k - 1] = f[m] /\ h[k] = x
          BY <3>1
        <4> QED
          BY <4>1, <3>1 DEF x
      <3>2. CASE k # m + 1
        <4>1. k \in 1 .. m /\ h[k] = f[k] /\ h[k - 1] = f[k - 1]
          BY <3>2
        <4> QED
          BY <4>1, <2>1
      <3> QED
        BY <3>1, <3>2
    <2> HIDE DEF h
    <2>6. Good(m + 1, h) /\ m + 1 \in 0 .. n
      BY <2>4, <2>5
    <2> HIDE DEF Good
    <2> QED
      BY <2>4, <2>6
  <1>3. n \in S
    <2>1. \A k \in 0 .. n : k \in S
      <3> HIDE DEF S
      <3> QED
        BY <1>1, <1>2, UpTo
    <2> HIDE DEF S
    <2> QED
      BY <2>1
  <1> QED
    BY <1>3 DEF Iterates

\* Two functions that start alike and step alike are alike.
StepAlike(f, h, n) ==
    /\ h[0] = f[0]
    /\ \A k \in 1 .. n : h[k - 1] = f[k - 1] => h[k] = f[k]

\* So they have the same values all the way up.
LEMMA SameSteps ==
    ASSUME NEW n \in Nat, NEW f, NEW h, StepAlike(f, h, n)
    PROVE  \A k \in 0 .. n : h[k] = f[k]
  <1> USE DEF StepAlike
  <1> DEFINE S == {k \in 0 .. n : h[k] = f[k]}
  <1>1. 0 \in S
    OBVIOUS
  <1>2. ASSUME NEW m \in 0 .. n - 1, m \in S PROVE m + 1 \in S
    <2>1. m + 1 \in 1 .. n /\ m + 1 \in 0 .. n /\ (m + 1) - 1 = m /\ h[m] = f[m]
      BY <1>2
    <2>2. h[(m + 1) - 1] = f[(m + 1) - 1]
      BY <2>1
    <2> QED
      BY <2>1, <2>2
  <1>3. \A m \in 0 .. n : m \in S
    <2> HIDE DEF S
    <2> QED
      BY <1>1, <1>2, UpTo
  <1> QED
    BY <1>3

-----------------------------------------------------------------------------
(* Flattening sequences of sequences *)

\* FlattenSeq step by step.
LEMMA FlattenSteps ==
    ASSUME NEW T, NEW ss \in Seq(Seq(T))
    PROVE  \E f \in [0 .. Len(ss) -> Seq(T)] :
               /\ f[0] = <<>>
               /\ \A k \in 1 .. Len(ss) : f[k] = f[k - 1] \o ss[k]
               /\ FlattenSeq(ss) = f[Len(ss)]
  <1> DEFINE n == Len(ss)
             b == <<>>
             U == Seq(T)
             g == [k \in 1 .. n |-> [x \in U |-> x \o ss[k]]]
  <1>1. n \in Nat /\ \A k \in 1 .. n : ss[k] \in Seq(T)
    OBVIOUS
  <1>2. g \in [1 .. n -> [U -> U]]
    <2> SUFFICES ASSUME NEW k \in 1 .. n, NEW x \in U PROVE x \o ss[k] \in U
      OBVIOUS
    <2> QED
      BY <1>1
  <1>3. b \in U
    OBVIOUS
  <1>0. PICK f : Iterates(f, n, U, b, g)
    <2>1. n \in Nat
      BY <1>1
    <2> HIDE DEF g, n, b, U
    <2> QED
      BY <2>1, <1>2, <1>3, Recursion
  <1>4. f \in [0 .. n -> U] /\ f[0] = b /\ \A k \in 1 .. n : f[k] = g[k][f[k - 1]]
    BY <1>0 DEF Iterates
  <1>5. ASSUME NEW k \in 1 .. n PROVE f[k - 1] \in U /\ f[k] = f[k - 1] \o ss[k]
    <2>1. k - 1 \in 0 .. n
      BY <1>1
    <2>2. f[k - 1] \in U
      <3> HIDE DEF n, U
      <3> QED
        BY <2>1, <1>4
    <2> QED
      BY <1>4, <2>2
  <1>7. n # 0 => f[1] = ss[1] /\ f[0] = <<>>
    <2> SUFFICES ASSUME n # 0 PROVE f[1] = ss[1] /\ f[0] = <<>>
      OBVIOUS
    <2>1. 1 \in 1 .. n /\ 1 - 1 = 0
      BY <1>1
    <2>2. f[1] = f[1 - 1] \o ss[1]
      BY <1>5, <2>1
    <2>3. f[1] = f[0] \o ss[1] /\ f[0] = b
      BY <2>1, <2>2, <1>4
    <2>4. ss[1] \in Seq(T)
      BY <1>1, <2>1
    <2> QED
      BY <2>3, <2>4
  <1>6. FlattenSeq(ss) = f[n]
    <2>1. CASE n = 0
      BY <2>1, <1>4 DEF FlattenSeq
    <2>2. CASE n # 0
      <3> DEFINE step(h) == [i \in 1 .. n |-> IF i = 1 THEN ss[i] ELSE h[i - 1] \o ss[i]]
                 h1 == [i \in 1 .. n |-> f[i]]
                 h2 == CHOOSE h : h = step(h)
      <3>1. h1 = step(h1)
        <4>1. ASSUME NEW i \in 1 .. n
              PROVE  f[i] = IF i = 1 THEN ss[i] ELSE h1[i - 1] \o ss[i]
          <5>1. CASE i = 1
            BY <5>1, <1>7, <2>2
          <5>2. CASE i # 1
            <6>1. i - 1 \in 1 .. n
              BY <5>2, <1>1
            <6> QED
              BY <6>1, <5>2, <1>5
          <5> QED
            BY <5>1, <5>2
        <4> QED
          BY <4>1
      <3>2. h2 = step(h2)
        <4> HIDE DEF step, h1
        <4> QED
          BY <3>1
      <3>3. FlattenSeq(ss) = h2[n]
        BY <2>2 DEF FlattenSeq
      <3> HIDE DEF h2
      <3> DEFINE h3 == [i \in 0 .. n |-> IF i = 0 THEN <<>> ELSE h2[i]]
      <3>4. h3[0] = f[0]
        BY <1>4, <1>1
      <3>5. ASSUME NEW k \in 1 .. n, h3[k - 1] = f[k - 1] PROVE h3[k] = f[k]
        <4>1. k \in 0 .. n /\ k - 1 \in 0 .. n /\ k # 0 /\ h3[k] = h2[k]
          BY <1>1
        <4>2. CASE k = 1
          <5>1. h2[k] = ss[k]
            BY <3>2, <4>2
          <5> QED
            BY <4>1, <4>2, <5>1, <1>7, <2>2
        <4>3. CASE k # 1
          <5>1. h2[k] = h2[k - 1] \o ss[k]
            BY <3>2, <4>3
          <5>2. h3[k - 1] = h2[k - 1]
            BY <4>1, <4>3
          <5> QED
            BY <4>1, <5>1, <5>2, <3>5, <1>5
        <4> QED
          BY <4>2, <4>3
      <3>6. \A k \in 0 .. n : h3[k] = f[k]
        <4> HIDE DEF h3, n
        <4>1. StepAlike(f, h3, n)
          BY <3>4, <3>5 DEF StepAlike
        <4> QED
          BY <1>1, <4>1, SameSteps
      <3>7. n \in 0 .. n /\ h3[n] = h2[n]
        BY <1>1, <2>2
      <3> QED
        BY <3>3, <3>6, <3>7
    <2> QED
      BY <2>1, <2>2
  <1> QED
    BY <1>4, <1>5, <1>6

\* Flattening nothing gives nothing, flattening keeps the type, and one more
\* sequence is appended.
LEMMA FlattenEmpty == FlattenSeq(<<>>) = <<>>
  BY DEF FlattenSeq

\* Flattening sequences over T gives a sequence over T.
LEMMA FlattenType ==
    ASSUME NEW T, NEW ss \in Seq(Seq(T))
    PROVE  FlattenSeq(ss) \in Seq(T)
  <1>1. PICK f \in [0 .. Len(ss) -> Seq(T)] : FlattenSeq(ss) = f[Len(ss)]
    BY FlattenSteps
  <1> QED
    BY <1>1

\* One more sequence is appended to what the others flatten to.
LEMMA FlattenAppend ==
    ASSUME NEW T, NEW ss \in Seq(Seq(T)), NEW s \in Seq(T)
    PROVE  FlattenSeq(Append(ss, s)) = FlattenSeq(ss) \o s
  <1> DEFINE n == Len(ss)
             tt == Append(ss, s)
  <1>1. tt \in Seq(Seq(T)) /\ Len(tt) = n + 1 /\ n \in Nat /\ tt[n + 1] = s
    OBVIOUS
  <1>2. \A k \in 1 .. n : tt[k] = ss[k]
    OBVIOUS
  <1>3. PICK f \in [0 .. n -> Seq(T)] :
          /\ f[0] = <<>>
          /\ \A k \in 1 .. n : f[k] = f[k - 1] \o ss[k]
          /\ FlattenSeq(ss) = f[n]
    BY FlattenSteps
  <1> HIDE DEF tt
  <1>4. PICK h \in [0 .. n + 1 -> Seq(T)] :
          /\ h[0] = <<>>
          /\ \A k \in 1 .. n + 1 : h[k] = h[k - 1] \o tt[k]
          /\ FlattenSeq(tt) = h[n + 1]
    <2>1. \E h \in [0 .. Len(tt) -> Seq(T)] :
          /\ h[0] = <<>>
          /\ \A k \in 1 .. Len(tt) : h[k] = h[k - 1] \o tt[k]
          /\ FlattenSeq(tt) = h[Len(tt)]
      BY <1>1, FlattenSteps
    <2> QED
      BY <2>1, <1>1
  <1>5. ASSUME NEW k \in 1 .. n, h[k - 1] = f[k - 1] PROVE h[k] = f[k]
    <2>1. k \in 1 .. n + 1
      BY <1>1
    <2>2. h[k] = h[k - 1] \o tt[k]
      BY <1>4, <2>1
    <2> QED
      BY <2>2, <1>3, <1>5, <1>2
  <1>6. \A k \in 0 .. n : h[k] = f[k]
    <2>1. h[0] = f[0] /\ n \in Nat
      BY <1>3, <1>4, <1>1
    <2> HIDE DEF n
    <2>2. StepAlike(f, h, n)
      BY <1>5, <2>1 DEF StepAlike
    <2> QED
      BY <2>1, <2>2, SameSteps
  <1>7. h[n] = f[n]
    BY <1>6, <1>1
  <1>8. h[n + 1] = h[n] \o s
    <2>1. n + 1 \in 1 .. n + 1 /\ (n + 1) - 1 = n
      BY <1>1
    <2>2. h[n + 1] = h[(n + 1) - 1] \o tt[n + 1]
      BY <2>1, <1>4
    <2> QED
      BY <2>1, <2>2, <1>1
  <1> QED
    BY <1>3, <1>4, <1>7, <1>8 DEF tt

\* The first k elements of a sequence.
Upto(q, k) == [i \in 1 .. k |-> q[i]]

\* The prefixes of a sequence grow by one element at a time.
LEMMA UptoFacts ==
    ASSUME NEW T, NEW q \in Seq(T)
    PROVE  /\ Upto(q, 0) = <<>>
           /\ Upto(q, Len(q)) = q
           /\ \A k \in 0 .. Len(q) : Upto(q, k) \in Seq(T) /\ Len(Upto(q, k)) = k
           /\ \A k \in 1 .. Len(q) : q[k] \in T /\ Upto(q, k) = Append(Upto(q, k - 1), q[k])
  <1>1. Upto(q, 0) = <<>> /\ Upto(q, Len(q)) = q
    BY DEF Upto
  <1>2. ASSUME NEW k \in 0 .. Len(q) PROVE Upto(q, k) \in Seq(T) /\ Len(Upto(q, k)) = k
    <2>1. \A i \in 1 .. k : q[i] \in T
      OBVIOUS
    <2> QED
      BY <2>1 DEF Upto
  <1>3. ASSUME NEW k \in 1 .. Len(q) PROVE q[k] \in T /\ Upto(q, k) = Append(Upto(q, k - 1), q[k])
    <2>1. k - 1 \in 0 .. Len(q)
      OBVIOUS
    <2>2. Upto(q, k - 1) \in Seq(T) /\ Len(Upto(q, k - 1)) = k - 1
      BY <2>1, <1>2
    <2>3. Upto(q, k) \in Seq(T) /\ Len(Upto(q, k)) = k /\ q[k] \in T
      BY <1>2
    <2>4. \A i \in 1 .. k : Upto(q, k)[i] = Append(Upto(q, k - 1), q[k])[i]
      BY <2>2, <2>3 DEF Upto
    <2>5. Append(Upto(q, k - 1), q[k]) \in Seq(T) /\ Len(Append(Upto(q, k - 1), q[k])) = k
      BY <2>2, <2>3
    <2> HIDE DEF Upto
    <2> QED
      BY <2>3, <2>4, <2>5
  <1> QED
    BY <1>1, <1>2, <1>3

\* Appending to the second part of a concatenation.
LEMMA ConcatAppend ==
    ASSUME NEW T, NEW q \in Seq(T), NEW r \in Seq(T), NEW x \in T
    PROVE  q \o Append(r, x) = Append(q \o r, x) /\ q \o r \in Seq(T)
  <1>1. <<x>> \in Seq(T) /\ q \o r \in Seq(T)
    OBVIOUS
  <1>2. Append(r, x) = r \o <<x>>
    BY AppendIsConcat
  <1>3. Append(q \o r, x) = (q \o r) \o <<x>>
    BY <1>1, AppendIsConcat
  <1>4. (q \o r) \o <<x>> = q \o (r \o <<x>>)
    BY <1>1, ConcatAssociative
  <1> QED
    BY <1>1, <1>2, <1>3, <1>4

\* Flattening a concatenation.
LEMMA FlattenConcat ==
    ASSUME NEW T, NEW ss \in Seq(Seq(T)), NEW tt \in Seq(Seq(T))
    PROVE  FlattenSeq(ss \o tt) = FlattenSeq(ss) \o FlattenSeq(tt)
  <1> DEFINE S == {k \in 0 .. Len(tt) :
                     FlattenSeq(ss \o Upto(tt, k)) = FlattenSeq(ss) \o FlattenSeq(Upto(tt, k))}
  <1>1. 0 \in S
    <2>1. Upto(tt, 0) = <<>> /\ ss \o <<>> = ss
      BY UptoFacts
    <2>2. FlattenSeq(ss) \o <<>> = FlattenSeq(ss)
      BY FlattenType
    <2>3. 0 \in 0 .. Len(tt)
      OBVIOUS
    <2> QED
      BY <2>1, <2>2, <2>3, FlattenEmpty
  <1>2. ASSUME NEW k \in 0 .. Len(tt) - 1, k \in S PROVE k + 1 \in S
    <2> DEFINE u == Upto(tt, k)
               s == tt[k + 1]
    <2>1. u \in Seq(Seq(T)) /\ s \in Seq(T) /\ Upto(tt, k + 1) = Append(u, s)
      <3>1. k + 1 \in 1 .. Len(tt) /\ (k + 1) - 1 = k /\ k \in 0 .. Len(tt)
        OBVIOUS
      <3> QED
        BY <3>1, UptoFacts
    <2>2. FlattenSeq(ss \o u) = FlattenSeq(ss) \o FlattenSeq(u)
      BY <1>2
    <2> HIDE DEF u, s
    <2>3. ss \o Append(u, s) = Append(ss \o u, s) /\ ss \o u \in Seq(Seq(T))
      BY <2>1, ConcatAppend
    <2>4. FlattenSeq(Append(ss \o u, s)) = FlattenSeq(ss \o u) \o s
      BY <2>1, <2>3, FlattenAppend
    <2>5. FlattenSeq(Append(u, s)) = FlattenSeq(u) \o s
      BY <2>1, FlattenAppend
    <2>6. FlattenSeq(ss) \in Seq(T) /\ FlattenSeq(u) \in Seq(T)
      BY <2>1, FlattenType
    <2>7. (FlattenSeq(ss) \o FlattenSeq(u)) \o s = FlattenSeq(ss) \o (FlattenSeq(u) \o s)
      <3>1. s \in Seq(T)
        BY <2>1
      <3> DEFINE x == FlattenSeq(ss)
                 y == FlattenSeq(u)
      <3> HIDE DEF x, y
      <3> QED
        BY <3>1, <2>6, ConcatAssociative, SMTT(60) DEF x, y
    <2>8. k + 1 \in 0 .. Len(tt)
      OBVIOUS
    <2> QED
      BY <2>1, <2>2, <2>3, <2>4, <2>5, <2>7, <2>8
  <1>3. \A k \in 0 .. Len(tt) : k \in S
    <2>1. Len(tt) \in Nat
      OBVIOUS
    <2> HIDE DEF S
    <2> QED
      BY <2>1, <1>1, <1>2, UpTo
  <1>4. Len(tt) \in S
    <2>1. Len(tt) \in 0 .. Len(tt)
      OBVIOUS
    <2> HIDE DEF S
    <2> QED
      BY <2>1, <1>3
  <1>5. Upto(tt, Len(tt)) = tt
    BY UptoFacts
  <1> QED
    BY <1>4, <1>5

-----------------------------------------------------------------------------
(* Sorting sets of numbers *)

Increasing(q) == \A i, j \in 1 .. Len(q) : i < j => q[i] < q[j]

\* The first m values of an injective function are m.
Values(f, m) == {f[i] : i \in 1 .. m}
Distinct(f, m) == \A i, j \in 1 .. m : f[i] = f[j] => i = j

\* An injective function has as many values as arguments.
LEMMA CountValues ==
    ASSUME NEW m \in Nat, NEW f, Distinct(f, m)
    PROVE  IsFiniteSet(Values(f, m)) /\ Cardinality(Values(f, m)) = m
  <1> USE DEF Values, Distinct
  <1> DEFINE V == Values(f, m)
             h == [i \in 1 .. m |-> f[i]]
  <1>1. h \in Bijection(1 .. m, V)
    <2>1. h \in [1 .. m -> V]
      OBVIOUS
    <2>2. \A i, j \in 1 .. m : i # j => h[i] # h[j]
      OBVIOUS
    <2>3. \A v \in V : \E i \in 1 .. m : h[i] = v
      OBVIOUS
    <2> HIDE DEF h, V
    <2> QED
      BY <2>1, <2>2, <2>3 DEF Bijection, Injection, Surjection, IsInjective
  <1>2. IsFiniteSet(1 .. m) /\ Cardinality(1 .. m) = m
    <2>1. 1 \in Int /\ m \in Int
      OBVIOUS
    <2>2. IsFiniteSet(1 .. m) /\ Cardinality(1 .. m) = IF 1 > m THEN 0 ELSE m - 1 + 1
      BY <2>1, FS_Interval
    <2> QED
      BY <2>2
  <1>3. ExistsBijection(1 .. m, V)
    <2> HIDE DEF h, V
    <2> QED
      BY <1>1 DEF ExistsBijection
  <1> HIDE DEF h, V
  <1> QED
    BY <1>2, <1>3, FS_Bijection DEF V

\* An increasing sequence is what sorting its elements gives.
LEMMA AscendingIs ==
    ASSUME NEW q \in Seq(Int), Increasing(q)
    PROVE  Ascending(Range(q)) = q
  <1> DEFINE n == Len(q)
             S == Range(q)
             rank(x) == Cardinality({y \in S : y < x})
  <1>1. n \in Nat /\ DOMAIN q = 1 .. n /\ q = [i \in 1 .. n |-> q[i]]
    OBVIOUS
  <1>2. \A i \in 1 .. n : q[i] \in Int
    OBVIOUS
  <1>3. \A i, j \in 1 .. n : i < j => q[i] < q[j]
    BY DEF Increasing
  <1>4. S = {q[i] : i \in 1 .. n}
    BY <1>1 DEF Range
  <1>5. \A i, j \in 1 .. n : q[i] = q[j] => i = j
    <2> SUFFICES ASSUME NEW i \in 1 .. n, NEW j \in 1 .. n, q[i] = q[j], i # j PROVE FALSE
      OBVIOUS
    <2>1. i < j \/ j < i
      BY <1>1
    <2> QED
      BY <2>1, <1>2, <1>3
  <1>6. Cardinality(S) = n
    <2>1. Distinct(q, n) /\ S = Values(q, n)
      BY <1>4, <1>5 DEF Values, Distinct
    <2> HIDE DEF n, S
    <2> QED
      BY <1>1, <2>1, CountValues
  <1>7. ASSUME NEW k \in 1 .. n PROVE rank(q[k]) = k - 1
    <2>1. {y \in S : y < q[k]} = {q[i] : i \in 1 .. k - 1}
      <3>1. ASSUME NEW i \in 1 .. n, q[i] < q[k] PROVE i \in 1 .. k - 1
        <4>1. ~(k < i) /\ i # k
          BY <3>1, <1>2, <1>3
        <4> QED
          BY <4>1, <1>1
      <3>2. ASSUME NEW i \in 1 .. k - 1 PROVE i \in 1 .. n /\ q[i] < q[k]
        <4>1. i \in 1 .. n /\ i < k
          BY <1>1
        <4> QED
          BY <4>1, <1>3
      <3> QED
        BY <3>1, <3>2, <1>4
    <2>2. k - 1 \in Nat /\ \A i, j \in 1 .. k - 1 : q[i] = q[j] => i = j
      BY <1>1, <1>5
    <2>3. Cardinality({q[i] : i \in 1 .. k - 1}) = k - 1
      <3>1. Distinct(q, k - 1)
        BY <2>2 DEF Distinct
      <3>2. Cardinality(Values(q, k - 1)) = k - 1
        BY <2>2, <3>1, CountValues
      <3> QED
        BY <3>2 DEF Values
    <2> QED
      BY <2>1, <2>3
  <1> HIDE DEF n, S
  <1>8. ASSUME NEW k \in 1 .. n PROVE (CHOOSE x \in S : rank(x) = k - 1) = q[k]
    <2> DEFINE c == CHOOSE x \in S : rank(x) = k - 1
    <2>1. q[k] \in S /\ rank(q[k]) = k - 1
      BY <1>4, <1>7
    <2>2. c \in S /\ rank(c) = k - 1
      <3> HIDE DEF rank
      <3> QED
        BY <2>1
    <2> HIDE DEF c, rank
    <2>3. PICK i \in 1 .. n : c = q[i]
      BY <1>4, <2>2
    <2>4. rank(q[i]) = i - 1
      BY <1>7
    <2>5. i = k
      BY <2>2, <2>3, <2>4, <1>1
    <2> QED
      BY <2>3, <2>5 DEF c
  <1>9. Ascending(S) = [k \in 1 .. n |-> CHOOSE x \in S : rank(x) = k - 1]
    BY <1>6 DEF Ascending
  <1> HIDE DEF rank
  <1>10. Ascending(S) = [k \in 1 .. n |-> q[k]]
    BY <1>8, <1>9
  <1> QED
    BY <1>1, <1>10 DEF S

\* A set of numbers below n sorted: an increasing sequence with just its members.
LEMMA AscendingOf ==
    ASSUME NEW n \in Nat, NEW S \in SUBSET (0 .. n - 1)
    PROVE  /\ Ascending(S) \in Seq(Int)
           /\ Increasing(Ascending(S))
           /\ Range(Ascending(S)) = S
  <1> DEFINE Part(k) == {x \in S : x < k}
             Sorted(k) == \E q : q \in Seq(Int) /\ Increasing(q) /\ Range(q) = Part(k)
             G == {k \in 0 .. n : Sorted(k)}
  <1>0. \A x \in S : x \in Int /\ 0 <= x /\ x < n
    OBVIOUS
  <1>1. 0 \in G
    <2>1. <<>> \in Seq(Int) /\ Increasing(<<>>) /\ Range(<<>>) = {}
      BY DEF Increasing, Range
    <2>2. Part(0) = {}
      <3> SUFFICES ASSUME NEW x \in Part(0) PROVE FALSE
        OBVIOUS
      <3> QED
        BY <1>0
    <2>3. 0 \in 0 .. n
      OBVIOUS
    <2>4. Sorted(0)
      <3> HIDE DEF Part
      <3> QED
        BY <2>1, <2>2
    <2> HIDE DEF Sorted
    <2> QED
      BY <2>3, <2>4
  <1>2. ASSUME NEW k \in 0 .. n - 1, k \in G PROVE k + 1 \in G
    <2>1. k + 1 \in 0 .. n /\ k \in Int
      OBVIOUS
    <2>2. PICK q : q \in Seq(Int) /\ Increasing(q) /\ Range(q) = Part(k)
      BY <1>2
    <2>3. CASE k \notin S
      <3>1. Part(k + 1) = Part(k)
        <4>1. \A x \in S : x < k + 1 <=> x < k
          BY <2>3, <1>0
        <4> QED
          BY <4>1
      <3>2. Sorted(k + 1)
        <4> HIDE DEF Part
        <4> QED
          BY <2>2, <3>1
      <3> HIDE DEF Sorted
      <3> QED
        BY <3>2, <2>1
    <2>4. CASE k \in S
      <3> DEFINE r == Append(q, k)
      <3>1. Part(k + 1) = Part(k) \cup {k}
        <4>1. \A x \in S : x < k + 1 <=> x < k \/ x = k
          BY <1>0
        <4> QED
          BY <2>4, <4>1
      <3>2. r \in Seq(Int) /\ Len(r) = Len(q) + 1 /\ Len(q) \in Nat
            /\ r[Len(q) + 1] = k /\ \A i \in 1 .. Len(q) : r[i] = q[i]
        BY <2>1, <2>2
      <3>3. \A i \in 1 .. Len(q) : q[i] < k
        <4> SUFFICES ASSUME NEW i \in 1 .. Len(q) PROVE q[i] < k
          OBVIOUS
        <4>1. q[i] \in Range(q)
          BY <2>2 DEF Range
        <4> QED
          BY <4>1, <2>2
      <3> HIDE DEF r
      <3>4. Increasing(r)
        <4> SUFFICES ASSUME NEW i \in 1 .. Len(q) + 1, NEW j \in 1 .. Len(q) + 1, i < j
                     PROVE  r[i] < r[j]
          BY <3>2 DEF Increasing
        <4>1. i \in 1 .. Len(q) /\ r[i] = q[i]
          BY <3>2
        <4>2. CASE j = Len(q) + 1
          BY <4>1, <4>2, <3>2, <3>3
        <4>3. CASE j # Len(q) + 1
          <5>1. j \in 1 .. Len(q)
            BY <4>3, <3>2, SMTT(60)
          <5> QED
            BY <5>1, <4>1, <3>2, <2>2 DEF Increasing
        <4> QED
          BY <4>2, <4>3
      <3>5. Range(r) = Range(q) \cup {k}
        <4>1. DOMAIN r = 1 .. Len(q) + 1 /\ DOMAIN q = 1 .. Len(q)
          BY <3>2, <2>2
        <4>2. 1 .. Len(q) + 1 = (1 .. Len(q)) \cup {Len(q) + 1}
          BY <3>2
        <4> QED
          BY <4>1, <4>2, <3>2 DEF Range
      <3>6. Sorted(k + 1)
        <4> HIDE DEF Part
        <4> QED
          BY <2>2, <3>1, <3>2, <3>4, <3>5
      <3> HIDE DEF Sorted
      <3> QED
        BY <3>6, <2>1
    <2> QED
      BY <2>3, <2>4
  <1>3. \A k \in 0 .. n : k \in G
    <2> HIDE DEF G
    <2> QED
      BY <1>1, <1>2, UpTo
  <1>4. Sorted(n)
    <2>1. n \in 0 .. n
      OBVIOUS
    <2> HIDE DEF Sorted
    <2> QED
      BY <1>3, <2>1
  <1>5. Part(n) = S
    BY <1>0
  <1> HIDE DEF Part
  <1>6. PICK q : q \in Seq(Int) /\ Increasing(q) /\ Range(q) = S
    BY <1>4, <1>5
  <1>7. Ascending(S) = q
    BY <1>6, AscendingIs
  <1> QED
    BY <1>6, <1>7

\* Sorting a set and a set of larger numbers, one after the other.
LEMMA AscendingUnion ==
    ASSUME NEW n \in Nat, NEW A \in SUBSET (0 .. n - 1), NEW B \in SUBSET (0 .. n - 1),
           \A x \in A, y \in B : x < y
    PROVE  Ascending(A \cup B) = Ascending(A) \o Ascending(B)
  <1> DEFINE a == Ascending(A)
             b == Ascending(B)
             q == a \o b
  <1>1. a \in Seq(Int) /\ Increasing(a) /\ Range(a) = A
    BY AscendingOf
  <1>2. b \in Seq(Int) /\ Increasing(b) /\ Range(b) = B
    BY AscendingOf
  <1> HIDE DEF a, b
  <1>3. q \in Seq(Int) /\ Len(q) = Len(a) + Len(b) /\ Len(a) \in Nat /\ Len(b) \in Nat
        /\ \A i \in 1 .. Len(a) + Len(b) : q[i] = IF i <= Len(a) THEN a[i] ELSE b[i - Len(a)]
    BY <1>1, <1>2
  <1>4. (\A i \in 1 .. Len(a) : a[i] \in A) /\ (\A i \in 1 .. Len(b) : b[i] \in B)
    BY <1>1, <1>2 DEF Range
  <1> HIDE DEF q
  <1>5. Increasing(q)
    <2> SUFFICES ASSUME NEW i \in 1 .. Len(a) + Len(b), NEW j \in 1 .. Len(a) + Len(b), i < j
                 PROVE  q[i] < q[j]
      BY <1>3 DEF Increasing
    <2>1. CASE j <= Len(a)
      <3>1. i \in 1 .. Len(a) /\ j \in 1 .. Len(a) /\ q[i] = a[i] /\ q[j] = a[j]
        BY <2>1, <1>3
      <3> QED
        BY <3>1, <1>1 DEF Increasing
    <2>2. CASE i > Len(a)
      <3>1. i - Len(a) \in 1 .. Len(b) /\ j - Len(a) \in 1 .. Len(b) /\ i - Len(a) < j - Len(a)
            /\ q[i] = b[i - Len(a)] /\ q[j] = b[j - Len(a)]
        BY <2>2, <1>3, SMTT(60)
      <3> QED
        BY <3>1, <1>2 DEF Increasing
    <2>3. CASE i <= Len(a) /\ j > Len(a)
      <3>1. i \in 1 .. Len(a) /\ j - Len(a) \in 1 .. Len(b)
            /\ q[i] = a[i] /\ q[j] = b[j - Len(a)]
        BY <2>3, <1>3
      <3> QED
        BY <3>1, <1>4
    <2> QED
      BY <2>1, <2>2, <2>3, <1>3
  <1>6. Range(q) = A \cup B
    <2>1. DOMAIN q = 1 .. Len(a) + Len(b) /\ DOMAIN a = 1 .. Len(a) /\ DOMAIN b = 1 .. Len(b)
      BY <1>1, <1>2, <1>3
    <2>2. ASSUME NEW x \in Range(q) PROVE x \in A \cup B
      <3>1. PICK i \in 1 .. Len(a) + Len(b) : x = q[i]
        BY <2>1 DEF Range
      <3>2. CASE i <= Len(a)
        BY <3>1, <3>2, <1>3, <1>4, SMTT(60)
      <3>3. CASE i > Len(a)
        <4>1. i - Len(a) \in 1 .. Len(b) /\ x = b[i - Len(a)]
          BY <3>1, <3>3, <1>3
        <4> QED
          BY <4>1, <1>4
      <3> QED
        BY <3>2, <3>3, <1>3
    <2>3. ASSUME NEW x \in A PROVE x \in Range(q)
      <3>1. PICK i \in 1 .. Len(a) : x = a[i]
        BY <1>1, <2>1 DEF Range
      <3>2. i \in 1 .. Len(a) + Len(b) /\ q[i] = a[i]
        BY <1>3
      <3> QED
        BY <3>1, <3>2, <2>1 DEF Range
    <2>4. ASSUME NEW x \in B PROVE x \in Range(q)
      <3>1. PICK i \in 1 .. Len(b) : x = b[i]
        BY <1>2, <2>1 DEF Range
      <3> DEFINE j == i + Len(a)
      <3>2. j \in 1 .. Len(a) + Len(b) /\ ~(j <= Len(a)) /\ j - Len(a) = i
        BY <1>3
      <3> HIDE DEF j
      <3>3. q[j] = b[i]
        BY <3>2, <1>3
      <3> QED
        BY <3>1, <3>2, <3>3, <2>1 DEF Range
    <2> QED
      BY <2>2, <2>3, <2>4
  <1>7. Ascending(A \cup B) = q
    BY <1>3, <1>5, <1>6, AscendingIs
  <1> QED
    BY <1>7 DEF q, a, b

-----------------------------------------------------------------------------
(* Reading the configuration file *)

Specs == [n_workers : Int, worker_ipaddr_ports : Seq(STRING), input_files : Seq(STRING),
          output_dir : STRING \cup {""}, n_output_files : Int, map_kilobytes : Int,
          user_id : STRING \cup {""}]

\* A specification before anything is read has its type.
LEMMA EmptySpecType == EmptySpec \in Specs
  <1>1. <<>> \in Seq(STRING)
    OBVIOUS
  <1> QED
    BY <1>1 DEF EmptySpec, Specs

\* A line that does not throw gives a specification again.
LEMMA ReadLineType ==
    ASSUME NEW spec \in Specs, NEW line,
           IF line[1] \in Numbers THEN line[2] \in Seq(Int) /\ line[2] # <<>>
                                  ELSE line[2] \in Seq(STRING)
    PROVE  ReadLine(spec, line) \in Specs
  <1>1. line[1] \in Numbers => line[2][1] \in Int
    OBVIOUS
  <1>2. line[1] \notin Numbers =>
          (IF line[2] = <<>> THEN "" ELSE line[2][1]) \in STRING \cup {""}
    <2>1. ASSUME line[1] \notin Numbers, line[2] # <<>> PROVE line[2][1] \in STRING
      BY <2>1
    <2> QED
      BY <2>1
  <1>3. /\ line[1] = "n_workers" \/ line[1] = "n_output_files" \/ line[1] = "map_kilobytes"
             => line[1] \in Numbers
        /\ line[1] \in {"worker_ipaddr_ports", "input_files", "output_dir", "user_id"}
             => line[1] \notin Numbers
    BY DEF Numbers
  <1>4. ASSUME NEW old \in Seq(STRING), line[1] \notin Numbers PROVE old \o line[2] \in Seq(STRING)
    BY <1>4
  <1> HIDE DEF Numbers
  <1> QED
    BY <1>1, <1>2, <1>3, <1>4 DEF ReadLine, Specs

\* ReadLines line by line.
LEMMA ReadSteps ==
    ASSUME NEW c \in Configs, ~ReadThrows(c), NEW spec \in Specs
    PROVE  \E r \in [0 .. Len(c) -> Specs] :
               /\ r[0] = spec
               /\ \A k \in 1 .. Len(c) : r[k] = ReadLine(r[k - 1], c[k])
               /\ ReadLines(spec, c) = r[Len(c)]
  <1> DEFINE n == Len(c)
             g == [k \in 1 .. n |-> [x \in Specs |-> ReadLine(x, c[k])]]
             step(h) == [k \in 0 .. n |-> IF k = 0 THEN spec ELSE ReadLine(h[k - 1], c[k])]
             r2 == CHOOSE h : h = step(h)
  <1>1. n \in Nat /\ DOMAIN c = 1 .. n
    <2>1. c \in Seq(Range(c))
      BY JobAssumption
    <2> QED
      BY <2>1
  <1>2. ASSUME NEW k \in 1 .. n, NEW x \in Specs PROVE ReadLine(x, c[k]) \in Specs
    <2>1. c[k][2] \in (IF c[k][1] \in Numbers THEN Seq(Int) ELSE Seq(STRING))
      BY <1>1, JobAssumption
    <2>2. ~(c[k][1] \in Numbers /\ c[k][2] = <<>>)
      BY <1>1 DEF ReadThrows
    <2> QED
      BY <2>1, <2>2, ReadLineType
  <1>3. g \in [1 .. n -> [Specs -> Specs]]
    BY <1>2
  <1>4. PICK f : Iterates(f, n, Specs, spec, g)
    <2> HIDE DEF g, n
    <2> QED
      BY <1>1, <1>3, Recursion
  <1>5. f \in [0 .. n -> Specs] /\ f[0] = spec /\ \A k \in 1 .. n : f[k] = g[k][f[k - 1]]
    BY <1>4 DEF Iterates
  <1>6. ASSUME NEW k \in 1 .. n PROVE f[k - 1] \in Specs /\ f[k] = ReadLine(f[k - 1], c[k])
    <2>1. k - 1 \in 0 .. n
      BY <1>1
    <2>2. f[k - 1] \in Specs
      <3> HIDE DEF n
      <3> QED
        BY <2>1, <1>5
    <2> QED
      BY <1>5, <2>2
  <1>7. f = step(f)
    <2>1. \A k \in 0 .. n : f[k] = IF k = 0 THEN spec ELSE ReadLine(f[k - 1], c[k])
      <3> SUFFICES ASSUME NEW k \in 0 .. n, k # 0 PROVE f[k] = ReadLine(f[k - 1], c[k])
        BY <1>5
      <3>1. k \in 1 .. n
        BY <1>1
      <3> QED
        BY <3>1, <1>6
    <2> HIDE DEF n
    <2> QED
      BY <2>1, <1>5
  <1>8. r2 = step(r2)
    <2> HIDE DEF step
    <2> QED
      BY <1>7
  <1>9. ReadLines(spec, c) = r2[n]
    BY DEF ReadLines
  <1> HIDE DEF r2, n
  <1>10. r2 = [k \in 0 .. n |-> r2[k]]
    BY <1>8
  <1>11. /\ r2[0] = spec
         /\ \A k \in 1 .. n : r2[k] = ReadLine(r2[k - 1], c[k])
    <2>1. \A k \in 0 .. n : r2[k] = IF k = 0 THEN spec ELSE ReadLine(r2[k - 1], c[k])
      BY <1>8
    <2>2. 0 \in 0 .. n
      BY <1>1
    <2>3. \A k \in 1 .. n : k \in 0 .. n /\ k # 0
      BY <1>1
    <2> QED
      BY <2>1, <2>2, <2>3
  <1>12. StepAlike(f, r2, n)
    BY <1>5, <1>6, <1>11 DEF StepAlike
  <1>13. \A k \in 0 .. n : r2[k] = f[k]
    BY <1>1, <1>12, SameSteps
  <1>14. r2 \in [0 .. n -> Specs]
    BY <1>10, <1>13, <1>5
  <1> QED
    BY <1>9, <1>11, <1>14 DEF n

\* Reading a configuration file that does not throw keeps the type.
LEMMA ReadType ==
    ASSUME NEW c \in Configs, ~ReadThrows(c), NEW spec \in Specs
    PROVE  ReadLines(spec, c) \in Specs
  <1>1. PICK r \in [0 .. Len(c) -> Specs] : ReadLines(spec, c) = r[Len(c)]
    BY ReadSteps
  <1>2. Len(c) \in 0 .. Len(c)
    <2>1. c \in Seq(Range(c))
      BY JobAssumption
    <2> QED
      BY <2>1
  <1> QED
    BY <1>1, <1>2

\* What the file says, read into spec: lists are appended, and a number is the
\* one the file says unless it says none.
Adds(spec, said, read) ==
    /\ read.worker_ipaddr_ports = spec.worker_ipaddr_ports \o said.worker_ipaddr_ports
    /\ read.input_files = spec.input_files \o said.input_files
    /\ read.n_workers = said.n_workers \/ (read.n_workers = spec.n_workers /\ said.n_workers = 0)
    /\ \/ read.map_kilobytes = said.map_kilobytes
       \/ read.map_kilobytes = spec.map_kilobytes /\ said.map_kilobytes = 0

\* One line added to what was said is added to what was read.
LEMMA ReadLineAdds ==
    ASSUME NEW spec \in Specs, NEW said \in Specs, NEW read \in Specs, NEW line,
           line[1] \notin Numbers => line[2] \in Seq(STRING),
           Adds(spec, said, read)
    PROVE  Adds(spec, ReadLine(said, line), ReadLine(read, line))
  <1>1. ASSUME NEW a \in Seq(STRING), NEW b \in Seq(STRING), line[1] \notin Numbers
        PROVE  (a \o b) \o line[2] = a \o (b \o line[2])
    <2> DEFINE v == line[2]
    <2>1. v \in Seq(STRING)
      BY <1>1
    <2> HIDE DEF v
    <2>2. (a \o b) \o v = a \o (b \o v)
      BY <2>1, ConcatAssociative
    <2> QED
      BY <2>2 DEF v
  <1>2. "worker_ipaddr_ports" \notin Numbers /\ "input_files" \notin Numbers
    BY DEF Numbers
  <1> DEFINE S == ReadLine(said, line)
             R == ReadLine(read, line)
  <1>3. R.worker_ipaddr_ports = spec.worker_ipaddr_ports \o S.worker_ipaddr_ports
    <2>1. CASE line[1] = "worker_ipaddr_ports"
      <3>1. S.worker_ipaddr_ports = said.worker_ipaddr_ports \o line[2]
            /\ R.worker_ipaddr_ports = read.worker_ipaddr_ports \o line[2]
        BY <2>1 DEF ReadLine
      <3>2. spec.worker_ipaddr_ports \in Seq(STRING) /\ said.worker_ipaddr_ports \in Seq(STRING)
        BY DEF Specs
      <3> QED
        BY <2>1, <3>1, <3>2, <1>1, <1>2 DEF Adds
    <2>2. CASE line[1] # "worker_ipaddr_ports"
      BY <2>2 DEF ReadLine, Adds
    <2> QED
      BY <2>1, <2>2
  <1>4. R.input_files = spec.input_files \o S.input_files
    BY <1>1, <1>2, ZenonT(60) DEF ReadLine, Adds, Specs
  <1>5. R.n_workers = S.n_workers \/ (R.n_workers = spec.n_workers /\ S.n_workers = 0)
    BY DEF ReadLine, Adds
  <1>6. \/ R.map_kilobytes = S.map_kilobytes
        \/ R.map_kilobytes = spec.map_kilobytes /\ S.map_kilobytes = 0
    BY DEF ReadLine, Adds
  <1> QED
    BY <1>3, <1>4, <1>5, <1>6 DEF Adds

\* So the whole file read into spec is spec and what the file says alone.
LEMMA ReadAdds ==
    ASSUME NEW c \in Configs, ~ReadThrows(c), NEW spec \in Specs
    PROVE  Adds(spec, ReadLines(EmptySpec, c), ReadLines(spec, c))
  <1> DEFINE n == Len(c)
  <1>1. n \in Nat /\ DOMAIN c = 1 .. n
    <2>1. c \in Seq(Range(c))
      BY JobAssumption
    <2> QED
      BY <2>1
  <1>2. PICK r \in [0 .. n -> Specs] :
               /\ r[0] = spec
               /\ \A k \in 1 .. n : r[k] = ReadLine(r[k - 1], c[k])
               /\ ReadLines(spec, c) = r[n]
    BY ReadSteps
  <1>3. PICK a \in [0 .. n -> Specs] :
               /\ a[0] = EmptySpec
               /\ \A k \in 1 .. n : a[k] = ReadLine(a[k - 1], c[k])
               /\ ReadLines(EmptySpec, c) = a[n]
    BY ReadSteps, EmptySpecType
  <1> DEFINE S == {k \in 0 .. n : Adds(spec, a[k], r[k])}
  <1>4. 0 \in S
    <2>1. 0 \in 0 .. n
      BY <1>1
    <2>2. Adds(spec, EmptySpec, spec)
      <3>1. \A q \in Seq(STRING) : q \o <<>> = q
        OBVIOUS
      <3>2. spec.worker_ipaddr_ports \in Seq(STRING) /\ spec.input_files \in Seq(STRING)
        BY DEF Specs
      <3>3. /\ EmptySpec.worker_ipaddr_ports = <<>> /\ EmptySpec.input_files = <<>>
            /\ EmptySpec.n_workers = 0 /\ EmptySpec.map_kilobytes = 0
        BY DEF EmptySpec
      <3> QED
        BY <3>1, <3>2, <3>3 DEF Adds
    <2> QED
      BY <2>1, <2>2, <1>2, <1>3
  <1>5. ASSUME NEW k \in 0 .. n - 1, k \in S PROVE k + 1 \in S
    <2>1. k \in 0 .. n /\ k + 1 \in 0 .. n /\ k + 1 \in 1 .. n /\ (k + 1) - 1 = k
      BY <1>1
    <2>2. r[k + 1] = ReadLine(r[k], c[k + 1]) /\ a[k + 1] = ReadLine(a[k], c[k + 1])
      <3>1. r[k + 1] = ReadLine(r[(k + 1) - 1], c[k + 1]) /\ a[k + 1] = ReadLine(a[(k + 1) - 1], c[k + 1])
        BY <2>1, <1>2, <1>3
      <3> QED
        BY <3>1, <2>1
    <2>3. c[k + 1][1] \notin Numbers => c[k + 1][2] \in Seq(STRING)
      <3>1. c[k + 1][2] \in (IF c[k + 1][1] \in Numbers THEN Seq(Int) ELSE Seq(STRING))
        BY <2>1, <1>1, JobAssumption
      <3> QED
        BY <3>1
    <2>4. a[k] \in Specs /\ r[k] \in Specs /\ Adds(spec, a[k], r[k])
      BY <2>1, <1>2, <1>3, <1>5
    <2>5. Adds(spec, ReadLine(a[k], c[k + 1]), ReadLine(r[k], c[k + 1]))
      BY <2>3, <2>4, ReadLineAdds
    <2> QED
      BY <2>1, <2>2, <2>5
  <1>6. \A k \in 0 .. n : k \in S
    <2> HIDE DEF S, n
    <2> QED
      BY <1>1, <1>4, <1>5, UpTo
  <1>7. n \in S
    <2>1. n \in 0 .. n
      BY <1>1
    <2> HIDE DEF S, n
    <2> QED
      BY <2>1, <1>6
  <1> QED
    BY <1>7, <1>2, <1>3

-----------------------------------------------------------------------------
(* Lines of a file *)

\* The operators on files of the model, for a file d apart from the disk.
FileOK(d) == d.size \in Nat /\ d.newlines \in SUBSET (0 .. d.size - 1)
EndIn(d, p) ==
    LET later == {n \in d.newlines : n >= p}
    IN  IF later = {} THEN d.size ELSE Min(later)
Starts(d, a, b) == {p \in a .. b - 1 : p = 0 \/ p - 1 \in d.newlines}
LinesBetween(d, f, a, b) ==
    LET starts == Ascending(Starts(d, a, b))
    IN  [k \in DOMAIN starts |-> <<f, starts[k], EndIn(d, starts[k])>>]
LongestIn(d, f) == Max({0} \cup {l[3] - l[2] + 1 : l \in Range(LinesBetween(d, f, 0, d.size))})

\* The operators of the model, on the disk as it is ...
LEMMA OnDisk ==
    ASSUME NEW f
    PROVE  /\ \A p : EndOfLine(f, p) = EndIn(disk[f], p)
           /\ LinesOf(f) = LinesBetween(disk[f], f, 0, disk[f].size)
           /\ LongestLine(f) = LongestIn(disk[f], f)
  <1>1. \A p : EndOfLine(f, p) = EndIn(disk[f], p)
    BY DEF EndOfLine, EndIn
  <1>2. LinesOf(f) = LinesBetween(disk[f], f, 0, disk[f].size)
    BY <1>1 DEF LinesOf, LinesBetween, Starts
  <1> QED
    BY <1>1, <1>2 DEF LongestLine, LongestIn

\* ... and on the disk after a step.
LEMMA OnDiskNext ==
    ASSUME NEW f
    PROVE  /\ \A p : EndOfLine(f, p)' = EndIn(disk'[f], p)
           /\ LinesOf(f)' = LinesBetween(disk'[f], f, 0, disk'[f].size)
           /\ LongestLine(f)' = LongestIn(disk'[f], f)
  <1>1. \A p : EndOfLine(f, p)' = EndIn(disk'[f], p)
    BY DEF EndOfLine, EndIn
  <1>2. LinesOf(f)' = LinesBetween(disk'[f], f, 0, disk'[f].size)
    BY <1>1 DEF LinesOf, LinesBetween, Starts
  <1> QED
    BY <1>1, <1>2 DEF LongestLine, LongestIn

\* The end of the line at p.
LEMMA EndFacts ==
    ASSUME NEW d, FileOK(d), NEW p \in Nat, p <= d.size
    PROVE  /\ EndIn(d, p) \in Nat /\ p <= EndIn(d, p) /\ EndIn(d, p) <= d.size
           /\ EndIn(d, p) \in d.newlines \/ EndIn(d, p) = d.size
           /\ \A n \in d.newlines : n >= p => EndIn(d, p) <= n
           /\ d.size - 1 \in d.newlines /\ p < d.size => EndIn(d, p) < d.size
  <1> DEFINE later == {n \in d.newlines : n >= p}
  <1>1. d.size \in Nat /\ \A n \in d.newlines : n \in Nat /\ n < d.size
    BY DEF FileOK
  <1>2. CASE later = {}
    <2>1. EndIn(d, p) = d.size
      BY <1>2 DEF EndIn
    <2>2. \A n \in d.newlines : ~(n >= p)
      BY <1>2
    <2> QED
      BY <1>1, <2>1, <2>2
  <1>3. CASE later # {}
    <2>1. later \in SUBSET Nat
      BY <1>1
    <2>2. \E t \in later : \A u \in later : t <= u
      <3> HIDE DEF later
      <3> QED
        BY <2>1, <1>3, Least
    <2>3. Min(later) \in later /\ \A u \in later : Min(later) <= u
      <3> HIDE DEF later
      <3> QED
        BY <2>2 DEF Min
    <2>4. EndIn(d, p) = Min(later)
      BY <1>3 DEF EndIn
    <2>5. Min(later) \in d.newlines /\ Min(later) >= p
      BY <2>3
    <2> QED
      BY <2>3, <2>4, <2>5, <1>1
  <1> QED
    BY <1>2, <1>3

\* A position is in a line, that ends where the line at the position ends.
LEMMA LineAt ==
    ASSUME NEW d, FileOK(d), NEW p \in Nat, p < d.size
    PROVE  \E s \in Starts(d, 0, d.size) : s <= p /\ EndIn(d, s) = EndIn(d, p)
  <1> DEFINE B == {m \in 0 .. p : p - m \in Starts(d, 0, d.size)}
  <1>1. d.size \in Nat /\ \A n \in d.newlines : n \in Nat /\ n < d.size
    BY DEF FileOK
  <1>2. B \in SUBSET Nat /\ B # {}
    <2>1. 0 \in Starts(d, 0, d.size)
      BY <1>1 DEF Starts
    <2>2. p - p = 0 /\ p \in 0 .. p
      OBVIOUS
    <2>3. p \in B
      BY <2>1, <2>2
    <2> QED
      BY <2>3
  <1>3. PICK m \in B : \A j \in B : m <= j
    <2> HIDE DEF B
    <2> QED
      BY <1>2, Least
  <1> DEFINE s == p - m
  <1>4. s \in Starts(d, 0, d.size) /\ s \in Nat /\ s <= p /\ s < d.size
    BY <1>1, <1>3
  <1>5. \A n \in d.newlines : n >= s => n >= p
    <2> SUFFICES ASSUME NEW n \in d.newlines, n >= s, n < p PROVE FALSE
      BY <1>1
    <2>1. n + 1 \in Starts(d, 0, d.size)
      BY <1>1 DEF Starts
    <2>2. p - (n + 1) \in 0 .. p /\ p - (p - (n + 1)) = n + 1
      BY <1>1, <1>4
    <2>3. p - (n + 1) \in B
      BY <2>1, <2>2
    <2> QED
      BY <2>3, <1>3, <1>1
  <1> HIDE DEF s
  <1>6. /\ EndIn(d, p) \in Nat /\ p <= EndIn(d, p) /\ EndIn(d, p) <= d.size
        /\ EndIn(d, p) \in d.newlines \/ EndIn(d, p) = d.size
        /\ \A n \in d.newlines : n >= p => EndIn(d, p) <= n
    <2>1. p <= d.size
      BY <1>1
    <2> QED
      BY <2>1, EndFacts
  <1>7. /\ EndIn(d, s) \in Nat /\ s <= EndIn(d, s) /\ EndIn(d, s) <= d.size
        /\ EndIn(d, s) \in d.newlines \/ EndIn(d, s) = d.size
        /\ \A n \in d.newlines : n >= s => EndIn(d, s) <= n
    <2>1. s <= d.size
      BY <1>1, <1>4
    <2> QED
      BY <2>1, <1>4, EndFacts
  <1>8. EndIn(d, s) <= EndIn(d, p)
    BY <1>1, <1>4, <1>6, <1>7
  <1>9. EndIn(d, p) <= EndIn(d, s)
    BY <1>1, <1>5, <1>6, <1>7
  <1> QED
    BY <1>4, <1>6, <1>7, <1>8, <1>9

\* The longest line is at least as long as any.
LEMMA LongestFacts ==
    ASSUME NEW d, FileOK(d), NEW f
    PROVE  /\ LongestIn(d, f) \in Nat
           /\ \A s \in Starts(d, 0, d.size) : EndIn(d, s) - s + 1 <= LongestIn(d, f)
  <1> DEFINE L == LinesBetween(d, f, 0, d.size)
             S == Starts(d, 0, d.size)
             a == Ascending(S)
             V == {0} \cup {l[3] - l[2] + 1 : l \in Range(L)}
  <1>1. d.size \in Nat
    BY DEF FileOK
  <1>2. S \in SUBSET (0 .. d.size - 1)
    BY DEF Starts
  <1>3. a \in Seq(Int) /\ Range(a) = S
    <2> HIDE DEF S
    <2> QED
      BY <1>1, <1>2, AscendingOf
  <1>4. L = [k \in DOMAIN a |-> <<f, a[k], EndIn(d, a[k])>>]
    BY DEF LinesBetween
  <1>5. Range(L) = {<<f, s, EndIn(d, s)>> : s \in S}
    <2> HIDE DEF L, a, S
    <2> QED
      BY <1>3, <1>4 DEF Range
  <1>6. V = {0} \cup {EndIn(d, s) - s + 1 : s \in S}
    <2> HIDE DEF L, S
    <2>1. ASSUME NEW l \in Range(L)
          PROVE  l[3] - l[2] + 1 \in {EndIn(d, s) - s + 1 : s \in S}
      <3>1. PICK s \in S : l = <<f, s, EndIn(d, s)>>
        BY <1>5
      <3>2. l[3] = EndIn(d, s) /\ l[2] = s
        BY <3>1
      <3> QED
        BY <3>2
    <2>2. ASSUME NEW s \in S
          PROVE  EndIn(d, s) - s + 1 \in {l[3] - l[2] + 1 : l \in Range(L)}
      <3> DEFINE l == <<f, s, EndIn(d, s)>>
      <3>1. l \in Range(L) /\ l[3] = EndIn(d, s) /\ l[2] = s
        BY <1>5
      <3> HIDE DEF l
      <3> QED
        BY <3>1
    <2> QED
      BY <2>1, <2>2
  <1>7. \A s \in S : EndIn(d, s) - s + 1 \in Nat /\ EndIn(d, s) - s + 1 <= d.size + 1
    <2> SUFFICES ASSUME NEW s \in S
                 PROVE  EndIn(d, s) - s + 1 \in Nat /\ EndIn(d, s) - s + 1 <= d.size + 1
      OBVIOUS
    <2>1. s \in Nat /\ s <= d.size
      BY <1>1, <1>2
    <2>2. EndIn(d, s) \in Nat /\ s <= EndIn(d, s) /\ EndIn(d, s) <= d.size
      BY <2>1, EndFacts
    <2> QED
      BY <2>1, <2>2, <1>1
  <1> HIDE DEF V, S
  <1>8. \A v \in V : v \in Nat /\ v <= d.size + 1
    BY <1>1, <1>6, <1>7
  <1> DEFINE W == {d.size + 1 - v : v \in V}
  <1>9. W \in SUBSET Nat /\ W # {}
    <2>1. 0 \in V
      BY <1>6
    <2> QED
      BY <2>1, <1>8, <1>1
  <1>10. PICK w \in W : \A x \in W : w <= x
    <2> HIDE DEF W
    <2> QED
      BY <1>9, Least
  <1>11. PICK v \in V : w = d.size + 1 - v
    BY <1>10
  <1>12. \A u \in V : v >= u
    <2> SUFFICES ASSUME NEW u \in V PROVE v >= u
      OBVIOUS
    <2>1. w <= d.size + 1 - u
      BY <1>10
    <2> QED
      BY <2>1, <1>11, <1>8, <1>1
  <1>13. Max(V) \in V /\ \A u \in V : Max(V) >= u
    BY <1>12 DEF Max
  <1>14. LongestIn(d, f) = Max(V)
    BY DEF LongestIn, V
  <1> QED
    BY <1>6, <1>8, <1>13, <1>14 DEF S

-----------------------------------------------------------------------------
(* The size of a shard *)

Segments == [file : STRING, from : Nat, to : Nat]

\* Size segment by segment.
LEMMA SizeSteps ==
    ASSUME NEW s \in Seq(Segments)
    PROVE  \E r \in [0 .. Len(s) -> Int] :
               /\ r[0] = 0
               /\ \A k \in 1 .. Len(s) : r[k] = r[k - 1] + s[k].to - s[k].from
               /\ Size(s) = r[Len(s)]
  <1> DEFINE n == Len(s)
             g == [k \in 1 .. n |-> [x \in Int |-> x + s[k].to - s[k].from]]
             step(h) == [k \in 0 .. n |-> IF k = 0 THEN 0 ELSE h[k - 1] + s[k].to - s[k].from]
             r2 == CHOOSE h : h = step(h)
  <1>1. n \in Nat /\ DOMAIN s = 1 .. n
    OBVIOUS
  <1>2. ASSUME NEW k \in 1 .. n PROVE s[k].to \in Nat /\ s[k].from \in Nat
    <2>1. s[k] \in Segments
      OBVIOUS
    <2> QED
      BY <2>1 DEF Segments
  <1>3. g \in [1 .. n -> [Int -> Int]]
    BY <1>2
  <1>4. PICK f : Iterates(f, n, Int, 0, g)
    <2>1. 0 \in Int
      OBVIOUS
    <2> HIDE DEF g, n
    <2> QED
      BY <1>1, <1>3, <2>1, Recursion
  <1>5. f \in [0 .. n -> Int] /\ f[0] = 0 /\ \A k \in 1 .. n : f[k] = g[k][f[k - 1]]
    BY <1>4 DEF Iterates
  <1>6. ASSUME NEW k \in 1 .. n PROVE f[k - 1] \in Int /\ f[k] = f[k - 1] + s[k].to - s[k].from
    <2>1. k - 1 \in 0 .. n
      BY <1>1
    <2>2. f[k - 1] \in Int
      <3> HIDE DEF n
      <3> QED
        BY <2>1, <1>5
    <2> QED
      BY <1>5, <2>2
  <1>7. f = step(f)
    <2>1. \A k \in 0 .. n : f[k] = IF k = 0 THEN 0 ELSE f[k - 1] + s[k].to - s[k].from
      <3> SUFFICES ASSUME NEW k \in 0 .. n, k # 0 PROVE f[k] = f[k - 1] + s[k].to - s[k].from
        BY <1>5
      <3>1. k \in 1 .. n
        BY <1>1
      <3> QED
        BY <3>1, <1>6
    <2> HIDE DEF n
    <2> QED
      BY <2>1, <1>5
  <1>8. r2 = step(r2)
    <2> HIDE DEF step
    <2> QED
      BY <1>7
  <1>9. Size(s) = r2[n]
    BY DEF Size
  <1> HIDE DEF r2, n
  <1>10. r2 = [k \in 0 .. n |-> r2[k]]
    BY <1>8
  <1>11. /\ r2[0] = 0
         /\ \A k \in 1 .. n : r2[k] = r2[k - 1] + s[k].to - s[k].from
    <2>1. \A k \in 0 .. n : r2[k] = IF k = 0 THEN 0 ELSE r2[k - 1] + s[k].to - s[k].from
      BY <1>8
    <2>2. 0 \in 0 .. n
      BY <1>1
    <2>3. \A k \in 1 .. n : k \in 0 .. n /\ k # 0
      BY <1>1
    <2> QED
      BY <2>1, <2>2, <2>3
  <1>12. StepAlike(f, r2, n)
    BY <1>5, <1>6, <1>11 DEF StepAlike
  <1>13. \A k \in 0 .. n : r2[k] = f[k]
    BY <1>1, <1>12, SameSteps
  <1>14. r2 \in [0 .. n -> Int]
    BY <1>10, <1>13, <1>5
  <1> QED
    BY <1>9, <1>11, <1>14 DEF n

\* No segments have no size.
LEMMA SizeEmpty == Size(<<>>) = 0
  <1>1. <<>> \in Seq(Segments) /\ Len(<<>>) = 0
    OBVIOUS
  <1>2. PICK r \in [0 .. Len(<<>>) -> Int] : r[0] = 0 /\ Size(<<>>) = r[Len(<<>>)]
    BY <1>1, SizeSteps
  <1> QED
    BY <1>1, <1>2

\* One more segment adds its length.
LEMMA SizeAppend ==
    ASSUME NEW s \in Seq(Segments), NEW seg \in Segments
    PROVE  Size(s) \in Int /\ Size(Append(s, seg)) = Size(s) + seg.to - seg.from
  <1> DEFINE n == Len(s)
             t == Append(s, seg)
  <1>1. t \in Seq(Segments) /\ Len(t) = n + 1 /\ n \in Nat /\ t[n + 1] = seg
        /\ \A k \in 1 .. n : t[k] = s[k]
    OBVIOUS
  <1>2. PICK f \in [0 .. n -> Int] :
          /\ f[0] = 0
          /\ \A k \in 1 .. n : f[k] = f[k - 1] + s[k].to - s[k].from
          /\ Size(s) = f[n]
    BY SizeSteps
  <1> HIDE DEF t
  <1>3. PICK h \in [0 .. n + 1 -> Int] :
          /\ h[0] = 0
          /\ \A k \in 1 .. n + 1 : h[k] = h[k - 1] + t[k].to - t[k].from
          /\ Size(t) = h[n + 1]
    <2>1. \E h \in [0 .. Len(t) -> Int] :
          /\ h[0] = 0
          /\ \A k \in 1 .. Len(t) : h[k] = h[k - 1] + t[k].to - t[k].from
          /\ Size(t) = h[Len(t)]
      BY <1>1, SizeSteps
    <2> QED
      BY <2>1, <1>1
  <1> HIDE DEF n
  <1>4. StepAlike(f, h, n)
    <2> SUFFICES ASSUME NEW k \in 1 .. n, h[k - 1] = f[k - 1] PROVE h[k] = f[k]
      BY <1>2, <1>3 DEF StepAlike
    <2>1. k \in 1 .. n + 1
      BY <1>1
    <2> QED
      BY <2>1, <1>1, <1>2, <1>3
  <1>5. h[n] = f[n]
    <2>1. \A k \in 0 .. n : h[k] = f[k]
      BY <1>1, <1>4, SameSteps, SMTT(60)
    <2> QED
      BY <2>1, <1>1
  <1>6. h[n + 1] = h[n] + seg.to - seg.from
    <2>1. n + 1 \in 1 .. n + 1 /\ (n + 1) - 1 = n
      BY <1>1
    <2>2. h[n + 1] = h[(n + 1) - 1] + t[n + 1].to - t[n + 1].from
      BY <2>1, <1>3
    <2> QED
      BY <2>1, <2>2, <1>1
  <1>7. f[n] \in Int
    BY <1>1, <1>2
  <1> QED
    BY <1>2, <1>3, <1>5, <1>6, <1>7 DEF t

-----------------------------------------------------------------------------
(* The invariants of a job *)

Segs == FlattenSeq(Append(file_shards, shard))
Running == pc \notin {"idle", "terminated"}

\* Files are only ever removed.
DiskInv == \E d \in Disks : \A f \in DOMAIN disk : f \in DOMAIN d /\ disk[f] = d[f]

TypeInv ==
    /\ DiskInv
    /\ config \in Configs
    /\ mr_spec \in Specs
    /\ pc \in {"idle", "terminated", "shard", "no_shards", "map", "stuck", "reduce"}
    /\ file_shards \in Seq(Seq(Segments)) /\ shard \in Seq(Segments)
    /\ remain_shard_size \in Int /\ file \in Nat /\ file_offset \in Nat /\ file_size \in Int

\* Nothing was read yet, or the numbers are those of the configuration file and
\* the lists hold what it lists, once or more often; and what passed the
\* validation has as many addresses as workers, which no later run has.
SpecInv ==
    \/ mr_spec = EmptySpec /\ ~Running /\ file_shards = <<>> /\ shard = <<>>
    \/ /\ ~ReadThrows(config)
       /\ mr_spec.n_workers = Asked.n_workers /\ mr_spec.map_kilobytes = Asked.map_kilobytes
       /\ Range(mr_spec.input_files) \subseteq Range(Asked.input_files)
       /\ LET ports == mr_spec.worker_ipaddr_ports
              asked == Asked.worker_ipaddr_ports
          IN  /\ \/ ports = asked /\ mr_spec.input_files = Asked.input_files
                 \/ Len(ports) > Len(asked) /\ asked # <<>>
                 \/ ports = <<>> /\ asked = <<>>
              /\ file_shards # <<>> => Len(ports) >= mr_spec.n_workers /\ mr_spec.n_workers > 0
              /\ Running => Len(ports) = mr_spec.n_workers /\ mr_spec.n_workers > 0
                            /\ mr_spec.n_output_files > 0

\* Where the cutting is.
CutInv ==
    pc = "shard" =>
        /\ file <= Len(mr_spec.input_files)
        /\ Size(shard) + remain_shard_size = shard_size
        /\ shard_size < 0 => shard = <<>> /\ file_offset = 0
        /\ shard_size >= 0 => remain_shard_size >= 0
        /\ \A k \in DOMAIN file_shards : Size(file_shards[k]) > shard_size
        /\ file_size > 0 => file >= 1
        /\ file_size > 0 /\ Cut \in DOMAIN disk =>
             /\ file_offset + file_size = disk[Cut].size
             /\ \/ file_offset = 0
                \/ /\ file_offset - 1 \in disk[Cut].newlines
                   /\ Segs # <<>> /\ Last(Segs).file = Cut /\ Last(Segs).to = file_offset

\* The segment k begins and ends with lines.
WholeLines(segs, k) ==
    LET seg == segs[k] IN
    /\ seg.file \in Range(mr_spec.input_files)
    /\ seg.file \in DOMAIN disk =>
         LET d == disk[seg.file] IN
         /\ \/ seg.from = 0
            \/ /\ seg.from - 1 \in d.newlines /\ k > 1
               /\ segs[k - 1].file = seg.file /\ segs[k - 1].to = seg.from
         /\ seg.from < d.size /\ seg.from < seg.to
         /\ \/ seg.to - 1 \in d.newlines
            \/ seg.to = d.size
            \/ seg.to = d.size + 1 /\ d.size - 1 \notin d.newlines

SegsInv == \A k \in DOMAIN Segs : WholeLines(Segs, k)

SizesInv ==
    \A k \in DOMAIN file_shards :
        /\ file_shards[k] # <<>>
        /\ k < Len(file_shards) => Size(file_shards[k]) > shard_size
        /\ Last(file_shards[k]).file \in DOMAIN disk =>
              Size(file_shards[k]) <= shard_size + LongestLine(Last(file_shards[k]).file)

JobInv == TypeInv /\ SpecInv /\ CutInv /\ SegsInv /\ SizesInv

\* No step but Delete touches the disk, and Delete only removes.
Shrinks == \A f \in DOMAIN disk' : f \in DOMAIN disk /\ disk'[f] = disk[f]

\* What is on the disk is a file: a size, and newlines within it.
LEMMA FilesOK ==
    ASSUME DiskInv, NEW f \in DOMAIN disk
    PROVE  FileOK(disk[f])
  BY JobAssumption DEF DiskInv, FileOK

\* The size asked for is a number (an int, by wrapping around).
LEMMA ShardSizeInt ==
    ASSUME mr_spec \in Specs
    PROVE  shard_size \in Int
  <1>1. mr_spec.map_kilobytes \in Int
    BY DEF Specs
  <1> DEFINE h == IntRange \div 2
             x == mr_spec.map_kilobytes * Kilo + h
  <1>2. h \in Int
    BY FileShardAssumption
  <1> HIDE DEF h
  <1>3. x \in Int
    BY <1>1, <1>2, FileShardAssumption
  <1> HIDE DEF x
  <1>4. x % IntRange \in Int
    BY <1>3, FileShardAssumption
  <1> QED
    BY <1>2, <1>4 DEF shard_size, x, h

\* The last element of a sequence that was appended to.
LEMMA LastAppend ==
    ASSUME NEW T, NEW q \in Seq(T), NEW x \in T
    PROVE  Append(q, x) \in Seq(T) /\ Last(Append(q, x)) = x /\ Append(q, x) # <<>>
  BY DEF Last

\* One more segment, an empty shard, and a shard put away.
LEMMA SegsAppend ==
    ASSUME NEW fs \in Seq(Seq(Segments)), NEW s \in Seq(Segments), NEW seg \in Segments
    PROVE  /\ FlattenSeq(fs) \in Seq(Segments)
           /\ FlattenSeq(Append(fs, s)) \in Seq(Segments)
           /\ FlattenSeq(Append(fs, s)) = FlattenSeq(fs) \o s
           /\ FlattenSeq(Append(fs, <<>>)) = FlattenSeq(fs)
           /\ FlattenSeq(Append(fs, Append(s, seg))) = Append(FlattenSeq(Append(fs, s)), seg)
           /\ FlattenSeq(Append(Append(fs, s), <<>>)) = FlattenSeq(Append(fs, s))
  <1>1. <<>> \in Seq(Segments) /\ Append(s, seg) \in Seq(Segments) /\ Append(fs, s) \in Seq(Seq(Segments))
    OBVIOUS
  <1>2. FlattenSeq(fs) \in Seq(Segments) /\ FlattenSeq(Append(fs, s)) \in Seq(Segments)
    BY <1>1, FlattenType
  <1>3. FlattenSeq(Append(fs, s)) = FlattenSeq(fs) \o s
    BY FlattenAppend
  <1>4. FlattenSeq(Append(fs, <<>>)) = FlattenSeq(fs) \o <<>>
    BY <1>1, FlattenAppend
  <1>5. FlattenSeq(Append(fs, Append(s, seg))) = FlattenSeq(fs) \o Append(s, seg)
    BY <1>1, FlattenAppend
  <1>6. FlattenSeq(fs) \o Append(s, seg) = Append(FlattenSeq(fs) \o s, seg)
    <2> DEFINE q == FlattenSeq(fs)
    <2>1. q \in Seq(Segments)
      BY <1>2
    <2> HIDE DEF q
    <2>2. q \o Append(s, seg) = Append(q \o s, seg)
      BY <2>1, ConcatAppend
    <2> QED
      BY <2>2 DEF q
  <1>7. FlattenSeq(Append(Append(fs, s), <<>>)) = FlattenSeq(Append(fs, s)) \o <<>>
    BY <1>1, FlattenAppend
  <1>8. \A q \in Seq(Segments) : q \o <<>> = q
    OBVIOUS
  <1> QED
    BY <1>2, <1>3, <1>4, <1>5, <1>6, <1>7, <1>8

\* A segment of whole lines remains one when files are removed.
LEMMA WholeKept ==
    ASSUME NEW segs, NEW k, WholeLines(segs, k), Shrinks,
           Range(mr_spec.input_files) \subseteq Range(mr_spec'.input_files)
    PROVE  WholeLines(segs, k)'
  BY DEF WholeLines, Shrinks, Range

\* A segment of whole lines remains one when another is appended.
LEMMA WholeAppend ==
    ASSUME NEW segs \in Seq(Segments), NEW seg \in Segments, NEW k \in 1 .. Len(segs),
           WholeLines(segs, k)
    PROVE  WholeLines(Append(segs, seg), k)
  <1>1. Append(segs, seg)[k] = segs[k]
    OBVIOUS
  <1>2. k > 1 => Append(segs, seg)[k - 1] = segs[k - 1]
    <2> SUFFICES ASSUME k > 1 PROVE Append(segs, seg)[k - 1] = segs[k - 1]
      OBVIOUS
    <2>1. k - 1 \in 1 .. Len(segs)
      OBVIOUS
    <2> QED
      BY <2>1
  <1> QED
    BY <1>1, <1>2 DEF WholeLines

\* The segments of all shards are a sequence of segments.
LEMMA SegsType ==
    ASSUME TypeInv
    PROVE  Segs \in Seq(Segments) /\ DOMAIN Segs = 1 .. Len(Segs) /\ Len(Segs) \in Nat
  <1>1. Append(file_shards, shard) \in Seq(Seq(Segments))
    BY DEF TypeInv
  <1>2. Segs \in Seq(Segments)
    BY <1>1, FlattenType DEF Segs
  <1> QED
    BY <1>2

\* The invariant of a job holds at first.
LEMMA JobInit == Init => JobInv
  <1> SUFFICES ASSUME Init PROVE JobInv
    OBVIOUS
  <1>1. TypeInv
    BY EmptySpecType DEF Init, TypeInv, DiskInv
  <1>2. SpecInv
    BY DEF Init, SpecInv, Running
  <1>3. CutInv
    BY DEF Init, CutInv
  <1>4. SegsInv
    <2>1. Append(file_shards, shard) = <<<<>>>> /\ <<>> \in Seq(Seq(Segments)) /\ <<>> \in Seq(Segments)
      BY DEF Init
    <2>2. FlattenSeq(Append(<<>>, <<>>)) = FlattenSeq(<<>>) \o <<>>
      BY <2>1, FlattenAppend
    <2>3. Segs = <<>>
      BY <2>1, <2>2, FlattenEmpty DEF Init, Segs
    <2> QED
      BY <2>3 DEF SegsInv
  <1>5. SizesInv
    BY DEF Init, SizesInv
  <1> QED
    BY <1>1, <1>2, <1>3, <1>4, <1>5 DEF JobInv

\* Steps that leave specification and shards alone.
Quiet ==
    /\ Shrinks
    /\ UNCHANGED <<mr_spec, config, file_shards, shard>>
    /\ pc' \in {"idle", "terminated", "shard", "no_shards", "map", "stuck", "reduce"}
    /\ Running' => Running
    /\ pc' = "shard" => pc = "shard" /\ UNCHANGED cutting
    /\ pc' \in {"map", "reduce"} => pc \in {"map", "reduce"}
    /\ remain_shard_size' \in Int /\ file' \in Nat /\ file_offset' \in Nat /\ file_size' \in Int

\* What is left on the disk is what was there at first.
LEMMA DiskKept ==
    ASSUME DiskInv, Shrinks
    PROVE  DiskInv'
  <1>1. PICK d \in Disks : \A f \in DOMAIN disk : f \in DOMAIN d /\ disk[f] = d[f]
    BY DEF DiskInv
  <1>2. \A f \in DOMAIN disk' : f \in DOMAIN d /\ disk'[f] = d[f]
    BY <1>1 DEF Shrinks
  <1> QED
    BY <1>2 DEF DiskInv

\* The sizes of shards that stay as they are.
LEMMA QuietSizes ==
    ASSUME SizesInv, Shrinks, UNCHANGED file_shards,
           file_shards # <<>> => shard_size' = shard_size,
           file_shards \in Seq(Seq(Segments))
    PROVE  SizesInv'
  <1> SUFFICES ASSUME NEW k \in DOMAIN file_shards
               PROVE  /\ file_shards[k] # <<>>
                      /\ k < Len(file_shards) => Size(file_shards[k]) > shard_size'
                      /\ Last(file_shards[k]).file \in DOMAIN disk' =>
                            Size(file_shards[k]) <= shard_size' + LongestLine(Last(file_shards[k]).file)'
    BY DEF SizesInv, Last
  <1>1. shard_size' = shard_size
    OBVIOUS
  <1>2. ASSUME NEW f \in DOMAIN disk' PROVE f \in DOMAIN disk /\ LongestLine(f)' = LongestLine(f)
    <2>1. f \in DOMAIN disk /\ disk'[f] = disk[f]
      BY DEF Shrinks
    <2>2. LongestLine(f)' = LongestIn(disk'[f], f) /\ LongestLine(f) = LongestIn(disk[f], f)
      BY OnDisk, OnDiskNext
    <2> QED
      BY <2>1, <2>2
  <1> QED
    BY <1>1, <1>2 DEF SizesInv

\* Quiet steps keep the invariant.
LEMMA QuietKept == JobInv /\ Quiet => JobInv'
  <1> SUFFICES ASSUME JobInv, Quiet PROVE JobInv'
    OBVIOUS
  <1>1. TypeInv'
    BY DiskKept DEF JobInv, TypeInv, Quiet
  <1>2. SpecInv'
    BY DEF JobInv, SpecInv, Quiet, Asked
  <1>3. Segs' = Segs /\ shard_size' = shard_size
    BY DEF Quiet, Segs, shard_size
  <1>4. CutInv'
    <2> SUFFICES ASSUME pc' = "shard" PROVE CutInv'
      BY DEF CutInv
    <2>1. Cut' = Cut
      BY DEF Quiet, Cut, cutting
    <2> QED
      BY <1>3, <2>1 DEF JobInv, CutInv, Quiet, cutting, Shrinks
  <1>5. SegsInv'
    <2> SUFFICES ASSUME NEW k \in DOMAIN Segs PROVE WholeLines(Segs, k)'
      BY <1>3 DEF SegsInv
    <2> QED
      BY WholeKept, <1>3 DEF JobInv, SegsInv, Quiet
  <1>6. SizesInv'
    BY <1>3, QuietSizes DEF JobInv, Quiet, TypeInv
  <1> QED
    BY <1>1, <1>2, <1>4, <1>5, <1>6 DEF JobInv

\* Reading once more: what holds of the specification if it is not run.
LEMMA ReadAgain ==
    ASSUME JobInv, ~ReadThrows(config), mr_spec' = Read(config), config' = config
    PROVE  /\ mr_spec' \in Specs
           /\ mr_spec'.n_workers = Asked.n_workers /\ mr_spec'.map_kilobytes = Asked.map_kilobytes
           /\ Range(mr_spec.input_files) \subseteq Range(mr_spec'.input_files)
           /\ Range(mr_spec'.input_files) \subseteq Range(Asked.input_files)
           /\ Asked' = Asked /\ Asked \in Specs
           /\ LET ports == mr_spec'.worker_ipaddr_ports
                  asked == Asked.worker_ipaddr_ports
              IN  /\ \/ ports = asked /\ mr_spec'.input_files = Asked.input_files
                     \/ Len(ports) > Len(asked) /\ asked # <<>>
                     \/ ports = <<>> /\ asked = <<>>
                  /\ file_shards # <<>> =>
                       /\ shard_size' = shard_size
                       /\ Len(ports) >= mr_spec'.n_workers /\ mr_spec'.n_workers > 0
                       /\ asked # <<>> => Len(ports) > mr_spec'.n_workers
  <1>1. mr_spec \in Specs /\ config \in Configs
    BY DEF JobInv, TypeInv
  <1>2. mr_spec' = ReadLines(mr_spec, config) /\ Asked = ReadLines(EmptySpec, config)
    BY DEF Read, Asked
  <1>3. mr_spec' \in Specs /\ Asked \in Specs /\ Adds(mr_spec, Asked, mr_spec')
    BY <1>1, <1>2, ReadType, ReadAdds, EmptySpecType
  <1>4. Asked' = Asked
    BY DEF Asked
  <1> DEFINE p1 == mr_spec.worker_ipaddr_ports
             i1 == mr_spec.input_files
             p2 == mr_spec'.worker_ipaddr_ports
             i2 == mr_spec'.input_files
             pa == Asked.worker_ipaddr_ports
             ia == Asked.input_files
  <1>5. p1 \in Seq(STRING) /\ i1 \in Seq(STRING) /\ pa \in Seq(STRING) /\ ia \in Seq(STRING)
    BY <1>1, <1>3 DEF Specs
  <1>6. p2 = p1 \o pa /\ i2 = i1 \o ia
    BY <1>3 DEF Adds
  <1>7. Len(p2) = Len(p1) + Len(pa) /\ Len(p1) \in Nat /\ Len(pa) \in Nat
        /\ (Len(p1) = 0 <=> p1 = <<>>) /\ (Len(pa) = 0 <=> pa = <<>>)
    <2> HIDE DEF p1, p2, pa, i1, i2, ia
    <2> QED
      BY <1>5, <1>6
  <1>8. Range(i1) \subseteq Range(i2) /\ Range(i2) = Range(i1) \cup Range(ia)
    <2> HIDE DEF p1, p2, pa, i1, i2, ia
    <2>1. Len(i2) = Len(i1) + Len(ia) /\ Len(i1) \in Nat /\ Len(ia) \in Nat
          /\ DOMAIN i2 = 1 .. Len(i1) + Len(ia) /\ DOMAIN i1 = 1 .. Len(i1) /\ DOMAIN ia = 1 .. Len(ia)
          /\ \A k \in 1 .. Len(i1) + Len(ia) : i2[k] = IF k <= Len(i1) THEN i1[k] ELSE ia[k - Len(i1)]
      BY <1>5, <1>6
    <2>2. ASSUME NEW x \in Range(i2) PROVE x \in Range(i1) \cup Range(ia)
      <3>1. PICK k \in 1 .. Len(i1) + Len(ia) : x = i2[k]
        BY <2>1 DEF Range
      <3>2. CASE k <= Len(i1)
        BY <3>1, <3>2, <2>1 DEF Range
      <3>3. CASE k > Len(i1)
        <4>1. k - Len(i1) \in 1 .. Len(ia)
          BY <3>3, <2>1
        <4> QED
          BY <4>1, <3>1, <3>3, <2>1 DEF Range
      <3> QED
        BY <3>2, <3>3, <2>1
    <2>3. ASSUME NEW x \in Range(i1) PROVE x \in Range(i2)
      <3>1. PICK k \in 1 .. Len(i1) : x = i1[k]
        BY <2>1 DEF Range
      <3>2. k \in 1 .. Len(i1) + Len(ia) /\ i2[k] = i1[k]
        BY <2>1
      <3> QED
        BY <3>1, <3>2, <2>1 DEF Range
    <2>4. ASSUME NEW x \in Range(ia) PROVE x \in Range(i2)
      <3>1. PICK k \in 1 .. Len(ia) : x = ia[k]
        BY <2>1 DEF Range
      <3> DEFINE j == k + Len(i1)
      <3>2. j \in 1 .. Len(i1) + Len(ia) /\ ~(j <= Len(i1)) /\ j - Len(i1) = k
        BY <2>1
      <3> HIDE DEF j
      <3> QED
        BY <3>1, <3>2, <2>1 DEF Range
    <2> QED
      BY <2>2, <2>3, <2>4
  <1>9. CASE mr_spec = EmptySpec /\ file_shards = <<>>
    <2>1. p1 = <<>> /\ i1 = <<>> /\ mr_spec.n_workers = 0 /\ mr_spec.map_kilobytes = 0
      BY <1>9 DEF EmptySpec
    <2>2. p2 = pa /\ i2 = ia
      <3> HIDE DEF p1, p2, pa, i1, i2, ia
      <3> QED
        BY <2>1, <1>5, <1>6
    <2>3. mr_spec'.n_workers = Asked.n_workers /\ mr_spec'.map_kilobytes = Asked.map_kilobytes
      BY <2>1, <1>3 DEF Adds
    <2>4. Range(i1) = {}
      BY <2>1 DEF Range
    <2> QED
      BY <1>3, <1>4, <1>8, <1>9, <2>2, <2>3, <2>4
  <1>10. CASE mr_spec.n_workers = Asked.n_workers /\ mr_spec.map_kilobytes = Asked.map_kilobytes
              /\ SpecInv /\ ~(mr_spec = EmptySpec /\ file_shards = <<>>)
    <2>1. mr_spec'.n_workers = Asked.n_workers /\ mr_spec'.map_kilobytes = Asked.map_kilobytes
      BY <1>10, <1>3 DEF Adds
    <2>2. Range(i1) \subseteq Range(ia)
      BY <1>10 DEF SpecInv
    <2>3. \/ p1 = pa /\ i1 = ia
          \/ Len(p1) > Len(pa) /\ pa # <<>>
          \/ p1 = <<>> /\ pa = <<>>
      BY <1>10 DEF SpecInv
    <2>4. file_shards # <<>> => Len(p1) >= mr_spec.n_workers /\ mr_spec.n_workers > 0
      BY <1>10 DEF SpecInv
    <2>5. shard_size' = shard_size
      BY <1>10, <2>1 DEF shard_size
    <2>6. mr_spec.n_workers \in Int
      BY <1>1 DEF Specs
    <2>7. \/ p2 = pa /\ i2 = ia
          \/ Len(p2) > Len(pa) /\ pa # <<>>
          \/ p2 = <<>> /\ pa = <<>>
      <3>1. CASE pa = <<>>
        <4>1. p1 = <<>>
          BY <3>1, <2>3
        <4> HIDE DEF p1, p2, pa, i1, i2, ia
        <4> QED
          BY <3>1, <4>1, <1>6
      <3>2. CASE pa # <<>>
        <4>1. Len(p1) > 0 /\ Len(pa) > 0
          BY <3>2, <2>3, <1>7
        <4> HIDE DEF p1, p2, pa, i1, i2, ia
        <4> QED
          BY <3>2, <4>1, <1>7
      <3> QED
        BY <3>1, <3>2
    <2>8. file_shards # <<>> =>
                       /\ Len(p2) >= mr_spec'.n_workers /\ mr_spec'.n_workers > 0
                       /\ pa # <<>> => Len(p2) > mr_spec'.n_workers
      <3> HIDE DEF p1, p2, pa, i1, i2, ia
      <3> QED
        BY <2>1, <2>4, <2>6, <1>7, <1>10
    <2> QED
      BY <1>3, <1>4, <1>8, <2>1, <2>2, <2>5, <2>7, <2>8
  <1> QED
    BY <1>9, <1>10 DEF JobInv, SpecInv

\* Reading a specification that is not valid keeps the invariant.
LEMMA RunInvalidKept == JobInv /\ RunInvalid => JobInv'
  <1> SUFFICES ASSUME JobInv, RunInvalid PROVE JobInv'
    OBVIOUS
  <1>1. /\ pc = "idle" /\ UNCHANGED <<disk, pc, file_shards, cutting, config>>
        /\ ~ReadThrows(config) /\ mr_spec' = Read(config)
    BY DEF RunInvalid
  <1>2. Shrinks
    BY <1>1 DEF Shrinks
  <1>3. TypeInv'
    BY <1>1, <1>2, DiskKept, ReadAgain DEF JobInv, TypeInv, cutting
  <1>4. SpecInv'
    <2>1. ~Running' /\ ~ReadThrows(config)'
      BY <1>1 DEF Running, ReadThrows
    <2> QED
      BY <1>1, <2>1, ReadAgain DEF SpecInv
  <1>5. CutInv'
    BY <1>1 DEF CutInv
  <1>6. SegsInv'
    <2>1. Segs' = Segs
      BY <1>1 DEF Segs, cutting
    <2> SUFFICES ASSUME NEW k \in DOMAIN Segs PROVE WholeLines(Segs, k)'
      BY <2>1 DEF SegsInv
    <2>2. Range(mr_spec.input_files) \subseteq Range(mr_spec'.input_files)
      BY <1>1, ReadAgain
    <2> QED
      BY <1>2, <2>1, <2>2, WholeKept DEF JobInv, SegsInv
  <1>7. SizesInv'
    <2>1. file_shards # <<>> => shard_size' = shard_size
      BY <1>1, ReadAgain
    <2> QED
      BY <1>1, <1>2, <2>1, QuietSizes DEF JobInv, TypeInv
  <1> QED
    BY <1>3, <1>4, <1>5, <1>6, <1>7 DEF JobInv

\* run starts cutting only when there is no shard yet: what passed the validation
\* once has too many addresses when it is read again.
LEMMA RunKept == JobInv /\ Run => JobInv' /\ file_shards = <<>> /\ Segs' = <<>>
  <1> SUFFICES ASSUME JobInv, Run PROVE JobInv' /\ file_shards = <<>> /\ Segs' = <<>>
    OBVIOUS
  <1>1. /\ pc = "idle" /\ UNCHANGED <<disk, file_shards, config>>
        /\ ~ReadThrows(config) /\ mr_spec' = Read(config)
        /\ validate_mr_spec(mr_spec')
    BY DEF Run
  <1>2. /\ pc' = "shard" /\ shard' = <<>> /\ remain_shard_size' = shard_size'
        /\ file' = 0 /\ file_offset' = 0 /\ file_size' = 0
    BY DEF Run, StartSharding
  <1>3. mr_spec' \in Specs /\ Asked' = Asked /\ Asked \in Specs
    BY <1>1, ReadAgain
  <1>4. shard_size' \in Int
    <2>1. mr_spec'.map_kilobytes \in Int
      BY <1>3 DEF Specs
    <2> DEFINE h == IntRange \div 2
               x == mr_spec'.map_kilobytes * Kilo + h
    <2>2. h \in Int
      BY FileShardAssumption
    <2> HIDE DEF h
    <2>3. x \in Int
      BY <2>1, <2>2, FileShardAssumption
    <2> HIDE DEF x
    <2>4. x % IntRange \in Int
      BY <2>3, FileShardAssumption
    <2> QED
      BY <2>2, <2>4 DEF shard_size, x, h
  <1>5. file_shards = <<>>
    <2> SUFFICES ASSUME file_shards # <<>> PROVE FALSE
      OBVIOUS
    <2> DEFINE p == mr_spec'.worker_ipaddr_ports
               a == Asked.worker_ipaddr_ports
    <2>1. Len(p) = mr_spec'.n_workers /\ mr_spec'.n_workers > 0 /\ mr_spec'.n_workers \in Int
      BY <1>1, <1>3 DEF validate_mr_spec, Specs
    <2>2. a # <<>> => Len(p) > mr_spec'.n_workers
      BY <1>1, ReadAgain
    <2>3. a = <<>>
      BY <2>1, <2>2
    <2>4. p = <<>>
      <3>1. \/ p = a
            \/ a # <<>>
            \/ p = <<>>
        BY <1>1, ReadAgain
      <3> QED
        BY <2>3, <3>1
    <2> QED
      BY <2>1, <2>4
  <1>6. Segs' = <<>>
    <2>1. <<>> \in Seq(Seq(Segments)) /\ <<>> \in Seq(Segments)
      OBVIOUS
    <2>2. FlattenSeq(Append(<<>>, <<>>)) = FlattenSeq(<<>>) \o <<>>
      BY <2>1, FlattenAppend
    <2> QED
      BY <1>1, <1>2, <1>5, <2>2, FlattenEmpty DEF Segs
  <1>7. Shrinks
    BY <1>1 DEF Shrinks
  <1>8. TypeInv'
    BY <1>1, <1>2, <1>3, <1>4, <1>5, <1>7, DiskKept DEF JobInv, TypeInv
  <1>9. SpecInv'
    <2>1. ~ReadThrows(config)'
      BY <1>1 DEF ReadThrows
    <2>2. Len(mr_spec'.worker_ipaddr_ports) = mr_spec'.n_workers /\ mr_spec'.n_workers > 0
          /\ mr_spec'.n_output_files > 0
      BY <1>1 DEF validate_mr_spec
    <2> QED
      BY <1>1, <1>3, <1>5, <2>1, <2>2, ReadAgain DEF SpecInv
  <1>10. CutInv'
    <2>1. mr_spec'.input_files \in Seq(STRING)
      BY <1>3 DEF Specs
    <2>2. 0 <= Len(mr_spec'.input_files)
      BY <2>1
    <2>3. Size(shard)' = 0
      BY <1>2, SizeEmpty
    <2> QED
      BY <1>1, <1>2, <1>4, <1>5, <2>2, <2>3 DEF CutInv
  <1>11. SegsInv'
    BY <1>6 DEF SegsInv
  <1>12. SizesInv'
    BY <1>1, <1>5 DEF SizesInv
  <1> QED
    BY <1>5, <1>6, <1>8, <1>9, <1>10, <1>11, <1>12 DEF JobInv

\* Steps of the cutting: everything but the shards is left alone.
Cutting ==
    /\ pc = "shard"
    /\ UNCHANGED <<disk, mr_spec, config>>

\* What does not change while the files are cut.
LEMMA CuttingFacts ==
    ASSUME JobInv, Cutting
    PROVE  /\ Shrinks /\ DiskInv' /\ shard_size' = shard_size /\ shard_size \in Int
           /\ Asked' = Asked
           /\ Running
           /\ \A f : LongestLine(f)' = LongestLine(f)
           /\ \A segs, k : WholeLines(segs, k)' <=> WholeLines(segs, k)
  <1>1. Shrinks
    BY DEF Cutting, Shrinks
  <1>2. DiskInv' /\ shard_size' = shard_size /\ shard_size \in Int /\ Asked' = Asked /\ Running
    BY <1>1, DiskKept, ShardSizeInt DEF JobInv, TypeInv, Cutting, shard_size, Asked, Running
  <1>3. ASSUME NEW f PROVE LongestLine(f)' = LongestLine(f)
    <2>1. LongestLine(f)' = LongestIn(disk'[f], f) /\ LongestLine(f) = LongestIn(disk[f], f)
      BY OnDisk, OnDiskNext
    <2> QED
      BY <2>1 DEF Cutting
  <1>4. ASSUME NEW segs, NEW k PROVE WholeLines(segs, k)' <=> WholeLines(segs, k)
    BY DEF Cutting, WholeLines
  <1> QED
    BY <1>1, <1>2, <1>3, <1>4

\* The specification while the files are cut.
LEMMA CuttingSpec ==
    ASSUME JobInv, Cutting, Running'
    PROVE  SpecInv'
  <1>1. Running /\ Asked' = Asked /\ config' = config /\ mr_spec' = mr_spec
    BY CuttingFacts DEF Cutting
  <1>2. ~ReadThrows(config)'
    BY <1>1 DEF JobInv, SpecInv, ReadThrows
  <1>3. file_shards' # <<>> => Len(mr_spec.worker_ipaddr_ports) >= mr_spec.n_workers /\ mr_spec.n_workers > 0
    <2>1. mr_spec.n_workers \in Int
      BY DEF JobInv, TypeInv, Specs
    <2> QED
      BY <1>1, <2>1 DEF JobInv, SpecInv
  <1> QED
    BY <1>1, <1>2, <1>3 DEF JobInv, SpecInv

\* Opening the next file keeps the invariant.
LEMMA NextFileKept == JobInv /\ NextFile /\ Cutting => JobInv'
  <1> SUFFICES ASSUME JobInv, NextFile, Cutting PROVE JobInv'
    OBVIOUS
  <1>1. /\ pc = "shard" /\ file < Len(mr_spec.input_files) /\ get_file_size(Coming) # -1
        /\ file' = file + 1 /\ file_offset' = 0 /\ file_size' = get_file_size(Coming)
        /\ UNCHANGED <<pc, file_shards, shard, remain_shard_size>>
    BY DEF NextFile
  <1>2. Coming \in DOMAIN disk /\ get_file_size(Coming) = disk[Coming].size
    BY <1>1 DEF get_file_size
  <1>3. disk[Coming].size \in Nat
    BY <1>2, FilesOK DEF JobInv, TypeInv, FileOK
  <1>4. TypeInv'
    BY <1>1, <1>2, <1>3, CuttingFacts DEF JobInv, TypeInv, Cutting
  <1>5. SpecInv'
    BY <1>1, CuttingSpec DEF Running
  <1>6. Segs' = Segs
    BY <1>1 DEF Segs
  <1>7. CutInv'
    <2>1. Cut' = Coming
      BY <1>1 DEF Cut, Coming, Cutting
    <2>2. mr_spec.input_files \in Seq(STRING) /\ file \in Nat
      BY DEF JobInv, TypeInv, Specs
    <2>3. file + 1 <= Len(mr_spec.input_files) /\ file + 1 >= 1
      BY <2>2, <1>1
    <2>4. disk' = disk /\ mr_spec' = mr_spec /\ shard_size' = shard_size
      BY CuttingFacts DEF Cutting
    <2>5. /\ Size(shard) + remain_shard_size = shard_size
          /\ shard_size < 0 => shard = <<>> /\ file_offset = 0
          /\ shard_size >= 0 => remain_shard_size >= 0
          /\ \A k \in DOMAIN file_shards : Size(file_shards[k]) > shard_size
      BY <1>1 DEF JobInv, CutInv
    <2>6. 0 + disk[Coming].size = disk[Coming].size
      BY <1>3
    <2> QED
      BY <1>1, <1>2, <2>1, <2>3, <2>4, <2>5, <2>6 DEF CutInv
  <1>8. SegsInv'
    BY <1>6, CuttingFacts DEF JobInv, SegsInv
  <1>9. SizesInv'
    BY <1>1, CuttingFacts, QuietSizes DEF JobInv, TypeInv
  <1> QED
    BY <1>4, <1>5, <1>7, <1>8, <1>9 DEF JobInv

\* The next segment of the file that is being cut.
LEMMA NextSegment ==
    ASSUME JobInv, pc = "shard", file_size > 0, NEW to \in Nat, file_offset < to,
           Cut \in DOMAIN disk =>
              \/ to - 1 \in disk[Cut].newlines
              \/ to = disk[Cut].size
              \/ to = disk[Cut].size + 1 /\ disk[Cut].size - 1 \notin disk[Cut].newlines
    PROVE  /\ Segment(Cut, file_offset, to) \in Segments
           /\ LET segs == Append(Segs, Segment(Cut, file_offset, to))
              IN  \A k \in DOMAIN segs : WholeLines(segs, k)
  <1> DEFINE seg == Segment(Cut, file_offset, to)
             segs == Append(Segs, seg)
             n == Len(Segs)
  <1>1. Segs \in Seq(Segments) /\ DOMAIN Segs = 1 .. n /\ n \in Nat
    BY SegsType DEF JobInv
  <1>2. mr_spec.input_files \in Seq(STRING) /\ file \in Nat /\ file_offset \in Nat /\ file_size \in Int
    BY DEF JobInv, TypeInv, Specs
  <1>3. file \in 1 .. Len(mr_spec.input_files)
    BY <1>2 DEF JobInv, CutInv
  <1>4. Cut \in STRING /\ Cut \in Range(mr_spec.input_files)
    BY <1>2, <1>3 DEF Cut, Range
  <1>5. seg \in Segments
    BY <1>2, <1>4 DEF Segment, Segments
  <1>6. seg.file = Cut /\ seg.from = file_offset /\ seg.to = to
    BY DEF Segment
  <1> HIDE DEF seg
  <1>7. DOMAIN segs = 1 .. n + 1 /\ segs[n + 1] = seg /\ \A k \in 1 .. n : segs[k] = Segs[k]
    BY <1>1, <1>5
  <1>8. WholeLines(segs, n + 1)
    <2> SUFFICES ASSUME Cut \in DOMAIN disk
                 PROVE  LET d == disk[Cut] IN
                        /\ \/ file_offset = 0
                           \/ /\ file_offset - 1 \in d.newlines /\ n + 1 > 1
                              /\ segs[(n + 1) - 1].file = Cut /\ segs[(n + 1) - 1].to = file_offset
                        /\ file_offset < d.size
      BY <1>4, <1>6, <1>7 DEF WholeLines
    <2>1. /\ file_offset + file_size = disk[Cut].size
          /\ \/ file_offset = 0
             \/ /\ file_offset - 1 \in disk[Cut].newlines
                /\ Segs # <<>> /\ Last(Segs).file = Cut /\ Last(Segs).to = file_offset
      BY DEF JobInv, CutInv
    <2>2. file_offset < disk[Cut].size
      BY <2>1, <1>2
    <2>3. Segs # <<>> => n > 0 /\ segs[n] = Last(Segs) /\ (n + 1) - 1 = n
      <3> SUFFICES ASSUME Segs # <<>> PROVE n > 0 /\ segs[n] = Last(Segs) /\ (n + 1) - 1 = n
        OBVIOUS
      <3>1. n > 0
        BY <1>1
      <3>2. n \in 1 .. n /\ (n + 1) - 1 = n
        BY <3>1, <1>1
      <3> HIDE DEF segs
      <3> QED
        BY <3>1, <3>2, <1>7 DEF Last
    <2> HIDE DEF segs, n
    <2> QED
      BY <2>1, <2>2, <2>3, <1>1
  <1>9. ASSUME NEW k \in 1 .. n PROVE WholeLines(segs, k)
    BY <1>1, <1>5, WholeAppend DEF JobInv, SegsInv
  <1>10. \A k \in 1 .. n + 1 : k = n + 1 \/ k \in 1 .. n
    BY <1>1
  <1> HIDE DEF segs, n
  <1> QED
    BY <1>5, <1>7, <1>8, <1>9, <1>10 DEF seg, segs

\* Taking the rest of a file adds a segment and keeps the invariant.
LEMMA TakeRestKept ==
    ASSUME JobInv, TakeRest, Cutting
    PROVE  /\ JobInv'
           /\ Segs' = Append(Segs, Segment(Cut, file_offset, file_offset + file_size))
           /\ Segment(Cut, file_offset, file_offset + file_size) \in Segments
  <1> DEFINE seg == Segment(Cut, file_offset, file_offset + file_size)
  <1>1. /\ pc = "shard" /\ file_size > 0 /\ remain_shard_size > file_size
        /\ shard' = Append(shard, seg)
        /\ remain_shard_size' = remain_shard_size - file_size
        /\ file_size' = 0
        /\ UNCHANGED <<pc, file_shards, file, file_offset>>
    BY DEF TakeRest
  <1>2. file_offset \in Nat /\ file_size \in Nat /\ remain_shard_size \in Int /\ file \in Nat
        /\ file_shards \in Seq(Seq(Segments)) /\ shard \in Seq(Segments)
    BY <1>1 DEF JobInv, TypeInv
  <1>3. /\ seg \in Segments
        /\ LET segs == Append(Segs, seg) IN \A k \in DOMAIN segs : WholeLines(segs, k)
    <2>1. file_offset + file_size \in Nat /\ file_offset < file_offset + file_size
      BY <1>1, <1>2
    <2>2. Cut \in DOMAIN disk => file_offset + file_size = disk[Cut].size
      BY <1>1 DEF JobInv, CutInv
    <2> QED
      BY <1>1, <2>1, <2>2, NextSegment
  <1>4. seg.to - seg.from = file_size /\ seg.from \in Nat /\ seg.to \in Nat
    BY <1>2 DEF Segment
  <1> HIDE DEF seg
  <1>5. Segs' = Append(Segs, seg)
    BY <1>1, <1>2, <1>3, SegsAppend DEF Segs
  <1>6. /\ Size(shard) + remain_shard_size = shard_size
        /\ shard_size < 0 => shard = <<>>
        /\ \A k \in DOMAIN file_shards : Size(file_shards[k]) > shard_size
        /\ file <= Len(mr_spec.input_files) /\ file >= 1
    BY <1>1 DEF JobInv, CutInv
  <1>7. Size(shard) \in Int /\ Size(shard') = Size(shard) + file_size
    <2>1. Size(shard) \in Int /\ Size(Append(shard, seg)) = Size(shard) + seg.to - seg.from
      BY <1>2, <1>3, SizeAppend
    <2> QED
      BY <1>1, <1>2, <1>4, <2>1
  <1>8. shard_size \in Int /\ shard_size >= 0
    <2>1. shard_size \in Int
      BY CuttingFacts
    <2> QED
      BY <2>1, <1>1, <1>2, <1>6, <1>7, SizeEmpty
  <1>9. TypeInv'
    <2>1. shard' \in Seq(Segments)
      BY <1>1, <1>2, <1>3
    <2> QED
      BY <1>1, <1>2, <2>1, CuttingFacts DEF JobInv, TypeInv, Cutting
  <1>10. SpecInv'
    BY <1>1, CuttingSpec DEF Running
  <1>11. CutInv'
    <2>1. disk' = disk /\ mr_spec' = mr_spec /\ shard_size' = shard_size
      BY CuttingFacts DEF Cutting
    <2>2. Size(shard') + remain_shard_size' = shard_size /\ remain_shard_size' >= 0
      BY <1>1, <1>2, <1>6, <1>7, <1>8
    <2>3. ~(shard_size < 0) /\ ~(file_size' > 0)
      BY <1>1, <1>8
    <2> QED
      BY <1>1, <1>6, <2>1, <2>2, <2>3 DEF CutInv
  <1>12. SegsInv'
    BY <1>3, <1>5, CuttingFacts DEF SegsInv
  <1>13. SizesInv'
    BY <1>1, CuttingFacts, QuietSizes DEF JobInv, TypeInv
  <1> QED
    BY <1>3, <1>5, <1>9, <1>10, <1>11, <1>12, <1>13 DEF JobInv, seg

\* What get_split finds, if it finds anything.
LEMMA SplitFacts ==
    ASSUME JobInv, pc = "shard", file_size > 0,
           get_split(Cut, file_offset, remain_shard_size) # -1
    PROVE  LET q == file_offset + remain_shard_size
               d == disk[Cut]
               e == EndIn(d, q)
           IN  /\ Cut \in DOMAIN disk /\ FileOK(d)
               /\ shard_size >= 0 /\ remain_shard_size >= 0
               /\ q \in Nat /\ q < d.size /\ q >= file_offset
               /\ get_split(Cut, file_offset, remain_shard_size) = e - file_offset + 1
               /\ e \in Nat /\ q <= e /\ e <= d.size
               /\ e \in d.newlines \/ (e = d.size /\ d.size - 1 \notin d.newlines)
  <1> DEFINE q == file_offset + remain_shard_size
             d == disk[Cut]
             e == EndIn(d, q)
  <1>1. Cut \in DOMAIN disk /\ q \in 0 .. d.size - 1
        /\ get_split(Cut, file_offset, remain_shard_size) = e - file_offset + 1
    BY OnDisk DEF get_split
  <1>2. FileOK(d)
    BY <1>1, FilesOK DEF JobInv, TypeInv
  <1>3. d.size \in Nat /\ file_offset \in Nat /\ remain_shard_size \in Int /\ shard_size \in Int
    BY <1>2, ShardSizeInt DEF FileOK, JobInv, TypeInv
  <1>4. shard_size >= 0 /\ remain_shard_size >= 0
    <2>1. /\ Size(shard) + remain_shard_size = shard_size
          /\ shard_size < 0 => shard = <<>> /\ file_offset = 0
          /\ shard_size >= 0 => remain_shard_size >= 0
      BY DEF JobInv, CutInv
    <2>2. ~(shard_size < 0)
      BY <2>1, <1>1, <1>3, SizeEmpty
    <2> QED
      BY <2>1, <2>2, <1>3
  <1>5. q \in Nat /\ q < d.size /\ q <= d.size /\ q >= file_offset
    BY <1>1, <1>3, <1>4
  <1> HIDE DEF q, d
  <1>6. /\ e \in Nat /\ q <= e /\ e <= d.size
        /\ e \in d.newlines \/ e = d.size
        /\ d.size - 1 \in d.newlines /\ q < d.size => e < d.size
    BY <1>2, <1>5, EndFacts
  <1> QED
    BY <1>1, <1>2, <1>3, <1>4, <1>5, <1>6 DEF q, d

\* Splitting a file adds a segment and keeps the invariant.
LEMMA SplitKept ==
    ASSUME JobInv, Split, Cutting
    PROVE  LET to == file_offset + get_split(Cut, file_offset, remain_shard_size)
           IN  /\ JobInv'
               /\ Segs' = Append(Segs, Segment(Cut, file_offset, to))
               /\ Segment(Cut, file_offset, to) \in Segments
  <1> DEFINE split == get_split(Cut, file_offset, remain_shard_size)
             to == file_offset + split
             seg == Segment(Cut, file_offset, to)
             q == file_offset + remain_shard_size
             d == disk[Cut]
             e == EndIn(d, q)
             new == Append(shard, seg)
  <1>1. /\ pc = "shard" /\ file_size > 0 /\ remain_shard_size <= file_size /\ split # -1
        /\ file_shards' = Append(file_shards, new)
        /\ shard' = <<>> /\ remain_shard_size' = shard_size
        /\ file_offset' = file_offset + split
        /\ file_size' = file_size - split
        /\ UNCHANGED <<pc, file>>
    BY DEF Split
  <1>2. file_offset \in Nat /\ file_size \in Nat /\ remain_shard_size \in Int /\ file \in Nat
        /\ file_shards \in Seq(Seq(Segments)) /\ shard \in Seq(Segments)
    BY <1>1 DEF JobInv, TypeInv
  <1>3. /\ Cut \in DOMAIN disk /\ FileOK(d)
        /\ shard_size >= 0 /\ remain_shard_size >= 0
        /\ q \in Nat /\ q < d.size /\ q >= file_offset
        /\ split = e - file_offset + 1
        /\ e \in Nat /\ q <= e /\ e <= d.size
        /\ e \in d.newlines \/ (e = d.size /\ d.size - 1 \notin d.newlines)
    BY <1>1, SplitFacts
  <1>4. to = e + 1 /\ split \in Int /\ d.size \in Nat
    BY <1>2, <1>3 DEF FileOK
  <1> HIDE DEF d, e, q
  <1>5. /\ seg \in Segments
        /\ LET segs == Append(Segs, seg) IN \A k \in DOMAIN segs : WholeLines(segs, k)
    <2> HIDE DEF to
    <2>1. to \in Nat /\ file_offset < to
      BY <1>2, <1>3, <1>4
    <2>2. \/ to - 1 \in d.newlines
          \/ to = d.size
          \/ to = d.size + 1 /\ d.size - 1 \notin d.newlines
      BY <1>3, <1>4
    <2> QED
      BY <1>1, <2>1, <2>2, NextSegment DEF d
  <1>6. seg.file = Cut /\ seg.from = file_offset /\ seg.to = to
    BY DEF Segment
  <1> HIDE DEF seg, to, split
  <1>7. new \in Seq(Segments) /\ Last(new) = seg /\ new # <<>>
    BY <1>2, <1>5, LastAppend
  <1>8. Segs' = Append(Segs, seg)
    <2>1. Segs' = FlattenSeq(Append(Append(file_shards, new), <<>>))
      BY <1>1 DEF Segs
    <2>2. FlattenSeq(Append(Append(file_shards, new), <<>>)) = FlattenSeq(Append(file_shards, new))
      <3> HIDE DEF new
      <3> QED
        BY <1>2, <1>5, <1>7, SegsAppend
    <2>3. FlattenSeq(Append(file_shards, Append(shard, seg))) = Append(FlattenSeq(Append(file_shards, shard)), seg)
      BY <1>2, <1>5, SegsAppend
    <2> QED
      BY <2>1, <2>2, <2>3 DEF Segs
  <1>9. /\ Size(shard) + remain_shard_size = shard_size
        /\ \A k \in DOMAIN file_shards : Size(file_shards[k]) > shard_size
        /\ file <= Len(mr_spec.input_files) /\ file >= 1
        /\ file_offset + file_size = d.size
    BY <1>1, <1>3 DEF JobInv, CutInv, d
  <1>10. shard_size \in Int /\ disk' = disk /\ mr_spec' = mr_spec /\ shard_size' = shard_size
    BY CuttingFacts DEF Cutting
  <1>11. Size(new) = shard_size + e - q + 1 /\ Size(new) \in Int
    <2>1. Size(shard) \in Int /\ Size(Append(shard, seg)) = Size(shard) + seg.to - seg.from
      BY <1>2, <1>5, SizeAppend
    <2>2. Size(new) = Size(shard) + (e + 1) - file_offset
      BY <2>1, <1>4, <1>6
    <2>3. Size(shard) = shard_size - remain_shard_size /\ q = file_offset + remain_shard_size
      <3> DEFINE x == Size(shard)
      <3>1. x \in Int /\ x + remain_shard_size = shard_size
        BY <2>1, <1>9
      <3> HIDE DEF x
      <3>2. x = shard_size - remain_shard_size
        BY <3>1, <1>2, <1>10
      <3> QED
        BY <3>2 DEF q, x
    <2>4. e \in Int
      BY <1>3
    <2> HIDE DEF new
    <2> QED
      BY <2>2, <2>3, <2>4, <1>2, <1>10
  <1>12. Size(new) > shard_size
    BY <1>3, <1>10, <1>11
  <1>13. Size(new) <= shard_size + LongestLine(Cut)
    <2>1. PICK s \in Starts(d, 0, d.size) : s <= q /\ EndIn(d, s) = EndIn(d, q)
      BY <1>3, LineAt
    <2>2. LongestIn(d, Cut) \in Nat /\ EndIn(d, s) - s + 1 <= LongestIn(d, Cut)
      BY <1>3, LongestFacts
    <2>3. LongestLine(Cut) = LongestIn(d, Cut)
      BY OnDisk DEF d
    <2>4. s \in Int
      BY <1>4 DEF Starts
    <2>5. EndIn(d, s) = e
      BY <2>1 DEF e
    <2> QED
      BY <2>1, <2>2, <2>3, <2>4, <2>5, <1>3, <1>10, <1>11
  <1> HIDE DEF new
  <1>14. file_shards' \in Seq(Seq(Segments)) /\ Len(file_shards') = Len(file_shards) + 1
         /\ DOMAIN file_shards' = 1 .. Len(file_shards) + 1 /\ Len(file_shards) \in Nat
         /\ file_shards'[Len(file_shards) + 1] = new
         /\ (\A k \in 1 .. Len(file_shards) : file_shards'[k] = file_shards[k])
         /\ DOMAIN file_shards = 1 .. Len(file_shards)
    BY <1>1, <1>2, <1>7
  <1>15. \A k \in 1 .. Len(file_shards) + 1 : k = Len(file_shards) + 1 \/ k \in 1 .. Len(file_shards)
    BY <1>14
  <1>16. TypeInv'
    <2>1. <<>> \in Seq(Segments)
      OBVIOUS
    <2>2. file_offset' \in Nat /\ file_size' \in Int
      BY <1>1, <1>2, <1>3, <1>4, SMTT(60) DEF to
    <2> QED
      BY <1>1, <1>2, <1>10, <1>14, <2>1, <2>2, CuttingFacts DEF JobInv, TypeInv, Cutting
  <1>17. SpecInv'
    BY <1>1, CuttingSpec DEF Running
  <1>18. CutInv'
    <2>1. Cut' = Cut
      BY <1>1, <1>10 DEF Cut
    <2>2. Size(shard)' = 0
      BY <1>1, SizeEmpty
    <2>3. \A k \in DOMAIN file_shards' : Size(file_shards'[k]) > shard_size
      BY <1>9, <1>12, <1>14, <1>15
    <2>4. file_offset' + file_size' = d.size /\ file_offset' = to
      BY <1>1, <1>2, <1>4, <1>9 DEF to
    <2>5. file_size' > 0 =>
             /\ file_offset' - 1 \in d.newlines
             /\ Segs' # <<>> /\ Last(Segs').file = Cut /\ Last(Segs').to = file_offset'
      <3> SUFFICES ASSUME file_size' > 0
                   PROVE  /\ file_offset' - 1 \in d.newlines
                          /\ Segs' # <<>> /\ Last(Segs').file = Cut /\ Last(Segs').to = file_offset'
        OBVIOUS
      <3>1. file_offset' - 1 = e
        BY <2>4, <1>3, <1>4
      <3>2. e # d.size
        BY <3>1, <2>4, <1>1, <1>2, <1>3, <1>4
      <3>3. Segs' # <<>> /\ Last(Segs') = seg
        <4>1. Segs \in Seq(Segments)
          BY SegsType DEF JobInv
        <4> QED
          BY <4>1, <1>5, <1>8, LastAppend
      <3> QED
        BY <3>1, <3>2, <3>3, <2>4, <1>3, <1>6
    <2>6. shard_size + 0 = shard_size /\ 0 + shard_size = shard_size /\ ~(shard_size < 0)
      BY <1>3, <1>10
    <2> QED
      BY <1>1, <1>3, <1>9, <1>10, <2>1, <2>2, <2>3, <2>4, <2>5, <2>6 DEF CutInv, d
  <1>19. SegsInv'
    BY <1>5, <1>8, CuttingFacts DEF SegsInv
  <1>20. SizesInv'
    <2> SUFFICES ASSUME NEW k \in DOMAIN file_shards'
                 PROVE  /\ file_shards'[k] # <<>>
                        /\ k < Len(file_shards') => Size(file_shards'[k]) > shard_size
                        /\ Last(file_shards'[k]).file \in DOMAIN disk =>
                              Size(file_shards'[k]) <= shard_size + LongestLine(Last(file_shards'[k]).file)
      <3>1. \A f : LongestLine(f)' = LongestLine(f)
        BY CuttingFacts
      <3> QED
        BY <1>10, <3>1 DEF SizesInv, Last
    <2>1. CASE k = Len(file_shards) + 1
      BY <2>1, <1>6, <1>7, <1>12, <1>13, <1>14
    <2>2. CASE k \in 1 .. Len(file_shards)
      BY <2>2, <1>9, <1>14 DEF JobInv, SizesInv
    <2> QED
      BY <2>1, <2>2, <1>14, <1>15
  <1> QED
    BY <1>5, <1>8, <1>16, <1>17, <1>18, <1>19, <1>20 DEF JobInv, seg, to, split

\* The end of the cutting puts the last shard away and keeps the invariant.
LEMMA ShardsDoneKept == JobInv /\ ShardsDone /\ Cutting => JobInv' /\ Segs' = Segs
  <1> SUFFICES ASSUME JobInv, ShardsDone, Cutting PROVE JobInv' /\ Segs' = Segs
    OBVIOUS
  <1>1. /\ pc = "shard" /\ pc' = "map" /\ shard' = <<>>
        /\ file_shards' = IF shard = <<>> THEN file_shards ELSE Append(file_shards, shard)
        /\ UNCHANGED <<remain_shard_size, file, file_offset, file_size>>
    BY DEF ShardsDone
  <1>2. file_shards \in Seq(Seq(Segments)) /\ shard \in Seq(Segments) /\ <<>> \in Seq(Segments)
        /\ remain_shard_size \in Int
    BY DEF JobInv, TypeInv
  <1>3. Segs' = Segs
    <2>1. CASE shard = <<>>
      BY <1>1, <2>1 DEF Segs
    <2>2. CASE shard # <<>>
      <3>1. PICK seg : seg \in Segments
        BY <1>2, <2>2
      <3> QED
        BY <1>1, <1>2, <2>2, <3>1, SegsAppend DEF Segs
    <2> QED
      BY <2>1, <2>2
  <1>4. TypeInv'
    <2>1. file_shards' \in Seq(Seq(Segments))
      BY <1>1, <1>2
    <2> QED
      BY <1>1, <1>2, <2>1, CuttingFacts DEF JobInv, TypeInv, Cutting
  <1>5. SpecInv'
    BY <1>1, CuttingSpec DEF Running
  <1>6. CutInv'
    BY <1>1 DEF CutInv
  <1>7. SegsInv'
    BY <1>3, CuttingFacts DEF JobInv, SegsInv
  <1>8. shard_size \in Int /\ disk' = disk /\ mr_spec' = mr_spec /\ shard_size' = shard_size
    BY CuttingFacts DEF Cutting
  <1>9. SizesInv'
    <2>1. CASE shard = <<>>
      <3>1. file_shards' = file_shards
        BY <1>1, <2>1
      <3> QED
        BY <3>1, CuttingFacts, QuietSizes DEF JobInv, TypeInv
    <2>2. CASE shard # <<>>
      <3>1. file_shards' = Append(file_shards, shard)
        BY <1>1, <2>2
      <3>2. Len(file_shards') = Len(file_shards) + 1
            /\ DOMAIN file_shards' = 1 .. Len(file_shards) + 1 /\ Len(file_shards) \in Nat
            /\ file_shards'[Len(file_shards) + 1] = shard
            /\ (\A k \in 1 .. Len(file_shards) : file_shards'[k] = file_shards[k])
            /\ DOMAIN file_shards = 1 .. Len(file_shards)
        BY <3>1, <1>2
      <3>3. \A k \in 1 .. Len(file_shards) + 1 : k = Len(file_shards) + 1 \/ k \in 1 .. Len(file_shards)
        BY <3>2
      <3>4. /\ Size(shard) + remain_shard_size = shard_size
            /\ shard_size < 0 => shard = <<>>
            /\ shard_size >= 0 => remain_shard_size >= 0
            /\ \A k \in DOMAIN file_shards : Size(file_shards[k]) > shard_size
        BY <1>1 DEF JobInv, CutInv
      <3>5. Size(shard) \in Int
        <4>1. PICK seg : seg \in Segments
          BY <1>2, <2>2
        <4> QED
          BY <1>2, <4>1, SizeAppend
      <3>6. ASSUME NEW f \in DOMAIN disk PROVE Size(shard) <= shard_size + LongestLine(f)
        <4>1. LongestIn(disk[f], f) \in Nat
          BY FilesOK, LongestFacts DEF JobInv, TypeInv
        <4>2. LongestLine(f) = LongestIn(disk[f], f)
          BY OnDisk
        <4> QED
          BY <4>1, <4>2, <3>4, <3>5, <1>2, <1>8, <2>2
      <3> SUFFICES ASSUME NEW k \in DOMAIN file_shards'
                   PROVE  /\ file_shards'[k] # <<>>
                          /\ k < Len(file_shards') => Size(file_shards'[k]) > shard_size
                          /\ Last(file_shards'[k]).file \in DOMAIN disk =>
                                Size(file_shards'[k]) <= shard_size + LongestLine(Last(file_shards'[k]).file)
        <4>1. \A f : LongestLine(f)' = LongestLine(f)
          BY CuttingFacts
        <4> QED
          BY <1>8, <4>1 DEF SizesInv, Last
      <3>7. CASE k = Len(file_shards) + 1
        BY <3>2, <3>6, <3>7, <2>2
      <3>8. CASE k \in 1 .. Len(file_shards)
        BY <3>2, <3>4, <3>8 DEF JobInv, SizesInv
      <3> QED
        BY <3>2, <3>3, <3>7, <3>8
    <2> QED
      BY <2>1, <2>2
  <1> QED
    BY <1>3, <1>4, <1>5, <1>6, <1>7, <1>9 DEF JobInv

\* The steps that are quiet.
LEMMA QuietSteps ==
    ASSUME JobInv,
           \/ RunWithoutConfig \/ RunThrows \/ (FileGone /\ Cutting) \/ (SplitFails /\ Cutting)
           \/ RunNoShards \/ (\E s \in DOMAIN file_shards : Map(s)) \/ MapStuck \/ Reduce \/ RunReturns
           \/ (\E f \in DOMAIN disk : Delete(f)) \/ UNCHANGED vars
    PROVE  Quiet
  <1>1. pc \in {"idle", "terminated", "shard", "no_shards", "map", "stuck", "reduce"}
        /\ remain_shard_size \in Int /\ file \in Nat /\ file_offset \in Nat /\ file_size \in Int
    BY DEF JobInv, TypeInv
  <1>2. file + 1 \in Nat
    BY <1>1
  <1>3. UNCHANGED disk => Shrinks
    BY DEF Shrinks
  <1>4. CASE RunWithoutConfig
    BY <1>1, <1>3, <1>4 DEF RunWithoutConfig, Quiet, cutting, Running
  <1>5. CASE RunThrows
    BY <1>1, <1>3, <1>5 DEF RunThrows, Quiet, cutting, Running
  <1>6. CASE FileGone /\ Cutting
    BY <1>1, <1>2, <1>3, <1>6 DEF FileGone, Cutting, Quiet, cutting, Running
  <1>7. CASE SplitFails /\ Cutting
    BY <1>1, <1>3, <1>7 DEF SplitFails, Cutting, Quiet, cutting, Running
  <1>8. CASE RunNoShards
    BY <1>1, <1>3, <1>8 DEF RunNoShards, Quiet, cutting, Running
  <1>9. ASSUME NEW s \in DOMAIN file_shards, Map(s) PROVE Quiet
    BY <1>1, <1>3, <1>9 DEF Map, Quiet, cutting, Running
  <1>10. CASE MapStuck
    BY <1>1, <1>3, <1>10 DEF MapStuck, Quiet, cutting, Running
  <1>11. CASE Reduce
    BY <1>1, <1>3, <1>11 DEF Reduce, Quiet, cutting, Running
  <1>12. CASE RunReturns
    BY <1>1, <1>3, <1>12 DEF RunReturns, Quiet, cutting, Running
  <1>13. ASSUME NEW f \in DOMAIN disk, Delete(f) PROVE Quiet
    <2>1. Shrinks
      BY <1>13 DEF Delete, Shrinks
    <2> QED
      BY <1>1, <2>1, <1>13 DEF Delete, Quiet, cutting, Running
  <1>14. CASE UNCHANGED vars
    BY <1>1, <1>3, <1>14 DEF vars, Quiet, cutting, Running
  <1> QED
    BY <1>4, <1>5, <1>6, <1>7, <1>8, <1>9, <1>10, <1>11, <1>12, <1>13, <1>14

\* The steps of a job, apart from each other.
LEMMA StepCases ==
    ASSUME JobInv, [Next]_vars
    PROVE  \/ Quiet
           \/ RunInvalid \/ Run
           \/ Cutting /\ NextFile /\ UNCHANGED <<jobvars>>
           \/ Cutting /\ TakeRest /\ UNCHANGED <<jobvars>>
           \/ Cutting /\ Split /\ UNCHANGED <<jobvars>>
           \/ Cutting /\ ShardsDone /\ UNCHANGED <<jobvars>>
  <1>1. ASSUME create_shards PROVE Cutting /\ shard_files /\ UNCHANGED <<jobvars>>
    BY <1>1 DEF create_shards, Cutting, shard_files, NextFile, FileGone, TakeRest, Split, SplitFails, ShardsDone
  <1>2. CASE create_shards
    BY <1>1, <1>2, QuietSteps DEF shard_files
  <1>3. CASE ~create_shards
    BY <1>3, QuietSteps DEF Next
  <1> QED
    BY <1>2, <1>3

\* Every step keeps the invariant.
LEMMA JobStep == JobInv /\ [Next]_vars => JobInv'
  BY StepCases, QuietKept, RunInvalidKept, RunKept, NextFileKept, TakeRestKept, SplitKept, ShardsDoneKept

\* The invariant of a job always holds.
LEMMA JobCorrect == Spec => []JobInv
  BY JobInit, JobStep, PTL DEF Spec

\* Only a step for one of these reasons goes to no_shards, and the reason lasts.
LEMMA FailsStep == JobInv /\ FailsAtExactEnd /\ [Next]_vars => FailsAtExactEnd'
  <1> SUFFICES ASSUME JobInv, FailsAtExactEnd, [Next]_vars, pc' = "no_shards"
               PROVE  (Cut \notin DOMAIN disk \/ shard_size < 0 \/ file_size = remain_shard_size)'
    BY DEF FailsAtExactEnd
  <1>1. CASE create_shards
    <2>1. Cutting /\ (FileGone \/ SplitFails)
      BY <1>1 DEF create_shards, Cutting, shard_files, NextFile, FileGone, TakeRest, Split, SplitFails, ShardsDone
    <2>2. CASE FileGone
      <3>1. Coming \notin DOMAIN disk
        <4>1. Coming \in DOMAIN disk => disk[Coming].size \in Nat
          BY FilesOK DEF JobInv, TypeInv, FileOK
        <4>2. get_file_size(Coming) = -1
          BY <2>2 DEF FileGone
        <4> QED
          BY <4>1, <4>2 DEF get_file_size
      <3>2. Cut' = Coming /\ disk' = disk
        BY <2>1, <2>2 DEF FileGone, Cutting, Cut, Coming
      <3> QED
        BY <3>1, <3>2
    <2>3. CASE SplitFails
      <3>1. /\ pc = "shard" /\ file_size > 0 /\ remain_shard_size <= file_size
            /\ get_split(Cut, file_offset, remain_shard_size) = -1
            /\ UNCHANGED <<disk, mr_spec, file, file_size, remain_shard_size>>
        BY <2>1, <2>3 DEF SplitFails, Cutting, cutting
      <3>2. Cut' = Cut /\ shard_size' = shard_size
        BY <3>1 DEF Cut, shard_size
      <3> SUFFICES ASSUME Cut \in DOMAIN disk, ~(shard_size < 0)
                   PROVE  file_size = remain_shard_size
        BY <3>1, <3>2
      <3> DEFINE q == file_offset + remain_shard_size
                 d == disk[Cut]
                 e == EndIn(d, q)
      <3>3. FileOK(d) /\ d.size \in Nat
        BY FilesOK DEF JobInv, TypeInv, FileOK
      <3>4. file_offset \in Nat /\ file_size \in Int /\ remain_shard_size \in Int /\ shard_size \in Int
        BY ShardSizeInt DEF JobInv, TypeInv
      <3>5. remain_shard_size >= 0 /\ file_offset + file_size = d.size
        BY <3>1, <3>4 DEF JobInv, CutInv
      <3>6. q \in Nat /\ q <= d.size
        BY <3>1, <3>3, <3>4, <3>5
      <3>7. CASE q = d.size
        BY <3>4, <3>5, <3>7
      <3>8. CASE q # d.size
        <4>1. q \in 0 .. d.size - 1
          BY <3>3, <3>6, <3>8
        <4>2. EndOfLine(Cut, q) - file_offset + 1 = -1
          BY <3>1, <4>1 DEF get_split
        <4>3. EndOfLine(Cut, q) = e
          BY OnDisk
        <4>4. e \in Nat /\ q <= e
          <5> HIDE DEF d, q
          <5> QED
            BY <3>3, <3>6, EndFacts
        <4> QED
          BY <4>2, <4>3, <4>4, <3>4, <3>5
      <3> QED
        BY <3>7, <3>8
    <2> QED
      BY <2>1, <2>2, <2>3
  <1>2. CASE ~create_shards
    <2>1. /\ pc = "no_shards"
          /\ UNCHANGED <<mr_spec, file, file_size, remain_shard_size>>
          /\ DOMAIN disk' \subseteq DOMAIN disk
      BY <1>2 DEF Next, RunWithoutConfig, RunThrows, RunInvalid, Run, StartSharding, RunNoShards,
                  Map, MapStuck, Reduce, RunReturns, Delete, cutting, vars
    <2>2. Cut' = Cut /\ shard_size' = shard_size
      BY <2>1 DEF Cut, shard_size
    <2> QED
      BY <2>1, <2>2 DEF FailsAtExactEnd
  <1> QED
    BY <1>1, <1>2

\* Sharding refuses a job only for the reasons FailsAtExactEnd lists.
THEOREM FailsAtExactEndHolds == Spec => []FailsAtExactEnd
  <1>1. Init => FailsAtExactEnd
    BY DEF Init, FailsAtExactEnd
  <1> QED
    BY <1>1, FailsStep, JobCorrect, PTL DEF Spec

\* The invariant implies that cuts are between lines.
LEMMA CutsFollow == JobInv => CutsAtLines
  <1> SUFFICES ASSUME JobInv PROVE CutsAtLines
    OBVIOUS
  <1>1. ASSUME NEW k \in DOMAIN Segs, Segs[k].file \in DOMAIN disk
        PROVE  /\ \/ Segs[k].from = 0
                  \/ /\ Segs[k].from - 1 \in disk[Segs[k].file].newlines
                     /\ Segs[k - 1].file = Segs[k].file /\ Segs[k - 1].to = Segs[k].from
               /\ Segs[k].to - 1 \in disk[Segs[k].file].newlines \/ Segs[k].to >= disk[Segs[k].file].size
    <2>1. WholeLines(Segs, k)
      BY DEF JobInv, SegsInv
    <2>2. disk[Segs[k].file].size \in Nat
      BY <1>1, FilesOK DEF JobInv, TypeInv, FileOK
    <2> QED
      BY <1>1, <2>1, <2>2 DEF WholeLines
  <1>2. ASSUME NEW k \in DOMAIN file_shards
        PROVE  /\ k < Len(file_shards) => Size(file_shards[k]) > shard_size
               /\ Last(file_shards[k]).file \in DOMAIN disk =>
                     Size(file_shards[k]) <= shard_size + LongestLine(Last(file_shards[k]).file)
    BY DEF JobInv, SizesInv
  <1> QED
    BY <1>1, <1>2 DEF CutsAtLines, Segs

\* Shards are cut between lines, and are as large as they are asked to be but
\* for the rest of a line.
THEOREM CutsAtLinesHolds == Spec => []CutsAtLines
  BY CutsFollow, JobCorrect, PTL

-----------------------------------------------------------------------------
(* The lines of shards *)

Lines == [file : STRING, from : Nat, to : Nat, padded : BOOLEAN]
Trips == STRING \X Nat \X Nat

\* The lines of a segment of the file d.
SegLines(d, seg) ==
    LET newlines == {n \in d.newlines : seg.from <= n /\ n < seg.to - 1}
        starts == Ascending({seg.from} \cup {n + 1 : n \in newlines})
        end(from) == Min({EndIn(d, from), seg.to})
        padded(from) == end(from) = d.size /\ seg.to > d.size
    IN  [k \in DOMAIN starts |->
           [file |-> seg.file, from |-> starts[k], to |-> end(starts[k]),
            padded |-> padded(starts[k])]]

\* The lines of a segment of a file on the disk, now ...
LEMMA LinesInFile ==
    ASSUME NEW seg, seg.file \in DOMAIN disk
    PROVE  LinesIn(seg) = SegLines(disk[seg.file], seg)
  <1>1. \A p : EndOfLine(seg.file, p) = EndIn(disk[seg.file], p)
    BY OnDisk
  <1> QED
    BY <1>1, SMTT(60) DEF LinesIn, SegLines

\* ... and after a step.
LEMMA LinesInFileNext ==
    ASSUME NEW seg, seg.file \in DOMAIN disk'
    PROVE  LinesIn(seg)' = SegLines(disk'[seg.file], seg)
  <1>1. \A p : EndOfLine(seg.file, p)' = EndIn(disk'[seg.file], p)
    BY OnDiskNext
  <1> QED
    BY <1>1 DEF LinesIn, SegLines

\* A segment of whole lines of the file d.
GoodSeg(d, seg) ==
    /\ seg.from = 0 \/ seg.from - 1 \in d.newlines
    /\ seg.from < d.size /\ seg.from < seg.to
    /\ \/ seg.to - 1 \in d.newlines
       \/ seg.to = d.size
       \/ seg.to = d.size + 1 /\ d.size - 1 \notin d.newlines

Triple(l) == <<l.file, l.from, l.to>>
Triples(lines) == [k \in DOMAIN lines |-> Triple(lines[k])]

\* The smaller of two numbers.
LEMMA MinOfTwo ==
    ASSUME NEW a \in Int, NEW b \in Int, a <= b
    PROVE  Min({a, b}) = a
  <1>1. a \in {a, b} /\ \A y \in {a, b} : a <= y
    OBVIOUS
  <1>2. Min({a, b}) \in {a, b} /\ \A y \in {a, b} : Min({a, b}) <= y
    BY <1>1 DEF Min
  <1> QED
    BY <1>2

\* It has just the lines of the file that begin in it.
LEMMA SegLinesFacts ==
    ASSUME NEW d, FileOK(d), NEW seg \in Segments, GoodSeg(d, seg)
    PROVE  /\ SegLines(d, seg) \in Seq(Lines)
           /\ Triples(SegLines(d, seg)) =
                LinesBetween(d, seg.file, seg.from, IF seg.to > d.size THEN d.size ELSE seg.to)
           /\ \A k \in DOMAIN SegLines(d, seg) :
                LET l == SegLines(d, seg)[k] IN
                /\ l.file = seg.file /\ l.from \in 0 .. d.size
                /\ l.padded => l.to = d.size /\ d.size - 1 \notin d.newlines
  <1> DEFINE b == IF seg.to > d.size THEN d.size ELSE seg.to
             N == {n \in d.newlines : seg.from <= n /\ n < seg.to - 1}
             S == {seg.from} \cup {n + 1 : n \in N}
             a == Ascending(S)
             end(from) == Min({EndIn(d, from), seg.to})
             padded(from) == end(from) = d.size /\ seg.to > d.size
  <1>1. d.size \in Nat /\ \A n \in d.newlines : n \in Nat /\ n < d.size
    BY DEF FileOK
  <1>2. seg.file \in STRING /\ seg.from \in Nat /\ seg.to \in Nat
    BY DEF Segments
  <1>3. b \in Nat /\ seg.from < b /\ b <= d.size
    BY <1>1, <1>2 DEF GoodSeg
  <1>4. S = Starts(d, seg.from, b)
    <2>1. ASSUME NEW x \in S PROVE x \in Starts(d, seg.from, b)
      <3>1. CASE x = seg.from
        BY <3>1, <1>2, <1>3 DEF Starts, GoodSeg
      <3>2. CASE x # seg.from
        <4>1. PICK n \in d.newlines : x = n + 1 /\ seg.from <= n /\ n < seg.to - 1
          BY <3>2
        <4>2. n + 1 < b
          <5>1. n \in Nat /\ n < d.size
            BY <1>1
          <5>2. CASE seg.to <= d.size
            BY <5>1, <5>2, <4>1, <1>1, <1>2
          <5>3. CASE seg.to > d.size
            <6>1. d.size - 1 \notin d.newlines
              BY <5>3, <1>1, <1>2 DEF GoodSeg
            <6>2. n # d.size - 1
              BY <6>1
            <6> QED
              BY <5>1, <5>3, <6>2, <1>1
          <5> QED
            BY <5>2, <5>3, <1>1, <1>2
        <4>3. x - 1 = n /\ x \in seg.from .. b - 1
          BY <4>1, <4>2, <1>1, <1>2, <1>3
        <4> QED
          BY <4>3 DEF Starts
      <3> QED
        BY <3>1, <3>2
    <2>2. ASSUME NEW x \in Starts(d, seg.from, b) PROVE x \in S
      <3>1. x \in Int /\ seg.from <= x /\ x < b /\ (x = 0 \/ x - 1 \in d.newlines)
        BY <1>2, <1>3 DEF Starts
      <3>2. CASE x = seg.from
        BY <3>2
      <3>3. CASE x # seg.from
        <4>1. x - 1 \in d.newlines /\ seg.from <= x - 1 /\ x - 1 < seg.to - 1 /\ (x - 1) + 1 = x
          BY <3>1, <3>3, <1>1, <1>2
        <4>2. x - 1 \in N
          BY <4>1
        <4> QED
          BY <4>1, <4>2
      <3> QED
        BY <3>2, <3>3
    <2> QED
      BY <2>1, <2>2
  <1> HIDE DEF S, N
  <1>5. S \in SUBSET (0 .. d.size - 1)
    BY <1>1, <1>2, <1>3, <1>4 DEF Starts
  <1>6. a \in Seq(Int) /\ Range(a) = S
    BY <1>1, <1>5, AscendingOf
  <1>7. \A k \in DOMAIN a : a[k] \in S
    BY <1>6 DEF Range
  <1>8. ASSUME NEW s \in S
        PROVE  /\ end(s) = EndIn(d, s) /\ end(s) \in Nat /\ s \in Nat /\ s < d.size
               /\ padded(s) => end(s) = d.size /\ d.size - 1 \notin d.newlines
    <2>1. s \in Nat /\ s < d.size /\ s <= d.size /\ s < b
      BY <1>1, <1>2, <1>3, <1>4 DEF Starts
    <2>2. /\ EndIn(d, s) \in Nat /\ EndIn(d, s) <= d.size
          /\ \A n \in d.newlines : n >= s => EndIn(d, s) <= n
          /\ d.size - 1 \in d.newlines /\ s < d.size => EndIn(d, s) < d.size
      BY <2>1, EndFacts
    <2>3. EndIn(d, s) <= seg.to
      <3>1. CASE seg.to >= d.size
        BY <3>1, <2>2, <1>1, <1>2
      <3>2. CASE seg.to < d.size
        <4>1. seg.to - 1 \in d.newlines
          BY <3>2, <1>1, <1>2 DEF GoodSeg
        <4>2. seg.to - 1 >= s
          BY <3>2, <2>1, <1>1, <1>2
        <4>3. EndIn(d, s) <= seg.to - 1
          BY <4>1, <4>2, <2>2
        <4> QED
          BY <4>3, <2>2, <1>2
      <3> QED
        BY <3>1, <3>2, <1>1, <1>2
    <2>4. end(s) = EndIn(d, s)
      BY <2>2, <2>3, <1>2, MinOfTwo
    <2> HIDE DEF end
    <2>5. padded(s) => end(s) = d.size /\ d.size - 1 \notin d.newlines
      BY <2>1, <2>2, <2>4, <1>1
    <2> QED
      BY <2>1, <2>2, <2>4, <2>5
  <1> HIDE DEF a
  <1>9. SegLines(d, seg) = [k \in DOMAIN a |-> [file |-> seg.file, from |-> a[k], to |-> end(a[k]),
                                                padded |-> padded(a[k])]]
    BY DEF SegLines, a, S, N
  <1> HIDE DEF end
  <1>10. Len(a) \in Nat /\ DOMAIN a = 1 .. Len(a)
    BY <1>6
  <1>11. \A k \in DOMAIN a : [file |-> seg.file, from |-> a[k], to |-> end(a[k]), padded |-> padded(a[k])] \in Lines
    BY <1>2, <1>7, <1>8 DEF Lines
  <1>12. SegLines(d, seg) \in Seq(Lines)
    <2> HIDE DEF padded
    <2> QED
      BY <1>9, <1>10, <1>11
  <1>13. Triples(SegLines(d, seg)) = [k \in DOMAIN a |-> <<seg.file, a[k], EndIn(d, a[k])>>]
    <2>1. DOMAIN SegLines(d, seg) = DOMAIN a
      BY <1>9
    <2>2. \A k \in DOMAIN a : Triple(SegLines(d, seg)[k]) = <<seg.file, a[k], EndIn(d, a[k])>>
      BY <1>7, <1>8, <1>9 DEF Triple
    <2> QED
      BY <2>1, <2>2 DEF Triples
  <1>14. LinesBetween(d, seg.file, seg.from, b) = [k \in DOMAIN a |-> <<seg.file, a[k], EndIn(d, a[k])>>]
    BY <1>4 DEF LinesBetween, a
  <1>15. ASSUME NEW k \in DOMAIN SegLines(d, seg)
         PROVE  LET l == SegLines(d, seg)[k] IN
                /\ l.file = seg.file /\ l.from \in 0 .. d.size
                /\ l.padded => l.to = d.size /\ d.size - 1 \notin d.newlines
    <2>1. k \in DOMAIN a
      BY <1>9
    <2>2. a[k] \in 0 .. d.size
      BY <2>1, <1>1, <1>7, <1>8
    <2>3. padded(a[k]) => end(a[k]) = d.size /\ d.size - 1 \notin d.newlines
      BY <2>1, <1>7, <1>8
    <2>4. SegLines(d, seg)[k] = [file |-> seg.file, from |-> a[k], to |-> end(a[k]), padded |-> padded(a[k])]
      BY <1>9, <2>1
    <2> HIDE DEF padded
    <2> QED
      BY <2>2, <2>3, <2>4
  <1> QED
    BY <1>12, <1>13, <1>14, <1>15

\* Lines of a file are triples, and there are none in an empty interval.
LEMMA LinesBetweenType ==
    ASSUME NEW d, FileOK(d), NEW f \in STRING, NEW x \in Nat, NEW y \in Nat, y <= d.size
    PROVE  /\ LinesBetween(d, f, x, y) \in Seq(Trips)
           /\ LinesBetween(d, f, x, x) = <<>>
  <1> DEFINE A == Starts(d, x, y)
             a == Ascending(A)
  <1>1. A \in SUBSET (0 .. y - 1)
    BY DEF Starts
  <1> HIDE DEF A
  <1>2. a \in Seq(Int) /\ Range(a) = A
    BY <1>1, AscendingOf
  <1>3. LinesBetween(d, f, x, y) = [k \in DOMAIN a |-> <<f, a[k], EndIn(d, a[k])>>]
    BY DEF LinesBetween, A
  <1> HIDE DEF a
  <1>4. \A k \in DOMAIN a : <<f, a[k], EndIn(d, a[k])>> \in Trips
    <2> SUFFICES ASSUME NEW k \in DOMAIN a PROVE a[k] \in Nat /\ EndIn(d, a[k]) \in Nat
      BY DEF Trips
    <2>1. a[k] \in A
      BY <1>2 DEF Range
    <2>2. a[k] \in Nat /\ a[k] <= d.size
      BY <2>1, <1>1 DEF FileOK
    <2> QED
      BY <2>2, EndFacts
  <1>5. Len(a) \in Nat /\ DOMAIN a = 1 .. Len(a)
    BY <1>2
  <1>6. LinesBetween(d, f, x, y) \in Seq(Trips)
    BY <1>3, <1>4, <1>5
  <1>7. Starts(d, x, x) = {}
    BY DEF Starts
  <1>8. Ascending({}) = <<>>
    <2>1. <<>> \in Seq(Int) /\ Increasing(<<>>) /\ Range(<<>>) = {}
      BY DEF Increasing, Range
    <2> QED
      BY <2>1, AscendingIs
  <1>9. LinesBetween(d, f, x, x) = <<>>
    BY <1>7, <1>8 DEF LinesBetween
  <1> QED
    BY <1>6, <1>9
\* Lines of a file in two parts.
LEMMA LinesSplit ==
    ASSUME NEW d, FileOK(d), NEW f \in STRING, NEW x \in Nat, NEW y \in Nat, NEW z \in Nat,
           x <= y, y <= z, z <= d.size
    PROVE  LinesBetween(d, f, x, z) = LinesBetween(d, f, x, y) \o LinesBetween(d, f, y, z)
  <1> DEFINE A == Starts(d, x, y)
             B == Starts(d, y, z)
             C == Starts(d, x, z)
             a == Ascending(A)
             b == Ascending(B)
             c == Ascending(C)
  <1>1. A \in SUBSET (0 .. z - 1) /\ B \in SUBSET (0 .. z - 1) /\ C \in SUBSET (0 .. z - 1)
    BY DEF Starts
  <1>2. \A u \in A, v \in B : u < v
    BY DEF Starts
  <1>3. C = A \cup B
    BY DEF Starts
  <1> HIDE DEF A, B, C
  <1>4. c = a \o b
    BY <1>1, <1>2, <1>3, AscendingUnion
  <1>5. a \in Seq(Int) /\ b \in Seq(Int)
    BY <1>1, AscendingOf
  <1>6. /\ LinesBetween(d, f, x, z) = [k \in DOMAIN c |-> <<f, c[k], EndIn(d, c[k])>>]
        /\ LinesBetween(d, f, x, y) = [k \in DOMAIN a |-> <<f, a[k], EndIn(d, a[k])>>]
        /\ LinesBetween(d, f, y, z) = [k \in DOMAIN b |-> <<f, b[k], EndIn(d, b[k])>>]
    BY DEF LinesBetween, A, B, C
  <1> HIDE DEF a, b, c
  <1> DEFINE la == [k \in DOMAIN a |-> <<f, a[k], EndIn(d, a[k])>>]
             lb == [k \in DOMAIN b |-> <<f, b[k], EndIn(d, b[k])>>]
             lc == [k \in DOMAIN c |-> <<f, c[k], EndIn(d, c[k])>>]
             n == Len(a)
             m == Len(b)
  <1>7. n \in Nat /\ m \in Nat /\ DOMAIN a = 1 .. n /\ DOMAIN b = 1 .. m /\ DOMAIN c = 1 .. n + m
        /\ \A k \in 1 .. n + m : c[k] = IF k <= n THEN a[k] ELSE b[k - n]
    BY <1>4, <1>5
  <1> HIDE DEF n, m
  <1>8. la = [k \in 1 .. n |-> <<f, a[k], EndIn(d, a[k])>>] /\ lb = [k \in 1 .. m |-> <<f, b[k], EndIn(d, b[k])>>]
        /\ lc = [k \in 1 .. n + m |-> <<f, c[k], EndIn(d, c[k])>>]
    BY <1>7
  <1>9. la \in Seq(Trips) /\ lb \in Seq(Trips)
    <2>1. y <= d.size
      BY DEF FileOK
    <2>2. LinesBetween(d, f, x, y) = la /\ LinesBetween(d, f, y, z) = lb
      BY <1>6
    <2> HIDE DEF la, lb
    <2> QED
      BY <2>1, <2>2, LinesBetweenType
  <1>13. Len(la) = n /\ Len(lb) = m
        /\ (\A k \in 1 .. n : la[k] = <<f, a[k], EndIn(d, a[k])>>)
        /\ (\A k \in 1 .. m : lb[k] = <<f, b[k], EndIn(d, b[k])>>)
    BY <1>7, <1>8
  <1> DEFINE q == la \o lb
  <1> HIDE DEF la, lb
  <1>10. q = [k \in 1 .. n + m |-> IF k <= n THEN la[k] ELSE lb[k - n]]
    <2>1. q \in Seq(Trips) /\ Len(q) = Len(la) + Len(lb)
          /\ \A k \in 1 .. Len(la) + Len(lb) : q[k] = IF k <= Len(la) THEN la[k] ELSE lb[k - Len(la)]
      BY <1>9
    <2> HIDE DEF q
    <2>2. q = [k \in 1 .. Len(q) |-> q[k]]
      BY <2>1
    <2> QED
      BY <2>1, <2>2, <1>13
  <1>11. \A k \in 1 .. n + m : (IF k <= n THEN la[k] ELSE lb[k - n]) = <<f, c[k], EndIn(d, c[k])>>
    <2> SUFFICES ASSUME NEW k \in 1 .. n + m
                 PROVE  (IF k <= n THEN la[k] ELSE lb[k - n]) = <<f, c[k], EndIn(d, c[k])>>
      OBVIOUS
    <2>1. CASE k <= n
      <3>1. k \in 1 .. n /\ c[k] = a[k]
        BY <2>1, <1>7
      <3> QED
        BY <3>1, <2>1, <1>13
    <2>2. CASE ~(k <= n)
      <3>1. k - n \in 1 .. m /\ c[k] = b[k - n]
        BY <2>2, <1>7
      <3> QED
        BY <3>1, <2>2, <1>13
    <2> QED
      BY <2>1, <2>2
  <1>12. lc = q
    BY <1>8, <1>10, <1>11
  <1> QED
    BY <1>6, <1>12 DEF la, lb

\* A concatenation, element by element.
LEMMA ConcatIs ==
    ASSUME NEW T, NEW a \in Seq(T), NEW b \in Seq(T)
    PROVE  /\ Len(a) \in Nat /\ Len(b) \in Nat /\ DOMAIN a = 1 .. Len(a) /\ DOMAIN b = 1 .. Len(b)
           /\ a \o b \in Seq(T) /\ Len(a \o b) = Len(a) + Len(b)
           /\ DOMAIN (a \o b) = 1 .. Len(a) + Len(b)
           /\ a \o b = [k \in 1 .. Len(a) + Len(b) |-> IF k <= Len(a) THEN a[k] ELSE b[k - Len(a)]]
  <1> DEFINE q == a \o b
  <1>1. q \in Seq(T) /\ Len(q) = Len(a) + Len(b) /\ Len(a) \in Nat /\ Len(b) \in Nat
        /\ DOMAIN a = 1 .. Len(a) /\ DOMAIN b = 1 .. Len(b)
        /\ \A k \in 1 .. Len(a) + Len(b) : q[k] = IF k <= Len(a) THEN a[k] ELSE b[k - Len(a)]
    OBVIOUS
  <1> HIDE DEF q
  <1>2. q = [k \in 1 .. Len(q) |-> q[k]] /\ DOMAIN q = 1 .. Len(q)
    BY <1>1
  <1> QED
    BY <1>1, <1>2 DEF q

\* Applying a function h to the elements of a concatenation.
Maps(h, T, U) == h \in [T -> U]
Apply(h, q) == [k \in DOMAIN q |-> h[q[k]]]

\* The function goes into both parts.
LEMMA ApplyBoth ==
    ASSUME NEW T, NEW U, NEW h, Maps(h, T, U), NEW a \in Seq(T), NEW b \in Seq(T)
    PROVE  /\ Apply(h, a) \in Seq(U) /\ Apply(h, b) \in Seq(U)
           /\ Len(Apply(h, a)) = Len(a)
           /\ Apply(h, a \o b) = Apply(h, a) \o Apply(h, b)
  <1> DEFINE n == Len(a)
             m == Len(b)
             q == a \o b
             x == Apply(h, a)
             y == Apply(h, b)
  <1>1. /\ n \in Nat /\ m \in Nat /\ DOMAIN a = 1 .. n /\ DOMAIN b = 1 .. m
        /\ q = [k \in 1 .. n + m |-> IF k <= n THEN a[k] ELSE b[k - n]]
    BY ConcatIs
  <1>2. (\A k \in 1 .. n : a[k] \in T) /\ (\A k \in 1 .. m : b[k] \in T)
    OBVIOUS
  <1> HIDE DEF n, m, q
  <1>3. x = [k \in 1 .. n |-> h[a[k]]] /\ y = [k \in 1 .. m |-> h[b[k]]]
    BY <1>1 DEF Apply
  <1>4. x \in Seq(U) /\ y \in Seq(U) /\ Len(x) = n /\ Len(y) = m
    <2>1. (\A k \in 1 .. n : h[a[k]] \in U) /\ (\A k \in 1 .. m : h[b[k]] \in U)
      BY <1>2 DEF Maps
    <2> HIDE DEF x, y
    <2> QED
      BY <1>1, <1>3, <2>1
  <1> HIDE DEF x, y
  <1>5. x \o y = [k \in 1 .. n + m |-> IF k <= n THEN x[k] ELSE y[k - n]]
    <2>1. x \o y = [k \in 1 .. Len(x) + Len(y) |-> IF k <= Len(x) THEN x[k] ELSE y[k - Len(x)]]
      BY <1>4, ConcatIs
    <2> QED
      BY <2>1, <1>4
  <1>6. Apply(h, q) = [k \in 1 .. n + m |-> h[q[k]]]
    BY <1>1 DEF Apply
  <1>7. ASSUME NEW k \in 1 .. n + m PROVE h[q[k]] = IF k <= n THEN x[k] ELSE y[k - n]
    <2>1. CASE k <= n
      <3>1. k \in 1 .. n /\ q[k] = a[k]
        BY <2>1, <1>1
      <3> QED
        BY <3>1, <2>1, <1>3
    <2>2. CASE ~(k <= n)
      <3>1. k - n \in 1 .. m /\ q[k] = b[k - n]
        BY <2>2, <1>1
      <3> QED
        BY <3>1, <2>2, <1>3
    <2> QED
      BY <2>1, <2>2
  <1>8. Apply(h, q) = x \o y
    BY <1>5, <1>6, <1>7
  <1> QED
    BY <1>4, <1>8 DEF x, y, q, n

\* ... the type alone,
LEMMA ApplyType ==
    ASSUME NEW T, NEW U, NEW h, Maps(h, T, U), NEW a \in Seq(T)
    PROVE  Apply(h, a) \in Seq(U) /\ Len(Apply(h, a)) = Len(a)
  BY ApplyBoth

\* ... and the equation alone.
LEMMA ApplyConcat ==
    ASSUME NEW T, NEW U, NEW h, Maps(h, T, U), NEW a \in Seq(T), NEW b \in Seq(T)
    PROVE  Apply(h, a \o b) = Apply(h, a) \o Apply(h, b)
  BY ApplyBoth

\* Flattening what h gives for the elements.
LEMMA FlattenApplyType ==
    ASSUME NEW T, NEW U, NEW h, Maps(h, T, Seq(U)), NEW a \in Seq(T)
    PROVE  FlattenSeq(Apply(h, a)) \in Seq(U)
  <1> DEFINE V == Seq(U)
             x == Apply(h, a)
  <1>1. Maps(h, T, V)
    OBVIOUS
  <1> HIDE DEF V
  <1>2. x \in Seq(V)
    BY <1>1, ApplyType
  <1> HIDE DEF x
  <1>3. FlattenSeq(x) \in Seq(U)
    BY <1>2, FlattenType DEF V
  <1> QED
    BY <1>3 DEF x

\* ... for a concatenation,
LEMMA FlattenApply ==
    ASSUME NEW T, NEW U, NEW h, Maps(h, T, Seq(U)), NEW a \in Seq(T), NEW b \in Seq(T)
    PROVE  FlattenSeq(Apply(h, a \o b)) = FlattenSeq(Apply(h, a)) \o FlattenSeq(Apply(h, b))
  <1> DEFINE V == Seq(U)
             x == Apply(h, a)
             y == Apply(h, b)
  <1>1. Maps(h, T, V)
    OBVIOUS
  <1> HIDE DEF V
  <1>2. x \in Seq(V) /\ y \in Seq(V)
    BY <1>1, ApplyType
  <1>3. Apply(h, a \o b) = x \o y
    BY <1>1, ApplyConcat
  <1> HIDE DEF x, y
  <1>4. FlattenSeq(x \o y) = FlattenSeq(x) \o FlattenSeq(y)
    BY <1>2, FlattenConcat DEF V
  <1> QED
    BY <1>3, <1>4 DEF x, y

\* ... for one element.
LEMMA FlattenApplyOne ==
    ASSUME NEW T, NEW U, NEW h, Maps(h, T, Seq(U)), NEW x \in T
    PROVE  FlattenSeq(Apply(h, <<x>>)) = h[x] /\ FlattenSeq(Apply(h, <<>>)) = <<>>
  <1>1. Apply(h, <<x>>) = <<h[x]>> /\ Apply(h, <<>>) = <<>>
    BY DEF Apply
  <1>2. h[x] \in Seq(U) /\ <<>> \in Seq(Seq(U)) /\ Append(<<>>, h[x]) = <<h[x]>>
    BY DEF Maps
  <1>3. FlattenSeq(Append(<<>>, h[x])) = FlattenSeq(<<>>) \o h[x]
    BY <1>2, FlattenAppend
  <1>4. <<>> \o h[x] = h[x]
    BY <1>2
  <1> QED
    BY <1>1, <1>2, <1>3, <1>4, FlattenEmpty

\* Flattening twice, in either order.
LEMMA FlattenTwice ==
    ASSUME NEW T, NEW U, NEW h, Maps(h, T, Seq(U)), NEW ss \in Seq(Seq(T))
    PROVE  FlattenSeq(Apply(h, FlattenSeq(ss))) =
             FlattenSeq([i \in DOMAIN ss |-> FlattenSeq(Apply(h, ss[i]))])
  <1> DEFINE n == Len(ss)
             L == [i \in DOMAIN ss |-> FlattenSeq(Apply(h, ss[i]))]
             G == {k \in 0 .. n : FlattenSeq(Apply(h, FlattenSeq(Upto(ss, k)))) = FlattenSeq(Upto(L, k))}
  <1>1. n \in Nat /\ DOMAIN ss = 1 .. n /\ \A i \in 1 .. n : ss[i] \in Seq(T)
    OBVIOUS
  <1>2. \A i \in 1 .. n : FlattenSeq(Apply(h, ss[i])) \in Seq(U)
    BY <1>1, FlattenApplyType
  <1>3. L \in Seq(Seq(U)) /\ Len(L) = n
    BY <1>1, <1>2
  <1>4. \A i \in 1 .. n : L[i] = FlattenSeq(Apply(h, ss[i]))
    BY <1>1
  <1> HIDE DEF L
  <1>5. 0 \in G
    <2>1. Upto(ss, 0) = <<>> /\ Upto(L, 0) = <<>>
      BY <1>3, UptoFacts
    <2>2. Apply(h, <<>>) = <<>>
      BY DEF Apply
    <2> QED
      BY <1>1, <2>1, <2>2, FlattenEmpty
  <1>6. ASSUME NEW k \in 0 .. n - 1, k \in G PROVE k + 1 \in G
    <2>1. k \in 0 .. n /\ k + 1 \in 1 .. n /\ k + 1 \in 0 .. n /\ (k + 1) - 1 = k
      BY <1>1
    <2> DEFINE u == Upto(ss, k)
               v == Upto(L, k)
               s == ss[k + 1]
               l == L[k + 1]
               fu == FlattenSeq(u)
    <2>2. u \in Seq(Seq(T)) /\ s \in Seq(T) /\ Upto(ss, k + 1) = Append(u, s)
      BY <2>1, UptoFacts
    <2>3. v \in Seq(Seq(U)) /\ l \in Seq(U) /\ Upto(L, k + 1) = Append(v, l)
      BY <2>1, <1>3, UptoFacts
    <2>4. l = FlattenSeq(Apply(h, s))
      BY <2>1, <1>4
    <2>5. FlattenSeq(Apply(h, fu)) = FlattenSeq(v)
      BY <1>6
    <2> HIDE DEF u, v, s, l
    <2>6. FlattenSeq(Append(u, s)) = fu \o s /\ fu \in Seq(T)
      BY <2>2, FlattenAppend, FlattenType
    <2>7. FlattenSeq(Append(v, l)) = FlattenSeq(v) \o l
      BY <2>3, FlattenAppend
    <2> HIDE DEF fu
    <2>8. FlattenSeq(Apply(h, fu \o s)) = FlattenSeq(Apply(h, fu)) \o FlattenSeq(Apply(h, s))
      <3>1. fu \in Seq(T) /\ s \in Seq(T)
        BY <2>2, <2>6
      <3> QED
        BY <3>1, FlattenApply
    <2> QED
      BY <2>1, <2>2, <2>3, <2>4, <2>5, <2>6, <2>7, <2>8
  <1>7. \A k \in 0 .. n : k \in G
    <2> HIDE DEF G, n
    <2> QED
      BY <1>1, <1>5, <1>6, UpTo
  <1>8. n \in G
    <2>1. n \in 0 .. n
      BY <1>1
    <2> HIDE DEF G, n
    <2> QED
      BY <2>1, <1>7
  <1>9. Upto(ss, n) = ss /\ Upto(L, n) = L
    BY <1>3, UptoFacts
  <1> QED
    BY <1>8, <1>9 DEF L

\* What is in a part is in the whole.
LEMMA FlattenMembers ==
    ASSUME NEW T, NEW ss \in Seq(Seq(T)), NEW i \in DOMAIN ss, NEW j \in DOMAIN ss[i]
    PROVE  \E k \in DOMAIN FlattenSeq(ss) : FlattenSeq(ss)[k] = ss[i][j]
  <1> DEFINE n == Len(ss)
  <1>1. n \in Nat /\ DOMAIN ss = 1 .. n /\ i \in 1 .. n /\ \A k \in 1 .. n : ss[k] \in Seq(T)
    OBVIOUS
  <1>2. PICK f \in [0 .. n -> Seq(T)] :
          /\ f[0] = <<>>
          /\ \A k \in 1 .. n : f[k] = f[k - 1] \o ss[k]
          /\ FlattenSeq(ss) = f[n]
    BY FlattenSteps
  <1> DEFINE In(k) == \E p \in DOMAIN f[k] : f[k][p] = ss[i][j]
             G == {k \in 0 .. n : k >= i => In(k)}
  <1> HIDE DEF n
  <1>3. 0 \in G
    BY <1>1
  <1>4. ASSUME NEW k \in 0 .. n - 1, k \in G PROVE k + 1 \in G
    <2>1. k \in 0 .. n /\ k + 1 \in 1 .. n /\ k + 1 \in 0 .. n /\ (k + 1) - 1 = k
      BY <1>1
    <2>2. f[k + 1] = f[k] \o ss[k + 1] /\ f[k] \in Seq(T) /\ ss[k + 1] \in Seq(T)
      <3>1. f[k + 1] = f[(k + 1) - 1] \o ss[k + 1]
        BY <2>1, <1>2
      <3> QED
        BY <3>1, <2>1, <1>1, <1>2
    <2>3. /\ Len(f[k]) \in Nat /\ DOMAIN f[k] = 1 .. Len(f[k]) /\ DOMAIN ss[k + 1] = 1 .. Len(ss[k + 1])
          /\ Len(ss[k + 1]) \in Nat
          /\ f[k + 1] = [p \in 1 .. Len(f[k]) + Len(ss[k + 1]) |->
                           IF p <= Len(f[k]) THEN f[k][p] ELSE ss[k + 1][p - Len(f[k])]]
      <3> DEFINE x == f[k]
                 y == ss[k + 1]
      <3>1. x \in Seq(T) /\ y \in Seq(T) /\ f[k + 1] = x \o y
        BY <2>2
      <3> HIDE DEF x, y
      <3>2. /\ Len(x) \in Nat /\ DOMAIN x = 1 .. Len(x) /\ DOMAIN y = 1 .. Len(y) /\ Len(y) \in Nat
            /\ x \o y = [p \in 1 .. Len(x) + Len(y) |-> IF p <= Len(x) THEN x[p] ELSE y[p - Len(x)]]
        BY <3>1, ConcatIs
      <3> QED
        BY <3>1, <3>2 DEF x, y
    <2> SUFFICES ASSUME k + 1 >= i PROVE In(k + 1)
      BY <2>1
    <2>4. CASE k >= i
      <3>1. PICK p \in DOMAIN f[k] : f[k][p] = ss[i][j]
        BY <1>4, <2>4
      <3>2. p \in 1 .. Len(f[k]) + Len(ss[k + 1]) /\ p <= Len(f[k])
        <4> DEFINE x == Len(f[k])
                   y == Len(ss[k + 1])
        <4>1. x \in Nat /\ y \in Nat /\ p \in 1 .. x
          BY <2>3
        <4> HIDE DEF x, y
        <4>2. p \in 1 .. x + y /\ p <= x
          BY <4>1
        <4> QED
          BY <4>2 DEF x, y
      <3>3. f[k + 1][p] = f[k][p] /\ p \in DOMAIN f[k + 1]
        BY <3>2, <2>3
      <3> QED
        BY <3>1, <3>3
    <2>5. CASE ~(k >= i)
      <3>1. k + 1 = i
        BY <2>5, <1>1, SMTT(60)
      <3> DEFINE p == j + Len(f[k])
      <3>2. j \in 1 .. Len(ss[k + 1])
        BY <3>1, <2>3
      <3>3. p \in 1 .. Len(f[k]) + Len(ss[k + 1]) /\ ~(p <= Len(f[k])) /\ p - Len(f[k]) = j
        <4> DEFINE x == Len(f[k])
                   y == Len(ss[k + 1])
        <4>1. x \in Nat /\ y \in Nat /\ j \in 1 .. y
          BY <3>2, <2>3
        <4> HIDE DEF x, y
        <4>2. j + x \in 1 .. x + y /\ ~(j + x <= x) /\ (j + x) - x = j
          BY <4>1
        <4> QED
          BY <4>2 DEF x, y
      <3> HIDE DEF p
      <3>4. f[k + 1][p] = ss[k + 1][j] /\ p \in DOMAIN f[k + 1]
        BY <3>3, <2>3
      <3> QED
        BY <3>1, <3>4
    <2> QED
      BY <2>4, <2>5, <1>1
  <1>5. \A k \in 0 .. n : k \in G
    <2> HIDE DEF G
    <2> QED
      BY <1>1, <1>3, <1>4, UpTo
  <1>6. In(n)
    <2>1. n \in 0 .. n /\ n >= i
      BY <1>1
    <2> HIDE DEF In
    <2> QED
      BY <2>1, <1>5
  <1> QED
    BY <1>6, <1>2

\* All the input files are still there.
AllIn == \A f \in Range(mr_spec.input_files) : f \in DOMAIN disk

\* Segments and lines of input files.
Goods == {seg \in Segments : seg.file \in Range(mr_spec.input_files) /\ seg.file \in DOMAIN disk
                             /\ GoodSeg(disk[seg.file], seg)}
GoodLines ==
    {l \in Lines : /\ l.file \in Range(mr_spec.input_files) /\ l.file \in DOMAIN disk
                   /\ l.from \in 0 .. disk[l.file].size
                   /\ l.padded => l.to = disk[l.file].size
                                  /\ disk[l.file].size - 1 \notin disk[l.file].newlines}
LinesInFun == [seg \in Goods |-> LinesIn(seg)]
TripleFun == [l \in Lines |-> Triple(l)]

\* A segment of whole lines of a file that is there is good.
LEMMA WholeGood ==
    ASSUME AllIn, NEW segs, NEW k, WholeLines(segs, k), segs[k] \in Segments
    PROVE  segs[k] \in Goods
  <1>1. segs[k].file \in DOMAIN disk
    BY DEF AllIn, WholeLines
  <1> QED
    BY <1>1 DEF WholeLines, Goods, GoodSeg

\* All segments are good while all the files are there.
LEMMA GoodShards ==
    ASSUME JobInv, AllIn
    PROVE  Segs \in Seq(Goods) /\ file_shards \in Seq(Seq(Goods))
  <1>1. Segs \in Seq(Segments) /\ DOMAIN Segs = 1 .. Len(Segs) /\ Len(Segs) \in Nat
    BY SegsType DEF JobInv
  <1>2. \A k \in DOMAIN Segs : Segs[k] \in Goods
    BY <1>1, WholeGood DEF JobInv, SegsInv
  <1>3. Segs \in Seq(Goods)
    BY <1>1, <1>2
  <1> DEFINE ss == Append(file_shards, shard)
  <1>4. file_shards \in Seq(Seq(Segments)) /\ shard \in Seq(Segments) /\ ss \in Seq(Seq(Segments))
        /\ DOMAIN file_shards = 1 .. Len(file_shards) /\ Len(file_shards) \in Nat
        /\ Len(ss) = Len(file_shards) + 1
        /\ \A i \in 1 .. Len(file_shards) : ss[i] = file_shards[i]
    BY DEF JobInv, TypeInv
  <1>5. ASSUME NEW i \in 1 .. Len(file_shards) PROVE file_shards[i] \in Seq(Goods)
    <2>1. i \in DOMAIN ss /\ ss[i] = file_shards[i]
      BY <1>4
    <2>2. file_shards[i] \in Seq(Segments)
      BY <1>4
    <2>3. ASSUME NEW j \in DOMAIN file_shards[i] PROVE file_shards[i][j] \in Goods
      <3>1. j \in DOMAIN ss[i]
        BY <2>1
      <3> HIDE DEF ss
      <3>2. PICK k \in DOMAIN FlattenSeq(ss) : FlattenSeq(ss)[k] = ss[i][j]
        BY <1>4, <2>1, <3>1, FlattenMembers
      <3>3. FlattenSeq(ss) = Segs
        BY DEF ss, Segs
      <3> QED
        BY <3>2, <3>3, <2>1, <1>2
    <2>4. Len(file_shards[i]) \in Nat /\ DOMAIN file_shards[i] = 1 .. Len(file_shards[i])
      BY <2>2
    <2> DEFINE q == file_shards[i]
    <2>5. Len(q) \in Nat /\ DOMAIN q = 1 .. Len(q) /\ (\A j \in 1 .. Len(q) : q[j] \in Goods) /\ q \in Seq(Segments)
      BY <2>2, <2>3, <2>4
    <2> HIDE DEF q
    <2>6. q \in Seq(Goods)
      BY <2>5
    <2> QED
      BY <2>6 DEF q
  <1>6. file_shards \in Seq(Seq(Goods))
    <2> DEFINE G == Seq(Goods)
    <2>1. \A i \in 1 .. Len(file_shards) : file_shards[i] \in G
      BY <1>5
    <2> HIDE DEF G
    <2>2. file_shards \in Seq(G)
      BY <1>4, <2>1
    <2> QED
      BY <2>2 DEF G
  <1> QED
    BY <1>3, <1>6

\* The lines of a good segment: they are the lines of its file that begin in it.
LEMMA LinesOfGood ==
    ASSUME DiskInv, NEW seg \in Goods
    PROVE  /\ LinesIn(seg) \in Seq(GoodLines)
           /\ LinesIn(seg) \in Seq(Lines)
           /\ Triples(LinesIn(seg)) =
                LinesBetween(disk[seg.file], seg.file, seg.from,
                             IF seg.to > disk[seg.file].size THEN disk[seg.file].size ELSE seg.to)
  <1> DEFINE d == disk[seg.file]
             q == SegLines(d, seg)
  <1>1. seg \in Segments /\ seg.file \in DOMAIN disk /\ GoodSeg(d, seg) /\ seg.file \in Range(mr_spec.input_files)
    BY DEF Goods
  <1>2. FileOK(d)
    BY <1>1, FilesOK
  <1>3. LinesIn(seg) = q
    BY <1>1, LinesInFile
  <1> HIDE DEF d
  <1>4. /\ q \in Seq(Lines)
        /\ Triples(q) = LinesBetween(d, seg.file, seg.from, IF seg.to > d.size THEN d.size ELSE seg.to)
    BY <1>1, <1>2, SegLinesFacts
  <1>5. \A k \in DOMAIN q :
                /\ q[k].file = seg.file /\ q[k].from \in 0 .. d.size
                /\ q[k].padded => q[k].to = d.size /\ d.size - 1 \notin d.newlines
    BY <1>1, <1>2, SegLinesFacts
  <1> HIDE DEF q
  <1>6. Len(q) \in Nat /\ DOMAIN q = 1 .. Len(q) /\ \A k \in 1 .. Len(q) : q[k] \in Lines
    BY <1>4
  <1>7. \A k \in 1 .. Len(q) : q[k] \in GoodLines
    BY <1>1, <1>5, <1>6 DEF GoodLines, d
  <1>8. q \in Seq(GoodLines)
    BY <1>4, <1>6, <1>7
  <1> QED
    BY <1>3, <1>4, <1>8 DEF d

\* The lines of a shard by a function on its segments.
LEMMA LinesInMaps ==
    ASSUME DiskInv
    PROVE  /\ Maps(LinesInFun, Goods, Seq(GoodLines))
           /\ \A s \in Seq(Goods) : LinesOfShard(s) = FlattenSeq(Apply(LinesInFun, s))
  <1>1. Maps(LinesInFun, Goods, Seq(GoodLines))
    BY LinesOfGood DEF Maps, LinesInFun
  <1>2. ASSUME NEW s \in Seq(Goods) PROVE LinesOfShard(s) = FlattenSeq(Apply(LinesInFun, s))
    <2>1. \A k \in DOMAIN s : s[k] \in Goods
      OBVIOUS
    <2>2. [k \in DOMAIN s |-> LinesIn(s[k])] = Apply(LinesInFun, s)
      BY <2>1 DEF Apply, LinesInFun
    <2> QED
      BY <2>2 DEF LinesOfShard
  <1> QED
    BY <1>1, <1>2

\* One more segment appends its lines.
LEMMA LinesOfShardAppend ==
    ASSUME DiskInv, NEW s \in Seq(Goods), NEW seg \in Goods
    PROVE  LinesOfShard(Append(s, seg)) = LinesOfShard(s) \o LinesIn(seg)
  <1>1. Append(s, seg) = s \o <<seg>> /\ <<seg>> \in Seq(Goods) /\ Append(s, seg) \in Seq(Goods)
    BY AppendIsConcat
  <1>2. Maps(LinesInFun, Goods, Seq(GoodLines))
    BY LinesInMaps
  <1>3. FlattenSeq(Apply(LinesInFun, s \o <<seg>>)) =
          FlattenSeq(Apply(LinesInFun, s)) \o FlattenSeq(Apply(LinesInFun, <<seg>>))
    <2> DEFINE t == <<seg>>
    <2>1. t \in Seq(Goods)
      BY <1>1
    <2> HIDE DEF t
    <2>2. FlattenSeq(Apply(LinesInFun, s \o t)) =
            FlattenSeq(Apply(LinesInFun, s)) \o FlattenSeq(Apply(LinesInFun, t))
      BY <2>1, <1>2, FlattenApply
    <2> QED
      BY <2>2 DEF t
  <1>4. FlattenSeq(Apply(LinesInFun, <<seg>>)) = LinesIn(seg)
    <2>1. FlattenSeq(Apply(LinesInFun, <<seg>>)) = LinesInFun[seg]
      BY <1>2, FlattenApplyOne
    <2> QED
      BY <2>1 DEF LinesInFun
  <1> QED
    BY <1>1, <1>3, <1>4, LinesInMaps

\* The lines of a shard of good segments are good lines.
LEMMA LinesOfShardType ==
    ASSUME DiskInv, NEW s \in Seq(Goods)
    PROVE  LinesOfShard(s) \in Seq(GoodLines) /\ LinesOfShard(s) \in Seq(Lines) /\ LinesOfShard(<<>>) = <<>>
  <1>1. Maps(LinesInFun, Goods, Seq(GoodLines))
    BY LinesInMaps
  <1>2. FlattenSeq(Apply(LinesInFun, s)) \in Seq(GoodLines)
    BY <1>1, FlattenApplyType
  <1>3. LinesOfShard(s) \in Seq(GoodLines)
    BY <1>2, LinesInMaps
  <1>4. \A q \in Seq(GoodLines) : q \in Seq(Lines)
    <2> SUFFICES ASSUME NEW q \in Seq(GoodLines) PROVE q \in Seq(Lines)
      OBVIOUS
    <2>1. \A k \in 1 .. Len(q) : q[k] \in GoodLines
      OBVIOUS
    <2>2. \A k \in 1 .. Len(q) : q[k] \in Lines
      BY <2>1 DEF GoodLines
    <2> QED
      BY <2>2
  <1>5. LinesOfShard(<<>>) = <<>>
    BY FlattenEmpty DEF LinesOfShard
  <1> QED
    BY <1>3, <1>4, <1>5

\* The lines of all segments are those of the shards, one after the other.
LEMMA LinesOfShards ==
    ASSUME DiskInv, NEW ss \in Seq(Seq(Goods))
    PROVE  LinesOfShard(FlattenSeq(ss)) = FlattenSeq([i \in DOMAIN ss |-> LinesOfShard(ss[i])])
  <1>1. Maps(LinesInFun, Goods, Seq(GoodLines))
    BY LinesInMaps
  <1>2. FlattenSeq(Apply(LinesInFun, FlattenSeq(ss))) =
             FlattenSeq([i \in DOMAIN ss |-> FlattenSeq(Apply(LinesInFun, ss[i]))])
    BY <1>1, FlattenTwice
  <1>3. FlattenSeq(ss) \in Seq(Goods) /\ \A i \in DOMAIN ss : ss[i] \in Seq(Goods)
    BY FlattenType
  <1>4. [i \in DOMAIN ss |-> LinesOfShard(ss[i])] = [i \in DOMAIN ss |-> FlattenSeq(Apply(LinesInFun, ss[i]))]
    BY <1>3, LinesInMaps
  <1>5. LinesOfShard(FlattenSeq(ss)) = FlattenSeq(Apply(LinesInFun, FlattenSeq(ss)))
    BY <1>3, LinesInMaps
  <1> QED
    BY <1>2, <1>4, <1>5

\* File, begin and end of lines, in two parts.
LEMMA TriplesConcat ==
    ASSUME NEW a \in Seq(Lines), NEW b \in Seq(Lines)
    PROVE  /\ Triples(a \o b) = Triples(a) \o Triples(b)
           /\ Triples(a) \in Seq(Trips)
           /\ Triples(<<>>) = <<>>
  <1>1. Maps(TripleFun, Lines, Trips)
    BY DEF Maps, TripleFun, Triple, Lines, Trips
  <1>2. ASSUME NEW q \in Seq(Lines) PROVE Triples(q) = Apply(TripleFun, q)
    <2>1. \A k \in DOMAIN q : q[k] \in Lines
      OBVIOUS
    <2> QED
      BY <2>1 DEF Triples, Apply, TripleFun
  <1>3. a \o b \in Seq(Lines)
    OBVIOUS
  <1>4. Apply(TripleFun, a \o b) = Apply(TripleFun, a) \o Apply(TripleFun, b)
    BY <1>1, ApplyConcat
  <1>5. Apply(TripleFun, a) \in Seq(Trips)
    BY <1>1, ApplyType
  <1>6. Triples(<<>>) = <<>>
    BY DEF Triples
  <1> QED
    BY <1>2, <1>3, <1>4, <1>5, <1>6

LinesOfFirst(n) == FlattenSeq([k \in 1 .. n |-> LinesOf(mr_spec.input_files[k])])

\* How far the file that is being cut is in the shards.
Consumed == IF file_size > 0 THEN file_offset ELSE disk[Cut].size
Taken ==
    IF file = 0 THEN <<>>
    ELSE LinesOfFirst(file - 1) \o LinesBetween(disk[Cut], Cut, 0, Consumed)

\* The lines in the shards are those of the files so far.
LinesInv ==
    AllIn =>
        /\ pc = "shard" => Triples(LinesOfShard(Segs)) = Taken
        /\ pc \in {"map", "reduce"} =>
             Triples(LinesOfShard(Segs)) = LinesOfFirst(Len(mr_spec.input_files))

\* An input file while all are there.
LEMMA InputFiles ==
    ASSUME JobInv, AllIn, NEW k \in 1 .. Len(mr_spec.input_files)
    PROVE  LET f == mr_spec.input_files[k] IN
           /\ f \in STRING /\ f \in Range(mr_spec.input_files) /\ f \in DOMAIN disk
           /\ FileOK(disk[f]) /\ disk[f].size \in Nat
           /\ LinesOf(f) = LinesBetween(disk[f], f, 0, disk[f].size)
           /\ LinesOf(f) \in Seq(Trips)
  <1> DEFINE f == mr_spec.input_files[k]
  <1>1. mr_spec.input_files \in Seq(STRING)
    BY DEF JobInv, TypeInv, Specs
  <1>2. f \in STRING /\ f \in Range(mr_spec.input_files)
    BY <1>1 DEF Range
  <1>3. f \in DOMAIN disk
    BY <1>2 DEF AllIn
  <1> HIDE DEF f
  <1>4. FileOK(disk[f])
    BY <1>3, FilesOK DEF JobInv, TypeInv
  <1>5. LinesOf(f) = LinesBetween(disk[f], f, 0, disk[f].size)
    BY OnDisk
  <1>6. disk[f].size \in Nat /\ 0 \in Nat
    BY <1>4 DEF FileOK
  <1>7. LinesBetween(disk[f], f, 0, disk[f].size) \in Seq(Trips)
    <2> DEFINE d == disk[f]
    <2>1. FileOK(d) /\ d.size \in Nat /\ d.size <= d.size
      BY <1>4, <1>6
    <2> HIDE DEF d
    <2>2. LinesBetween(d, f, 0, d.size) \in Seq(Trips)
      BY <1>2, <1>6, <2>1, LinesBetweenType
    <2> QED
      BY <2>2 DEF d
  <1> QED
    BY <1>2, <1>3, <1>4, <1>5, <1>6, <1>7 DEF f

\* The lines of the first files, file by file.
LEMMA FirstSteps ==
    ASSUME JobInv, AllIn
    PROVE  /\ LinesOfFirst(0) = <<>>
           /\ \A n \in 0 .. Len(mr_spec.input_files) : LinesOfFirst(n) \in Seq(Trips)
           /\ \A n \in 1 .. Len(mr_spec.input_files) :
                LinesOfFirst(n) = LinesOfFirst(n - 1) \o LinesOf(mr_spec.input_files[n])
  <1> DEFINE L(n) == [k \in 1 .. n |-> LinesOf(mr_spec.input_files[k])]
             U == Seq(Trips)
             N == Len(mr_spec.input_files)
  <1>1. N \in Nat /\ \A k \in 1 .. N : LinesOf(mr_spec.input_files[k]) \in U
    <2>1. mr_spec.input_files \in Seq(STRING)
      BY DEF JobInv, TypeInv, Specs
    <2> QED
      BY <2>1, InputFiles
  <1>2. ASSUME NEW n \in 0 .. N PROVE L(n) \in Seq(U) /\ Len(L(n)) = n
    <2>1. \A k \in 1 .. n : LinesOf(mr_spec.input_files[k]) \in U
      BY <1>1
    <2> HIDE DEF U
    <2> QED
      BY <2>1
  <1>3. LinesOfFirst(0) = <<>>
    <2>1. L(0) = <<>>
      OBVIOUS
    <2> QED
      BY <2>1, FlattenEmpty DEF LinesOfFirst
  <1>4. ASSUME NEW n \in 0 .. N PROVE LinesOfFirst(n) \in Seq(Trips)
    <2>1. L(n) \in Seq(Seq(Trips))
      BY <1>2
    <2> QED
      BY <2>1, FlattenType DEF LinesOfFirst
  <1>5. ASSUME NEW n \in 1 .. N
        PROVE  LinesOfFirst(n) = LinesOfFirst(n - 1) \o LinesOf(mr_spec.input_files[n])
    <2> DEFINE x == LinesOf(mr_spec.input_files[n])
               a == L(n - 1)
               b == L(n)
    <2>1. n \in 0 .. N /\ n - 1 \in 0 .. N
      BY <1>1
    <2>2. a \in Seq(U) /\ Len(a) = n - 1 /\ b \in Seq(U) /\ Len(b) = n /\ x \in U
      BY <2>1, <1>1, <1>2
    <2>3. (\A k \in 1 .. n - 1 : b[k] = a[k]) /\ b[n] = x
      BY <2>1
    <2> HIDE DEF a, b, x, U
    <2>4. b = Append(a, x)
      <3>1. Append(a, x) \in Seq(U) /\ Len(Append(a, x)) = n /\ Append(a, x)[n] = x
            /\ \A k \in 1 .. n - 1 : Append(a, x)[k] = a[k]
        BY <2>2
      <3>2. \A k \in 1 .. n : k = n \/ k \in 1 .. n - 1
        OBVIOUS
      <3>3. \A k \in 1 .. n : b[k] = Append(a, x)[k]
        BY <2>3, <3>1, <3>2
      <3> QED
        BY <2>2, <3>1, <3>3
    <2>5. FlattenSeq(Append(a, x)) = FlattenSeq(a) \o x
      BY <2>2, FlattenAppend DEF U
    <2>6. LinesOfFirst(n) = FlattenSeq(b) /\ LinesOfFirst(n - 1) = FlattenSeq(a)
      BY DEF LinesOfFirst, a, b
    <2> QED
      BY <2>4, <2>5, <2>6 DEF x
  <1> QED
    BY <1>3, <1>4, <1>5

\* Removing other files does not change the lines of the input files.
LEMMA LinesKept ==
    ASSUME JobInv, Shrinks, mr_spec' = mr_spec, AllIn'
    PROVE  /\ AllIn
           /\ \A f \in Range(mr_spec.input_files) : f \in DOMAIN disk /\ disk'[f] = disk[f] /\ LinesOf(f)' = LinesOf(f)
           /\ \A s \in Seq(Goods) : LinesOfShard(s)' = LinesOfShard(s)
           /\ \A n \in 0 .. Len(mr_spec.input_files) : LinesOfFirst(n)' = LinesOfFirst(n)
           /\ Goods' = Goods
  <1>1. \A f \in Range(mr_spec.input_files) : f \in DOMAIN disk' /\ f \in DOMAIN disk /\ disk'[f] = disk[f]
    BY DEF AllIn, Shrinks
  <1>2. AllIn
    BY <1>1 DEF AllIn
  <1>3. ASSUME NEW f \in Range(mr_spec.input_files) PROVE LinesOf(f)' = LinesOf(f)
    <2>1. LinesOf(f)' = LinesBetween(disk'[f], f, 0, disk'[f].size) /\ LinesOf(f) = LinesBetween(disk[f], f, 0, disk[f].size)
      BY OnDisk, OnDiskNext
    <2> QED
      BY <2>1, <1>1
  <1>4. ASSUME NEW seg \in Goods PROVE LinesIn(seg)' = LinesIn(seg)
    <2>1. seg.file \in DOMAIN disk /\ seg.file \in DOMAIN disk' /\ disk'[seg.file] = disk[seg.file]
      BY <1>1 DEF Goods
    <2>2. LinesIn(seg) = SegLines(disk[seg.file], seg) /\ LinesIn(seg)' = SegLines(disk'[seg.file], seg)
      BY <2>1, LinesInFile, LinesInFileNext
    <2> QED
      BY <2>1, <2>2
  <1>5. ASSUME NEW s \in Seq(Goods) PROVE LinesOfShard(s)' = LinesOfShard(s)
    <2>1. \A k \in DOMAIN s : s[k] \in Goods
      OBVIOUS
    <2>2. [k \in DOMAIN s |-> LinesIn(s[k])'] = [k \in DOMAIN s |-> LinesIn(s[k])]
      BY <2>1, <1>4
    <2> QED
      BY <2>2 DEF LinesOfShard
  <1>6. ASSUME NEW n \in 0 .. Len(mr_spec.input_files) PROVE LinesOfFirst(n)' = LinesOfFirst(n)
    <2>1. \A k \in 1 .. n : mr_spec.input_files[k] \in Range(mr_spec.input_files)
      <3>1. mr_spec.input_files \in Seq(STRING)
        BY DEF JobInv, TypeInv, Specs
      <3> QED
        BY <3>1 DEF Range
    <2>2. [k \in 1 .. n |-> LinesOf(mr_spec.input_files[k])'] = [k \in 1 .. n |-> LinesOf(mr_spec.input_files[k])]
      BY <2>1, <1>3
    <2> QED
      BY <2>2 DEF LinesOfFirst
  <1>7. Goods' = Goods
    <2>1. \A seg : seg.file \in Range(mr_spec.input_files) /\ seg.file \in DOMAIN disk' /\ GoodSeg(disk'[seg.file], seg)
             <=> seg.file \in Range(mr_spec.input_files) /\ seg.file \in DOMAIN disk /\ GoodSeg(disk[seg.file], seg)
      BY <1>1
    <2>2. Goods' = {seg \in Segments : seg.file \in Range(mr_spec.input_files) /\ seg.file \in DOMAIN disk'
                             /\ GoodSeg(disk'[seg.file], seg)}
      BY DEF Goods
    <2> QED
      BY <2>1, <2>2 DEF Goods
  <1> QED
    BY <1>1, <1>2, <1>3, <1>5, <1>6, <1>7

\* A segment is added: the lines up to its end are in the shards.
LEMMA AddsLines ==
    ASSUME JobInv, LinesInv, AllIn, pc = "shard", file_size > 0, NEW to \in Nat, file_offset < to,
           Cut \in DOMAIN disk =>
              \/ to - 1 \in disk[Cut].newlines
              \/ to = disk[Cut].size
              \/ to = disk[Cut].size + 1 /\ disk[Cut].size - 1 \notin disk[Cut].newlines
    PROVE  LET size == disk[Cut].size IN
           /\ Append(Segs, Segment(Cut, file_offset, to)) \in Seq(Goods)
           /\ Triples(LinesOfShard(Append(Segs, Segment(Cut, file_offset, to)))) =
                LinesOfFirst(file - 1) \o LinesBetween(disk[Cut], Cut, 0, IF to > size THEN size ELSE to)
  <1> DEFINE seg == Segment(Cut, file_offset, to)
             segs == Append(Segs, seg)
             c == Cut
             d == disk[c]
             bound == IF to > d.size THEN d.size ELSE to
             first == LinesOfFirst(file - 1)
             before == LinesBetween(d, c, 0, file_offset)
             after == LinesBetween(d, c, file_offset, bound)
  <1>1. /\ file \in 1 .. Len(mr_spec.input_files) /\ file - 1 \in 0 .. Len(mr_spec.input_files)
        /\ mr_spec.input_files \in Seq(STRING) /\ file_offset \in Nat /\ file_size \in Int
    <2>1. mr_spec.input_files \in Seq(STRING) /\ file_offset \in Nat /\ file_size \in Int /\ file \in Nat
      BY DEF JobInv, TypeInv, Specs
    <2>2. file >= 1 /\ file <= Len(mr_spec.input_files)
      BY DEF JobInv, CutInv
    <2> QED
      BY <2>1, <2>2
  <1>2. c \in STRING /\ c \in DOMAIN disk /\ FileOK(d) /\ d.size \in Nat
    BY <1>1, InputFiles DEF Cut
  <1>3. file_offset + file_size = d.size
    BY <1>2 DEF JobInv, CutInv
  <1>4. seg \in Segments /\ (\A k \in DOMAIN segs : WholeLines(segs, k))
    BY NextSegment
  <1>5. Segs \in Seq(Segments) /\ Len(Segs) \in Nat
    BY SegsType DEF JobInv
  <1>6. seg \in Goods
    <2>1. Len(segs) \in DOMAIN segs /\ segs[Len(segs)] = seg
      BY <1>4, <1>5
    <2>2. WholeLines(segs, Len(segs))
      BY <2>1, <1>4
    <2> HIDE DEF segs, seg
    <2> QED
      BY <2>1, <2>2, <1>4, WholeGood
  <1>7. Segs \in Seq(Goods) /\ DiskInv
    BY GoodShards DEF JobInv, TypeInv
  <1>8. seg.file = c /\ seg.from = file_offset /\ seg.to = to
    BY DEF Segment
  <1> HIDE DEF seg
  <1>9. LinesOfShard(segs) = LinesOfShard(Segs) \o LinesIn(seg)
    BY <1>6, <1>7, LinesOfShardAppend
  <1>10. LinesOfShard(Segs) \in Seq(Lines) /\ LinesIn(seg) \in Seq(Lines)
    BY <1>6, <1>7, LinesOfShardType, LinesOfGood
  <1>11. Triples(LinesOfShard(segs)) = Triples(LinesOfShard(Segs)) \o Triples(LinesIn(seg))
    BY <1>9, <1>10, TriplesConcat
  <1>12. Triples(LinesIn(seg)) = after
    BY <1>6, <1>7, <1>8, LinesOfGood
  <1>13. Triples(LinesOfShard(Segs)) = first \o before
    BY <1>1 DEF LinesInv, Taken, Consumed
  <1> HIDE DEF c, d
  <1>14. bound \in Nat /\ file_offset <= bound /\ bound <= d.size /\ 0 \in Nat /\ 0 <= file_offset
    BY <1>1, <1>2, <1>3
  <1> HIDE DEF bound
  <1>15. LinesBetween(d, c, 0, bound) = before \o after
    BY <1>1, <1>2, <1>14, LinesSplit, SMTT(60)
  <1>16. before \in Seq(Trips) /\ after \in Seq(Trips)
    <2>1. file_offset <= d.size
      BY <1>1, <1>2, <1>14
    <2> QED
      BY <1>1, <1>2, <1>14, <2>1, LinesBetweenType
  <1>17. first \in Seq(Trips)
    BY <1>1, FirstSteps
  <1> HIDE DEF first, before, after
  <1>18. (first \o before) \o after = first \o (before \o after)
    BY <1>16, <1>17, ConcatAssociative, SMTT(60)
  <1>19. Triples(LinesOfShard(segs)) = first \o LinesBetween(d, c, 0, bound)
    BY <1>11, <1>12, <1>13, <1>15, <1>18
  <1>20. segs \in Seq(Goods)
    BY <1>6, <1>7
  <1> QED
    BY <1>19, <1>20 DEF seg, c, d, bound, first

\* Quiet steps keep the lines.
LEMMA LinesQuiet == JobInv /\ LinesInv /\ Quiet => LinesInv'
  <1> SUFFICES ASSUME JobInv, LinesInv, Quiet, AllIn'
               PROVE  /\ (pc = "shard" => Triples(LinesOfShard(Segs)) = Taken)'
                      /\ (pc \in {"map", "reduce"} =>
                           Triples(LinesOfShard(Segs)) = LinesOfFirst(Len(mr_spec.input_files)))'
    BY DEF LinesInv
  <1>1. Shrinks /\ mr_spec' = mr_spec /\ Segs' = Segs
    BY DEF Quiet, Segs
  <1>2. AllIn /\ Segs \in Seq(Goods) /\ mr_spec.input_files \in Seq(STRING)
    <2>1. AllIn
      BY <1>1, LinesKept
    <2> QED
      BY <2>1, GoodShards DEF JobInv, TypeInv, Specs
  <1>3. LinesOfShard(Segs)' = LinesOfShard(Segs)
    <2>1. \A s \in Seq(Goods) : LinesOfShard(s)' = LinesOfShard(s)
      BY <1>1, LinesKept
    <2> QED
      BY <1>1, <1>2, <2>1
  <1>4. ASSUME pc' = "shard" PROVE (Triples(LinesOfShard(Segs)) = Taken)'
    <2>1. pc = "shard" /\ file' = file /\ file_size' = file_size /\ file_offset' = file_offset
      BY <1>4 DEF Quiet, cutting
    <2>2. Triples(LinesOfShard(Segs)) = Taken
      BY <1>2, <2>1 DEF LinesInv
    <2>3. file \in Nat /\ file <= Len(mr_spec.input_files)
      BY <2>1 DEF JobInv, TypeInv, CutInv
    <2>4. ASSUME file # 0 PROVE Taken' = Taken
      <3>1. file \in 1 .. Len(mr_spec.input_files) /\ file - 1 \in 0 .. Len(mr_spec.input_files)
        BY <2>3, <2>4, <1>2
      <3>2. Cut \in Range(mr_spec.input_files) /\ Cut' = Cut
        BY <3>1, <2>1, <1>1, <1>2, InputFiles DEF Cut
      <3>3. disk'[Cut] = disk[Cut] /\ LinesOfFirst(file - 1)' = LinesOfFirst(file - 1)
        BY <2>1, <3>1, <3>2, <1>1, LinesKept
      <3> QED
        BY <3>2, <3>3, <2>1 DEF Taken, Consumed
    <2>5. Taken' = Taken
      BY <2>4, <2>1 DEF Taken
    <2> QED
      BY <2>2, <2>5, <1>3 DEF Triples
  <1>5. ASSUME pc' \in {"map", "reduce"}
        PROVE  (Triples(LinesOfShard(Segs)) = LinesOfFirst(Len(mr_spec.input_files)))'
    <2>1. Triples(LinesOfShard(Segs)) = LinesOfFirst(Len(mr_spec.input_files))
      BY <1>2, <1>5 DEF LinesInv, Quiet
    <2> DEFINE n == Len(mr_spec.input_files)
    <2>2. n \in 0 .. n /\ n' = n
      BY <1>1, <1>2
    <2>3. \A m \in 0 .. n : LinesOfFirst(m)' = LinesOfFirst(m)
      BY <1>1, LinesKept
    <2>4. LinesOfFirst(n)' = LinesOfFirst(n)
      BY <2>2, <2>3
    <2> QED
      BY <2>1, <2>4, <1>3 DEF Triples
  <1> QED
    BY <1>4, <1>5

\* When the cutting starts there are no lines.
LEMMA LinesRun == JobInv /\ LinesInv /\ Run => LinesInv'
  <1> SUFFICES ASSUME JobInv, Run
               PROVE  LinesInv'
    OBVIOUS
  <1>1. Segs' = <<>> /\ JobInv'
    BY RunKept
  <1>2. pc' = "shard" /\ file' = 0
    BY DEF Run, StartSharding
  <1>3. LinesOfShard(Segs)' = <<>>
    <2>1. LinesOfShard(Segs)' = FlattenSeq(<<>>)
      BY <1>1 DEF LinesOfShard
    <2> QED
      BY <2>1, FlattenEmpty
  <1>4. Triples(LinesOfShard(Segs))' = <<>>
    BY <1>3 DEF Triples
  <1> QED
    BY <1>2, <1>4 DEF LinesInv, Taken

\* While the files are cut, the lines of what is there do not change.
LEMMA CuttingLines ==
    ASSUME JobInv, Cutting, AllIn'
    PROVE  /\ AllIn
           /\ \A s \in Seq(Goods) : LinesOfShard(s)' = LinesOfShard(s)
           /\ \A n \in 0 .. Len(mr_spec.input_files) : LinesOfFirst(n)' = LinesOfFirst(n)
           /\ file \in 0 .. Len(mr_spec.input_files) /\ Len(mr_spec.input_files) \in Nat
           /\ DiskInv /\ file_offset \in Nat /\ file_size \in Int
           /\ Segs \in Seq(Goods)
  <1>1. Shrinks /\ mr_spec' = mr_spec /\ pc = "shard"
    BY CuttingFacts DEF Cutting
  <1>2. mr_spec.input_files \in Seq(STRING) /\ file_offset \in Nat /\ file_size \in Int /\ file \in Nat /\ DiskInv
    BY DEF JobInv, TypeInv, Specs
  <1>3. file <= Len(mr_spec.input_files)
    BY <1>1 DEF JobInv, CutInv
  <1>4. AllIn
    BY <1>1, LinesKept
  <1> QED
    BY <1>1, <1>2, <1>3, <1>4, LinesKept, GoodShards

\* All of a file is in the shards: its lines are the lines before its end.
LEMMA WholeFile ==
    ASSUME JobInv, AllIn, file \in 1 .. Len(mr_spec.input_files)
    PROVE  LinesOfFirst(file - 1) \o LinesBetween(disk[Cut], Cut, 0, disk[Cut].size) = LinesOfFirst(file)
  BY FirstSteps, InputFiles DEF Cut

\* A file is opened when all lines of the one before it are in the shards.
LEMMA LinesNextFile == JobInv /\ LinesInv /\ Cutting /\ NextFile => LinesInv'
  <1> SUFFICES ASSUME JobInv, LinesInv, Cutting, NextFile, AllIn'
               PROVE  (Triples(LinesOfShard(Segs)) = Taken)'
    BY DEF LinesInv, NextFile, Cutting
  <1> /\ AllIn /\ DiskInv /\ Segs \in Seq(Goods) /\ file_offset \in Nat /\ file_size \in Int
      /\ file \in 0 .. Len(mr_spec.input_files) /\ Len(mr_spec.input_files) \in Nat
    BY CuttingLines
  <1>1. /\ pc = "shard" /\ file_size <= 0 /\ file < Len(mr_spec.input_files)
        /\ file' = file + 1 /\ file_offset' = 0 /\ file_size' = get_file_size(Coming)
        /\ disk' = disk /\ mr_spec' = mr_spec /\ file_shards' = file_shards /\ shard' = shard
    BY DEF NextFile, Cutting
  <1>2. Segs' = Segs
    BY <1>1 DEF Segs
  <1>3. Triples(LinesOfShard(Segs)) = LinesOfFirst(file)
    <2>1. Triples(LinesOfShard(Segs)) = Taken
      BY <1>1 DEF LinesInv
    <2>2. CASE file = 0
      BY <2>1, <2>2, FirstSteps DEF Taken
    <2>3. CASE file # 0
      <3>1. file \in 1 .. Len(mr_spec.input_files)
        BY <2>3
      <3>2. Taken = LinesOfFirst(file - 1) \o LinesBetween(disk[Cut], Cut, 0, disk[Cut].size)
        BY <1>1, <2>3 DEF Taken, Consumed
      <3> QED
        BY <2>1, <3>1, <3>2, WholeFile
    <2> QED
      BY <2>2, <2>3
  <1>4. LinesOfShard(Segs)' = LinesOfShard(Segs)
    BY <1>2, CuttingLines
  <1>5. Triples(LinesOfShard(Segs))' = Triples(LinesOfShard(Segs))
    BY <1>4 DEF Triples
  <1> DEFINE c == Coming
             d == disk[c]
  <1>6. /\ file + 1 \in 1 .. Len(mr_spec.input_files) /\ c \in STRING /\ c \in DOMAIN disk
        /\ FileOK(d) /\ d.size \in Nat
    BY <1>1, InputFiles DEF Coming
  <1>7. Cut' = c /\ file_size' = d.size
    BY <1>1, <1>6 DEF Cut, Coming, get_file_size
  <1>8. Consumed' = 0
    BY <1>1, <1>6, <1>7 DEF Consumed
  <1>9. Taken' = LinesOfFirst(file) \o LinesBetween(d, c, 0, 0)
    <2>1. file' - 1 = file /\ file' # 0
      BY <1>1
    <2>2. LinesOfFirst(file - 1)' = LinesOfFirst(file)
      BY <2>1, CuttingLines
    <2> QED
      BY <1>1, <1>7, <1>8, <2>1, <2>2 DEF Taken
  <1> HIDE DEF c, d
  <1>10. LinesBetween(d, c, 0, 0) = <<>> /\ LinesOfFirst(file) \in Seq(Trips)
    <2>1. 0 \in Nat /\ 0 <= d.size
      BY <1>6
    <2> QED
      BY <1>6, <2>1, LinesBetweenType, FirstSteps
  <1>11. LinesOfFirst(file) \o <<>> = LinesOfFirst(file)
    BY <1>10, ConcatEmptySeq
  <1> QED
    BY <1>3, <1>5, <1>9, <1>10, <1>11

\* The rest of a file has its last lines.
LEMMA LinesTakeRest == JobInv /\ LinesInv /\ Cutting /\ TakeRest => LinesInv'
  <1> SUFFICES ASSUME JobInv, LinesInv, Cutting, TakeRest, AllIn'
               PROVE  (Triples(LinesOfShard(Segs)) = Taken)'
    BY DEF LinesInv, TakeRest, Cutting
  <1> /\ AllIn /\ DiskInv /\ Segs \in Seq(Goods) /\ file_offset \in Nat /\ file_size \in Int
      /\ file \in 0 .. Len(mr_spec.input_files) /\ Len(mr_spec.input_files) \in Nat
    BY CuttingLines
  <1> DEFINE to == file_offset + file_size
             seg == Segment(Cut, file_offset, to)
             segs == Append(Segs, seg)
             size == disk[Cut].size
  <1>1. /\ pc = "shard" /\ file_size > 0 /\ file_size' = 0 /\ file' = file /\ file_offset' = file_offset
        /\ disk' = disk /\ mr_spec' = mr_spec
    BY DEF TakeRest, Cutting
  <1>2. Segs' = segs /\ JobInv'
    BY TakeRestKept
  <1>3. file >= 1 /\ file \in 1 .. Len(mr_spec.input_files)
    BY <1>1 DEF JobInv, CutInv
  <1>4. Cut \in DOMAIN disk /\ size \in Nat
    BY <1>3, InputFiles DEF Cut
  <1>5. to = size /\ to \in Nat /\ file_offset < to
    BY <1>1, <1>4 DEF JobInv, CutInv
  <1>6. Triples(LinesOfShard(segs)) = LinesOfFirst(file - 1) \o LinesBetween(disk[Cut], Cut, 0, size)
    <2> HIDE DEF to, size
    <2>1. Triples(LinesOfShard(segs)) =
            LinesOfFirst(file - 1) \o LinesBetween(disk[Cut], Cut, 0, IF to > disk[Cut].size THEN disk[Cut].size ELSE to)
      BY <1>1, <1>5, AddsLines DEF size
    <2>2. (IF to > disk[Cut].size THEN disk[Cut].size ELSE to) = size
      BY <1>4, <1>5 DEF size
    <2> QED
      BY <2>1, <2>2
  <1>7. segs \in Seq(Goods)
    <2> HIDE DEF to
    <2> QED
      BY <1>1, <1>5, AddsLines
  <1>8. LinesOfShard(Segs)' = LinesOfShard(segs)
    BY <1>2, <1>7, CuttingLines
  <1>9. Triples(LinesOfShard(Segs))' = Triples(LinesOfShard(segs))
    BY <1>8 DEF Triples
  <1>10. Cut' = Cut /\ Consumed' = size /\ file' # 0
    BY <1>1, <1>3 DEF Cut, Consumed
  <1>11. LinesOfFirst(file - 1)' = LinesOfFirst(file - 1)
    <2>1. file - 1 \in 0 .. Len(mr_spec.input_files)
      BY <1>3
    <2> QED
      BY <2>1, <1>1, CuttingLines
  <1>12. Taken' = LinesOfFirst(file - 1) \o LinesBetween(disk[Cut], Cut, 0, size)
    BY <1>1, <1>10, <1>11 DEF Taken
  <1> QED
    BY <1>6, <1>9, <1>12

\* A split takes the lines up to the end of the shard.
LEMMA LinesSplitStep == JobInv /\ LinesInv /\ Cutting /\ Split => LinesInv'
  <1> SUFFICES ASSUME JobInv, LinesInv, Cutting, Split, AllIn'
               PROVE  (Triples(LinesOfShard(Segs)) = Taken)'
    BY DEF LinesInv, Split, Cutting
  <1> /\ AllIn /\ DiskInv /\ Segs \in Seq(Goods) /\ file_offset \in Nat /\ file_size \in Int
      /\ file \in 0 .. Len(mr_spec.input_files) /\ Len(mr_spec.input_files) \in Nat
    BY CuttingLines
  <1> DEFINE split == get_split(Cut, file_offset, remain_shard_size)
             to == file_offset + split
             seg == Segment(Cut, file_offset, to)
             segs == Append(Segs, seg)
             size == disk[Cut].size
             bound == IF to > size THEN size ELSE to
  <1>1. /\ pc = "shard" /\ file_size > 0 /\ file_size' = file_size - split /\ file' = file
        /\ file_offset' = to /\ disk' = disk /\ mr_spec' = mr_spec /\ split # -1
    BY DEF Split, Cutting
  <1>2. Segs' = segs /\ JobInv'
    BY SplitKept
  <1>3. file >= 1 /\ file \in 1 .. Len(mr_spec.input_files)
    BY <1>1 DEF JobInv, CutInv
  <1>4. Cut \in DOMAIN disk /\ size \in Nat
    BY <1>3, InputFiles DEF Cut
  <1>5. file_offset + file_size = size
    BY <1>1, <1>4 DEF JobInv, CutInv
  <1>6. /\ to \in Nat /\ file_offset < to /\ to <= size + 1
        /\ \/ to - 1 \in disk[Cut].newlines
           \/ to = size + 1 /\ size - 1 \notin disk[Cut].newlines
    <2> DEFINE q == file_offset + remain_shard_size
               d == disk[Cut]
               e == EndIn(d, q)
    <2>1. /\ q \in Nat /\ q >= file_offset /\ split = e - file_offset + 1
          /\ e \in Nat /\ q <= e /\ e <= d.size
          /\ e \in d.newlines \/ (e = d.size /\ d.size - 1 \notin d.newlines)
      BY <1>1, SplitFacts
    <2> HIDE DEF q, d, e, split
    <2>2. to = e + 1
      BY <2>1
    <2> HIDE DEF to
    <2>3. to - 1 = e
      BY <2>1, <2>2
    <2>4. to \in Nat /\ file_offset < to /\ to <= d.size + 1
      BY <2>1, <2>2, <1>4, SMTT(60) DEF d
    <2>5. to - 1 \in d.newlines \/ (to = d.size + 1 /\ d.size - 1 \notin d.newlines)
      BY <2>1, <2>2, <2>3
    <2> QED
      BY <2>4, <2>5 DEF d
  <1>7. Triples(LinesOfShard(segs)) = LinesOfFirst(file - 1) \o LinesBetween(disk[Cut], Cut, 0, bound)
    <2> HIDE DEF to
    <2> QED
      BY <1>1, <1>6, AddsLines
  <1>8. segs \in Seq(Goods)
    <2> HIDE DEF to
    <2> QED
      BY <1>1, <1>6, AddsLines
  <1>9. LinesOfShard(Segs)' = LinesOfShard(segs)
    BY <1>2, <1>8, CuttingLines
  <1>10. Triples(LinesOfShard(Segs))' = Triples(LinesOfShard(segs))
    BY <1>9 DEF Triples
  <1>11. Cut' = Cut /\ Consumed' = bound /\ file' # 0
    <2>1. Cut' = Cut /\ file' # 0
      BY <1>1, <1>3 DEF Cut
    <2>2. Consumed' = IF file_size' > 0 THEN to ELSE size
      BY <1>1, <2>1 DEF Consumed
    <2>3. split = to - file_offset
      BY <1>1, <1>6, <1>5, SplitFacts, SMTT(60)
    <2> HIDE DEF split, to, size
    <2>4. file_size' > 0 <=> to < size
      <3>1. /\ file_size' = file_size - split /\ file_offset + file_size = size /\ split = to - file_offset
            /\ to \in Nat /\ size \in Nat
        BY <1>1, <1>4, <1>5, <1>6, <2>3
      <3>2. file_offset \in Nat /\ file_size \in Int
        OBVIOUS
      <3> QED
        BY ONLY <3>1, <3>2
    <2> QED
      BY <2>1, <2>2, <2>4, <1>4, <1>6
  <1>12. LinesOfFirst(file - 1)' = LinesOfFirst(file - 1)
    <2>1. file - 1 \in 0 .. Len(mr_spec.input_files)
      BY <1>3
    <2> QED
      BY <2>1, <1>1, CuttingLines
  <1>13. Taken' = LinesOfFirst(file - 1) \o LinesBetween(disk[Cut], Cut, 0, bound)
    <2> HIDE DEF bound
    <2> QED
      BY <1>1, <1>11, <1>12 DEF Taken
  <1> QED
    BY <1>7, <1>10, <1>13

\* At the end the lines of all files are in the shards.
LEMMA LinesShardsDone == JobInv /\ LinesInv /\ Cutting /\ ShardsDone => LinesInv'
  <1> SUFFICES ASSUME JobInv, LinesInv, Cutting, ShardsDone, AllIn'
               PROVE  (Triples(LinesOfShard(Segs)) = LinesOfFirst(Len(mr_spec.input_files)))'
    BY DEF LinesInv, ShardsDone, Cutting
  <1> /\ AllIn /\ DiskInv /\ Segs \in Seq(Goods) /\ file_offset \in Nat /\ file_size \in Int
      /\ file \in 0 .. Len(mr_spec.input_files) /\ Len(mr_spec.input_files) \in Nat
    BY CuttingLines
  <1> DEFINE n == Len(mr_spec.input_files)
  <1>1. /\ pc = "shard" /\ file_size <= 0 /\ file = n /\ disk' = disk /\ mr_spec' = mr_spec
    BY DEF ShardsDone, Cutting
  <1>2. Segs' = Segs
    BY ShardsDoneKept
  <1>3. Triples(LinesOfShard(Segs)) = LinesOfFirst(n)
    <2>1. Triples(LinesOfShard(Segs)) = Taken
      BY <1>1 DEF LinesInv
    <2>2. CASE file = 0
      BY <1>1, <2>1, <2>2, FirstSteps DEF Taken
    <2>3. CASE file # 0
      <3>1. file \in 1 .. n
        BY <2>3
      <3>2. Taken = LinesOfFirst(file - 1) \o LinesBetween(disk[Cut], Cut, 0, disk[Cut].size)
        BY <1>1, <2>3 DEF Taken, Consumed
      <3> QED
        BY <1>1, <2>1, <3>1, <3>2, WholeFile
    <2> QED
      BY <2>2, <2>3
  <1>4. LinesOfShard(Segs)' = LinesOfShard(Segs)
    BY <1>2, CuttingLines
  <1>5. Triples(LinesOfShard(Segs))' = Triples(LinesOfShard(Segs))
    BY <1>4 DEF Triples
  <1>6. n' = n /\ n \in 0 .. n
    BY <1>1
  <1>7. LinesOfFirst(n)' = LinesOfFirst(n)
    BY <1>6, CuttingLines
  <1> QED
    BY <1>3, <1>5, <1>7

\* Every step keeps the lines.
LEMMA LinesStep == JobInv /\ LinesInv /\ [Next]_vars => LinesInv'
  <1>1. JobInv /\ RunInvalid => LinesInv'
    BY DEF LinesInv, RunInvalid
  <1> QED
    BY <1>1, StepCases, LinesQuiet, LinesRun, LinesNextFile, LinesTakeRest, LinesSplitStep, LinesShardsDone

\* The steps again, with what they do to the work of the workers.
Still == Quiet /\ UNCHANGED jobvars /\ (pc' \in {"shard", "map", "reduce"} => pc' = pc)

\* The steps of a job, apart from each other, the steps of the workers included.
LEMMA WorkCases ==
    ASSUME JobInv, [Next]_vars
    PROVE  \/ Still
           \/ RunInvalid \/ Run
           \/ Cutting /\ NextFile /\ UNCHANGED <<jobvars>>
           \/ Cutting /\ TakeRest /\ UNCHANGED <<jobvars>>
           \/ Cutting /\ Split /\ UNCHANGED <<jobvars>>
           \/ Cutting /\ ShardsDone /\ UNCHANGED <<jobvars>>
           \/ (\E s \in DOMAIN file_shards : Map(s)) \/ Reduce \/ RunReturns
  <1>1. CASE RunWithoutConfig
    BY <1>1, QuietSteps DEF RunWithoutConfig, Still
  <1>2. CASE RunThrows
    BY <1>2, QuietSteps DEF RunThrows, Still
  <1>3. CASE create_shards
    <2>1. Cutting /\ UNCHANGED <<jobvars>> /\ shard_files
      BY <1>3 DEF create_shards, Cutting, shard_files, NextFile, FileGone, TakeRest, Split, SplitFails, ShardsDone
    <2>2. CASE FileGone
      BY <2>1, <2>2, QuietSteps DEF FileGone, Still
    <2>3. CASE SplitFails
      BY <2>1, <2>3, QuietSteps DEF SplitFails, Still
    <2> QED
      BY <2>1, <2>2, <2>3 DEF shard_files
  <1>4. CASE RunNoShards
    BY <1>4, QuietSteps DEF RunNoShards, Still
  <1>5. CASE MapStuck
    BY <1>5, QuietSteps DEF MapStuck, Still
  <1>6. CASE \E f \in DOMAIN disk : Delete(f)
    BY <1>6, QuietSteps DEF Delete, Still
  <1>7. CASE UNCHANGED vars
    BY <1>7, QuietSteps DEF vars, Still
  <1> QED
    BY <1>1, <1>2, <1>3, <1>4, <1>5, <1>6, <1>7 DEF Next

\* What was given to map is what is in the shards.
MapInv ==
    /\ pc = "shard" => DOMAIN mapped = {}
    /\ pc \in {"map", "reduce"} =>
         /\ shard = <<>>
         /\ DOMAIN mapped \subseteq DOMAIN file_shards
         /\ pc = "reduce" => DOMAIN mapped = DOMAIN file_shards
         /\ AllIn => \A s \in DOMAIN mapped : mapped[s] = LinesOfShard(file_shards[s])

\* The lines of the shards that are there do not change.
LEMMA ShardsKept ==
    ASSUME JobInv, Shrinks, mr_spec' = mr_spec, file_shards' = file_shards, AllIn'
    PROVE  AllIn /\ \A s \in DOMAIN file_shards :
              file_shards[s] \in Seq(Goods) /\ LinesOfShard(file_shards[s])' = LinesOfShard(file_shards[s])
  <1>1. AllIn
    BY LinesKept
  <1>2. file_shards \in Seq(Seq(Goods))
    BY <1>1, GoodShards
  <1>3. ASSUME NEW s \in DOMAIN file_shards
        PROVE  file_shards[s] \in Seq(Goods) /\ LinesOfShard(file_shards[s])' = LinesOfShard(file_shards[s])
    <2>1. file_shards[s] \in Seq(Goods) /\ file_shards'[s] = file_shards[s]
      BY <1>2
    <2> QED
      BY <2>1, LinesKept
  <1> QED
    BY <1>1, <1>3

\* Every step keeps that.
LEMMA MapInvStep == JobInv /\ MapInv /\ [Next]_vars => MapInv'
  <1> SUFFICES ASSUME JobInv, MapInv, [Next]_vars PROVE MapInv'
    OBVIOUS
  <1>1. CASE Still
    <2>1. Shrinks /\ mr_spec' = mr_spec /\ file_shards' = file_shards /\ shard' = shard /\ mapped' = mapped
          /\ (pc' \in {"shard", "map", "reduce"} => pc' = pc)
      BY <1>1 DEF Still, Quiet, jobvars
    <2> QED
      BY <2>1, ShardsKept DEF MapInv
  <1>2. CASE RunInvalid
    BY <1>2 DEF RunInvalid, MapInv
  <1>3. CASE Run
    BY <1>3 DEF Run, StartSharding, MapInv, Nothing
  <1>4. CASE Cutting /\ (NextFile \/ TakeRest \/ Split) /\ UNCHANGED <<jobvars>>
    BY <1>4 DEF Cutting, NextFile, TakeRest, Split, jobvars, MapInv
  <1>5. CASE Cutting /\ ShardsDone /\ UNCHANGED <<jobvars>>
    BY <1>5 DEF Cutting, ShardsDone, jobvars, MapInv
  <1>6. ASSUME NEW s \in DOMAIN file_shards, Map(s) PROVE MapInv'
    <2> DEFINE lines == LinesOfShard(file_shards[s])
    <2>1. /\ pc = "map" /\ pc' = "map" /\ mr_spec' = mr_spec /\ file_shards' = file_shards /\ shard' = shard
          /\ disk' = disk
          /\ mapped' = [t \in DOMAIN mapped \cup {s} |-> IF t = s THEN lines ELSE mapped[t]]
      BY <1>6 DEF Map, cutting
    <2>2. Shrinks
      BY <2>1 DEF Shrinks
    <2>3. DOMAIN mapped' \subseteq DOMAIN file_shards
      BY <2>1 DEF MapInv
    <2>4. ASSUME AllIn', NEW t \in DOMAIN mapped' PROVE mapped'[t] = LinesOfShard(file_shards[t])'
      <3>1. AllIn /\ LinesOfShard(file_shards[t])' = LinesOfShard(file_shards[t])
        BY <2>1, <2>2, <2>3, <2>4, ShardsKept
      <3>2. t = s \/ (t \in DOMAIN mapped /\ mapped[t] = LinesOfShard(file_shards[t]))
        BY <2>1, <2>4, <3>1 DEF MapInv
      <3> HIDE DEF lines
      <3>3. mapped'[t] = IF t = s THEN lines ELSE mapped[t]
        BY <2>1, <2>4
      <3> QED
        BY <3>1, <3>2, <3>3 DEF lines
    <2> QED
      BY <2>1, <2>3, <2>4 DEF MapInv
  <1>7. CASE Reduce
    <2>1. /\ pc = "map" /\ pc' = "reduce" /\ mr_spec' = mr_spec /\ file_shards' = file_shards
          /\ shard' = shard /\ disk' = disk /\ mapped' = mapped /\ DOMAIN mapped = DOMAIN file_shards
      BY <1>7 DEF Reduce, cutting
    <2>2. Shrinks
      BY <2>1 DEF Shrinks
    <2> QED
      BY <2>1, <2>2, ShardsKept DEF MapInv
  <1>8. CASE RunReturns
    BY <1>8 DEF RunReturns, MapInv
  <1> QED
    BY <1>1, <1>2, <1>3, <1>4, <1>5, <1>6, <1>7, <1>8, WorkCases

\* Both invariants hold at first.
LEMMA LinesMapInit == Init => LinesInv /\ MapInv
  BY DEF Init, LinesInv, MapInv

\* They always hold.
LEMMA LinesMapCorrect == Spec => [](JobInv /\ LinesInv /\ MapInv)
  BY JobInit, JobStep, LinesMapInit, LinesStep, MapInvStep, PTL DEF Spec

\* All the files the configuration file lists are there: so are all that are read.
LEMMA AskedIn ==
    ASSUME JobInv, pc = "reduce", AllThere
    PROVE  AllIn
  BY DEF JobInv, SpecInv, Running, AllThere, AllIn

\* What map was given is what is in the shards, in their order.
LEMMA GotLines ==
    ASSUME JobInv, MapInv, pc = "reduce", AllIn
    PROVE  Got = LinesOfShard(Segs) /\ Got \in Seq(GoodLines) /\ Got \in Seq(Lines) /\ Segs \in Seq(Goods)
  <1>1. DOMAIN mapped = DOMAIN file_shards /\ \A s \in DOMAIN file_shards : mapped[s] = LinesOfShard(file_shards[s])
    BY DEF MapInv
  <1>2. Got = FlattenSeq([s \in DOMAIN file_shards |-> LinesOfShard(file_shards[s])])
    <2>1. [s \in DOMAIN file_shards |-> mapped[s]] = [s \in DOMAIN file_shards |-> LinesOfShard(file_shards[s])]
      BY <1>1
    <2> QED
      BY <2>1 DEF Got
  <1>3. Segs \in Seq(Goods) /\ file_shards \in Seq(Seq(Goods)) /\ DiskInv
    BY GoodShards DEF JobInv, TypeInv
  <1>4. Segs = FlattenSeq(file_shards)
    <2>1. Segs = FlattenSeq(Append(file_shards, <<>>))
      BY DEF Segs, MapInv
    <2>2. <<>> \in Seq(Goods) /\ FlattenSeq(file_shards) \in Seq(Goods)
      BY <1>3, FlattenType
    <2>3. FlattenSeq(Append(file_shards, <<>>)) = FlattenSeq(file_shards) \o <<>>
      BY <1>3, <2>2, FlattenAppend
    <2> QED
      BY <2>1, <2>2, <2>3, ConcatEmptySeq
  <1>5. Got = LinesOfShard(Segs)
    BY <1>2, <1>3, <1>4, LinesOfShards
  <1> QED
    BY <1>3, <1>5, LinesOfShardType

\* They imply that every line is given to map once.
LEMMA EveryLineFollows == JobInv /\ LinesInv /\ MapInv => EveryLineOnce
  <1> SUFFICES ASSUME JobInv, LinesInv, MapInv, pc = "reduce", AllThere
               PROVE  /\ \/ mr_spec.input_files = Asked.input_files
                         \/ Len(Asked.worker_ipaddr_ports) < Asked.n_workers
                      /\ [k \in DOMAIN Got |-> <<Got[k].file, Got[k].from, Got[k].to>>]
                           = FlattenSeq([k \in DOMAIN mr_spec.input_files |-> LinesOf(mr_spec.input_files[k])])
                      /\ \A l \in Range(Got) :
                           l.padded => l.to = disk[l.file].size /\ l.to - 1 \notin disk[l.file].newlines
    BY DEF EveryLineOnce
  <1>1. mr_spec.input_files = Asked.input_files \/ Len(Asked.worker_ipaddr_ports) < Asked.n_workers
    BY DEF JobInv, SpecInv, Running
  <1>2. AllIn
    BY AskedIn
  <1>3. Got = LinesOfShard(Segs) /\ Got \in Seq(GoodLines)
    BY <1>2, GotLines
  <1>4. [k \in DOMAIN Got |-> <<Got[k].file, Got[k].from, Got[k].to>>]
          = FlattenSeq([k \in DOMAIN mr_spec.input_files |-> LinesOf(mr_spec.input_files[k])])
    <2>1. [k \in DOMAIN Got |-> <<Got[k].file, Got[k].from, Got[k].to>>] = Triples(Got)
      BY DEF Triples, Triple
    <2>2. Triples(Got) = LinesOfFirst(Len(mr_spec.input_files))
      BY <1>2, <1>3 DEF LinesInv
    <2>3. DOMAIN mr_spec.input_files = 1 .. Len(mr_spec.input_files)
      <3>1. mr_spec.input_files \in Seq(STRING)
        BY DEF JobInv, TypeInv, Specs
      <3> QED
        BY <3>1
    <2> QED
      BY <2>1, <2>2, <2>3 DEF LinesOfFirst
  <1>5. \A l \in Range(Got) : l \in GoodLines
    BY <1>3 DEF Range
  <1> QED
    BY <1>1, <1>4, <1>5 DEF GoodLines

\* Every line of the input files is given to map once (see EveryLineOnce), for
\* all files, sizes, configuration files and numbers of runs.
THEOREM EveryLineOnceHolds == Spec => []EveryLineOnce
  BY LinesMapCorrect, EveryLineFollows, PTL

-----------------------------------------------------------------------------
(* What is emitted, filed and reduced *)

\* T is S renamed by h, which is injective.
Renames(h, S, T) ==
    /\ h \in [S -> T]
    /\ \A x, y \in S : x # y => h[x] # h[y]
    /\ \A t \in T : \E x \in S : h[x] = t

\* Then T has as many members as S.
LEMMA SameCount ==
    ASSUME NEW S, NEW T, NEW h, IsFiniteSet(S), Renames(h, S, T)
    PROVE  IsFiniteSet(T) /\ Cardinality(T) = Cardinality(S)
  <1>1. h \in Bijection(S, T)
    BY DEF Renames, Bijection, Injection, Surjection, IsInjective
  <1> QED
    BY <1>1, FS_Bijection DEF ExistsBijection

\* Where the elements of X are in a sequence, and how many.
Occ(q, X) == {k \in DOMAIN q : q[k] \in X}
Num(q, X) == Cardinality(Occ(q, X))

\* It is a number, and 0 if none is there.
LEMMA NumFacts ==
    ASSUME NEW T, NEW q \in Seq(T), NEW X
    PROVE  /\ IsFiniteSet(Occ(q, X)) /\ Num(q, X) \in Nat
           /\ Num(q, X) = 0 <=> \A k \in DOMAIN q : q[k] \notin X
           /\ Num(<<>>, X) = 0
  <1>1. DOMAIN q = 1 .. Len(q) /\ Len(q) \in Nat
    OBVIOUS
  <1>2. Occ(q, X) \in SUBSET (1 .. Len(q)) /\ IsFiniteSet(1 .. Len(q))
    <2>1. 1 \in Int /\ Len(q) \in Int
      BY <1>1
    <2>2. IsFiniteSet(1 .. Len(q))
      BY <2>1, FS_Interval
    <2> QED
      BY <1>1, <2>2 DEF Occ
  <1>3. IsFiniteSet(Occ(q, X))
    BY <1>2, FS_Subset
  <1>4. Num(q, X) \in Nat
    BY <1>3, FS_CardinalityType DEF Num
  <1>5. Num(q, X) = 0 <=> Occ(q, X) = {}
    BY <1>3, FS_EmptySet DEF Num
  <1>6. Occ(<<>>, X) = {}
    BY DEF Occ
  <1>7. Num(<<>>, X) = 0
    BY <1>6, FS_EmptySet DEF Num
  <1> QED
    BY <1>3, <1>4, <1>5, <1>7 DEF Occ

\* A concatenation has as many as its parts together.
LEMMA NumConcat ==
    ASSUME NEW T, NEW a \in Seq(T), NEW b \in Seq(T), NEW X
    PROVE  Num(a \o b, X) = Num(a, X) + Num(b, X)
  <1> DEFINE n == Len(a)
             A == Occ(a, X)
             B == Occ(b, X)
             C == {k \in n + 1 .. n + Len(b) : b[k - n] \in X}
             h == [k \in B |-> k + n]
  <1>1. n \in Nat /\ Len(b) \in Nat /\ DOMAIN a = 1 .. n /\ DOMAIN b = 1 .. Len(b)
    OBVIOUS
  <1>2. /\ DOMAIN (a \o b) = 1 .. n + Len(b)
        /\ \A k \in 1 .. n + Len(b) : (a \o b)[k] = IF k <= n THEN a[k] ELSE b[k - n]
    BY ConcatIs
  <1>3. Occ(a \o b, X) = A \cup C
    <2> DEFINE c == a \o b
    <2>1. DOMAIN c = 1 .. n + Len(b) /\ \A k \in 1 .. n + Len(b) : c[k] = IF k <= n THEN a[k] ELSE b[k - n]
      BY <1>2
    <2> HIDE DEF c
    <2>2. ASSUME NEW k \in Occ(c, X) PROVE k \in A \cup C
      <3>1. k \in 1 .. n + Len(b) /\ c[k] \in X
        BY <2>1 DEF Occ
      <3>2. CASE k <= n
        BY <1>1, <2>1, <3>1, <3>2 DEF Occ
      <3>3. CASE ~(k <= n)
        BY <1>1, <2>1, <3>1, <3>3
      <3> QED
        BY <3>2, <3>3
    <2>3. ASSUME NEW k \in A PROVE k \in Occ(c, X)
      BY <1>1, <2>1 DEF Occ
    <2>4. ASSUME NEW k \in C PROVE k \in Occ(c, X)
      <3>1. k \in 1 .. n + Len(b) /\ ~(k <= n) /\ b[k - n] \in X
        BY <1>1
      <3> QED
        BY <2>1, <3>1 DEF Occ
    <2>5. Occ(c, X) = A \cup C
      BY <2>2, <2>3, <2>4
    <2> QED
      BY <2>5 DEF c
  <1>4. Renames(h, B, C)
    <2>1. \A k \in B : k \in 1 .. Len(b) /\ b[k] \in X
      BY <1>1 DEF Occ
    <2>2. ASSUME NEW k \in B PROVE k + n \in C
      <3>1. k + n \in n + 1 .. n + Len(b) /\ (k + n) - n = k /\ k \in Int
        BY <1>1, <2>1
      <3> QED
        BY <2>1, <3>1
    <2>3. h \in [B -> C]
      BY <2>2
    <2>4. \A x, y \in B : x # y => h[x] # h[y]
      BY <1>1, <2>1
    <2>5. ASSUME NEW t \in C PROVE \E x \in B : h[x] = t
      <3>1. t - n \in 1 .. Len(b) /\ b[t - n] \in X /\ (t - n) + n = t
        BY <1>1
      <3>2. t - n \in B
        BY <1>1, <3>1 DEF Occ
      <3>3. h[t - n] = t
        BY <3>1, <3>2
      <3> QED
        BY <3>2, <3>3
    <2> QED
      BY <2>3, <2>4, <2>5 DEF Renames
  <1>5. IsFiniteSet(A) /\ IsFiniteSet(B) /\ Num(a, X) \in Nat /\ Num(b, X) \in Nat
    BY NumFacts
  <1> HIDE DEF h
  <1>6. IsFiniteSet(C) /\ Cardinality(C) = Cardinality(B)
    <2> HIDE DEF C, B
    <2> QED
      BY <1>4, <1>5, SameCount
  <1>7. A \cap C = {}
    BY <1>1 DEF Occ
  <1> HIDE DEF A, C
  <1>8. Cardinality(A \cup C) = Cardinality(A) + Cardinality(C) - Cardinality(A \cap C)
    BY <1>5, <1>6, FS_Union
  <1>9. Cardinality(A \cup C) = Cardinality(A) + Cardinality(C)
    <2>1. Cardinality(A) \in Nat /\ Cardinality(C) \in Nat
      BY <1>5, <1>6, FS_CardinalityType
    <2>2. Cardinality(A \cap C) = 0
      BY <1>7, FS_EmptySet
    <2> QED
      BY <1>8, <2>1, <2>2
  <1> QED
    BY <1>3, <1>6, <1>9 DEF Num, A

\* One more element counts if it is in X.
LEMMA NumAppend ==
    ASSUME NEW T, NEW a \in Seq(T), NEW x \in T, NEW X
    PROVE  Num(Append(a, x), X) = Num(a, X) + Num(<<x>>, X)
  <1> DEFINE e == <<x>>
  <1>1. Append(a, x) = a \o e /\ e \in Seq(T)
    OBVIOUS
  <1> HIDE DEF e
  <1>2. Num(a \o e, X) = Num(a, X) + Num(e, X)
    BY <1>1, NumConcat
  <1> QED
    BY <1>1, <1>2 DEF e

\* What map may emit, and the pairs that become line l of partition p.
KVs == {kv \in (Seq(STRING) \ {<<>>}) \X STRING : Hash(kv[1]) \in Int}
Texts == Seq(STRING)
Become(n, p, l) == {kv \in KVs : Hash(kv[1]) % n = p /\ Append(kv[1], kv[2]) = l}

\* A bag of lines, and how often a line is in it.
Bagged(B) == \A l \in DOMAIN B : l \in Texts /\ B[l] \in Nat /\ B[l] > 0
Copies(B, l) == IF l \in DOMAIN B THEN B[l] ELSE 0

\* A line is in a bag if there are copies of it.
LEMMA CopiesFacts ==
    ASSUME NEW B, Bagged(B), NEW l
    PROVE  Copies(B, l) \in Nat /\ (l \in DOMAIN B <=> Copies(B, l) > 0)
  BY DEF Bagged, Copies

\* dump moves the pairs of the buffer to the files.
LEMMA DumpFacts ==
    ASSUME NEW m, m.key_value_pairs \in Seq(KVs), \A p \in DOMAIN m.files : Bagged(m.files[p])
    PROVE  LET n == mr_spec.n_output_files IN
           /\ dump(m).key_value_pairs = <<>>
           /\ dump(m).files = [p \in DOMAIN m.files |-> dump(m).files[p]]
           /\ \A p \in DOMAIN m.files :
                /\ Bagged(dump(m).files[p])
                /\ dump(m).files[p] = [l \in DOMAIN dump(m).files[p] |-> dump(m).files[p][l]]
                /\ \A l \in Texts : Copies(dump(m).files[p], l) =
                                      Copies(m.files[p], l) + Num(m.key_value_pairs, Become(n, p, l))
  <1> DEFINE n == mr_spec.n_output_files
             q == m.key_value_pairs
             goes(k, p) == Hash(q[k][1]) % n = p
             line(k) == Append(q[k][1], q[k][2])
             all == DOMAIN q
             appended(p) == [l \in {line(k) : k \in {j \in all : goes(j, p)}} |->
                               Cardinality({k \in all : goes(k, p) /\ line(k) = l})]
  <1>1. dump(m) = [key_value_pairs |-> <<>>, files |-> [p \in DOMAIN m.files |-> m.files[p] (+) appended(p)]]
    BY DEF dump
  <1>2. \A k \in all : q[k] \in KVs /\ line(k) \in Texts
    BY DEF KVs, Texts
  <1>3. ASSUME NEW p, NEW l PROVE {k \in all : goes(k, p) /\ line(k) = l} = Occ(q, Become(n, p, l))
    BY <1>2 DEF Occ, Become
  <1>4. ASSUME NEW p
        PROVE  Bagged(appended(p)) /\ \A l : Copies(appended(p), l) = Num(q, Become(n, p, l))
    <2> DEFINE D == {line(k) : k \in {j \in all : goes(j, p)}}
    <2>1. DOMAIN appended(p) = D /\ \A l \in D : appended(p)[l] = Num(q, Become(n, p, l))
      BY <1>3 DEF Num
    <2>2. \A l \in D : l \in Texts
      BY <1>2
    <2>3. ASSUME NEW l PROVE /\ Num(q, Become(n, p, l)) \in Nat
                             /\ Num(q, Become(n, p, l)) = 0 <=> l \notin D
      <3>1. Num(q, Become(n, p, l)) \in Nat
            /\ (Num(q, Become(n, p, l)) = 0 <=> \A k \in DOMAIN q : q[k] \notin Become(n, p, l))
        BY NumFacts
      <3>2. l \in D <=> \E k \in all : q[k] \in Become(n, p, l)
        BY <1>2 DEF Become
      <3> QED
        BY <3>1, <3>2
    <2> HIDE DEF D, appended
    <2> QED
      BY <2>1, <2>2, <2>3 DEF Bagged, Copies
  <1> HIDE DEF appended
  <1>5. ASSUME NEW p \in DOMAIN m.files
        PROVE  LET B == m.files[p] (+) appended(p) IN
               Bagged(B) /\ B = [l \in DOMAIN B |-> B[l]] /\ \A l \in Texts : Copies(B, l) = Copies(m.files[p], l) + Num(q, Become(n, p, l))
    <2> DEFINE B == m.files[p] (+) appended(p)
               F == m.files[p]
               G == appended(p)
    <2>1. Bagged(F) /\ Bagged(G)
      BY <1>4
    <2> HIDE DEF F, G
    <2>2. DOMAIN B = DOMAIN F \cup DOMAIN G /\ \A l \in DOMAIN B : B[l] = Copies(F, l) + Copies(G, l)
      BY DEF Copies, F, G, (+)
    <2>6. B = [l \in DOMAIN B |-> B[l]]
      BY DEF (+)
    <2> HIDE DEF B
    <2>3. \A l : Copies(F, l) \in Nat /\ Copies(G, l) \in Nat /\ (l \in DOMAIN F <=> Copies(F, l) > 0)
                 /\ (l \in DOMAIN G <=> Copies(G, l) > 0)
      BY <2>1, CopiesFacts
    <2>4. Bagged(B)
      BY <2>1, <2>2, <2>3 DEF Bagged
    <2>5. \A l : Copies(B, l) = Copies(F, l) + Copies(G, l)
      BY <2>2, <2>3 DEF Copies
    <2> QED
      BY <1>4, <2>4, <2>5, <2>6 DEF B, F, G
  <1>6. ASSUME NEW p \in DOMAIN m.files
        PROVE  /\ Bagged(dump(m).files[p])
               /\ dump(m).files[p] = [l \in DOMAIN dump(m).files[p] |-> dump(m).files[p][l]]
               /\ \A l \in Texts : Copies(dump(m).files[p], l) =
                                     Copies(m.files[p], l) + Num(m.key_value_pairs, Become(n, p, l))
    <2>1. dump(m).files[p] = m.files[p] (+) appended(p)
      BY <1>1
    <2> QED
      BY <2>1, <1>5
  <1>7. dump(m).files = [p \in DOMAIN m.files |-> dump(m).files[p]] /\ dump(m).key_value_pairs = <<>>
    BY <1>1
  <1> QED
    BY <1>6, <1>7

BagSet == UNION {[S -> Nat \ {0}] : S \in SUBSET Texts}
Files(P) == [P -> BagSet]
Bufs(P) == [key_value_pairs : Seq(KVs), files : Files(P)]

\* How often a line is in a file or will be, once the buffer is dumped.
Held(m, p, l) == Copies(m.files[p], l) + Num(m.key_value_pairs, Become(mr_spec.n_output_files, p, l))

\* The bags of lines, as a set.
LEMMA BagSetFacts ==
    ASSUME NEW B
    PROVE  /\ B \in BagSet => Bagged(B)
           /\ Bagged(B) /\ B = [l \in DOMAIN B |-> B[l]] => B \in BagSet
  <1>1. ASSUME B \in BagSet PROVE Bagged(B)
    BY <1>1 DEF BagSet, Bagged
  <1>2. ASSUME Bagged(B), B = [l \in DOMAIN B |-> B[l]] PROVE B \in BagSet
    <2>1. DOMAIN B \in SUBSET Texts /\ B \in [DOMAIN B -> Nat \ {0}]
      BY <1>2 DEF Bagged
    <2> QED
      BY <2>1 DEF BagSet
  <1> QED
    BY <1>1, <1>2

\* dump loses and doubles nothing.
LEMMA DumpHolds ==
    ASSUME NEW P, NEW m \in Bufs(P)
    PROVE  /\ dump(m) \in Bufs(P)
           /\ dump(m).key_value_pairs = <<>>
           /\ \A p \in P, l \in Texts :
                Copies(dump(m).files[p], l) = Held(m, p, l) /\ Held(dump(m), p, l) = Held(m, p, l)
  <1>1. m.key_value_pairs \in Seq(KVs) /\ m.files \in Files(P) /\ DOMAIN m.files = P
    BY DEF Bufs, Files
  <1>2. \A p \in DOMAIN m.files : Bagged(m.files[p])
    BY <1>1, BagSetFacts DEF Files
  <1> DEFINE d == dump(m)
  <1>3. /\ d.key_value_pairs = <<>>
        /\ d.files = [p \in DOMAIN m.files |-> d.files[p]]
        /\ \A p \in DOMAIN m.files :
             /\ Bagged(d.files[p]) /\ d.files[p] = [l \in DOMAIN d.files[p] |-> d.files[p][l]]
             /\ \A l \in Texts : Copies(d.files[p], l) = Held(m, p, l)
    BY <1>1, <1>2, DumpFacts DEF Held
  <1>4. d = [key_value_pairs |-> d.key_value_pairs, files |-> d.files]
    BY DEF dump
  <1> HIDE DEF d
  <1>5. \A p \in P : d.files[p] \in BagSet
    BY <1>1, <1>3, BagSetFacts
  <1>6. d.files \in Files(P)
    BY <1>1, <1>3, <1>5 DEF Files
  <1>7. d \in Bufs(P)
    <2>1. <<>> \in Seq(KVs)
      OBVIOUS
    <2> QED
      BY <2>1, <1>3, <1>4, <1>6 DEF Bufs, Files
  <1>8. ASSUME NEW p \in P, NEW l \in Texts PROVE Held(d, p, l) = Held(m, p, l)
    <2> DEFINE X == Become(mr_spec.n_output_files, p, l)
               c == Copies(d.files[p], l)
    <2>1. <<>> \in Seq(KVs)
      OBVIOUS
    <2>2. Num(<<>>, X) = 0
      BY <2>1, NumFacts
    <2>3. Held(d, p, l) = c + 0
      BY <2>2, <1>3 DEF Held
    <2>4. c \in Nat
      BY <1>1, <1>3, CopiesFacts
    <2>5. c = Held(m, p, l)
      BY <1>1, <1>3
    <2> HIDE DEF c
    <2> QED
      BY <2>3, <2>4, <2>5
  <1> QED
    BY <1>1, <1>3, <1>7, <1>8 DEF d

\* emit adds one pair, whether it dumps first or not.
LEMMA EmitHolds ==
    ASSUME NEW P, NEW m \in Bufs(P), NEW kv \in KVs
    PROVE  /\ emit(m, kv) \in Bufs(P)
           /\ \A p \in P, l \in Texts :
                Held(emit(m, kv), p, l) = Held(m, p, l) + Num(<<kv>>, Become(mr_spec.n_output_files, p, l))
  <1> DEFINE room == IF Len(m.key_value_pairs) >= KeyValuePairDumpThreshold THEN dump(m) ELSE m
             e == emit(m, kv)
  <1>1. room \in Bufs(P) /\ \A p \in P, l \in Texts : Held(room, p, l) = Held(m, p, l)
    BY DumpHolds
  <1>2. e = [room EXCEPT !.key_value_pairs = Append(@, kv)]
    BY DEF emit
  <1> HIDE DEF room, e
  <1>3. room = [key_value_pairs |-> room.key_value_pairs, files |-> room.files]
        /\ room.key_value_pairs \in Seq(KVs) /\ room.files \in Files(P)
    BY <1>1 DEF Bufs, Files
  <1>4. e = [key_value_pairs |-> Append(room.key_value_pairs, kv), files |-> room.files]
    BY <1>2, <1>3
  <1>5. e \in Bufs(P)
    <2>1. Append(room.key_value_pairs, kv) \in Seq(KVs)
      BY <1>3
    <2> QED
      BY <2>1, <1>3, <1>4 DEF Bufs, Files
  <1>6. ASSUME NEW p \in P, NEW l \in Texts
        PROVE  Held(e, p, l) = Held(m, p, l) + Num(<<kv>>, Become(mr_spec.n_output_files, p, l))
    <2> DEFINE X == Become(mr_spec.n_output_files, p, l)
               c == Copies(room.files[p], l)
               q == room.key_value_pairs
               one == <<kv>>
    <2>1. Num(Append(q, kv), X) = Num(q, X) + Num(one, X)
      BY <1>3, NumAppend
    <2>2. Held(e, p, l) = c + Num(Append(q, kv), X) /\ Held(room, p, l) = c + Num(q, X)
      BY <1>4 DEF Held
    <2>3. c \in Nat
      <3>1. room.files[p] \in BagSet
        BY <1>3 DEF Files
      <3> QED
        BY <3>1, BagSetFacts, CopiesFacts
    <2>4. Num(q, X) \in Nat /\ Num(one, X) \in Nat
      <3>1. one \in Seq(KVs) /\ q \in Seq(KVs)
        BY <1>3
      <3> HIDE DEF one, X, q
      <3> QED
        BY <3>1, NumFacts
    <2> HIDE DEF X, c, q, one
    <2>5. Held(e, p, l) = Held(room, p, l) + Num(one, X)
      BY <2>1, <2>2, <2>3, <2>4
    <2> QED
      BY <1>1, <2>5 DEF X, one
  <1> QED
    BY <1>5, <1>6 DEF e

\* The loop of a map job over the pairs that are emitted.
MapLoop(r, P, lines, files) ==
    LET pairs == EmittedFor(lines)
    IN  /\ r \in [0 .. Len(pairs) -> Bufs(P)]
        /\ r[0] = [key_value_pairs |-> <<>>, files |-> files]
        /\ \A k \in 1 .. Len(pairs) : r[k] = emit(r[k - 1], pairs[k])
        /\ handle_map_job(lines, files) = dump(r[Len(pairs)]).files

\* A map job runs this loop.
LEMMA MapJobSteps ==
    ASSUME NEW P, NEW lines, NEW files \in Files(P), EmittedFor(lines) \in Seq(KVs)
    PROVE  \E r : MapLoop(r, P, lines, files)
  <1> DEFINE pairs == EmittedFor(lines)
             n == Len(pairs)
             start == [key_value_pairs |-> <<>>, files |-> files]
             B == Bufs(P)
             g == [k \in 1 .. n |-> [x \in B |-> emit(x, pairs[k])]]
             step(h) == [k \in 0 .. n |-> IF k = 0 THEN start ELSE emit(h[k - 1], pairs[k])]
             r2 == CHOOSE h : h = step(h)
  <1>1. n \in Nat /\ DOMAIN pairs = 1 .. n /\ \A k \in 1 .. n : pairs[k] \in KVs
    OBVIOUS
  <1>0. start \in B
    <2>1. <<>> \in Seq(KVs)
      OBVIOUS
    <2> QED
      BY <2>1 DEF Bufs
  <1>9. handle_map_job(lines, files) = dump(r2[n]).files
    BY DEF handle_map_job
  <1> HIDE DEF pairs, B, start
  <1>2. ASSUME NEW k \in 1 .. n, NEW x \in B PROVE emit(x, pairs[k]) \in B
    BY <1>1, EmitHolds DEF B
  <1>3. g \in [1 .. n -> [B -> B]]
    BY <1>2
  <1>4. PICK f : Iterates(f, n, B, start, g)
    <2> HIDE DEF g, n
    <2> QED
      BY <1>0, <1>1, <1>3, Recursion
  <1>5. f \in [0 .. n -> B] /\ f[0] = start /\ \A k \in 1 .. n : f[k] = g[k][f[k - 1]]
    BY <1>4 DEF Iterates
  <1>6. ASSUME NEW k \in 1 .. n PROVE f[k - 1] \in B /\ f[k] = emit(f[k - 1], pairs[k])
    <2>1. k - 1 \in 0 .. n
      BY <1>1
    <2>2. f[k - 1] \in B
      <3> HIDE DEF n
      <3> QED
        BY <2>1, <1>5
    <2> QED
      BY <1>5, <2>2
  <1>7. f = step(f)
    <2>1. \A k \in 0 .. n : f[k] = IF k = 0 THEN start ELSE emit(f[k - 1], pairs[k])
      <3> SUFFICES ASSUME NEW k \in 0 .. n, k # 0 PROVE f[k] = emit(f[k - 1], pairs[k])
        BY <1>5
      <3>1. k \in 1 .. n
        BY <1>1
      <3> QED
        BY <3>1, <1>6
    <2> HIDE DEF n
    <2> QED
      BY <2>1, <1>5
  <1>8. r2 = step(r2)
    <2> HIDE DEF step
    <2> QED
      BY <1>7
  <1> HIDE DEF r2, n
  <1>10. r2 = [k \in 0 .. n |-> r2[k]]
    BY <1>8
  <1>11. /\ r2[0] = start
         /\ \A k \in 1 .. n : r2[k] = emit(r2[k - 1], pairs[k])
    <2>1. \A k \in 0 .. n : r2[k] = IF k = 0 THEN start ELSE emit(r2[k - 1], pairs[k])
      BY <1>8
    <2>2. 0 \in 0 .. n
      BY <1>1
    <2>3. \A k \in 1 .. n : k \in 0 .. n /\ k # 0
      BY <1>1
    <2> QED
      BY <2>1, <2>2, <2>3
  <1>12. StepAlike(f, r2, n)
    BY <1>5, <1>6, <1>11 DEF StepAlike
  <1>13. \A k \in 0 .. n : r2[k] = f[k]
    BY <1>1, <1>12, SameSteps
  <1>14. r2 \in [0 .. n -> B]
    BY <1>10, <1>13, <1>5
  <1> QED
    BY <1>9, <1>11, <1>14 DEF n, start, B, pairs, MapLoop

\* A map job adds what was emitted to the files, and loses and doubles nothing.
LEMMA MapJobHolds ==
    ASSUME NEW P, NEW lines, NEW files \in Files(P), EmittedFor(lines) \in Seq(KVs)
    PROVE  /\ handle_map_job(lines, files) \in Files(P)
           /\ \A p \in P, l \in Texts :
                Copies(handle_map_job(lines, files)[p], l) =
                  Copies(files[p], l) + Num(EmittedFor(lines), Become(mr_spec.n_output_files, p, l))
  <1> DEFINE pairs == EmittedFor(lines)
             n == Len(pairs)
             X(p, l) == Become(mr_spec.n_output_files, p, l)
  <1>0. PICK r : MapLoop(r, P, lines, files)
    BY MapJobSteps
  <1>1. /\ r \in [0 .. n -> Bufs(P)]
        /\ r[0] = [key_value_pairs |-> <<>>, files |-> files]
        /\ \A k \in 1 .. n : r[k] = emit(r[k - 1], pairs[k])
        /\ handle_map_job(lines, files) = dump(r[n]).files
    BY <1>0 DEF MapLoop
  <1>2. n \in Nat /\ pairs \in Seq(KVs)
    OBVIOUS
  <1> HIDE DEF pairs
  <1> DEFINE S == {k \in 0 .. n : \A p \in P, l \in Texts :
                     Held(r[k], p, l) = Copies(files[p], l) + Num(Upto(pairs, k), X(p, l))}
  <1>3. \A p \in P, l \in Texts : Copies(files[p], l) \in Nat
    <2>1. \A p \in P : files[p] \in BagSet
      BY DEF Files
    <2> QED
      BY <2>1, BagSetFacts, CopiesFacts
  <1>4. 0 \in S
    <2>1. 0 \in 0 .. n
      BY <1>2
    <2>2. Upto(pairs, 0) = <<>>
      BY <1>2, UptoFacts
    <2> QED
      BY <2>1, <2>2, <1>1 DEF Held
  <1>5. ASSUME NEW k \in 0 .. n - 1, k \in S PROVE k + 1 \in S
    <2>1. k \in 0 .. n /\ k + 1 \in 1 .. n /\ k + 1 \in 0 .. n /\ (k + 1) - 1 = k
      BY <1>2
    <2>2. r[k] \in Bufs(P) /\ r[k + 1] = emit(r[k], pairs[k + 1]) /\ pairs[k + 1] \in KVs
      <3>1. r[k] \in Bufs(P)
        BY <2>1, <1>1
      <3> QED
        BY <3>1, <2>1, <1>1, <1>2
    <2>3. Upto(pairs, k + 1) = Append(Upto(pairs, k), pairs[k + 1]) /\ Upto(pairs, k) \in Seq(KVs)
      BY <2>1, <1>2, UptoFacts
    <2>4. ASSUME NEW p \in P, NEW l \in Texts
          PROVE  Held(r[k + 1], p, l) = Copies(files[p], l) + Num(Upto(pairs, k + 1), X(p, l))
      <3> DEFINE kv == pairs[k + 1]
                 u == Upto(pairs, k)
                 one == <<kv>>
                 Y == X(p, l)
                 c == Copies(files[p], l)
                 m == r[k]
      <3> HIDE DEF kv, u, Y
      <3>1. Num(Append(u, kv), Y) = Num(u, Y) + Num(one, Y)
        BY <2>2, <2>3, NumAppend DEF kv, u
      <3>2. Held(m, p, l) = c + Num(u, Y)
        BY <1>5 DEF u, Y
      <3>3. Held(emit(m, kv), p, l) = Held(m, p, l) + Num(one, Y)
        <4>1. m \in Bufs(P) /\ kv \in KVs
          BY <2>2 DEF kv
        <4> HIDE DEF m
        <4> QED
          BY <4>1, EmitHolds DEF Y
      <3>4. c \in Nat /\ Num(u, Y) \in Nat /\ Num(one, Y) \in Nat
        <4>1. one \in Seq(KVs) /\ u \in Seq(KVs)
          BY <2>2, <2>3 DEF kv, u
        <4> HIDE DEF one
        <4> QED
          BY <4>1, <1>3, NumFacts
      <3> HIDE DEF c, m, one
      <3>5. Held(emit(m, kv), p, l) = c + Num(Append(u, kv), Y)
        BY <3>1, <3>2, <3>3, <3>4
      <3> QED
        BY <3>5, <2>2, <2>3 DEF m, c, u, kv, Y
    <2> QED
      BY <2>1, <2>4
  <1> HIDE DEF S
  <1>6. n \in S
    <2>1. \A k \in 0 .. n : k \in S
      BY <1>2, <1>4, <1>5, UpTo
    <2> QED
      BY <1>2, <2>1
  <1>7. Upto(pairs, n) = pairs
    BY <1>2, UptoFacts
  <1> DEFINE m == r[n]
  <1>8. m \in Bufs(P)
    BY <1>1, <1>2, SMTT(60)
  <1> HIDE DEF m
  <1>9. dump(m) \in Bufs(P) /\ \A p \in P, l \in Texts : Copies(dump(m).files[p], l) = Held(m, p, l)
    BY <1>8, DumpHolds
  <1> QED
    BY <1>1, <1>6, <1>7, <1>9 DEF S, m, Bufs, pairs

MapFun == [l \in GoodLines |-> map(l)]

\* map emits pairs with a key that is not empty and has a hash.
LEMMA MapTyped ==
    ASSUME DiskInv
    PROVE  /\ Maps(MapFun, GoodLines, Seq(KVs))
           /\ \A q \in Seq(GoodLines) : EmittedFor(q) = FlattenSeq(Apply(MapFun, q)) /\ EmittedFor(q) \in Seq(KVs)
  <1>1. ASSUME NEW l \in GoodLines PROVE map(l) \in Seq(KVs)
    <2> DEFINE f == l.file
               p == l.from
               q == Pairs(f, p)
    <2>1. f \in DOMAIN disk /\ p \in 0 .. disk[f].size
      BY DEF GoodLines
    <2>2. PICK d \in Disks : f \in DOMAIN d /\ disk[f] = d[f]
      BY <2>1 DEF DiskInv
    <2>3. q \in Seq((Seq(STRING) \ {<<>>}) \X STRING) /\ \A i \in DOMAIN q : Hash(q[i][1]) \in Int
      BY <2>1, <2>2, JobAssumption
    <2>4. map(l) = q
      BY <2>1 DEF map
    <2> HIDE DEF q
    <2>5. Len(q) \in Nat /\ DOMAIN q = 1 .. Len(q) /\ q = [i \in 1 .. Len(q) |-> q[i]]
      BY <2>3
    <2>6. \A i \in 1 .. Len(q) : q[i] \in KVs
      BY <2>3, <2>5 DEF KVs
    <2>7. q \in Seq(KVs)
      BY <2>5, <2>6
    <2> QED
      BY <2>4, <2>7
  <1>2. Maps(MapFun, GoodLines, Seq(KVs))
    BY <1>1 DEF Maps, MapFun
  <1>3. ASSUME NEW q \in Seq(GoodLines)
        PROVE  EmittedFor(q) = FlattenSeq(Apply(MapFun, q)) /\ EmittedFor(q) \in Seq(KVs)
    <2>1. \A k \in DOMAIN q : q[k] \in GoodLines
      OBVIOUS
    <2>2. [k \in DOMAIN q |-> map(q[k])] = Apply(MapFun, q)
      BY <2>1 DEF Apply, MapFun
    <2>3. EmittedFor(q) = FlattenSeq(Apply(MapFun, q))
      BY <2>2 DEF EmittedFor
    <2> QED
      BY <1>2, <2>3, FlattenApplyType
  <1> QED
    BY <1>2, <1>3

\* Nothing else is emitted for a line as long as its file is there.
LEMMA EmittedKept ==
    ASSUME JobInv, Shrinks, mr_spec' = mr_spec, AllIn', NEW q \in Seq(GoodLines)
    PROVE  EmittedFor(q)' = EmittedFor(q)
  <1>1. \A k \in DOMAIN q : q[k] \in GoodLines
    OBVIOUS
  <1>2. ASSUME NEW l \in GoodLines PROVE map(l)' = map(l)
    <2>1. l.file \in Range(mr_spec.input_files) /\ l.file \in DOMAIN disk /\ l.file \in DOMAIN disk'
      BY DEF GoodLines, AllIn
    <2> QED
      BY <2>1 DEF map
  <1>3. [k \in DOMAIN q |-> map(q[k])'] = [k \in DOMAIN q |-> map(q[k])]
    BY <1>1, <1>2
  <1> QED
    BY <1>3 DEF EmittedFor

\* The emitted pairs in X, over a set D of shards.
HitsIn(D, E, X) == UNION {{s} \X Occ(E[s], X) : s \in D}

\* Another shard s, for which F[s] is emitted.
Grows(D, E, F, X, T, s) ==
    /\ s \notin D
    /\ F[s] \in Seq(T)
    /\ \A t \in D : F[t] = E[t]
    /\ IsFiniteSet(HitsIn(D, E, X))

\* What was emitted for it counts in addition.
LEMMA HitsAdd ==
    ASSUME NEW D, NEW E, NEW F, NEW X, NEW T, NEW s, Grows(D, E, F, X, T, s)
    PROVE  /\ IsFiniteSet(HitsIn(D \cup {s}, F, X))
           /\ Cardinality(HitsIn(D \cup {s}, F, X)) = Cardinality(HitsIn(D, E, X)) + Num(F[s], X)
  <1> DEFINE q == F[s]
             H == HitsIn(D, E, X)
             G == HitsIn(D \cup {s}, F, X)
             O == Occ(q, X)
             N == {s} \X O
  <1>1. IsFiniteSet(O) /\ Num(q, X) \in Nat
    <2>1. q \in Seq(T)
      BY DEF Grows
    <2> HIDE DEF q
    <2> QED
      BY <2>1, NumFacts
  <1>2. G = H \cup N
    BY DEF HitsIn, Grows
  <1>3. H \cap N = {}
    BY DEF HitsIn, Grows
  <1>4. IsFiniteSet(N) /\ Cardinality(N) = Num(q, X)
    <2> DEFINE h == [k \in O |-> <<s, k>>]
    <2>1. Renames(h, O, N)
      <3>1. h \in [O -> N]
        OBVIOUS
      <3>2. \A x, y \in O : x # y => h[x] # h[y]
        OBVIOUS
      <3>3. \A t \in N : \E x \in O : h[x] = t
        OBVIOUS
      <3> QED
        BY <3>1, <3>2, <3>3 DEF Renames
    <2> HIDE DEF h, O, N
    <2>2. IsFiniteSet(N) /\ Cardinality(N) = Cardinality(O)
      BY <1>1, <2>1, SameCount
    <2> QED
      BY <2>2 DEF Num, O
  <1> HIDE DEF H, N, G
  <1>5. IsFiniteSet(H)
    BY DEF H, Grows
  <1>6. IsFiniteSet(H \cup N) /\ Cardinality(H \cup N) = Cardinality(H) + Cardinality(N) - Cardinality(H \cap N)
    BY <1>4, <1>5, FS_Union
  <1>7. Cardinality(H \cap N) = 0 /\ Cardinality(H) \in Nat
    BY <1>3, <1>5, FS_EmptySet, FS_CardinalityType
  <1>8. Cardinality(G) = Cardinality(H) + Num(q, X)
    <2>1. Cardinality(H \cup N) = Cardinality(H) + Num(q, X) - 0
      BY <1>4, <1>6, <1>7
    <2> HIDE DEF q
    <2> QED
      BY <1>1, <1>2, <1>7, <2>1
  <1> QED
    BY <1>2, <1>6, <1>8 DEF G, H

\* Over all shards the emitted pairs are those of the shards in a row.
LEMMA HitsAll ==
    ASSUME NEW T, NEW ss \in Seq(Seq(T)), NEW X
    PROVE  Cardinality(HitsIn(DOMAIN ss, ss, X)) = Num(FlattenSeq(ss), X)
  <1> DEFINE n == Len(ss)
  <1>1. PICK f \in [0 .. n -> Seq(T)] :
           /\ f[0] = <<>>
           /\ \A k \in 1 .. n : f[k] = f[k - 1] \o ss[k]
           /\ FlattenSeq(ss) = f[n]
    BY FlattenSteps
  <1>2. n \in Nat /\ DOMAIN ss = 1 .. n /\ \A k \in 1 .. n : ss[k] \in Seq(T)
    OBVIOUS
  <1> HIDE DEF n
  <1> DEFINE S == {k \in 0 .. n : /\ IsFiniteSet(HitsIn(1 .. k, ss, X))
                                  /\ Cardinality(HitsIn(1 .. k, ss, X)) = Num(f[k], X)}
  <1>3. 0 \in S
    <2>1. 0 \in 0 .. n /\ 1 .. 0 = {}
      BY <1>2
    <2>2. HitsIn(1 .. 0, ss, X) = {}
      BY <2>1 DEF HitsIn
    <2>3. Num(<<>>, X) = 0
      <3>1. <<>> \in Seq(T)
        OBVIOUS
      <3> QED
        BY <3>1, NumFacts
    <2> QED
      BY <1>1, <2>1, <2>2, <2>3, FS_EmptySet
  <1>4. ASSUME NEW k \in 0 .. n - 1, k \in S PROVE k + 1 \in S
    <2> DEFINE j == k + 1
               D == 1 .. k
               q == ss[j]
               u == f[k]
    <2>1. k \in 0 .. n /\ j \in 1 .. n /\ j \in 0 .. n /\ j - 1 = k /\ 1 .. j = D \cup {j} /\ j \notin D
      BY <1>2, SMTT(60)
    <2>2. u \in Seq(T) /\ q \in Seq(T) /\ f[j] = u \o q
      <3> HIDE DEF j
      <3>1. u \in Seq(T)
        BY <2>1, <1>1
      <3> QED
        BY <3>1, <2>1, <1>1, <1>2
    <2>3. IsFiniteSet(HitsIn(D, ss, X)) /\ Cardinality(HitsIn(D, ss, X)) = Num(u, X)
      BY <1>4
    <2> HIDE DEF D, j
    <2>4. /\ IsFiniteSet(HitsIn(D \cup {j}, ss, X))
          /\ Cardinality(HitsIn(D \cup {j}, ss, X)) = Cardinality(HitsIn(D, ss, X)) + Num(q, X)
      <3>1. Grows(D, ss, ss, X, T, j)
        BY <2>1, <2>2, <2>3 DEF Grows
      <3> QED
        BY <3>1, HitsAdd
    <2> HIDE DEF u, q
    <2>5. Num(u \o q, X) = Num(u, X) + Num(q, X)
      BY <2>2, NumConcat
    <2>6. /\ IsFiniteSet(HitsIn(1 .. j, ss, X))
          /\ Cardinality(HitsIn(1 .. j, ss, X)) = Num(f[j], X)
      BY <2>1, <2>2, <2>3, <2>4, <2>5
    <2> QED
      BY <2>1, <2>6 DEF j
  <1> HIDE DEF S
  <1>5. \A k \in 0 .. n : k \in S
    BY <1>2, <1>3, <1>4, UpTo
  <1>6. n \in S
    BY <1>2, <1>5
  <1> QED
    BY <1>1, <1>2, <1>6 DEF S

Emits == [s \in DOMAIN mapped |-> EmittedFor(mapped[s])]

\* The files B of partition p hold what was emitted for the shards in D.
Tallied(B, D, E, p) ==
    \A l \in Texts :
        LET H == HitsIn(D, E, Become(mr_spec.n_output_files, p, l))
        IN  IsFiniteSet(H) /\ Copies(B, l) = Cardinality(H)

InterInv ==
    AllIn /\ pc \in {"shard", "map", "reduce"} =>
        /\ inter \in Files(Partitions)
        /\ \A p \in Partitions : Tallied(inter[p], DOMAIN mapped, Emits, p)

\* What was given to map are lines of input files.
LEMMA MappedGood ==
    ASSUME JobInv, MapInv, AllIn, pc \in {"shard", "map", "reduce"}, NEW s \in DOMAIN mapped
    PROVE  mapped[s] \in Seq(GoodLines)
  <1>1. s \in DOMAIN file_shards /\ mapped[s] = LinesOfShard(file_shards[s])
    BY DEF MapInv
  <1>2. file_shards \in Seq(Seq(Goods)) /\ DiskInv
    BY GoodShards DEF JobInv, TypeInv
  <1>3. file_shards[s] \in Seq(Goods)
    BY <1>1, <1>2
  <1> QED
    BY <1>1, <1>2, <1>3, LinesOfShardType

\* Steps that do not touch the work keep the intermediate files.
LEMMA InterSame ==
    ASSUME JobInv, MapInv, InterInv, Shrinks, mr_spec' = mr_spec, inter' = inter, mapped' = mapped,
           pc' \in {"shard", "map", "reduce"} => pc \in {"shard", "map", "reduce"}
    PROVE  InterInv'
  <1> SUFFICES ASSUME AllIn', pc' \in {"shard", "map", "reduce"}
               PROVE  (/\ inter \in Files(Partitions)
                       /\ \A p \in Partitions : Tallied(inter[p], DOMAIN mapped, Emits, p))'
    BY DEF InterInv
  <1>1. AllIn
    BY LinesKept
  <1>2. ASSUME NEW s \in DOMAIN mapped PROVE EmittedFor(mapped[s])' = EmittedFor(mapped[s])
    <2>1. mapped[s] \in Seq(GoodLines) /\ mapped'[s] = mapped[s]
      BY <1>1, MappedGood
    <2> QED
      BY <2>1, EmittedKept
  <1>3. Emits' = Emits
    BY <1>2 DEF Emits
  <1>4. Partitions' = Partitions /\ Files(Partitions)' = Files(Partitions)
    BY DEF Partitions, Files, BagSet
  <1>5. inter \in Files(Partitions) /\ \A p \in Partitions : Tallied(inter[p], DOMAIN mapped, Emits, p)
    BY <1>1 DEF InterInv
  <1>6. ASSUME NEW p \in Partitions PROVE Tallied(inter[p], DOMAIN mapped, Emits, p)'
    BY <1>3, <1>5 DEF Tallied
  <1> QED
    BY <1>4, <1>5, <1>6

\* A new run starts without intermediate files.
LEMMA InterRun == JobInv /\ Run => InterInv'
  <1> SUFFICES ASSUME Run PROVE InterInv'
    OBVIOUS
  <1>1. inter' = [p \in Partitions' |-> EmptyBag] /\ mapped' = Nothing
    BY DEF Run
  <1>2. EmptyBag \in BagSet /\ DOMAIN EmptyBag = {}
    <2>1. DOMAIN EmptyBag = {} /\ EmptyBag = [l \in DOMAIN EmptyBag |-> EmptyBag[l]]
      BY DEF EmptyBag, SetToBag
    <2> HIDE DEF EmptyBag
    <2>2. Bagged(EmptyBag)
      BY <2>1 DEF Bagged
    <2> QED
      BY <2>1, <2>2, BagSetFacts
  <1>3. inter' \in Files(Partitions')
    BY <1>1, <1>2 DEF Files
  <1>4. DOMAIN mapped' = {}
    BY <1>1 DEF Nothing
  <1>5. ASSUME NEW p \in Partitions' PROVE Tallied(inter[p], DOMAIN mapped, Emits, p)'
    <2>1. \A E, X : HitsIn({}, E, X) = {}
      BY DEF HitsIn
    <2>2. \A l : Copies(inter'[p], l) = 0
      BY <1>1, <1>2 DEF Copies
    <2> QED
      BY <1>4, <2>1, <2>2, FS_EmptySet DEF Tallied
  <1>6. (inter \in Files(Partitions))'
    BY <1>3
  <1> QED
    BY <1>5, <1>6 DEF InterInv

\* A map job adds what it emits.
LEMMA InterMap ==
    ASSUME JobInv, MapInv, InterInv, NEW s \in DOMAIN file_shards, Map(s)
    PROVE  InterInv'
  <1> DEFINE lines == LinesOfShard(file_shards[s])
             P == Partitions
             D == DOMAIN mapped
             F == [t \in D \cup {s} |-> IF t = s THEN EmittedFor(lines) ELSE EmittedFor(mapped[t])]
  <1> SUFFICES ASSUME AllIn'
               PROVE  (/\ inter \in Files(Partitions)
                       /\ \A p \in Partitions : Tallied(inter[p], DOMAIN mapped, Emits, p))'
    BY DEF InterInv
  <1>1. /\ pc = "map" /\ mr_spec' = mr_spec /\ disk' = disk /\ s \notin D
        /\ mapped' = [t \in DOMAIN mapped \cup {s} |-> IF t = s THEN lines ELSE mapped[t]]
        /\ inter' = handle_map_job(lines, inter)
    BY DEF Map
  <1>2. AllIn /\ DiskInv
    BY <1>1 DEF AllIn, JobInv, TypeInv
  <1>3. lines \in Seq(GoodLines)
    <2>1. file_shards \in Seq(Seq(Goods))
      BY <1>2, GoodShards
    <2>2. file_shards[s] \in Seq(Goods)
      BY <2>1
    <2> QED
      BY <1>2, <2>2, LinesOfShardType
  <1> HIDE DEF lines
  <1>4. EmittedFor(lines) \in Seq(KVs) /\ inter \in Files(P)
        /\ \A p \in P : Tallied(inter[p], D, Emits, p)
    BY <1>1, <1>2, <1>3, MapTyped DEF InterInv
  <1>5. /\ handle_map_job(lines, inter) \in Files(P)
        /\ \A p \in P, l \in Texts :
             Copies(handle_map_job(lines, inter)[p], l) =
               Copies(inter[p], l) + Num(EmittedFor(lines), Become(mr_spec.n_output_files, p, l))
    BY <1>4, MapJobHolds
  <1>6. Partitions' = P /\ Files(Partitions)' = Files(P) /\ DOMAIN mapped' = D \cup {s}
    BY <1>1 DEF Partitions, Files, BagSet
  <1>7. Emits' = F
    <2>1. \A q : EmittedFor(q)' = EmittedFor(q)
      BY <1>1 DEF EmittedFor, map
    <2>2. ASSUME NEW t \in D \cup {s} PROVE EmittedFor(mapped[t])' = F[t]
      <3>1. CASE t = s
        <4>1. mapped'[t] = lines
          BY <1>1, <3>1
        <4>2. EmittedFor(mapped[t])' = EmittedFor(lines)
          BY <2>1, <4>1
        <4> QED
          BY <3>1, <4>2
      <3>2. CASE t # s
        <4>1. mapped'[t] = mapped[t]
          BY <1>1, <3>2
        <4>2. EmittedFor(mapped[t])' = EmittedFor(mapped[t])
          BY <2>1, <4>1
        <4> QED
          BY <3>2, <4>2
      <3> QED
        BY <3>1, <3>2
    <2>3. Emits' = [t \in D \cup {s} |-> EmittedFor(mapped[t])']
      BY <1>6 DEF Emits
    <2> HIDE DEF F
    <2>4. F = [t \in D \cup {s} |-> F[t]]
      BY DEF F
    <2> QED
      BY <2>2, <2>3, <2>4
  <1>8. ASSUME NEW p \in P PROVE Tallied(inter[p], DOMAIN mapped, Emits, p)'
    <2> DEFINE e == EmittedFor(lines)
               B == inter'[p]
    <2>1. ASSUME NEW l \in Texts
          PROVE  LET H == HitsIn(D \cup {s}, F, Become(mr_spec.n_output_files, p, l))
                 IN  IsFiniteSet(H) /\ Copies(B, l) = Cardinality(H)
      <3> DEFINE X == Become(mr_spec.n_output_files, p, l)
      <3>1. IsFiniteSet(HitsIn(D, Emits, X)) /\ Copies(inter[p], l) = Cardinality(HitsIn(D, Emits, X))
        BY <1>4 DEF Tallied
      <3>2. Grows(D, Emits, F, X, KVs, s) /\ F[s] = e
        BY <1>1, <1>4, <3>1 DEF Grows, Emits
      <3> HIDE DEF F, X, D, e
      <3>3. /\ IsFiniteSet(HitsIn(D \cup {s}, F, X))
            /\ Cardinality(HitsIn(D \cup {s}, F, X)) = Cardinality(HitsIn(D, Emits, X)) + Num(F[s], X)
        BY <3>2, HitsAdd
      <3>4. Copies(B, l) = Copies(inter[p], l) + Num(e, X)
        BY <1>1, <1>5 DEF X, e
      <3> QED
        BY <3>1, <3>2, <3>3, <3>4 DEF X
    <2> HIDE DEF B, F
    <2>2. mr_spec'.n_output_files = mr_spec.n_output_files
      BY <1>1
    <2> QED
      BY <1>6, <1>7, <2>1, <2>2 DEF Tallied, B
  <1>9. (inter \in Files(Partitions))'
    BY <1>1, <1>5, <1>6
  <1> QED
    BY <1>6, <1>8, <1>9

\* Every step keeps the intermediate files exact.
LEMMA InterStep == JobInv /\ MapInv /\ InterInv /\ [Next]_vars => InterInv'
  <1> SUFFICES ASSUME JobInv, MapInv, InterInv, [Next]_vars PROVE InterInv'
    OBVIOUS
  <1>1. CASE Still
    BY <1>1, InterSame DEF Still, Quiet, jobvars
  <1>2. CASE RunInvalid
    BY <1>2 DEF RunInvalid, InterInv
  <1>3. CASE Cutting /\ UNCHANGED <<jobvars>>
    <2>1. Shrinks /\ mr_spec' = mr_spec /\ inter' = inter /\ mapped' = mapped /\ pc = "shard"
      BY <1>3, CuttingFacts DEF Cutting, jobvars
    <2> QED
      BY <2>1, InterSame
  <1>4. CASE Reduce
    <2>1. Shrinks /\ mr_spec' = mr_spec /\ inter' = inter /\ mapped' = mapped /\ pc = "map"
      BY <1>4 DEF Reduce, Shrinks
    <2> QED
      BY <2>1, InterSame
  <1>5. CASE RunReturns
    BY <1>5 DEF RunReturns, InterInv
  <1> QED
    BY <1>1, <1>2, <1>3, <1>4, <1>5, WorkCases, InterRun, InterMap

\* The outputs are sequences of what the reduce jobs wrote.
OutInv ==
    /\ \A p \in DOMAIN output : output[p] \in Seq(Range(output[p]))
    /\ pc \in {"shard", "map", "reduce"} => DOMAIN output = Partitions
    /\ pc = "reduce" => \A p \in Partitions : Written(p) = handle_reduce_job(inter[p])

\* Appending to a sequence, whatever it is of.
LEMMA AppendOwn ==
    ASSUME NEW q, q \in Seq(Range(q)), NEW x
    PROVE  Append(q, x) \in Seq(Range(Append(q, x))) /\ Last(Append(q, x)) = x
  <1> DEFINE T == Range(q) \cup {x}
             r == Append(q, x)
  <1>1. q \in Seq(T) /\ x \in T
    <2>1. Len(q) \in Nat /\ DOMAIN q = 1 .. Len(q) /\ q = [i \in 1 .. Len(q) |-> q[i]]
      OBVIOUS
    <2>2. \A i \in 1 .. Len(q) : q[i] \in T
      BY <2>1 DEF Range
    <2> HIDE DEF T
    <2>3. q \in Seq(T)
      BY <2>1, <2>2
    <2> QED
      BY <2>3 DEF T
  <1> HIDE DEF T
  <1>2. r \in Seq(T) /\ Last(r) = x
    BY <1>1, LastAppend
  <1> HIDE DEF r
  <1>3. r \in Seq(Range(r))
    <2>1. Len(r) \in Nat /\ DOMAIN r = 1 .. Len(r) /\ r = [i \in 1 .. Len(r) |-> r[i]]
      BY <1>2
    <2>2. \A i \in 1 .. Len(r) : r[i] \in Range(r)
      BY <2>1 DEF Range
    <2> QED
      BY <2>1, <2>2
  <1> QED
    BY <1>2, <1>3 DEF r

\* Every step keeps the outputs.
LEMMA OutStep == JobInv /\ OutInv /\ [Next]_vars => OutInv'
  <1> SUFFICES ASSUME JobInv, OutInv, [Next]_vars PROVE OutInv'
    OBVIOUS
  <1>1. ASSUME mr_spec' = mr_spec, output' = output, inter' = inter,
               pc' \in {"shard", "map", "reduce"} => pc \in {"shard", "map", "reduce"},
               pc' = "reduce" => pc = "reduce"
        PROVE  OutInv'
    BY <1>1, ZenonT(60) DEF OutInv, Partitions, Written, handle_reduce_job
  <1>2. CASE Still
    BY <1>1, <1>2 DEF Still, Quiet, jobvars
  <1>3. CASE RunInvalid
    BY <1>3 DEF RunInvalid, OutInv, jobvars
  <1>4. CASE Run
    <2>1. /\ pc' = "shard"
          /\ output' = [p \in Partitions' |-> IF p \in DOMAIN output THEN output[p] ELSE <<>>]
      BY <1>4 DEF Run, StartSharding
    <2>2. ASSUME NEW p \in DOMAIN output' PROVE output'[p] \in Seq(Range(output'[p]))
      <3>1. output'[p] = IF p \in DOMAIN output THEN output[p] ELSE <<>>
        BY <2>1
      <3>2. \A T : <<>> \in Seq(T)
        OBVIOUS
      <3> QED
        BY <3>1, <3>2 DEF OutInv
    <2>3. DOMAIN output' = Partitions'
      BY <2>1
    <2> QED
      BY <2>1, <2>2, <2>3 DEF OutInv
  <1>5. CASE Cutting /\ UNCHANGED <<jobvars>> /\ (NextFile \/ TakeRest \/ Split \/ ShardsDone)
    BY <1>1, <1>5 DEF Cutting, jobvars, NextFile, TakeRest, Split, ShardsDone
  <1>6. ASSUME NEW s \in DOMAIN file_shards, Map(s) PROVE OutInv'
    BY <1>6 DEF Map, OutInv, Partitions
  <1>7. CASE Reduce
    <2>1. /\ pc = "map" /\ pc' = "reduce" /\ mr_spec' = mr_spec /\ inter' = inter
          /\ output' = [p \in Partitions |-> Append(output[p], handle_reduce_job(inter[p]))]
      BY <1>7 DEF Reduce
    <2>2. DOMAIN output' = Partitions /\ Partitions' = Partitions /\ DOMAIN output = Partitions
      BY <2>1 DEF OutInv, Partitions
    <2>3. ASSUME NEW p \in Partitions
          PROVE  output'[p] \in Seq(Range(output'[p])) /\ Last(output'[p]) = handle_reduce_job(inter[p])
      <3> DEFINE q == output[p]
                 x == handle_reduce_job(inter[p])
      <3>1. q \in Seq(Range(q)) /\ output'[p] = Append(q, x)
        BY <2>1, <2>2 DEF OutInv
      <3> HIDE DEF q, x
      <3>2. Append(q, x) \in Seq(Range(Append(q, x))) /\ Last(Append(q, x)) = x
        BY <3>1, AppendOwn
      <3> QED
        BY <3>1, <3>2 DEF x
    <2>4. ASSUME NEW p \in Partitions PROVE (Written(p) = handle_reduce_job(inter[p]))'
      BY <2>1, <2>3 DEF Written, handle_reduce_job
    <2> QED
      BY <2>1, <2>2, <2>3, <2>4 DEF OutInv
  <1>8. CASE RunReturns
    BY <1>8 DEF RunReturns, OutInv
  <1> QED
    BY <1>2, <1>3, <1>4, <1>5, <1>6, <1>7, <1>8, WorkCases

\* The invariants of the work hold at first.
LEMMA WorkInit == Init => InterInv /\ OutInv
  BY DEF Init, InterInv, OutInv, Nothing

\* They always hold.
LEMMA WorkCorrect == Spec => [](JobInv /\ MapInv /\ InterInv /\ OutInv)
  BY JobInit, JobStep, LinesMapInit, MapInvStep, WorkInit, InterStep, OutStep, PTL DEF Spec

\* All that was emitted is what was emitted for the shards, in their order.
LEMMA EmittedIs ==
    ASSUME JobInv, MapInv, pc = "reduce", AllIn
    PROVE  Emits \in Seq(Seq(KVs)) /\ Emitted = FlattenSeq(Emits) /\ Emitted \in Seq(KVs)
  <1> DEFINE ss == [s \in DOMAIN file_shards |-> mapped[s]]
             G == GoodLines
             h == MapFun
  <1>1. DOMAIN mapped = DOMAIN file_shards /\ DiskInv /\ file_shards \in Seq(Seq(Segments))
    BY DEF MapInv, JobInv, TypeInv
  <1>2. \A s \in DOMAIN file_shards : mapped[s] \in Seq(G)
    BY <1>1, MappedGood
  <1>3. Maps(h, G, Seq(KVs))
        /\ \A q \in Seq(G) : EmittedFor(q) = FlattenSeq(Apply(h, q)) /\ EmittedFor(q) \in Seq(KVs)
    BY <1>1, MapTyped
  <1> HIDE DEF G, h
  <1>4. Len(file_shards) \in Nat /\ DOMAIN file_shards = 1 .. Len(file_shards)
    BY <1>1
  <1>5. ss \in Seq(Seq(G)) /\ DOMAIN ss = DOMAIN file_shards /\ \A s \in DOMAIN ss : ss[s] = mapped[s] /\ ss[s] \in Seq(G)
    <2> DEFINE U == Seq(G)
    <2>1. \A s \in 1 .. Len(file_shards) : mapped[s] \in U
      BY <1>2, <1>4
    <2> HIDE DEF U
    <2>2. ss \in Seq(U)
      BY <1>4, <2>1
    <2> QED
      BY <2>2, <1>2 DEF U
  <1>6. Got = FlattenSeq(ss)
    BY DEF Got
  <1> HIDE DEF ss
  <1>7. Got \in Seq(G)
    BY <1>5, <1>6, FlattenType
  <1>8. FlattenSeq(Apply(h, FlattenSeq(ss))) = FlattenSeq([i \in DOMAIN ss |-> FlattenSeq(Apply(h, ss[i]))])
    BY <1>3, <1>5, FlattenTwice
  <1>9. [i \in DOMAIN ss |-> FlattenSeq(Apply(h, ss[i]))] = Emits
    BY <1>1, <1>3, <1>5 DEF Emits
  <1>10. Emitted = FlattenSeq(Emits) /\ Emitted \in Seq(KVs)
    BY <1>3, <1>6, <1>7, <1>8, <1>9 DEF Emitted
  <1>11. Emits \in Seq(Seq(KVs))
    <2> DEFINE U == Seq(KVs)
    <2>1. \A s \in 1 .. Len(file_shards) : EmittedFor(mapped[s]) \in U
      BY <1>2, <1>3, <1>4
    <2> HIDE DEF U
    <2>2. Emits \in Seq(U)
      BY <1>1, <1>4, <2>1 DEF Emits
    <2> QED
      BY <2>2 DEF U
  <1> QED
    BY <1>10, <1>11

\* When the map phase is over, a line is in the files of a partition as often
\* as a pair was emitted that becomes this line of this partition.
LEMMA FilesCount ==
    ASSUME JobInv, MapInv, InterInv, pc = "reduce", AllIn, NEW p \in Partitions
    PROVE  /\ Bagged(inter[p])
           /\ \A l \in Texts : Copies(inter[p], l) = Num(Emitted, Become(mr_spec.n_output_files, p, l))
  <1>1. inter \in Files(Partitions) /\ Tallied(inter[p], DOMAIN mapped, Emits, p)
    BY DEF InterInv
  <1>2. inter[p] \in BagSet
    BY <1>1 DEF Files
  <1>3. Bagged(inter[p])
    BY <1>2, BagSetFacts
  <1>4. ASSUME NEW l \in Texts PROVE Copies(inter[p], l) = Num(Emitted, Become(mr_spec.n_output_files, p, l))
    <2> DEFINE X == Become(mr_spec.n_output_files, p, l)
    <2>1. Copies(inter[p], l) = Cardinality(HitsIn(DOMAIN mapped, Emits, X))
      BY <1>1 DEF Tallied
    <2>2. DOMAIN mapped = DOMAIN Emits
      BY DEF Emits
    <2>3. Emits \in Seq(Seq(KVs)) /\ Emitted = FlattenSeq(Emits)
      BY EmittedIs
    <2> HIDE DEF X
    <2>4. Cardinality(HitsIn(DOMAIN Emits, Emits, X)) = Num(FlattenSeq(Emits), X)
      BY <2>3, HitsAll
    <2> QED
      BY <2>1, <2>2, <2>3, <2>4 DEF X
  <1> QED
    BY <1>3, <1>4

\* A key and the line it becomes with a value.
LEMMA AppendKey ==
    ASSUME NEW T, NEW k \in Seq(T), k # <<>>, NEW v \in T
    PROVE  /\ Append(k, v) \in Seq(T) /\ Head(Append(k, v)) = Head(k)
           /\ Append(k, v) = k \o <<v>>
           /\ Len(k) = 1 => k = <<Head(k)>> /\ Tail(Append(k, v)) = <<v>>
  <1>1. Append(k, v) \in Seq(T) /\ Append(k, v) = k \o <<v>>
    OBVIOUS
  <1>2. /\ Head(Append(k, v)) = Head(k)
        /\ Tail(Append(k, v)) = Append(Tail(k), v)
    BY HeadTailAppend
  <1>3. ASSUME Len(k) = 1 PROVE k = <<Head(k)>> /\ Append(Tail(k), v) = <<v>>
    <2>1. k = <<Head(k)>>
      BY <1>3
    <2>2. Tail(k) \in Seq(T) /\ Len(Tail(k)) = 0
      BY <1>3, HeadTailProperties
    <2>3. Tail(k) = <<>>
      BY <2>2, EmptySeq
    <2>4. Append(<<>>, v) = <<v>>
      OBVIOUS
    <2> QED
      BY <2>1, <2>3, <2>4
  <1>4. Len(k) = 1 => k = <<Head(k)>> /\ Tail(Append(k, v)) = <<v>>
    BY <1>2, <1>3
  <1>5. Head(Append(k, v)) = Head(k)
    BY <1>2
  <1> QED
    BY <1>1, <1>4, <1>5

\* A pair and the line it becomes: the line ends with the value.
LEMMA LineFacts ==
    ASSUME NEW a \in KVs
    PROVE  LET l == Append(a[1], a[2]) IN
           /\ a[1] \in Seq(STRING) /\ a[1] # <<>> /\ a[2] \in STRING /\ Hash(a[1]) \in Int
           /\ l \in Texts /\ Head(l) = Head(a[1]) /\ KeyOf(l) = <<Head(a[1])>>
           /\ Len(a[1]) = 1 => a[1] = <<Head(a[1])>> /\ ValueOf(l) = <<a[2]>> /\ l = a[1] \o <<a[2]>>
           /\ a = <<a[1], a[2]>>
  <1> DEFINE k == a[1]
             v == a[2]
             l == Append(k, v)
  <1>1. k \in Seq(STRING) /\ k # <<>> /\ v \in STRING /\ Hash(k) \in Int /\ a = <<k, v>>
    BY DEF KVs
  <1> HIDE DEF k, v
  <1>2. /\ l \in Seq(STRING) /\ Head(l) = Head(k) /\ l = k \o <<v>>
        /\ Len(k) = 1 => k = <<Head(k)>> /\ Tail(l) = <<v>>
    BY <1>1, AppendKey, ZenonT(60)
  <1>5. KeyOf(l) = <<Head(k)>> /\ ValueOf(l) = Tail(l)
    BY <1>2 DEF KeyOf, ValueOf
  <1> QED
    BY <1>1, <1>2, <1>5 DEF k, v, Texts

\* The files of partition p hold the pairs of q that go there.
Filed(B, q, n, p) ==
    /\ Bagged(B)
    /\ \A l \in Texts : Copies(B, l) = Num(q, Become(n, p, l))

\* The lines in the files of partition p: those of the pairs that go there.
Enters(q, n, p, l) == \E i \in DOMAIN q : Hash(q[i][1]) % n = p /\ l = Append(q[i][1], q[i][2])

\* The files have no other lines, and lack none.
LEMMA FileLines ==
    ASSUME NEW B, NEW q \in Seq(KVs), NEW n, NEW p, Filed(B, q, n, p), NEW l
    PROVE  l \in DOMAIN B <=> Enters(q, n, p, l)
  <1>1. l \in DOMAIN B => l \in Texts
    BY DEF Bagged, Filed
  <1>2. \A i \in DOMAIN q : q[i] \in KVs /\ Append(q[i][1], q[i][2]) \in Texts
    <2>1. \A i \in DOMAIN q : q[i] \in KVs
      OBVIOUS
    <2> QED
      BY <2>1, LineFacts
  <1>3. ASSUME l \in Texts
        PROVE  l \in DOMAIN B <=> \E i \in DOMAIN q : q[i] \in Become(n, p, l)
    <2> DEFINE X == Become(n, p, l)
    <2>1. l \in DOMAIN B <=> Copies(B, l) > 0
      BY CopiesFacts DEF Filed
    <2>2. Copies(B, l) = Num(q, X)
      BY <1>3 DEF Filed
    <2>3. Num(q, X) \in Nat /\ (Num(q, X) = 0 <=> \A i \in DOMAIN q : q[i] \notin X)
      BY NumFacts
    <2> HIDE DEF X
    <2>4. l \in DOMAIN B <=> \E i \in DOMAIN q : q[i] \in X
      BY <2>1, <2>2, <2>3
    <2> QED
      BY <2>4 DEF X
  <1> QED
    BY <1>1, <1>2, <1>3 DEF Become, Enters

\* What a reduce job writes of the files B of a partition.
LEMMA ReduceJobFacts ==
    ASSUME NEW B
    PROVE  LET W == handle_reduce_job(B) IN
           /\ DOMAIN W = {KeyOf(l) : l \in DOMAIN B}
           /\ \A k \in DOMAIN W :
                W[k] = [v \in {ValueOf(l) : l \in {m \in DOMAIN B : KeyOf(m) = k}} |-> B[k \o v]]
  BY DEF handle_reduce_job, BagToSet

\* The keys that were emitted, and those no other key is mistaken for.
KeysIn(q) == {kv[1] : kv \in Range(q)}
PlainIn(q) == {k \in KeysIn(q) : \A l \in KeysIn(q) : Head(l) = Head(k) => l = k /\ Len(k) = 1}
ValuesIn(q, k) ==
    [v \in {<<kv[2]>> : kv \in {e \in Range(q) : e[1] = k}} |->
       Cardinality({i \in DOMAIN q : q[i] = <<k, v[1]>>})]

\* A key was emitted somewhere.
LEMMA KeysAt ==
    ASSUME NEW q \in Seq(KVs)
    PROVE  /\ \A k : k \in KeysIn(q) <=> \E i \in DOMAIN q : q[i][1] = k
           /\ \A i \in DOMAIN q : q[i] \in KVs /\ q[i] \in Range(q)
  BY DEF KeysIn, Range

\* reduce is called for no other key than the first part of an emitted one.
LEMMA NoOtherKeys ==
    ASSUME NEW q \in Seq(KVs), NEW B, NEW n, NEW p, Filed(B, q, n, p)
    PROVE  DOMAIN handle_reduce_job(B) \subseteq {<<Head(k)>> : k \in KeysIn(q)}
  <1>0. DOMAIN handle_reduce_job(B) = {KeyOf(l) : l \in DOMAIN B}
    BY ReduceJobFacts
  <1> SUFFICES ASSUME NEW l \in DOMAIN B PROVE KeyOf(l) \in {<<Head(k)>> : k \in KeysIn(q)}
    BY <1>0
  <1>1. PICK i \in DOMAIN q : l = Append(q[i][1], q[i][2])
    BY FileLines DEF Enters
  <1> DEFINE a == q[i]
  <1>2. a \in KVs /\ a[1] \in KeysIn(q)
    BY KeysAt
  <1>3. l = Append(a[1], a[2])
    BY <1>1
  <1> HIDE DEF a
  <1>4. KeyOf(l) = <<Head(a[1])>>
    BY <1>2, <1>3, LineFacts
  <1> QED
    BY <1>2, <1>4

\* The lines of a plain key are those of its pairs, and they are where its
\* hash puts them.
LEMMA PlainLines ==
    ASSUME NEW q \in Seq(KVs), NEW B, NEW n, NEW p, Filed(B, q, n, p), NEW k \in PlainIn(q), NEW l
    PROVE  /\ k \in Seq(STRING) /\ k # <<>> /\ Len(k) = 1 /\ k = <<Head(k)>>
           /\ l \in DOMAIN B /\ KeyOf(l) = k <=>
                Hash(k) % n = p /\ \E i \in DOMAIN q : q[i][1] = k /\ l = Append(k, q[i][2])
  <1>1. PICK j \in DOMAIN q : q[j][1] = k
    BY KeysAt DEF PlainIn
  <1>2. k \in Seq(STRING) /\ k # <<>> /\ Len(k) = 1 /\ k = <<Head(k)>>
    <2>1. q[j] \in KVs
      BY KeysAt
    <2>2. Len(k) = 1
      BY DEF PlainIn
    <2> DEFINE a == q[j]
    <2> HIDE DEF a
    <2>3. a \in KVs /\ a[1] = k
      BY <1>1, <2>1 DEF a
    <2> QED
      BY <2>2, <2>3, LineFacts
  <1>3. l \in DOMAIN B <=> \E i \in DOMAIN q : Hash(q[i][1]) % n = p /\ l = Append(q[i][1], q[i][2])
    <2>1. l \in DOMAIN B <=> Enters(q, n, p, l)
      BY FileLines
    <2> QED
      BY <2>1 DEF Enters
  <1>4. ASSUME NEW i \in DOMAIN q, l = Append(q[i][1], q[i][2]) PROVE KeyOf(l) = k <=> q[i][1] = k
    <2> DEFINE a == q[i]
    <2>1. a \in KVs /\ l = Append(a[1], a[2]) /\ a[1] \in KeysIn(q)
      BY <1>4, KeysAt
    <2> HIDE DEF a
    <2>2. KeyOf(l) = <<Head(a[1])>>
      BY <2>1, LineFacts
    <2>3. Head(a[1]) = Head(k) => a[1] = k
      BY <2>1 DEF PlainIn
    <2>4. KeyOf(l) = k => Head(a[1]) = Head(k)
      BY <2>2, <1>2
    <2>5. a[1] = k => KeyOf(l) = k
      BY <2>2, <1>2
    <2> QED
      BY <2>3, <2>4, <2>5 DEF a
  <1> QED
    BY <1>2, <1>3, <1>4

\* reduce is not called for a plain key elsewhere.
LEMMA PlainElsewhere ==
    ASSUME NEW q \in Seq(KVs), NEW B, NEW n, NEW p, Filed(B, q, n, p), NEW k \in PlainIn(q), Hash(k) % n # p
    PROVE  k \notin DOMAIN handle_reduce_job(B)
  <1>1. DOMAIN handle_reduce_job(B) = {KeyOf(l) : l \in DOMAIN B}
    BY ReduceJobFacts
  <1>2. \A l : ~(l \in DOMAIN B /\ KeyOf(l) = k)
    BY PlainLines
  <1> QED
    BY <1>1, <1>2

\* In the partition of its hash, reduce is called for it with all its values.
LEMMA PlainHere ==
    ASSUME NEW q \in Seq(KVs), NEW B, NEW n, NEW p, Filed(B, q, n, p), NEW k \in PlainIn(q), Hash(k) % n = p
    PROVE  k \in DOMAIN handle_reduce_job(B) /\ handle_reduce_job(B)[k] = ValuesIn(q, k)
  <1> DEFINE W == handle_reduce_job(B)
             V == {ValueOf(l) : l \in {m \in DOMAIN B : KeyOf(m) = k}}
             U == {<<kv[2]>> : kv \in {e \in Range(q) : e[1] = k}}
  <1>0. k \in Seq(STRING) /\ k # <<>> /\ Len(k) = 1 /\ k = <<Head(k)>>
    BY PlainLines
  <1>1. \A l : l \in DOMAIN B /\ KeyOf(l) = k <=> \E i \in DOMAIN q : q[i][1] = k /\ l = Append(k, q[i][2])
    BY PlainLines
  <1>2. PICK j \in DOMAIN q : q[j][1] = k
    BY KeysAt DEF PlainIn
  <1>3. k \in DOMAIN W
    <2>1. Append(k, q[j][2]) \in DOMAIN B /\ KeyOf(Append(k, q[j][2])) = k
      BY <1>1, <1>2
    <2> QED
      BY <2>1, ReduceJobFacts
  <1>4. ASSUME NEW i \in DOMAIN q, q[i][1] = k
        PROVE  /\ q[i][2] \in STRING /\ ValueOf(Append(k, q[i][2])) = <<q[i][2]>>
               /\ Append(k, q[i][2]) = k \o <<q[i][2]>> /\ Append(k, q[i][2]) \in Texts
    <2> DEFINE a == q[i]
    <2>1. a \in KVs /\ a[1] = k
      BY <1>4, KeysAt
    <2> HIDE DEF a
    <2>2. a[2] \in STRING /\ ValueOf(Append(k, a[2])) = <<a[2]>> /\ Append(k, a[2]) = k \o <<a[2]>>
          /\ Append(k, a[2]) \in Texts
      BY <1>0, <2>1, LineFacts
    <2> QED
      BY <2>2 DEF a
  <1>5. V = U
    <2>1. ASSUME NEW l \in DOMAIN B, KeyOf(l) = k PROVE ValueOf(l) \in U
      <3>1. PICK i \in DOMAIN q : q[i][1] = k /\ l = Append(k, q[i][2])
        BY <1>1, <2>1
      <3>2. ValueOf(l) = <<q[i][2]>> /\ q[i] \in Range(q)
        BY <1>4, <3>1, KeysAt
      <3> QED
        BY <3>1, <3>2
    <2>2. ASSUME NEW kv \in Range(q), kv[1] = k PROVE <<kv[2]>> \in V
      <3>1. PICK i \in DOMAIN q : q[i] = kv
        BY DEF Range
      <3>2. ValueOf(Append(k, kv[2])) = <<kv[2]>> /\ Append(k, kv[2]) \in DOMAIN B /\ KeyOf(Append(k, kv[2])) = k
        BY <1>1, <1>4, <2>2, <3>1
      <3> QED
        BY <3>2
    <2> QED
      BY <2>1, <2>2
  <1>6. ASSUME NEW v \in U PROVE B[k \o v] = Cardinality({i \in DOMAIN q : q[i] = <<k, v[1]>>})
    <2>1. PICK i \in DOMAIN q : q[i][1] = k /\ v = <<q[i][2]>>
      BY DEF Range
    <2> DEFINE w == q[i][2]
               l == Append(k, w)
               X == Become(n, p, l)
    <2>2. v[1] = w /\ k \o v = l /\ l \in Texts /\ w \in STRING /\ l \in DOMAIN B
      BY <1>1, <1>4, <2>1
    <2>3. B[l] = Num(q, X)
      BY <2>2 DEF Filed, Copies
    <2>4. ASSUME NEW x \in DOMAIN q PROVE q[x] \in X <=> q[x] = <<k, w>>
      <3> DEFINE a == q[x]
      <3>1. a \in KVs
        BY KeysAt
      <3> HIDE DEF a, w
      <3>2. a[1] \in Seq(STRING) /\ a[2] \in STRING /\ a = <<a[1], a[2]>>
        BY <3>1, LineFacts
      <3> DEFINE b == a[1]
                 c == a[2]
      <3>3. a \in X <=> Hash(b) % n = p /\ Append(b, c) = l
        BY <3>1 DEF Become
      <3> HIDE DEF b, c
      <3>4. Append(b, c) = Append(k, w) <=> b = k /\ c = w
        BY <3>2, <2>2, <1>0, AppendInjective DEF b, c
      <3>5. a = <<k, w>> <=> b = k /\ c = w
        BY <3>2 DEF b, c
      <3> QED
        BY <3>3, <3>4, <3>5 DEF a
    <2>5. Occ(q, X) = {x \in DOMAIN q : q[x] = <<k, w>>}
      BY <2>4 DEF Occ
    <2> QED
      BY <2>2, <2>3, <2>5 DEF Num
  <1>7. W[k] = [v \in V |-> B[k \o v]]
    BY <1>3, ReduceJobFacts, ZenonT(60)
  <1>8. ValuesIn(q, k) = [v \in U |-> Cardinality({i \in DOMAIN q : q[i] = <<k, v[1]>>})]
    BY DEF ValuesIn
  <1> QED
    BY <1>3, <1>5, <1>6, <1>7, <1>8

\* The invariants imply that reduce gets exactly what map emitted.
LEMMA ReduceFollows == JobInv /\ MapInv /\ InterInv /\ OutInv => ReduceExact
  <1> SUFFICES ASSUME JobInv, MapInv, InterInv, OutInv, pc = "reduce", AllThere
               PROVE  /\ \A k \in PlainIn(Emitted) : \E p \in Partitions :
                           /\ k \in DOMAIN Written(p) /\ Written(p)[k] = ValuesIn(Emitted, k)
                           /\ \A q \in Partitions \ {p} : k \notin DOMAIN Written(q)
                      /\ \A p \in Partitions : DOMAIN Written(p) \subseteq {<<Head(k)>> : k \in KeysIn(Emitted)}
    BY DEF ReduceExact, KeysIn, PlainIn, ValuesIn
  <1> DEFINE n == mr_spec.n_output_files
             e == Emitted
  <1>1. AllIn
    BY AskedIn
  <1>2. n \in Int /\ n > 0
    BY DEF JobInv, TypeInv, SpecInv, Running, Specs
  <1>3. e \in Seq(KVs)
    BY <1>1, EmittedIs
  <1>4. \A p \in Partitions : Filed(inter[p], e, n, p) /\ Written(p) = handle_reduce_job(inter[p])
    BY <1>1, FilesCount DEF Filed, OutInv
  <1> HIDE DEF e
  <1>5. ASSUME NEW p \in Partitions PROVE DOMAIN Written(p) \subseteq {<<Head(k)>> : k \in KeysIn(e)}
    BY <1>3, <1>4, NoOtherKeys
  <1>6. ASSUME NEW k \in PlainIn(e)
        PROVE  \E p \in Partitions :
                 /\ k \in DOMAIN Written(p) /\ Written(p)[k] = ValuesIn(e, k)
                 /\ \A q \in Partitions \ {p} : k \notin DOMAIN Written(q)
    <2> DEFINE p == Hash(k) % n
    <2>1. PICK i \in DOMAIN e : e[i][1] = k
      BY <1>3, KeysAt DEF PlainIn
    <2>2. Hash(k) \in Int
      <3>1. e[i] \in KVs
        BY <1>3, KeysAt
      <3> QED
        BY <2>1, <3>1 DEF KVs
    <2>3. p \in Partitions
      <3> DEFINE h == Hash(k)
                 m == n
      <3> HIDE DEF h, m
      <3>1. h \in Int /\ m \in Int /\ m > 0
        BY <1>2, <2>2 DEF h, m
      <3>2. h % m \in 0 .. m - 1
        BY <3>1
      <3> QED
        BY <3>2 DEF h, m, Partitions
    <2>4. k \in DOMAIN Written(p) /\ Written(p)[k] = ValuesIn(e, k)
      <3> DEFINE B == inter[p]
      <3>1. Filed(B, e, n, p) /\ Written(p) = handle_reduce_job(B)
        BY <1>4, <2>3
      <3> HIDE DEF B
      <3> QED
        BY <1>3, <3>1, PlainHere
    <2>5. ASSUME NEW q \in Partitions \ {p} PROVE k \notin DOMAIN Written(q)
      <3> DEFINE B == inter[q]
      <3>1. Filed(B, e, n, q) /\ Written(q) = handle_reduce_job(B) /\ Hash(k) % n # q
        BY <1>4
      <3> HIDE DEF B, p
      <3> QED
        BY <1>3, <3>1, PlainElsewhere
    <2> QED
      BY <2>3, <2>4, <2>5
  <1> QED
    BY <1>5, <1>6 DEF e

\* reduce is called once for every key, with everything that map emitted for
\* it (see ReduceExact), whatever the files, the number of partitions, the
\* size of the buffer of emitted pairs, the hash and the order of the map jobs.
THEOREM ReduceExactHolds == Spec => []ReduceExact
  BY WorkCorrect, ReduceFollows, PTL

=============================================================================
