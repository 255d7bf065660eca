----------------------------- MODULE VirtProofs -----------------------------
(***************************************************************************)
(* Proofs about the two programs of project1-1: the memory coordinator     *)
(* keeps the reserve of the host, and the vCPU scheduler measures the VMs  *)
(* it thinks it measures, puts the busiest ones on different pCPUs, and    *)
(* leaves a placement that moving a lightest VM does not improve, for any  *)
(* number of VMs, pCPUs and changes of the list of VMs.                    *)
(***************************************************************************)
EXTENDS MCVirt, FiniteSetTheorems, SequenceTheorems, WellFoundedInduction, TLAPS

-----------------------------------------------------------------------------
(* The list of running VMs *)

\* The VMs that a list names, and that it names none of them twice.
Named(list) == {list[i] : i \in 1 .. Len(list)}
Distinct(list) == \A i, j \in 1 .. Len(list) : list[i] = list[j] => i = j

HostInv == domains \in Seq(VMs) /\ changes \in 0 .. MaxChanges /\ Distinct(domains)

\* At first the list is 1, 2, ..., NumBoot.
LEMMA InitList == ASSUME HypervisorInit PROVE HostInv
  <1> USE HypervisorAssumption DEF HypervisorInit, VMs
  <1>1. domains \in Seq(VMs) /\ Len(domains) = NumBoot
    OBVIOUS
  <1> QED
    BY <1>1 DEF HostInv, Distinct

\* A list with v inserted after the first k, for a v it did not name.
LEMMA Insert ==
    ASSUME NEW S, NEW s \in Seq(S), Distinct(s), NEW k \in 0 .. Len(s),
           NEW v \in S, \A i \in 1 .. Len(s) : s[i] # v
    PROVE  LET t == SubSeq(s, 1, k) \o <<v>> \o SubSeq(s, k + 1, Len(s))
           IN  /\ t \in Seq(S) /\ Distinct(t)
               /\ Named(s) \subseteq Named(t)
  <1> DEFINE a == SubSeq(s, 1, k)
             b == SubSeq(s, k + 1, Len(s))
             c == a \o <<v>>
             t == c \o b
  <1> USE LenProperties
  <1>1. a \in Seq(S) /\ Len(a) = k /\ \A i \in 1 .. k : a[i] = s[i]
    OBVIOUS
  <1>2. /\ b \in Seq(S) /\ Len(b) = Len(s) - k
        /\ \A i \in 1 .. Len(s) - k : b[i] = s[k + i]
    OBVIOUS
  <1> HIDE DEF a, b
  <1>3. /\ c \in Seq(S) /\ Len(c) = k + 1
        /\ \A i \in 1 .. k + 1 : c[i] = IF i = k + 1 THEN v ELSE s[i]
    BY <1>1
  <1> HIDE DEF c
  <1>4. /\ t \in Seq(S) /\ Len(t) = Len(s) + 1
        /\ \A i \in 1 .. k + 1 : t[i] = c[i]
        /\ \A i \in k + 2 .. Len(s) + 1 : t[i] = b[i - (k + 1)]
    BY <1>2, <1>3
  <1> HIDE DEF t
  <1>5. \A i \in 1 .. Len(t) :
          t[i] = IF i <= k THEN s[i] ELSE IF i = k + 1 THEN v ELSE s[i - 1]
    <2> TAKE i \in 1 .. Len(t)
    <2>1. CASE i <= k + 1
      BY <2>1, <1>3, <1>4
    <2>2. CASE i > k + 1
      <3>1. i - (k + 1) \in 1 .. Len(s) - k /\ k + (i - (k + 1)) = i - 1
        BY <2>2, <1>4
      <3>2. b[i - (k + 1)] = s[i - 1]
        BY <3>1, <1>2
      <3> QED
        BY <2>2, <3>2, <1>4
    <2> QED
      BY <2>1, <2>2
  <1>6. Distinct(t)
    <2> SUFFICES ASSUME NEW i \in 1 .. Len(t), NEW j \in 1 .. Len(t), t[i] = t[j], i < j
                 PROVE  FALSE
      BY <1>4 DEF Distinct
    <2>1. /\ t[i] = IF i <= k THEN s[i] ELSE IF i = k + 1 THEN v ELSE s[i - 1]
          /\ t[j] = IF j <= k THEN s[j] ELSE IF j = k + 1 THEN v ELSE s[j - 1]
      BY <1>5
    <2>2. CASE i = k + 1
      <3>1. j - 1 \in 1 .. Len(s) /\ ~(i <= k) /\ ~(j <= k) /\ j # k + 1
        BY <2>2, <1>4
      <3>2. s[j - 1] = v
        BY <3>1, <2>1, <2>2, Zenon
      <3> QED
        BY <3>1, <3>2
    <2>3. CASE j = k + 1
      <3>1. i \in 1 .. Len(s) /\ i <= k /\ ~(j <= k)
        BY <2>3, <1>4
      <3>2. s[i] = v
        BY <3>1, <2>1, <2>3, Zenon
      <3> QED
        BY <3>1, <3>2
    <2>4. CASE i # k + 1 /\ j # k + 1
      <3> DEFINE m == IF i <= k THEN i ELSE i - 1
                 n == IF j <= k THEN j ELSE j - 1
      <3>1. m \in 1 .. Len(s) /\ n \in 1 .. Len(s) /\ m < n
        BY <2>4, <1>4
      <3>2. t[i] = s[m] /\ t[j] = s[n]
        BY <2>1, <2>4
      <3>3. s[m] = s[n]
        BY <3>2
      <3> HIDE DEF m, n
      <3> QED
        BY <3>1, <3>3 DEF Distinct
    <2> QED
      BY <2>2, <2>3, <2>4
  <1>7. ASSUME NEW i \in 1 .. Len(s) PROVE \E j \in 1 .. Len(t) : t[j] = s[i]
    <2> DEFINE j == IF i <= k THEN i ELSE i + 1
    <2>1. j \in 1 .. Len(t)
      BY <1>4
    <2>2. t[j] = IF j <= k THEN s[j] ELSE IF j = k + 1 THEN v ELSE s[j - 1]
      BY <2>1, <1>5
    <2>3. t[j] = s[i]
      BY <2>2
    <2> HIDE DEF j
    <2> QED
      BY <2>1, <2>3
  <1>8. Named(s) \subseteq Named(t)
    BY <1>7, Zenon DEF Named
  <1> QED
    BY <1>4, <1>6, <1>8, Zenon DEF t, c, a, b

\* A list without its k-th entry.
LEMMA Remove ==
    ASSUME NEW S, NEW s \in Seq(S), Distinct(s), NEW k \in 1 .. Len(s)
    PROVE  LET t == SubSeq(s, 1, k - 1) \o SubSeq(s, k + 1, Len(s))
           IN  /\ t \in Seq(S) /\ Distinct(t)
               /\ Named(s) \ {s[k]} \subseteq Named(t)
  <1> DEFINE a == SubSeq(s, 1, k - 1)
             b == SubSeq(s, k + 1, Len(s))
             t == a \o b
  <1> USE LenProperties
  <1>1. a \in Seq(S) /\ Len(a) = k - 1 /\ \A i \in 1 .. k - 1 : a[i] = s[i]
    OBVIOUS
  <1>2. /\ b \in Seq(S) /\ Len(b) = Len(s) - k
        /\ \A i \in 1 .. Len(s) - k : b[i] = s[k + i]
    OBVIOUS
  <1> HIDE DEF a, b
  <1>3. /\ t \in Seq(S) /\ Len(t) = Len(s) - 1
        /\ \A i \in 1 .. k - 1 : t[i] = a[i]
        /\ \A i \in k .. Len(s) - 1 : t[i] = b[i - (k - 1)]
    <2>1. /\ t \in Seq(S) /\ Len(t) = Len(a) + Len(b)
          /\ \A i \in 1 .. Len(a) + Len(b) :
               t[i] = IF i <= Len(a) THEN a[i] ELSE b[i - Len(a)]
      BY <1>1, <1>2, ConcatProperties
    <2> HIDE DEF t
    <2>2. Len(a) = k - 1 /\ Len(a) + Len(b) = Len(s) - 1
      BY <1>1, <1>2
    <2>3. ASSUME NEW i \in 1 .. k - 1 PROVE t[i] = a[i]
      <3>1. i \in 1 .. Len(a) + Len(b) /\ i <= Len(a)
        BY <2>2
      <3> QED
        BY <2>1, <3>1
    <2>4. ASSUME NEW i \in k .. Len(s) - 1 PROVE t[i] = b[i - (k - 1)]
      <3>1. i \in 1 .. Len(a) + Len(b) /\ ~(i <= Len(a))
        BY <2>2
      <3>2. t[i] = b[i - Len(a)]
        BY <2>1, <3>1
      <3> QED
        BY <3>2, <2>2
    <2> QED
      BY <2>1, <2>2, <2>3, <2>4
  <1> HIDE DEF t
  <1>4. \A i \in 1 .. Len(t) : t[i] = IF i < k THEN s[i] ELSE s[i + 1]
    <2> TAKE i \in 1 .. Len(t)
    <2>1. CASE i < k
      BY <2>1, <1>1, <1>3
    <2>2. CASE i >= k
      BY <2>2, <1>2, <1>3
    <2> QED
      BY <2>1, <2>2
  <1>5. Distinct(t)
    BY <1>3, <1>4, SMTT(60) DEF Distinct
  <1>6. ASSUME NEW i \in 1 .. Len(s), i # k PROVE \E j \in 1 .. Len(t) : t[j] = s[i]
    <2> DEFINE j == IF i < k THEN i ELSE i - 1
    <2>1. j \in 1 .. Len(t)
      BY <1>3, <1>6
    <2>2. t[j] = IF j < k THEN s[j] ELSE s[j + 1]
      BY <2>1, <1>4
    <2>3. t[j] = s[i]
      BY <2>2, <1>6
    <2> HIDE DEF j
    <2> QED
      BY <2>1, <2>3
  <1>7. Named(s) \ {s[k]} \subseteq Named(t)
    BY <1>6, Zenon DEF Named
  <1> QED
    BY <1>3, <1>5, <1>7, Zenon DEF t, a, b

\* A VM that starts is put into the list once, and nobody leaves it.
LEMMA StartList ==
    ASSUME HostInv, NEW v \in VMs, StartVM(v)
    PROVE  HostInv' /\ Running \subseteq Running'
  <1>1. PICK k \in 0 .. Len(domains) :
          domains' = SubSeq(domains, 1, k) \o <<v>> \o SubSeq(domains, k + 1, Len(domains))
    BY DEF StartVM
  <1>2. \A i \in 1 .. Len(domains) : domains[i] # v
    BY DEF StartVM, Running
  <1>3. domains \in Seq(VMs) /\ Distinct(domains)
    BY DEF HostInv
  <1>4. domains' \in Seq(VMs) /\ Distinct(domains') /\ Named(domains) \subseteq Named(domains')
    BY <1>1, <1>2, <1>3, Insert, Zenon
  <1>5. changes' \in 0 .. MaxChanges
    BY HypervisorAssumption DEF HostInv, StartVM, Change
  <1> QED
    BY <1>4, <1>5, Zenon DEF HostInv, Distinct, VMs, Named, Running

\* A VM that stops leaves the others in the list.
LEMMA StopList ==
    ASSUME HostInv, NEW v \in VMs, StopVM(v)
    PROVE  HostInv' /\ Running \ {v} \subseteq Running'
  <1>1. PICK k \in 1 .. Len(domains) :
          /\ domains[k] = v
          /\ domains' = SubSeq(domains, 1, k - 1) \o SubSeq(domains, k + 1, Len(domains))
    BY DEF StopVM
  <1>2. domains \in Seq(VMs) /\ Distinct(domains)
    BY DEF HostInv
  <1>3. /\ domains' \in Seq(VMs) /\ Distinct(domains')
        /\ Named(domains) \ {domains[k]} \subseteq Named(domains')
    BY <1>1, <1>2, Remove, Zenon
  <1>4. changes' \in 0 .. MaxChanges
    BY HypervisorAssumption DEF HostInv, StopVM, Change
  <1> QED
    BY <1>1, <1>3, <1>4, Zenon DEF HostInv, Distinct, VMs, Named, Running

\* So a list is never longer than there are VMs.
LEMMA ListFits ==
    ASSUME NEW list \in Seq(VMs), Distinct(list)
    PROVE  Len(list) <= NumVMs
  <1>1. /\ IsFiniteSet(1 .. Len(list)) /\ Cardinality(1 .. Len(list)) = Len(list)
        /\ IsFiniteSet(VMs) /\ Cardinality(VMs) = NumVMs
    <2>1. \A n \in Nat : IsFiniteSet(1 .. n) /\ Cardinality(1 .. n) = n
      BY FS_Interval
    <2> QED
      BY <2>1, HypervisorAssumption DEF VMs
  <1>2. SUFFICES ASSUME NumVMs < Len(list) PROVE FALSE
    BY HypervisorAssumption
  <1>3. list \in [1 .. Len(list) -> VMs]
    OBVIOUS
  <1>4. \E x, y \in 1 .. Len(list) : x # y /\ list[x] = list[y]
    BY <1>1, <1>2, <1>3, FS_PigeonHole
  <1> QED
    BY <1>4 DEF Distinct

-----------------------------------------------------------------------------
(* Least members and first members *)

\* A nonempty set of natural numbers has a least member.
LEMMA Least ==
    ASSUME NEW S \in SUBSET Nat, S # {}
    PROVE  \E t \in S : \A u \in S : t <= u
  <1>1. PICK t \in S : \A u \in S : ~(<<u, t>> \in OpToRel(<, Nat))
    BY NatLessThanWellFounded, WFMin, Zenon
  <1>2. \A u \in S : ~(u < t)
    BY <1>1 DEF OpToRel
  <1> QED
    BY <1>2

\* A nonempty set of numbers up to n has a greatest member.
LEMMA Greatest ==
    ASSUME NEW n \in Nat, NEW S \in SUBSET (1 .. n), S # {}
    PROVE  \E t \in S : \A u \in S : u <= t
  <1> DEFINE D == {n - u : u \in S}
  <1>1. D \in SUBSET Nat /\ D # {}
    <2>1. \A u \in S : n - u \in Nat
      OBVIOUS
    <2> QED
      BY <2>1, Zenon
  <1>2. PICK d \in D : \A e \in D : d <= e
    BY <1>1, Least, Zenon
  <1>3. PICK t \in S : d = n - t
    OBVIOUS
  <1>4. \A u \in S : n - t <= n - u
    BY <1>2, <1>3
  <1> QED
    BY <1>4

\* Those of a set of numbers that fewer than c of them precede are at most c.
LEMMA FirstOnes ==
    ASSUME NEW n \in Nat, NEW L \in SUBSET (1 .. n), NEW c \in Nat
    PROVE  Cardinality({i \in L : Cardinality({j \in L : j < i}) < c}) <= c
  <1> DEFINE before(i) == {j \in L : j < i}
             F == {i \in L : Cardinality(before(i)) < c}
  <1>1. IsFiniteSet(1 .. n)
    BY FS_Interval
  <1>2. IsFiniteSet(L) /\ IsFiniteSet(F)
    BY <1>1, FS_Subset
  <1>3. CASE F = {}
    <2>1. Cardinality(F) = 0
      BY <1>3, FS_EmptySet, Zenon
    <2> HIDE DEF F
    <2>2. Cardinality(F) <= c
      BY <2>1
    <2> QED
      BY <2>2 DEF F
  <1>4. CASE F # {}
    <2>1. PICK m \in F : \A i \in F : i <= m
      BY <1>4, Greatest
    <2>2. IsFiniteSet(before(m)) /\ Cardinality(before(m)) \in Nat
      BY <1>2, FS_Subset, FS_CardinalityType
    <2>3. m \notin before(m)
      OBVIOUS
    <2> DEFINE B == before(m)
    <2>4. ASSUME NEW i \in F PROVE i \in B \cup {m}
      BY <2>1
    <2>5. Cardinality(B) < c
      OBVIOUS
    <2> HIDE DEF B, F
    <2>6. IsFiniteSet(B \cup {m}) /\ Cardinality(B \cup {m}) = Cardinality(B) + 1
      BY <2>2, <2>3, FS_AddElement DEF B
    <2>7. Cardinality(F) <= Cardinality(B \cup {m})
      BY <2>4, <2>6, FS_Subset
    <2>8. Cardinality(F) \in Nat
      BY <1>2, FS_CardinalityType
    <2> QED
      BY <2>2, <2>5, <2>6, <2>7, <2>8 DEF B, F
  <1> QED
    BY <1>3, <1>4

-----------------------------------------------------------------------------
(* Induction and recursion along the natural numbers *)

\* A set with 0 and with the successor of each of its members below n has all
\* numbers up to n.
LEMMA UpTo ==
    ASSUME NEW n \in Nat, NEW S, 0 \in S, \A k \in 0 .. n - 1 : k \in S => k + 1 \in S
    PROVE  \A k \in 0 .. n : k \in S
  <1> DEFINE F == {k \in 0 .. n : k \notin S}
  <1> SUFFICES ASSUME F # {} PROVE FALSE
    OBVIOUS
  <1>1. F \in SUBSET Nat
    OBVIOUS
  <1>2. PICK m \in F : \A j \in F : m <= j
    <2> HIDE DEF F
    <2> QED
      BY <1>1, Least
  <1>3. m # 0
    OBVIOUS
  <1>4. m - 1 \in 0 .. n - 1 /\ m - 1 \notin F
    BY <1>2, <1>3
  <1>5. m - 1 \in S /\ (m - 1) + 1 = m
    BY <1>4
  <1> QED
    BY <1>4, <1>5

\* f starts at b, and its k-th step is g[k].
Iterates(f, n, T, b, g) ==
    /\ f \in [0 .. n -> T]
    /\ f[0] = b
    /\ \A k \in 1 .. n : f[k] = g[k][f[k - 1]]

\* There is a function with these steps.
LEMMA Recursion ==
    ASSUME NEW n \in Nat, NEW T, NEW b \in T, NEW g \in [1 .. n -> [T -> T]]
    PROVE  \E f : Iterates(f, n, T, b, g)
  <1> DEFINE Good(m, f) == f[0] = b /\ \A k \in 1 .. m : f[k] = g[k][f[k - 1]]
             S == {m \in 0 .. n : \E f \in [0 .. m -> T] : Good(m, f)}
  <1>1. 0 \in S
    <2>1. [k \in 0 .. 0 |-> b] \in [0 .. 0 -> T] /\ Good(0, [k \in 0 .. 0 |-> b])
      OBVIOUS
    <2>2. 0 \in 0 .. n
      OBVIOUS
    <2> HIDE DEF Good
    <2> QED
      BY <2>1, <2>2
  <1>2. ASSUME NEW m \in 0 .. n - 1, m \in S PROVE m + 1 \in S
    <2>1. PICK f \in [0 .. m -> T] : Good(m, f)
      BY <1>2
    <2> DEFINE x == g[m + 1][f[m]]
               h == [k \in 0 .. m + 1 |-> IF k = m + 1 THEN x ELSE f[k]]
    <2>2. f[m] \in T /\ m + 1 \in 1 .. n
      OBVIOUS
    <2>3. x \in T
      BY <2>2
    <2> HIDE DEF x
    <2>4. h \in [0 .. m + 1 -> T] /\ h[0] = b
      BY <2>1, <2>3
    <2>5. ASSUME NEW k \in 1 .. m + 1 PROVE h[k] = g[k][h[k - 1]]
      <3>1. CASE k = m + 1
        <4>1. h[k - 1] = f[m] /\ h[k] = x
          BY <3>1
        <4> QED
          BY <4>1, <3>1 DEF x
      <3>2. CASE k # m + 1
        <4>1. k \in 1 .. m /\ h[k] = f[k] /\ h[k - 1] = f[k - 1]
          BY <3>2
        <4> QED
          BY <4>1, <2>1
      <3> QED
        BY <3>1, <3>2
    <2> HIDE DEF h
    <2>6. Good(m + 1, h) /\ m + 1 \in 0 .. n
      BY <2>4, <2>5
    <2> HIDE DEF Good
    <2> QED
      BY <2>4, <2>6
  <1>3. n \in S
    <2>1. \A k \in 0 .. n : k \in S
      <3> HIDE DEF S
      <3> QED
        BY <1>1, <1>2, UpTo
    <2> HIDE DEF S
    <2> QED
      BY <2>1
  <1> QED
    BY <1>3 DEF Iterates

\* Two functions that start alike and step alike are alike.
StepAlike(f, h, n) ==
    /\ h[0] = f[0]
    /\ \A k \in 1 .. n : h[k - 1] = f[k - 1] => h[k] = f[k]

\* So they have the same values all the way up.
LEMMA SameSteps ==
    ASSUME NEW n \in Nat, NEW f, NEW h, StepAlike(f, h, n)
    PROVE  \A k \in 0 .. n : h[k] = f[k]
  <1> USE DEF StepAlike
  <1> DEFINE S == {k \in 0 .. n : h[k] = f[k]}
  <1>1. 0 \in S
    OBVIOUS
  <1>2. ASSUME NEW m \in 0 .. n - 1, m \in S PROVE m + 1 \in S
    <2>1. m + 1 \in 1 .. n /\ m + 1 \in 0 .. n /\ (m + 1) - 1 = m /\ h[m] = f[m]
      BY <1>2
    <2>2. h[(m + 1) - 1] = f[(m + 1) - 1]
      BY <2>1
    <2> QED
      BY <2>1, <2>2
  <1>3. \A m \in 0 .. n : m \in S
    <2> HIDE DEF S
    <2> QED
      BY <1>1, <1>2, UpTo
  <1> QED
    BY <1>3

-----------------------------------------------------------------------------
(* The memory coordinator *)

\* Between intervals nothing is planned.
Idle == pc \in {"loop", "stats", "decide"} => next = 1 /\ DOMAIN plan = {}

\* Once read, the statistics of all listed VMs are there, and what is planned
\* is a size.
Read ==
    pc \in {"decide", "set"} =>
        unused_mems \in [1 .. Len(doms) -> Int] /\ balloon_mems \in [1 .. Len(doms) -> Int]
Planned == pc = "set" => \A i \in DOMAIN plan : plan[i] \in Int

\* A VM that is off uses nothing.
OffUnused == \A v \in VMs \ Running : used[v] = 0

MemInv == TypeOK /\ HostInv /\ OffUnused /\ Idle /\ Read /\ Planned /\ HostReserve

\* Initially.
LEMMA InitMem == ASSUME Init PROVE MemInv
  <1> USE HypervisorAssumption, MemoryAssumption DEF Init
  <1>1. HostInv
    BY InitList
  <1>2. balloon \in [VMs -> 0 .. MaxMem]
    OBVIOUS
  <1>3. \A k \in 0 .. BootMem \div Grain : Grain * k \in Nat /\ Grain * k <= BootMem
    <2> SUFFICES ASSUME NEW k \in 0 .. BootMem \div Grain
                 PROVE  Grain * k \in Nat /\ Grain * k <= BootMem
      OBVIOUS
    <2>1. BootMem \div Grain \in Nat /\ Grain * (BootMem \div Grain) <= BootMem
      OBVIOUS
    <2>2. Grain * k <= Grain * (BootMem \div Grain)
      BY <2>1
    <2> QED
      BY <2>1, <2>2
  <1>4. used \in [VMs -> 0 .. MaxMem] /\ \A v \in VMs : used[v] <= balloon[v]
    <2>1. used \in [VMs -> {Grain * k : k \in 0 .. BootMem \div Grain}]
      OBVIOUS
    <2>2. ASSUME NEW v \in VMs PROVE used[v] \in Nat /\ used[v] <= balloon[v]
      <3>1. PICK k \in 0 .. BootMem \div Grain : used[v] = Grain * k
        BY <2>1
      <3> QED
        BY <3>1, <1>3
    <2> QED
      BY <2>1, <2>2, <1>2
  <1>5. doms \in Seq(VMs) /\ Len(doms) = 0
    OBVIOUS
  <1>6. DOMAIN plan = {}
    BY DEF Nothing
  <1>7. TypeOK
    <2>1. host_free \in Int /\ host_mem_avail \in Nat /\ next \in 1 .. Len(doms) + 1
      BY <1>5
    <2>2. is_exit \in BOOLEAN /\ pc \in {"loop", "stats", "decide", "set", "exit", "returned"}
      BY Zenon
    <2> QED
      BY <1>1, <1>2, <1>4, <1>5, <1>6, <2>1, <2>2 DEF TypeOK, HostInv
  <1>8. Idle /\ Read /\ Planned /\ HostReserve /\ OffUnused
    BY <1>6 DEF Idle, Read, Planned, HostReserve, OffUnused
  <1> QED
    BY <1>1, <1>7, <1>8 DEF MemInv

\* HostReserve and Planned speak of what an interval has read and planned.
LEMMA PlanKept ==
    ASSUME MemInv, UNCHANGED <<doms, readings, plan>>, pc' = "set" => pc = "set"
    PROVE  Planned' /\ HostReserve'
  <1> USE DEF MemInv, readings
  <1>1. Planned'
    BY DEF Planned
  <1>2. Grown' = Grown /\ Shrunk' = Shrunk
    BY DEF Grown, Shrunk
  <1>3. HostReserve'
    BY <1>2 DEF HostReserve, mem_alloc_unit, host_mem_low
  <1> QED
    BY <1>1, <1>3

\* VMs start, stop, change their load, and the user interrupts.
LEMMA AroundMem ==
    ASSUME MemInv, Interrupt \/ \E v \in VMs : Start(v) \/ Stop(v) \/ GuestUses(v)
    PROVE  MemInv'
  <1> USE HypervisorAssumption, MemoryAssumption
  <1>1. UNCHANGED <<pc, doms, readings, plan, next>>
    BY DEF Interrupt, Start, Stop, GuestUses
  <1>2. Planned' /\ HostReserve'
    BY <1>1, PlanKept
  <1>3. Idle' /\ Read'
    BY <1>1 DEF MemInv, Idle, Read, readings
  <1>4. CASE Interrupt
    <2>1. HostInv' /\ TypeOK' /\ OffUnused'
      BY <1>4 DEF MemInv, HostInv, Distinct, VMs, TypeOK, OffUnused, Running, Interrupt, vmvars,
                  readings
    <2> QED
      BY <2>1, <1>2, <1>3 DEF MemInv
  <1>5. ASSUME NEW v \in VMs, Start(v) PROVE MemInv'
    <2>1. HostInv' /\ Running \subseteq Running'
      BY <1>5, StartList DEF Start, MemInv
    <2>2. OffUnused'
      BY <1>5, <2>1 DEF OffUnused, Start, MemInv
    <2>3. balloon' \in [VMs -> 0 .. MaxMem] /\ \A w \in VMs : used[w] <= balloon'[w]
      BY <1>5 DEF Start, StartVM, MemInv, TypeOK, OffUnused
    <2>4. TypeOK'
      BY <1>5, <2>1, <2>3, SMTT(60) DEF MemInv, HostInv, TypeOK, Start, readings
    <2> QED
      BY <2>1, <2>2, <2>4, <1>2, <1>3 DEF MemInv
  <1>6. ASSUME NEW v \in VMs, Stop(v) PROVE MemInv'
    <2>1. HostInv' /\ Running \ {v} \subseteq Running'
      BY <1>6, StopList DEF Stop, MemInv
    <2>2. OffUnused'
      BY <1>6, <2>1 DEF OffUnused, Stop, MemInv, TypeOK
    <2>3. /\ balloon' \in [VMs -> 0 .. MaxMem] /\ used' \in [VMs -> 0 .. MaxMem]
          /\ \A w \in VMs : used'[w] <= balloon'[w]
      BY <1>6 DEF Stop, MemInv, TypeOK
    <2>4. host_free' \in Int
      BY <1>6 DEF Stop, MemInv, TypeOK
    <2>5. TypeOK'
      BY <1>6, <2>1, <2>3, <2>4 DEF MemInv, HostInv, TypeOK, Stop, readings
    <2> QED
      BY <2>1, <2>2, <2>5, <1>2, <1>3 DEF MemInv
  <1>7. ASSUME NEW v \in VMs, GuestUses(v) PROVE MemInv'
    <2>1. HostInv'
      BY <1>7 DEF GuestUses, MemInv, HostInv, Distinct, VMs, Change
    <2>2. TypeOK'
      <3>1. PICK u \in {used[v] - Grain, used[v] + Grain} :
              u \in 0 .. balloon[v] /\ used' = [used EXCEPT ![v] = u]
        BY <1>7 DEF GuestUses
      <3>2. /\ balloon \in [VMs -> 0 .. MaxMem] /\ used \in [VMs -> 0 .. MaxMem]
            /\ \A w \in VMs : used[w] <= balloon[w]
        BY DEF MemInv, TypeOK
      <3>3. balloon[v] \in 0 .. MaxMem
        BY <3>2
      <3>4. u \in 0 .. MaxMem /\ u <= balloon[v]
        BY <3>1, <3>3
      <3>5. used' \in [VMs -> 0 .. MaxMem] /\ \A w \in VMs : used'[w] <= balloon[w]
        BY <3>1, <3>2, <3>4
      <3> QED
        BY <1>7, <2>1, <3>5 DEF MemInv, HostInv, TypeOK, GuestUses, readings
    <2>3. OffUnused'
      <3>1. Running' = Running
        BY <1>7 DEF GuestUses, Running
      <3> QED
        BY <1>7, <3>1 DEF GuestUses, MemInv, TypeOK, OffUnused
    <2> QED
      BY <2>1, <2>2, <2>3, <1>2, <1>3 DEF MemInv
  <1> QED
    BY <1>4, <1>5, <1>6, <1>7

\* main leaves the loop, lists the VMs, or exits on an error: nothing is read or
\* planned.
LEMMA ListMem ==
    ASSUME MemInv, Return \/ get_active_vm \/ MemStatsFail \/ HostMemFails
    PROVE  MemInv'
  <1> USE DEF MemInv, vmvars, readings
  <1>1. HostInv' /\ OffUnused'
    BY DEF HostInv, Distinct, VMs, OffUnused, Running,
           Return, get_active_vm, MemStatsFail, HostMemFails
  <1>2. CASE get_active_vm
    <2>1. Idle' /\ Read' /\ Planned' /\ HostReserve'
      BY <1>2 DEF Idle, Read, Planned, HostReserve, get_active_vm
    <2>2. Len(doms') \in Nat /\ doms' \in Seq(VMs)
      BY <1>2 DEF HostInv, get_active_vm
    <2>3. next' \in 1 .. Len(doms') + 1 /\ DOMAIN plan' \subseteq 1 .. Len(doms')
      BY <1>2, <2>2 DEF Idle, get_active_vm
    <2>4. TypeOK'
      BY <1>2, <2>2, <2>3 DEF TypeOK, get_active_vm
    <2> QED
      BY <1>1, <2>1, <2>4
  <1>3. CASE Return \/ MemStatsFail \/ HostMemFails
    <2>1. Idle' /\ Read' /\ Planned' /\ HostReserve'
      BY <1>3 DEF Idle, Read, Planned, HostReserve, Return, MemStatsFail, HostMemFails
    <2>2. TypeOK'
      BY <1>3 DEF TypeOK, Return, MemStatsFail, HostMemFails
    <2> QED
      BY <1>1, <2>1, <2>2
  <1> QED
    BY <1>2, <1>3

\* The statistics of the listed VMs.
LEMMA StatsMem == ASSUME MemInv, get_mem_stats PROVE MemInv'
  <1> USE MemoryAssumption DEF MemInv, vmvars, get_mem_stats
  <1>1. HostInv' /\ OffUnused'
    BY DEF HostInv, Distinct, VMs, OffUnused, Running
  <1>2. Idle' /\ Planned' /\ HostReserve'
    BY DEF Idle, Planned, HostReserve
  <1>3. Read'
    <2>1. \A i \in 1 .. Len(doms) : balloon[doms[i]] \in Int /\ used[doms[i]] \in Int
      BY DEF TypeOK
    <2> QED
      BY <2>1 DEF Read
  <1>4. TypeOK'
    BY DEF TypeOK
  <1> QED
    BY <1>1, <1>2, <1>3, <1>4

\* What is planned leaves the host its reserve.
LEMMA DecideMem == ASSUME MemInv, Decide PROVE MemInv'
  <1> USE MemoryAssumption DEF MemInv, vmvars, Decide
  <1>1. HostInv' /\ OffUnused'
    BY DEF HostInv, Distinct, VMs, OffUnused, Running
  <1> DEFINE n == Len(doms)
             host == get_host_mem
  <1>2. n \in Nat /\ host \in Nat
    BY DEF TypeOK, get_host_mem
  <1>3. unused_mems \in [1 .. n -> Int] /\ balloon_mems \in [1 .. n -> Int]
    BY DEF Read
  <1>4. /\ Lacking \subseteq 1 .. n /\ Spare \subseteq 1 .. n /\ Lacking \cap Spare = {}
        /\ Served(host) \subseteq Lacking
    BY <1>3 DEF Lacking, Spare, Served, unused_mem_low, unused_mem_high
  <1>5. plan' = [i \in Spare \cup Served(host) |->
                   IF i \in Spare THEN balloon_mems[i] - 100 ELSE balloon_mems[i] + 100]
    BY DEF mem_alloc_unit
  <1>6. /\ DOMAIN plan' = Spare \cup Served(host)
        /\ \A i \in Spare : plan'[i] \in Int /\ plan'[i] < balloon_mems[i]
        /\ \A i \in Served(host) : plan'[i] \in Int /\ plan'[i] > balloon_mems[i]
    <2> HIDE DEF Decide, host, MemInv
    <2>1. ASSUME NEW i \in Spare PROVE plan'[i] \in Int /\ plan'[i] < balloon_mems[i]
      <3>1. balloon_mems[i] \in Int /\ plan'[i] = balloon_mems[i] - 100
        BY <1>3, <1>4, <1>5
      <3> QED
        BY <3>1
    <2>2. ASSUME NEW i \in Served(host) PROVE plan'[i] \in Int /\ plan'[i] > balloon_mems[i]
      <3>1. balloon_mems[i] \in Int /\ plan'[i] = balloon_mems[i] + 100
        BY <1>3, <1>4, <1>5
      <3> QED
        BY <3>1
    <2> QED
      BY <1>5, <2>1, <2>2, Zenon
  <1>7. Grown' = Served(host) /\ Shrunk' = Spare
    <2>1. balloon_mems' = balloon_mems
      OBVIOUS
    <2> HIDE DEF Decide, host, MemInv
    <2>2. /\ Grown' = {i \in DOMAIN plan' : plan'[i] > balloon_mems[i]}
          /\ Shrunk' = {i \in DOMAIN plan' : plan'[i] < balloon_mems[i]}
      BY <2>1 DEF Grown, Shrunk
    <2>3. \A i \in DOMAIN plan' : balloon_mems[i] \in Int
      BY <1>3, <1>4, <1>6
    <2>4. \A i \in DOMAIN plan' : /\ plan'[i] > balloon_mems[i] <=> i \in Served(host)
                                  /\ plan'[i] < balloon_mems[i] <=> i \in Spare
      BY <1>4, <1>6, <2>3, SMTT(60)
    <2> QED
      BY <1>6, <2>2, <2>4, Zenon
  <1> DEFINE lack == Cardinality(Lacking)
             spare == Cardinality(Spare)
             served == Cardinality(Served(host))
  <1>8. lack \in Nat /\ spare \in Nat /\ served \in Nat
    <2>1. IsFiniteSet(1 .. n)
      BY <1>2, FS_Interval
    <2>2. IsFiniteSet(Lacking) /\ IsFiniteSet(Spare) /\ IsFiniteSet(Served(host))
      BY <2>1, <1>4, FS_Subset
    <2> QED
      BY <2>2, FS_CardinalityType
  <1>9. \/ served <= spare
        \/ served = lack /\ (host - (100 * lack - 100 * spare)) % ULLRange >= 200
    <2>1. CASE mem_needed <= mem_avail
      BY <2>1, <1>8 DEF Served, mem_needed, mem_avail, mem_alloc_unit
    <2>2. CASE HostCovers(host)
      BY <2>2 DEF Served, HostCovers, mem_needed, mem_avail, mem_alloc_unit, host_mem_low
    <2>3. CASE ~(mem_needed <= mem_avail) /\ ~HostCovers(host)
      <3> DEFINE before(i) == {j \in Lacking : j < i}
      <3>1. \A i \in Lacking : Cardinality(before(i)) \in Nat
        <4>1. IsFiniteSet(1 .. n)
          BY <1>2, FS_Interval
        <4> QED
          BY <4>1, <1>4, FS_Subset, FS_CardinalityType
      <3>2. Served(host) = {i \in Lacking : 100 * Cardinality(before(i)) < 100 * spare}
        BY <2>3 DEF Served, mem_avail, mem_alloc_unit
      <3>3. \A i \in Lacking :
              100 * Cardinality(before(i)) < 100 * spare <=> Cardinality(before(i)) < spare
        BY <3>1, <1>8
      <3>4. Served(host) = {i \in Lacking : Cardinality(before(i)) < spare}
        BY <3>2, <3>3, Zenon
      <3> QED
        BY <3>4, <1>2, <1>4, <1>8, FirstOnes
    <2> QED
      BY <2>1, <2>2, <2>3
  <1>10. HostReserve'
    <2> DEFINE taken == 100 * (served - spare)
    <2>1. \/ taken <= 0 \/ host - taken >= 200 \/ host < taken
      <3>1. CASE served <= spare
        BY <3>1, <1>8
      <3>2. CASE served = lack /\ (host - (100 * lack - 100 * spare)) % ULLRange >= 200
        <4> DEFINE left == host - (100 * lack - 100 * spare)
        <4>1. left \in Int /\ left = host - taken
          BY <3>2, <1>2, <1>8
        <4>2. left < 0 \/ left % ULLRange <= left
          <5> HIDE DEF left
          <5> QED
            BY <4>1, HypervisorAssumption
        <4>3. left % ULLRange \in Int
          BY <4>1, HypervisorAssumption
        <4> HIDE DEF left
        <4>4. left % ULLRange >= 200
          BY <3>2 DEF left
        <4> QED
          BY <4>1, <4>2, <4>3, <4>4, <1>2, <1>8
      <3> QED
        BY <3>1, <3>2, <1>9
    <2>2. /\ host_mem_avail' = host
          /\ mem_alloc_unit * (Cardinality(Grown') - Cardinality(Shrunk')) = taken
      BY <1>7 DEF mem_alloc_unit
    <2> HIDE DEF taken, host
    <2> QED
      BY <2>1, <2>2 DEF HostReserve, host_mem_low, mem_alloc_unit
  <1>11. TypeOK'
    <2>1. DOMAIN plan' \subseteq 1 .. n
      BY <1>4, <1>6
    <2> QED
      BY <2>1, <1>2 DEF TypeOK
  <1>12. Idle' /\ Read' /\ Planned'
    BY <1>3, <1>6 DEF Idle, Read, Planned
  <1> QED
    BY <1>1, <1>10, <1>11, <1>12

\* One VM gets its new size.
LEMMA SetMem == ASSUME MemInv, Set PROVE MemInv'
  <1> USE MemoryAssumption DEF MemInv, Set, readings
  <1>1. HostInv' /\ OffUnused'
    BY DEF HostInv, Distinct, VMs, OffUnused, Running
  <1>2. Planned' /\ HostReserve'
    BY PlanKept
  <1>3. Idle' /\ Read'
    BY DEF Idle, Read
  <1>4. next' \in 1 .. Len(doms) + 1
    BY DEF TypeOK
  <1>5. /\ balloon' \in [VMs -> 0 .. MaxMem] /\ \A v \in VMs : used[v] <= balloon'[v]
        /\ host_free' \in Int
    <2>1. CASE UNCHANGED <<balloon, host_free>>
      BY <2>1 DEF TypeOK
    <2>2. CASE next \in DOMAIN plan /\ SetMemory(doms[next], plan[next])
      <3> DEFINE v == doms[next]
                 size == plan[next]
                 new == IF size > used[v] THEN size ELSE used[v]
      <3>1. /\ v \in VMs /\ size \in Int
            /\ used[v] \in 0 .. MaxMem /\ balloon[v] \in 0 .. MaxMem
        BY <2>2, SMTT(60) DEF TypeOK, Planned
      <3>2. \/ UNCHANGED <<balloon, host_free>>
            \/ /\ size <= MaxMem
               /\ balloon' = [balloon EXCEPT ![v] = new]
               /\ host_free' = host_free - (new - balloon[v])
        BY <2>2 DEF SetMemory
      <3> HIDE DEF v, size
      <3>3. CASE size <= MaxMem /\ balloon' = [balloon EXCEPT ![v] = new]
                   /\ host_free' = host_free - (new - balloon[v])
        <4>1. new \in 0 .. MaxMem /\ used[v] <= new
          BY <3>1, <3>3
        <4> HIDE DEF new, Set
        <4> QED
          BY <3>1, <3>3, <4>1, SMTT(60) DEF TypeOK
      <3> QED
        BY <2>1, <3>2, <3>3
    <2> QED
      BY <2>1, <2>2
  <1>6. TypeOK'
    BY <1>4, <1>5 DEF TypeOK
  <1> QED
    BY <1>1, <1>2, <1>3, <1>6

\* The interval is over.
LEMMA FinishMem == ASSUME MemInv, Finished PROVE MemInv'
  <1> USE DEF MemInv, Finished, vmvars
  <1>1. HostInv' /\ OffUnused'
    BY DEF HostInv, Distinct, VMs, OffUnused, Running
  <1>2. doms' \in Seq(VMs) /\ Len(doms') = 0 /\ DOMAIN plan' = {}
    BY DEF Nothing
  <1>3. Idle' /\ Read' /\ Planned' /\ HostReserve'
    BY <1>2 DEF Idle, Read, Planned, HostReserve
  <1>4. TypeOK'
    BY <1>2 DEF TypeOK
  <1> QED
    BY <1>1, <1>3, <1>4

\* Every step of the memory coordinator and around it.
LEMMA StepMem == ASSUME MemInv, Next PROVE MemInv'
  BY AroundMem, ListMem, StatsMem, DecideMem, SetMem, FinishMem DEF Next, Coordinator

-----------------------------------------------------------------------------
(* The vCPU scheduler *)

\* A time that is kept is the time of the VM it was read from.
TimesKept == \A i \in Cpu!Slots : read_of[i] # 0 => cpu_times[i] = time[read_of[i]]

\* Loads are known from GetTimes to the end of the interval.
LoadsRead ==
    /\ cpu_pc \in {"loop", "times"} => DOMAIN usages = {}
    /\ cpu_pc \in {"mapping", "place"} => usages \in [Cpu!Positions -> Nat]

Marked == {p \in Cpu!PCpus : new_mapping[p] # 0}

\* While more VMs than pCPUs are placed: unplaced shrinks with every turn and
\* keeps the lighter VMs; a mark names one placed VM, which is pinned there if
\* it has not stopped since; and a placed VM but the first of the list has a
\* mark or as many VMs above it as there are pCPUs.
PlacedMany ==
    cpu_pc = "place" /\ Cpu!ManyVMs =>
        /\ Cardinality(unplaced) = Cpu!n_vms - turn
        /\ \A i \in Cpu!Positions \ unplaced, j \in unplaced : usages[i] >= usages[j]
        /\ \A p \in Marked : new_mapping[p] \notin unplaced
        /\ \A p, q \in Marked : new_mapping[p] = new_mapping[q] => p = q
        /\ \A p \in Marked : LET i == new_mapping[p] IN
             read_of[i] = Cpu!VM(i) => allowed[Cpu!VM(i)] = {p}
        /\ \A i \in Cpu!Positions \ unplaced :
             \/ i = 0
             \/ \E p \in Marked : new_mapping[p] = i
             \/ Cardinality({j \in Cpu!Positions : usages[j] >= usages[i]}) > n_host_cpus

CpuInv == Cpu!TypeOK /\ HostInv /\ Distinct(cpu_doms) /\ TimesKept /\ LoadsRead /\ PlacedMany

\* What the two modules call by the same names.
LEMMA SameHost ==
    /\ Cpu!VMs = VMs /\ Cpu!Running = Running
    /\ Cpu!HypervisorInit <=> HypervisorInit
    /\ \A v : Cpu!StartVM(v) <=> StartVM(v)
    /\ \A v : Cpu!StopVM(v) <=> StopVM(v)
  BY DEF Cpu!VMs, VMs, Cpu!Running, Running, Cpu!HypervisorInit, HypervisorInit,
         Cpu!StartVM, StartVM, Cpu!StopVM, StopVM, Cpu!Change, Change

\* The instance has its own copy of Cardinality.
LEMMA SameCardinality == \A S : Cpu!Cardinality(S) = Cardinality(S)
  BY DEF Cpu!Cardinality, Cardinality

\* As many numbers from 0 as said.
LEMMA FromZero ==
    ASSUME NEW n \in Nat
    PROVE  IsFiniteSet(0 .. n - 1) /\ Cardinality(0 .. n - 1) = n
  <1>1. IsFiniteSet(0 .. n - 1) /\ Cardinality(0 .. n - 1) = IF 0 > n - 1 THEN 0 ELSE n - 1 - 0 + 1
    BY FS_Interval
  <1> QED
    BY <1>1

\* The positions of the list are numbered from 0 and are slots of cpu_times.
LEMMA PositionsAre ==
    ASSUME CpuInv
    PROVE  /\ Len(cpu_doms) \in Nat /\ Cpu!n_vms = Len(cpu_doms)
           /\ Cpu!Positions = 0 .. Len(cpu_doms) - 1
           /\ Cpu!Positions \subseteq Cpu!Slots
           /\ \A i \in Cpu!Positions : Cpu!VM(i) \in VMs
           /\ \A i, j \in Cpu!Positions : Cpu!VM(i) = Cpu!VM(j) => i = j
           /\ IsFiniteSet(Cpu!Positions) /\ Cardinality(Cpu!Positions) = Cpu!n_vms
  <1>1. cpu_doms \in Seq(VMs) /\ Len(cpu_doms) \in Nat /\ Distinct(cpu_doms)
    BY SameHost DEF CpuInv, Cpu!TypeOK
  <1>2. Len(cpu_doms) <= NumVMs
    BY <1>1, ListFits
  <1>3. Cpu!n_vms = Len(cpu_doms) /\ Cpu!Positions = 0 .. Len(cpu_doms) - 1
    BY DEF Cpu!n_vms, Cpu!Positions
  <1>4. Cpu!Positions \subseteq Cpu!Slots
    BY <1>1, <1>2, <1>3, HypervisorAssumption DEF Cpu!Slots
  <1>5. \A i \in Cpu!Positions : i + 1 \in 1 .. Len(cpu_doms) /\ Cpu!VM(i) = cpu_doms[i + 1]
    BY <1>1, <1>3 DEF Cpu!VM
  <1>6. \A i \in Cpu!Positions : Cpu!VM(i) \in VMs
    BY <1>1, <1>5
  <1>7. ASSUME NEW i \in Cpu!Positions, NEW j \in Cpu!Positions, Cpu!VM(i) = Cpu!VM(j)
        PROVE  i = j
    <2>1. cpu_doms[i + 1] = cpu_doms[j + 1]
      BY <1>5, <1>7
    <2>2. i + 1 = j + 1
      BY <1>1, <1>5, <2>1 DEF Distinct
    <2> QED
      BY <2>2, <1>3
  <1>8. IsFiniteSet(0 .. Len(cpu_doms) - 1) /\ Cardinality(0 .. Len(cpu_doms) - 1) = Len(cpu_doms)
    BY <1>1, FromZero
  <1> QED
    BY <1>1, <1>3, <1>4, <1>6, <1>7, <1>8

\* The pCPUs are there.
LEMMA PCpusAre ==
    ASSUME CpuInv
    PROVE  /\ n_host_cpus \in Nat \ {0} /\ Cpu!PCpus = 0 .. n_host_cpus - 1
           /\ IsFiniteSet(Cpu!PCpus) /\ Cardinality(Cpu!PCpus) = n_host_cpus
           /\ Cpu!PCpus # {} /\ Cpu!PCpus \subseteq Nat
  <1>1. n_host_cpus \in Nat \ {0} /\ Cpu!PCpus = 0 .. n_host_cpus - 1
    BY SchedulerAssumption DEF CpuInv, Cpu!TypeOK, Cpu!PCpus
  <1>2. /\ IsFiniteSet(0 .. n_host_cpus - 1)
        /\ Cardinality(0 .. n_host_cpus - 1) = n_host_cpus
    BY <1>1, FromZero
  <1>3. 0 \in Cpu!PCpus
    BY <1>1
  <1>4. Cpu!PCpus # {}
    BY <1>3, Zenon
  <1>5. Cpu!PCpus \subseteq Nat
    BY <1>1
  <1> QED
    BY <1>1, <1>2, <1>4, <1>5, Zenon

\* Min of the community modules.
LEMMA MinIn == ASSUME NEW S \in SUBSET Nat, S # {} PROVE Cpu!Min(S) \in S
  BY Least DEF Cpu!Min

\* Initially.
LEMMA InitCpuInv == ASSUME Cpu!Init PROVE CpuInv
  <1> USE SchedulerAssumption, HypervisorAssumption DEF Cpu!Init
  <1>1. HostInv
    BY InitList, SameHost
  <1>2. /\ time \in [Cpu!VMs -> Nat] /\ cpu_times \in [Cpu!Slots -> Nat]
        /\ read_of \in [Cpu!Slots -> Cpu!VMs \cup {0}]
    OBVIOUS
  <1>3. n_host_cpus \in HostCpus /\ n_host_cpus \in Nat \ {0} /\ 0 \in Cpu!PCpus
    BY DEF Cpu!PCpus
  <1>4. allowed \in [Cpu!VMs -> (SUBSET Cpu!PCpus) \ {{}}]
    BY <1>3
  <1>5. cpu_doms \in Seq(VMs) /\ Len(cpu_doms) = 0 /\ DOMAIN usages = {}
    OBVIOUS
  <1>6. Cpu!TypeOK
    BY <1>1, <1>2, <1>3, <1>4, <1>5, SameHost DEF Cpu!TypeOK, HostInv
  <1>7. Distinct(cpu_doms) /\ TimesKept /\ LoadsRead /\ PlacedMany
    BY <1>5 DEF Distinct, TimesKept, LoadsRead, PlacedMany
  <1> QED
    BY <1>1, <1>6, <1>7 DEF CpuInv

\* What a step that places nothing leaves alone.
LEMMA NotPlaced == ASSUME cpu_pc' # "place" PROVE PlacedMany'
  BY DEF PlacedMany

\* VMs start.
LEMMA StartCpu == ASSUME CpuInv, NEW v \in VMs, Cpu!Start(v) PROVE CpuInv'
  <1> USE DEF CpuInv, Cpu!Start, Cpu!locals, Cpu!placement
  <1>1. HostInv'
    BY StartList, SameHost
  <1>2. Cpu!TypeOK'
    BY <1>1, SameHost DEF Cpu!TypeOK, HostInv, Cpu!PCpus, Cpu!Positions, Cpu!n_vms, Cpu!VMs,
       Cpu!Slots, VMs
  <1>3. Distinct(cpu_doms)' /\ TimesKept' /\ LoadsRead'
    BY DEF Distinct, TimesKept, LoadsRead, Cpu!Slots, Cpu!Positions, Cpu!n_vms
  <1>4. PlacedMany'
    BY SMTT(60) DEF PlacedMany, Marked, Cpu!ManyVMs, Cpu!n_vms, Cpu!Positions, Cpu!PCpus, Cpu!VM
  <1> QED
    BY <1>1, <1>2, <1>3, <1>4

\* VMs stop: their times and their pins are gone.
LEMMA StopCpu == ASSUME CpuInv, NEW v \in VMs, Cpu!Stop(v) PROVE CpuInv'
  <1> USE DEF CpuInv, Cpu!Stop, Cpu!locals, Cpu!placement
  <1>1. HostInv'
    BY StopList, SameHost
  <1>2. /\ time' \in [Cpu!VMs -> Nat] /\ read_of' \in [Cpu!Slots -> Cpu!VMs \cup {0}]
        /\ allowed' \in [Cpu!VMs -> (SUBSET Cpu!PCpus) \ {{}}]
    BY PCpusAre, SameHost DEF Cpu!TypeOK
  <1>3. Cpu!TypeOK'
    BY <1>1, <1>2, SameHost DEF Cpu!TypeOK, HostInv, Cpu!PCpus, Cpu!Positions, Cpu!n_vms,
       Cpu!VMs, Cpu!Slots, VMs
  <1>4. Distinct(cpu_doms)' /\ LoadsRead'
    BY DEF Distinct, LoadsRead, Cpu!Positions, Cpu!n_vms
  <1>5. TimesKept'
    <2> SUFFICES ASSUME NEW i \in Cpu!Slots, read_of'[i] # 0
                 PROVE  cpu_times[i] = time'[read_of'[i]]
      BY DEF TimesKept, Cpu!Slots
    <2>1. read_of[i] # v /\ read_of'[i] = read_of[i]
      OBVIOUS
    <2>2. read_of[i] \in Cpu!VMs
      BY <2>1 DEF Cpu!TypeOK
    <2> QED
      BY <2>1, <2>2, SameHost DEF TimesKept, Cpu!TypeOK
  <1>6. PlacedMany'
    <2> SUFFICES ASSUME cpu_pc = "place", Cpu!ManyVMs PROVE PlacedMany'
      BY DEF PlacedMany, Cpu!ManyVMs, Cpu!n_vms
    <2>1. ASSUME NEW p \in Marked, read_of'[new_mapping[p]] = Cpu!VM(new_mapping[p])
          PROVE  allowed'[Cpu!VM(new_mapping[p])] = {p}
      <3> DEFINE i == new_mapping[p]
      <3>1. i \in Cpu!Positions /\ i \in Cpu!Slots /\ Cpu!VM(i) \in VMs
        BY PositionsAre DEF Marked, Cpu!TypeOK
      <3>2. Cpu!VM(i) # 0
        BY <3>1, HypervisorAssumption DEF VMs
      <3>3. read_of[i] = Cpu!VM(i) /\ Cpu!VM(i) # v
        BY <2>1, <3>1, <3>2
      <3>4. allowed[Cpu!VM(i)] = {p}
        BY <3>3 DEF PlacedMany
      <3> QED
        BY <3>1, <3>3, <3>4, SameHost DEF Cpu!TypeOK
    <2>2. /\ Cpu!n_vms' = Cpu!n_vms /\ Cpu!Positions' = Cpu!Positions /\ Marked' = Marked
          /\ \A i : Cpu!VM(i)' = Cpu!VM(i)
          /\ UNCHANGED <<unplaced, turn, usages, new_mapping, n_host_cpus>>
      BY DEF Marked, Cpu!n_vms, Cpu!Positions, Cpu!PCpus, Cpu!VM
    <2> QED
      BY <2>1, <2>2, SMTT(60) DEF PlacedMany
  <1> QED
    BY <1>1, <1>3, <1>4, <1>5, <1>6

\* Steps that leave an interval, or begin one.
LEMMA TurnCpu ==
    ASSUME CpuInv,
           \/ Cpu!Return \/ Cpu!get_active_vm \/ Cpu!GetTimesFails \/ Cpu!GetMappingFails
           \/ Cpu!PinFails \/ Cpu!Balanced \/ Cpu!Finished
    PROVE  CpuInv'
  <1> USE DEF CpuInv, Cpu!locals, Cpu!placement, Cpu!hostvars
  <1>1. HostInv' /\ TimesKept'
    BY DEF HostInv, Distinct, VMs, TimesKept, Cpu!Slots, Cpu!Return, Cpu!get_active_vm,
           Cpu!GetTimesFails, Cpu!GetMappingFails, Cpu!PinFails, Cpu!Exit, Cpu!Balanced,
           Cpu!Finished, Cpu!Sleep
  <1>2. PlacedMany'
    BY NotPlaced DEF Cpu!Return, Cpu!get_active_vm, Cpu!GetTimesFails, Cpu!GetMappingFails,
       Cpu!PinFails, Cpu!Exit, Cpu!Balanced, Cpu!Finished, Cpu!Sleep
  <1> USE <1>1, <1>2
  <1>3. CASE Cpu!Return
    BY <1>3 DEF Cpu!Return, Cpu!TypeOK, Cpu!PCpus, Cpu!Positions, Cpu!n_vms, Cpu!VMs,
                Cpu!Slots, Distinct, LoadsRead
  <1>4. CASE Cpu!GetTimesFails \/ Cpu!GetMappingFails \/ Cpu!PinFails
    <2>1. Cpu!Exit
      BY <1>4 DEF Cpu!GetTimesFails, Cpu!GetMappingFails, Cpu!PinFails
    <2> QED
      BY <2>1 DEF Cpu!Exit, Cpu!TypeOK, Cpu!PCpus, Cpu!Positions, Cpu!n_vms, Cpu!VMs,
                  Cpu!Slots, Distinct, LoadsRead
  <1>5. CASE Cpu!get_active_vm
    <2>1. cpu_doms' \in Seq(VMs) /\ Distinct(cpu_doms)'
      BY <1>5 DEF Cpu!get_active_vm, HostInv, Distinct
    <2>2. DOMAIN usages' = {}
      BY <1>5 DEF Cpu!get_active_vm, LoadsRead
    <2>3. intervals' \in 0 .. MaxIntervals
      BY <1>5, SchedulerAssumption DEF Cpu!get_active_vm, Cpu!TypeOK
    <2> QED
      BY <1>5, <2>1, <2>2, <2>3, SameHost
         DEF Cpu!get_active_vm, Cpu!TypeOK, Cpu!PCpus, VMs, Cpu!Slots, LoadsRead
  <1>6. CASE Cpu!Balanced \/ Cpu!Finished
    <2>1. Cpu!Sleep /\ UNCHANGED <<time, cpu_times, read_of>>
      BY <1>6 DEF Cpu!Balanced, Cpu!Finished
    <2>2. cpu_doms' \in Seq(VMs) /\ Len(cpu_doms') = 0 /\ DOMAIN usages' = {}
      BY <2>1 DEF Cpu!Sleep
    <2> QED
      BY <2>1, <2>2, SameHost
         DEF Cpu!Sleep, Cpu!TypeOK, Cpu!PCpus, VMs, Cpu!Slots, Distinct, LoadsRead
  <1> QED
    BY <1>3, <1>4, <1>5, <1>6

\* The times are read, and the loads are computed.
LEMMA TimesCpu == ASSUME CpuInv, Cpu!GetFirstTimes \/ Cpu!GetTimes PROVE CpuInv'
  <1> USE DEF CpuInv, Cpu!placement
  <1>1. Cpu!VMsRan /\ Cpu!StoreTimes(time') /\ Cpu!AllListedRun
    BY DEF Cpu!GetFirstTimes, Cpu!GetTimes
  <1>2. time' \in [Cpu!VMs -> Nat]
    <2>1. PICK u \in [Cpu!Running -> Amounts] :
            time' = [w \in Cpu!VMs |-> IF w \in Cpu!Running THEN time[w] + u[w] ELSE 0]
      BY <1>1 DEF Cpu!VMsRan
    <2>2. ASSUME NEW w \in Cpu!VMs PROVE (IF w \in Cpu!Running THEN time[w] + u[w] ELSE 0) \in Nat
      <3>1. Amounts \subseteq Nat
        BY SchedulerAssumption, HypervisorAssumption
      <3>2. time[w] \in Nat
        BY DEF Cpu!TypeOK
      <3>3. w \in Cpu!Running => u[w] \in Nat
        BY <3>1
      <3> QED
        BY <3>2, <3>3
    <2> QED
      BY <2>1, <2>2
  <1>3. \A i \in Cpu!Slots : i < Cpu!n_vms => i \in Cpu!Positions /\ Cpu!VM(i) \in Cpu!VMs
    BY PositionsAre, SameHost, HypervisorAssumption DEF Cpu!Slots
  <1>4. /\ cpu_times' \in [Cpu!Slots -> Nat] /\ read_of' \in [Cpu!Slots -> Cpu!VMs \cup {0}]
        /\ \A i \in Cpu!Slots : read_of'[i] # 0 => cpu_times'[i] = time'[read_of'[i]]
    BY <1>1, <1>2, <1>3 DEF Cpu!StoreTimes, Cpu!TypeOK
  <1>5. HostInv' /\ TimesKept'
    BY <1>4 DEF HostInv, Distinct, VMs, TimesKept, Cpu!Slots, Cpu!GetFirstTimes, Cpu!GetTimes,
                Cpu!Sleep
  <1>6. PlacedMany'
    BY NotPlaced DEF Cpu!GetFirstTimes, Cpu!GetTimes, Cpu!Sleep
  <1>7. CASE Cpu!GetFirstTimes
    <2>1. cpu_doms' \in Seq(VMs) /\ Len(cpu_doms') = 0 /\ DOMAIN usages' = {}
      BY <1>7 DEF Cpu!GetFirstTimes, Cpu!Sleep
    <2>2. Cpu!TypeOK'
      BY <1>2, <1>4, <1>7, <2>1, SameHost
         DEF Cpu!GetFirstTimes, Cpu!Sleep, Cpu!TypeOK, Cpu!PCpus, Cpu!VMs, VMs, Cpu!Slots
    <2> QED
      BY <1>5, <1>6, <1>7, <2>1, <2>2 DEF Cpu!GetFirstTimes, Cpu!Sleep, Distinct, LoadsRead
  <1>8. CASE Cpu!GetTimes
    <2>1. usages' \in [Cpu!Positions -> Nat]
      <3>1. \A i \in Cpu!Positions : Cpu!UsageAt(time', i) \in Nat
        <4> TAKE i \in Cpu!Positions
        <4>1. time'[Cpu!VM(i)] \in Nat /\ cpu_times[i] \in Nat
          BY <1>2, PositionsAre, SameHost DEF Cpu!TypeOK
        <4> QED
          BY <4>1, HypervisorAssumption DEF Cpu!UsageAt
      <3> QED
        BY <1>8, <3>1 DEF Cpu!GetTimes
    <2>2. LoadsRead' /\ Distinct(cpu_doms)'
      BY <1>8, <2>1 DEF LoadsRead, Distinct, Cpu!GetTimes, Cpu!Positions, Cpu!n_vms
    <2>3. Cpu!TypeOK'
      BY <1>2, <1>4, <1>8, <2>1
         DEF Cpu!GetTimes, Cpu!TypeOK, Cpu!PCpus, Cpu!VMs, Cpu!Slots, Cpu!Positions, Cpu!n_vms
    <2> QED
      BY <1>5, <1>6, <2>2, <2>3
  <1> QED
    BY <1>7, <1>8

\* The VMs are to be placed anew.
LEMMA RebalanceCpu == ASSUME CpuInv, Cpu!Rebalance PROVE CpuInv'
  <1> USE DEF CpuInv, Cpu!Rebalance, Cpu!hostvars
  <1>1. HostInv' /\ TimesKept' /\ Distinct(cpu_doms)' /\ LoadsRead'
    BY SMTT(60) DEF HostInv, Distinct, VMs, TimesKept, LoadsRead, Cpu!Slots, Cpu!Positions,
                    Cpu!n_vms
  <1>2. mapping' \in [Cpu!Positions -> Cpu!PCpus]
    BY DEF Cpu!Mappings
  <1>3. turn' \in 0 .. Cpu!n_vms
    BY PositionsAre
  <1>4. Cpu!TypeOK'
    BY <1>2, <1>3 DEF Cpu!TypeOK, Cpu!PCpus, Cpu!VMs, Cpu!Slots, Cpu!Positions, Cpu!n_vms
  <1>5. Marked' = {}
    BY DEF Marked, Cpu!PCpus
  <1>6. /\ unplaced' = Cpu!Positions /\ Cardinality(unplaced') = Cpu!n_vms - turn'
        /\ Cpu!Positions' = Cpu!Positions /\ Cpu!n_vms' = Cpu!n_vms
    BY PositionsAre DEF Cpu!Positions, Cpu!n_vms
  <1>7. PlacedMany'
    BY <1>5, <1>6 DEF PlacedMany
  <1> QED
    BY <1>1, <1>4, <1>7

\* With no more VMs than pCPUs.
LEMMA AloneCpu ==
    ASSUME CpuInv, Cpu!StaysAlone \/ Cpu!PinsAlone \/ Cpu!LeavesAlone
    PROVE  CpuInv'
  <1> USE DEF CpuInv, Cpu!placing, Cpu!MovesAlone
  <1>1. /\ UNCHANGED <<n_host_cpus, domains, changes, time, cpu_pc, intervals, cpu_times, read_of,
                       cpu_doms, usages, mapping, unplaced, workloads>>
        /\ cpu_pc = "place" /\ ~Cpu!ManyVMs /\ turn < Cpu!n_vms
    BY DEF Cpu!StaysAlone, Cpu!PinsAlone, Cpu!LeavesAlone
  <1>2. HostInv' /\ TimesKept' /\ Distinct(cpu_doms)' /\ LoadsRead' /\ PlacedMany'
    BY <1>1 DEF HostInv, Distinct, VMs, TimesKept, LoadsRead, PlacedMany, Cpu!Slots,
                Cpu!Positions, Cpu!n_vms, Cpu!ManyVMs
  <1>3. turn \in Cpu!Positions /\ turn + 1 \in 0 .. Cpu!n_vms
    <2>1. turn \in 0 .. Cpu!n_vms
      BY <1>1 DEF Cpu!TypeOK
    <2> HIDE DEF CpuInv
    <2>2. Cpu!n_vms \in Nat /\ Cpu!Positions = 0 .. Cpu!n_vms - 1
      BY PositionsAre
    <2> QED
      BY <1>1, <2>1, <2>2
  <1>4. Cpu!Free \subseteq Cpu!PCpus /\ (Cpu!Free # {} => Cpu!Min(Cpu!Free) \in Cpu!PCpus)
    BY MinIn, PCpusAre DEF Cpu!Free
  <1>5. turn' \in 0 .. Cpu!n_vms
    BY <1>1, <1>3 DEF Cpu!StaysAlone, Cpu!PinsAlone, Cpu!LeavesAlone, Cpu!TypeOK
  <1>6. new_mapping' \in [Cpu!PCpus -> Cpu!Positions \cup {0}]
    BY <1>1, <1>3, <1>4 DEF Cpu!StaysAlone, Cpu!PinsAlone, Cpu!LeavesAlone, Cpu!TypeOK
  <1>7. allowed' \in [Cpu!VMs -> (SUBSET Cpu!PCpus) \ {{}}]
    <2>1. CASE Cpu!StaysAlone \/ Cpu!LeavesAlone
      BY <2>1 DEF Cpu!StaysAlone, Cpu!LeavesAlone, Cpu!TypeOK
    <2>2. CASE Cpu!PinsAlone
      <3>1. allowed' = [allowed EXCEPT ![Cpu!VM(turn)] = {Cpu!Min(Cpu!Free)}]
        BY <2>2 DEF Cpu!PinsAlone, Cpu!pin_vm_to_pcpu
      <3>2. Cpu!Min(Cpu!Free) \in Cpu!PCpus
        BY <2>2, <1>4 DEF Cpu!PinsAlone
      <3> QED
        BY <3>1, <3>2 DEF Cpu!TypeOK
    <2> QED
      BY <2>1, <2>2
  <1>8. Cpu!TypeOK'
    BY <1>1, <1>5, <1>6, <1>7
       DEF Cpu!TypeOK, Cpu!PCpus, Cpu!VMs, Cpu!Slots, Cpu!Positions, Cpu!n_vms
  <1> QED
    BY <1>2, <1>8

\* As many VMs are placed as turns have passed.
LEMMA PlacedCount ==
    ASSUME CpuInv, cpu_pc = "place", Cpu!ManyVMs
    PROVE  /\ turn \in Nat
           /\ IsFiniteSet(Cpu!Positions \ unplaced) /\ Cardinality(Cpu!Positions \ unplaced) = turn
  <1> DEFINE placed == Cpu!Positions \ unplaced
  <1>1. unplaced \subseteq Cpu!Positions /\ turn \in Nat /\ Cardinality(unplaced) = Cpu!n_vms - turn
    BY PositionsAre DEF CpuInv, Cpu!TypeOK, PlacedMany
  <1>2. /\ IsFiniteSet(placed)
        /\ Cardinality(placed) = Cardinality(Cpu!Positions)
                                   - Cardinality(Cpu!Positions \cap unplaced)
    BY PositionsAre, FS_Difference
  <1>3. Cpu!Positions \cap unplaced = unplaced
    BY <1>1
  <1>4. Cpu!n_vms \in Nat /\ Cardinality(Cpu!Positions) = Cpu!n_vms
    BY PositionsAre
  <1>5. Cardinality(placed) = Cpu!n_vms - (Cpu!n_vms - turn)
    BY <1>1, <1>2, <1>3, <1>4, Zenon
  <1> HIDE DEF placed
  <1>6. IsFiniteSet(placed) /\ Cardinality(placed) = turn
    BY <1>1, <1>2, <1>4, <1>5
  <1> QED
    BY <1>1, <1>6 DEF placed

\* In the first n_host_cpus turns a pCPU is free: every mark names another
\* placed VM.
LEMMA FreeLeft == ASSUME CpuInv, Cpu!PlacesBusy PROVE Cpu!Free # {}
  <1> USE DEF Cpu!PlacesBusy
  <1> DEFINE placed == Cpu!Positions \ unplaced
  <1>1. turn \in Nat
    BY PlacedCount
  <1>2. IsFiniteSet(placed) /\ Cardinality(placed) = turn
    BY PlacedCount
  <1>3. SUFFICES ASSUME Cpu!Free = {} PROVE FALSE
    OBVIOUS
  <1>4. Marked = Cpu!PCpus
    BY <1>3 DEF Marked, Cpu!Free
  <1>5. IsFiniteSet(Cpu!PCpus) /\ Cardinality(Cpu!PCpus) = n_host_cpus
    BY PCpusAre
  <1>6. \A p \in Cpu!PCpus : new_mapping[p] \in placed
    BY <1>4 DEF CpuInv, Cpu!TypeOK, PlacedMany, Marked
  <1>7. new_mapping \in [Cpu!PCpus -> placed]
    BY <1>6 DEF CpuInv, Cpu!TypeOK
  <1>8. Cardinality(placed) < Cardinality(Cpu!PCpus)
    BY <1>2, <1>5
  <1>9. PICK p \in Cpu!PCpus, q \in Cpu!PCpus : p # q /\ new_mapping[p] = new_mapping[q]
    <2> HIDE DEF placed
    <2> QED
      BY <1>2, <1>5, <1>7, <1>8, FS_PigeonHole
  <1> QED
    BY <1>4, <1>9 DEF CpuInv, PlacedMany

\* The first of the least loaded pCPUs has no more than any other.
LEMMA LeastOf ==
    ASSUME CpuInv, cpu_pc = "place"
    PROVE  /\ Cpu!Min(Cpu!LeastLoaded) \in Cpu!PCpus
           /\ \A q \in Cpu!PCpus : workloads[Cpu!Min(Cpu!LeastLoaded)] <= workloads[q]
  <1> DEFINE loads == {workloads[p] : p \in Cpu!PCpus}
  <1>1. workloads \in [Cpu!PCpus -> Nat]
    BY DEF CpuInv, Cpu!TypeOK
  <1>2. loads \in SUBSET Nat /\ loads # {}
    BY <1>1, PCpusAre
  <1>3. PICK l \in loads : \A m \in loads : l <= m
    BY <1>2, Least, Zenon
  <1>4. PICK q \in Cpu!PCpus : workloads[q] = l
    OBVIOUS
  <1>5. q \in Cpu!LeastLoaded
    BY <1>3, <1>4 DEF Cpu!LeastLoaded
  <1>6. Cpu!LeastLoaded \subseteq Cpu!PCpus
    BY DEF Cpu!LeastLoaded
  <1>7. Cpu!LeastLoaded \in SUBSET Nat /\ Cpu!LeastLoaded # {}
    BY <1>5, <1>6, PCpusAre
  <1>8. Cpu!Min(Cpu!LeastLoaded) \in Cpu!LeastLoaded
    BY <1>7, MinIn
  <1> QED
    BY <1>8 DEF Cpu!LeastLoaded

\* A VM is taken from unplaced: the others stay sorted, and unplaced counts.
LEMMA Advances ==
    ASSUME CpuInv, cpu_pc = "place", Cpu!ManyVMs, turn < Cpu!n_vms,
           NEW i \in Cpu!NextByUsage, Cpu!Advance(i), usages' = usages, cpu_doms' = cpu_doms
    PROVE  /\ i \in unplaced /\ i \in Cpu!Positions
           /\ unplaced' = unplaced \ {i} /\ unplaced' \subseteq Cpu!Positions
           /\ turn' \in 0 .. Cpu!n_vms
           /\ Cardinality(unplaced') = Cpu!n_vms - turn'
           /\ \A j \in Cpu!Positions \ unplaced', k \in unplaced' : usages[j] >= usages[k]
  <1> USE DEF Cpu!Advance
  <1>1. /\ unplaced \subseteq Cpu!Positions /\ turn \in 0 .. Cpu!n_vms
        /\ Cardinality(unplaced) = Cpu!n_vms - turn
        /\ \A j \in Cpu!Positions \ unplaced, k \in unplaced : usages[j] >= usages[k]
    BY DEF CpuInv, Cpu!TypeOK, PlacedMany
  <1>2. i \in unplaced /\ \A j \in unplaced : usages[i] >= usages[j]
    BY DEF Cpu!NextByUsage
  <1>3. IsFiniteSet(unplaced)
    BY <1>1, PositionsAre, FS_Subset
  <1>4. Cardinality(unplaced \ {i}) = Cardinality(unplaced) - 1
    BY <1>2, <1>3, FS_RemoveElement
  <1>5. Cpu!n_vms \in Nat
    BY PositionsAre
  <1> QED
    BY <1>1, <1>2, <1>4, <1>5

\* One of the busiest VMs is placed on a pCPU that is free.
LEMMA BusyCpu ==
    ASSUME CpuInv, NEW i \in Cpu!NextByUsage, Cpu!PlaceBusy(i)
    PROVE  CpuInv'
  <1> DEFINE p == IF mapping[i] \in Cpu!Free THEN mapping[i] ELSE Cpu!Min(Cpu!Free)
  <1>1. /\ UNCHANGED <<n_host_cpus, domains, changes, time, cpu_pc, intervals, cpu_times, read_of,
                       cpu_doms, usages, mapping>>
        /\ Cpu!PlacesBusy /\ Cpu!Advance(i)
        /\ cpu_pc = "place" /\ Cpu!ManyVMs /\ turn < n_host_cpus
        /\ allowed' = [allowed EXCEPT ![Cpu!VM(i)] = {p}]
        /\ new_mapping' = [new_mapping EXCEPT ![p] = i]
        /\ workloads' = [workloads EXCEPT ![p] = usages[i]]
    BY DEF Cpu!PlaceBusy, Cpu!placing, Cpu!PlacesBusy, Cpu!pin_vm_to_pcpu
  <1>2. p \in Cpu!Free /\ p \in Cpu!PCpus /\ new_mapping[p] = 0
    <2>1. Cpu!Free \in SUBSET Nat /\ Cpu!Free # {}
      BY <1>1, FreeLeft, PCpusAre DEF Cpu!Free
    <2>2. p \in Cpu!Free
      BY <2>1, MinIn
    <2> HIDE DEF p
    <2> QED
      BY <2>2 DEF Cpu!Free
  <1> HIDE DEF p
  <1>3. Cpu!n_vms \in Nat /\ n_host_cpus \in Nat /\ turn \in Nat /\ turn < Cpu!n_vms
    BY <1>1, PositionsAre, PCpusAre, SMTT(60) DEF CpuInv, Cpu!TypeOK, Cpu!ManyVMs
  <1>4. /\ i \in unplaced /\ i \in Cpu!Positions
        /\ unplaced' = unplaced \ {i} /\ unplaced' \subseteq Cpu!Positions
        /\ turn' \in 0 .. Cpu!n_vms
        /\ Cardinality(unplaced') = Cpu!n_vms - turn'
        /\ \A j \in Cpu!Positions \ unplaced', k \in unplaced' : usages[j] >= usages[k]
    BY <1>1, <1>3, Advances
  <1>5. HostInv' /\ TimesKept' /\ Distinct(cpu_doms)' /\ LoadsRead'
    BY <1>1 DEF CpuInv, HostInv, Distinct, VMs, TimesKept, LoadsRead, Cpu!Slots, Cpu!Positions,
                Cpu!n_vms
  <1>6. /\ new_mapping' \in [Cpu!PCpus -> Cpu!Positions \cup {0}]
        /\ workloads' \in [Cpu!PCpus -> Nat]
        /\ allowed' \in [Cpu!VMs -> (SUBSET Cpu!PCpus) \ {{}}]
    <2>1. /\ new_mapping \in [Cpu!PCpus -> Cpu!Positions \cup {0}]
          /\ workloads \in [Cpu!PCpus -> Nat]
          /\ allowed \in [Cpu!VMs -> (SUBSET Cpu!PCpus) \ {{}}]
          /\ usages[i] \in Nat
      BY <1>1, <1>4 DEF CpuInv, Cpu!TypeOK, LoadsRead
    <2> QED
      BY <1>1, <1>2, <1>4, <2>1
  <1>7. Cpu!TypeOK'
    BY <1>1, <1>4, <1>6
       DEF CpuInv, Cpu!TypeOK, Cpu!PCpus, Cpu!VMs, Cpu!Slots, Cpu!Positions, Cpu!n_vms
  <1>8. /\ Cpu!n_vms' = Cpu!n_vms /\ Cpu!Positions' = Cpu!Positions /\ Cpu!PCpus' = Cpu!PCpus
        /\ \A j : Cpu!VM(j)' = Cpu!VM(j)
    BY <1>1 DEF Cpu!n_vms, Cpu!Positions, Cpu!PCpus, Cpu!VM
  <1>9. /\ new_mapping'[p] = i
        /\ \A q \in Cpu!PCpus : q # p => new_mapping'[q] = new_mapping[q]
    BY <1>1, <1>2 DEF CpuInv, Cpu!TypeOK
  <1>10. \A q \in Marked' :
           \/ q = p
           \/ q \in Marked /\ q # p /\ new_mapping'[q] = new_mapping[q]
    <2>1. \A q \in Marked' : q \in Cpu!PCpus /\ new_mapping'[q] # 0
      BY <1>8 DEF Marked
    <2> QED
      BY <2>1, <1>9, Zenon DEF Marked
  <1>11. \A q \in Marked : q # p /\ q \in Marked' /\ new_mapping'[q] = new_mapping[q]
    BY <1>2, <1>8, <1>9 DEF Marked
  <1>12. \A q \in Marked : new_mapping[q] \in Cpu!Positions /\ new_mapping[q] \notin unplaced
    BY <1>1 DEF Marked, CpuInv, Cpu!TypeOK, PlacedMany
  <1>13. \A q \in Marked' : new_mapping'[q] \notin unplaced'
    BY <1>4, <1>9, <1>10, <1>12
  <1>14. \A q, r \in Marked' : new_mapping'[q] = new_mapping'[r] => q = r
    <2>1. \A q, r \in Marked : new_mapping[q] = new_mapping[r] => q = r
      BY <1>1 DEF CpuInv, PlacedMany
    <2> QED
      BY <2>1, <1>4, <1>9, <1>10, <1>12
  <1>15. ASSUME NEW q \in Marked', read_of[new_mapping'[q]] = Cpu!VM(new_mapping'[q])
         PROVE  allowed'[Cpu!VM(new_mapping'[q])] = {q}
    <2>1. Cpu!VM(new_mapping'[q]) \in Cpu!VMs
      BY <1>4, <1>9, <1>10, <1>12, PositionsAre, SameHost
    <2>2. CASE q = p
      BY <2>1, <2>2, <1>1, <1>9 DEF CpuInv, Cpu!TypeOK
    <2>3. CASE q \in Marked /\ q # p /\ new_mapping'[q] = new_mapping[q]
      <3>1. allowed[Cpu!VM(new_mapping[q])] = {q}
        BY <1>1, <1>15, <2>3 DEF CpuInv, PlacedMany
      <3>2. new_mapping[q] # i
        BY <1>4, <1>12, <2>3
      <3>3. Cpu!VM(new_mapping[q]) # Cpu!VM(i)
        BY <3>2, <1>4, <1>12, <2>3, PositionsAre
      <3> QED
        BY <3>1, <3>3, <2>1, <2>3, <1>1 DEF CpuInv, Cpu!TypeOK
    <2> QED
      BY <2>2, <2>3, <1>10
  <1>16. ASSUME NEW j \in Cpu!Positions \ unplaced'
         PROVE  \/ j = 0
                \/ \E q \in Marked' : new_mapping'[q] = j
                \/ Cardinality({k \in Cpu!Positions : usages[k] >= usages[j]}) > n_host_cpus
    <2>1. CASE j = i
      <3>1. j # 0 => p \in Marked'
        BY <2>1, <1>2, <1>8, <1>9 DEF Marked
      <3> QED
        BY <2>1, <3>1, <1>9
    <2>2. CASE j # i
      <3>1. j \in Cpu!Positions \ unplaced
        BY <2>2, <1>4
      <3>2. \/ j = 0
            \/ \E q \in Marked : new_mapping[q] = j
            \/ Cardinality({k \in Cpu!Positions : usages[k] >= usages[j]}) > n_host_cpus
        BY <3>1, <1>1 DEF CpuInv, PlacedMany
      <3> QED
        BY <3>2, <1>11
    <2> QED
      BY <2>1, <2>2
  <1>17. PlacedMany'
    BY <1>1, <1>4, <1>8, <1>13, <1>14, <1>15, <1>16 DEF PlacedMany
  <1> QED
    BY <1>5, <1>7, <1>17 DEF CpuInv

\* One of the other VMs is placed: there are as many busier ones as pCPUs.
LEMMA RestCpu ==
    ASSUME CpuInv, NEW i \in Cpu!NextByUsage, Cpu!PlaceRest(i)
    PROVE  CpuInv'
  <1> DEFINE p == Cpu!Min(Cpu!LeastLoaded)
  <1>1. /\ UNCHANGED <<n_host_cpus, domains, changes, time, cpu_pc, intervals, cpu_times, read_of,
                       cpu_doms, usages, mapping, new_mapping>>
        /\ Cpu!Advance(i)
        /\ cpu_pc = "place" /\ Cpu!ManyVMs /\ turn \in n_host_cpus .. Cpu!n_vms - 1
        /\ allowed' = [allowed EXCEPT ![Cpu!VM(i)] = {p}]
        /\ workloads' = [workloads EXCEPT ![p] = workloads[p] + usages[i]]
    BY DEF Cpu!PlaceRest, Cpu!placing, Cpu!PlacesRest, Cpu!pin_vm_to_pcpu
  <1>2. p \in Cpu!PCpus
    BY <1>1, LeastOf
  <1> HIDE DEF p
  <1>3. /\ Cpu!n_vms \in Nat /\ n_host_cpus \in Nat /\ turn \in Nat
        /\ turn < Cpu!n_vms /\ n_host_cpus <= turn
    BY <1>1, PositionsAre, PCpusAre, SMTT(60) DEF CpuInv, Cpu!TypeOK
  <1>4. /\ i \in unplaced /\ i \in Cpu!Positions
        /\ unplaced' = unplaced \ {i} /\ unplaced' \subseteq Cpu!Positions
        /\ turn' \in 0 .. Cpu!n_vms
        /\ Cardinality(unplaced') = Cpu!n_vms - turn'
        /\ \A j \in Cpu!Positions \ unplaced', k \in unplaced' : usages[j] >= usages[k]
    BY <1>1, <1>3, Advances
  <1>5. HostInv' /\ TimesKept' /\ Distinct(cpu_doms)' /\ LoadsRead'
    BY <1>1 DEF CpuInv, HostInv, Distinct, VMs, TimesKept, LoadsRead, Cpu!Slots, Cpu!Positions,
                Cpu!n_vms
  <1>6. /\ workloads' \in [Cpu!PCpus -> Nat]
        /\ allowed' \in [Cpu!VMs -> (SUBSET Cpu!PCpus) \ {{}}]
    <2>1. /\ workloads \in [Cpu!PCpus -> Nat]
          /\ allowed \in [Cpu!VMs -> (SUBSET Cpu!PCpus) \ {{}}]
          /\ usages[i] \in Nat
      BY <1>1, <1>4 DEF CpuInv, Cpu!TypeOK, LoadsRead
    <2>2. workloads[p] + usages[i] \in Nat
      BY <1>2, <2>1
    <2> QED
      BY <1>1, <1>2, <2>1, <2>2
  <1>7. Cpu!TypeOK'
    BY <1>1, <1>4, <1>6
       DEF CpuInv, Cpu!TypeOK, Cpu!PCpus, Cpu!VMs, Cpu!Slots, Cpu!Positions, Cpu!n_vms
  <1>8. /\ Cpu!n_vms' = Cpu!n_vms /\ Cpu!Positions' = Cpu!Positions /\ Marked' = Marked
        /\ \A j : Cpu!VM(j)' = Cpu!VM(j)
    BY <1>1 DEF Cpu!n_vms, Cpu!Positions, Cpu!PCpus, Cpu!VM, Marked
  <1>9. \A q \in Marked : new_mapping[q] \in Cpu!Positions /\ new_mapping[q] \notin unplaced
    BY <1>1 DEF Marked, CpuInv, Cpu!TypeOK, PlacedMany
  <1>10. ASSUME NEW q \in Marked, read_of[new_mapping[q]] = Cpu!VM(new_mapping[q])
         PROVE  allowed'[Cpu!VM(new_mapping[q])] = {q}
    <2>1. Cpu!VM(new_mapping[q]) \in Cpu!VMs
      BY <1>9, PositionsAre, SameHost
    <2>2. allowed[Cpu!VM(new_mapping[q])] = {q}
      BY <1>1, <1>10 DEF CpuInv, PlacedMany
    <2>3. Cpu!VM(new_mapping[q]) # Cpu!VM(i)
      BY <1>4, <1>9, PositionsAre
    <2> QED
      BY <2>1, <2>2, <2>3, <1>1 DEF CpuInv, Cpu!TypeOK
  <1>11. Cardinality({k \in Cpu!Positions : usages[k] >= usages[i]}) > n_host_cpus
    <2> DEFINE above == {k \in Cpu!Positions : usages[k] >= usages[i]}
               placed == Cpu!Positions \ unplaced'
    <2>1. IsFiniteSet(Cpu!Positions) /\ Cardinality(Cpu!Positions) = Cpu!n_vms
      BY PositionsAre
    <2>2. /\ IsFiniteSet(placed)
          /\ Cardinality(placed) = Cardinality(Cpu!Positions)
                                     - Cardinality(Cpu!Positions \cap unplaced')
      BY <2>1, FS_Difference
    <2>3. Cpu!Positions \cap unplaced' = unplaced'
      BY <1>4
    <2>4. Cardinality(placed) = Cpu!n_vms - (Cpu!n_vms - turn')
      BY <1>4, <2>1, <2>2, <2>3, Zenon
    <2>5. turn' = turn + 1
      BY <1>1 DEF Cpu!Advance
    <2>6. \A k \in placed : usages[k] >= usages[i]
      <3>1. \A k \in Cpu!Positions \ unplaced : usages[k] >= usages[i]
        BY <1>1, <1>4 DEF CpuInv, PlacedMany
      <3>2. usages[i] >= usages[i]
        BY <1>1, <1>4 DEF CpuInv, LoadsRead
      <3> QED
        BY <1>4, <3>1, <3>2
    <2>7. placed \subseteq above /\ IsFiniteSet(above)
      BY <2>1, <2>6, FS_Subset
    <2> HIDE DEF placed, above
    <2>8. Cardinality(placed) <= Cardinality(above) /\ Cardinality(above) \in Nat
      BY <2>7, FS_Subset, FS_CardinalityType
    <2>9. Cardinality(above) > n_host_cpus
      BY <2>4, <2>5, <2>8, <1>3
    <2> QED
      BY <2>9 DEF above
  <1>12. ASSUME NEW j \in Cpu!Positions \ unplaced'
         PROVE  \/ j = 0
                \/ \E q \in Marked : new_mapping[q] = j
                \/ Cardinality({k \in Cpu!Positions : usages[k] >= usages[j]}) > n_host_cpus
    <2>1. CASE j = i
      BY <2>1, <1>11
    <2>2. CASE j # i
      <3>1. j \in Cpu!Positions \ unplaced
        BY <2>2, <1>4
      <3> QED
        BY <3>1, <1>1 DEF CpuInv, PlacedMany
    <2> QED
      BY <2>1, <2>2
  <1>13. /\ \A q \in Marked : new_mapping[q] \notin unplaced'
         /\ \A q, r \in Marked : new_mapping[q] = new_mapping[r] => q = r
    BY <1>1, <1>4, <1>9 DEF CpuInv, PlacedMany
  <1>14. PlacedMany'
    BY <1>1, <1>4, <1>8, <1>10, <1>12, <1>13 DEF PlacedMany
  <1> QED
    BY <1>5, <1>7, <1>14 DEF CpuInv

\* Every step of the vCPU scheduler and around it.
LEMMA StepCpu == ASSUME CpuInv, Cpu!Next PROVE CpuInv'
  <1>1. CASE Cpu!Scheduler
    BY <1>1, TurnCpu, TimesCpu, RebalanceCpu, AloneCpu, BusyCpu, RestCpu DEF Cpu!Scheduler
  <1>2. CASE \E v \in VMs : Cpu!Start(v) \/ Cpu!Stop(v)
    BY <1>2, StartCpu, StopCpu
  <1> QED
    BY <1>1, <1>2, SameHost DEF Cpu!Next

-----------------------------------------------------------------------------
(* Sums of loads *)

\* A function that starts at 0 and adds the loads of the members of S on its
\* way is a run of the loop of calculate_pcpu_workload over n VMs.
Adds(r, n, S) ==
    /\ r \in [0 .. n -> Nat]
    /\ r[0] = 0
    /\ \A k \in 1 .. n : r[k] = r[k - 1] + (IF k - 1 \in S THEN usages[k - 1] ELSE 0)

\* TotalUsage step by step.
LEMMA TotalSteps ==
    ASSUME NEW n \in Nat, Cpu!n_vms = n, usages \in [0 .. n - 1 -> Nat], NEW S
    PROVE  \E r : Adds(r, n, S) /\ Cpu!TotalUsage(S) = r[n]
  <1> DEFINE add(k) == IF k - 1 \in S THEN usages[k - 1] ELSE 0
             g == [k \in 1 .. n |-> [x \in Nat |-> x + add(k)]]
             step(h) == [k \in 0 .. n |-> IF k = 0 THEN 0 ELSE h[k - 1] + add(k)]
             r2 == CHOOSE h : h = step(h)
  <1>1. ASSUME NEW k \in 1 .. n PROVE add(k) \in Nat
    OBVIOUS
  <1>2. Cpu!TotalUsage(S) = r2[n]
    BY DEF Cpu!TotalUsage
  <1> HIDE DEF add
  <1>3. g \in [1 .. n -> [Nat -> Nat]]
    BY <1>1
  <1>4. PICK f : Iterates(f, n, Nat, 0, g)
    <2>1. 0 \in Nat
      OBVIOUS
    <2> HIDE DEF g
    <2> QED
      BY <1>3, <2>1, Recursion
  <1>5. f \in [0 .. n -> Nat] /\ f[0] = 0 /\ \A k \in 1 .. n : f[k] = g[k][f[k - 1]]
    BY <1>4 DEF Iterates
  <1>6. ASSUME NEW k \in 1 .. n PROVE f[k - 1] \in Nat /\ f[k] = f[k - 1] + add(k)
    <2>1. f[k - 1] \in Nat
      BY <1>5
    <2> QED
      BY <1>5, <2>1
  <1>7. f = step(f)
    <2>1. \A k \in 0 .. n : f[k] = IF k = 0 THEN 0 ELSE f[k - 1] + add(k)
      BY <1>5, <1>6
    <2> QED
      BY <2>1, <1>5
  <1>8. r2 = step(r2)
    <2> HIDE DEF step
    <2> QED
      BY <1>7
  <1> HIDE DEF r2
  <1>9. r2 = [k \in 0 .. n |-> r2[k]]
    BY <1>8
  <1>10. r2[0] = 0 /\ \A k \in 1 .. n : r2[k] = r2[k - 1] + add(k)
    <2>1. \A k \in 0 .. n : r2[k] = IF k = 0 THEN 0 ELSE r2[k - 1] + add(k)
      BY <1>8
    <2> QED
      BY <2>1
  <1>11. StepAlike(f, r2, n)
    BY <1>5, <1>6, <1>10 DEF StepAlike
  <1>12. \A k \in 0 .. n : r2[k] = f[k]
    BY <1>11, SameSteps
  <1>13. r2 \in [0 .. n -> Nat]
    BY <1>9, <1>12, <1>5
  <1>14. Adds(r2, n, S)
    BY <1>10, <1>13 DEF Adds, add
  <1> QED
    BY <1>2, <1>14

\* Nobody has no load.
LEMMA TotalEmpty ==
    ASSUME NEW n \in Nat, Cpu!n_vms = n, usages \in [0 .. n - 1 -> Nat]
    PROVE  Cpu!TotalUsage({}) = 0
  <1>1. PICK r : Adds(r, n, {}) /\ Cpu!TotalUsage({}) = r[n]
    BY TotalSteps
  <1> DEFINE S == {k \in 0 .. n : r[k] = 0}
  <1>2. 0 \in S
    BY <1>1 DEF Adds
  <1>3. ASSUME NEW k \in 0 .. n - 1, k \in S PROVE k + 1 \in S
    <2>1. k + 1 \in 1 .. n /\ (k + 1) - 1 = k /\ r[k] = 0
      BY <1>3
    <2>2. r[k + 1] = r[(k + 1) - 1] + 0
      BY <1>1, <2>1 DEF Adds
    <2> QED
      BY <2>1, <2>2
  <1>4. \A k \in 0 .. n : k \in S
    <2> HIDE DEF S
    <2> QED
      BY <1>2, <1>3, UpTo
  <1> QED
    BY <1>1, <1>4

\* One more VM adds its load.
LEMMA TotalAdd ==
    ASSUME NEW n \in Nat, Cpu!n_vms = n, usages \in [0 .. n - 1 -> Nat],
           NEW S, NEW i \in 0 .. n - 1, i \notin S
    PROVE  Cpu!TotalUsage(S \cup {i}) = Cpu!TotalUsage(S) + usages[i]
  <1> DEFINE U == S \cup {i}
  <1>1. PICK r : Adds(r, n, S) /\ Cpu!TotalUsage(S) = r[n]
    BY TotalSteps
  <1>2. PICK t : Adds(t, n, U) /\ Cpu!TotalUsage(U) = t[n]
    BY TotalSteps
  <1> DEFINE same(k) == t[k] = r[k] + (IF i < k THEN usages[i] ELSE 0)
             G == {k \in 0 .. n : same(k)}
  <1>3. 0 \in G
    BY <1>1, <1>2 DEF Adds
  <1>4. ASSUME NEW k \in 0 .. n - 1, k \in G PROVE k + 1 \in G
    <2>1. k + 1 \in 1 .. n /\ (k + 1) - 1 = k /\ same(k)
      BY <1>4
    <2>2. /\ r[k] \in Nat /\ t[k] \in Nat /\ usages[k] \in Nat /\ usages[i] \in Nat
          /\ r[k + 1] = r[k] + (IF k \in S THEN usages[k] ELSE 0)
          /\ t[k + 1] = t[k] + (IF k \in U THEN usages[k] ELSE 0)
      <3> HIDE DEF U, G, same
      <3>1. /\ r[k + 1] = r[(k + 1) - 1] + (IF (k + 1) - 1 \in S THEN usages[(k + 1) - 1] ELSE 0)
            /\ t[k + 1] = t[(k + 1) - 1] + (IF (k + 1) - 1 \in U THEN usages[(k + 1) - 1] ELSE 0)
        BY <1>1, <1>2, <2>1, Zenon DEF Adds
      <3>2. r[k] \in Nat /\ t[k] \in Nat /\ usages[k] \in Nat /\ usages[i] \in Nat
        BY <1>1, <1>2 DEF Adds
      <3> QED
        BY <2>1, <3>1, <3>2
    <2>3. CASE k = i
      <3>1. k \in U /\ k \notin S /\ ~(i < k) /\ i < k + 1
        BY <2>3
      <3> QED
        BY <2>1, <2>2, <2>3, <3>1
    <2>4. CASE k # i
      <3>1. (k \in U <=> k \in S) /\ (i < k <=> i < k + 1)
        BY <2>4
      <3> QED
        BY <2>1, <2>2, <3>1
    <2> QED
      BY <2>3, <2>4
  <1>5. \A k \in 0 .. n : k \in G
    <2> HIDE DEF G
    <2> QED
      BY <1>3, <1>4, UpTo
  <1>6. same(n)
    BY <1>5
  <1> QED
    BY <1>1, <1>2, <1>6

-----------------------------------------------------------------------------
(* The loads the scheduler counts with *)

\* The first VM of the list is not among those placed first.
FirstLight == Cardinality({j \in Cpu!Positions : usages[j] > usages[0]}) >= n_host_cpus

\* Nobody has stopped since its time was read.
AllKept == \A i \in Cpu!Positions : read_of[i] = Cpu!VM(i)

PlacedAt(p) == {i \in Cpu!Positions \ unplaced : allowed[Cpu!VM(i)] = {p}}

\* A pCPU that is free has got nobody, workloads says what each pCPU has got, and
\* without its lightest VM no pCPU has more than any other.
Loaded ==
    \A p \in Cpu!PCpus :
        /\ turn < n_host_cpus /\ p \in Cpu!Free => PlacedAt(p) = {}
        /\ workloads[p] = Cpu!TotalUsage(PlacedAt(p))
        /\ \A q \in Cpu!PCpus, k \in PlacedAt(p) :
             (\A l \in PlacedAt(p) : usages[k] <= usages[l]) =>
                 workloads[p] - usages[k] <= workloads[q]

Greedy == cpu_pc = "place" /\ Cpu!ManyVMs /\ AllKept /\ FirstLight => Loaded

\* TotalUsage looks at the loads and the length of the list only.
LEMMA TotalSame ==
    ASSUME UNCHANGED <<cpu_doms, usages>>
    PROVE  \A S : Cpu!TotalUsage(S)' = Cpu!TotalUsage(S)
  BY DEF Cpu!TotalUsage, Cpu!n_vms

\* No more is placed, or nothing is.
LEMMA GreedyAway == ASSUME cpu_pc' # "place" \/ ~Cpu!ManyVMs' PROVE Greedy'
  BY DEF Greedy

\* Nothing that Greedy speaks of changes.
LEMMA GreedyKept ==
    ASSUME Greedy,
           UNCHANGED <<n_host_cpus, allowed, cpu_pc, read_of, cpu_doms, usages, unplaced,
                       new_mapping, workloads, turn>>
    PROVE  Greedy'
  <1>1. /\ Cpu!n_vms' = Cpu!n_vms /\ Cpu!Positions' = Cpu!Positions /\ Cpu!PCpus' = Cpu!PCpus
        /\ Cpu!Free' = Cpu!Free /\ (Cpu!ManyVMs' <=> Cpu!ManyVMs)
        /\ \A i : Cpu!VM(i)' = Cpu!VM(i)
    BY DEF Cpu!n_vms, Cpu!Positions, Cpu!PCpus, Cpu!Free, Cpu!ManyVMs, Cpu!VM
  <1>2. (AllKept' <=> AllKept) /\ (FirstLight' <=> FirstLight)
    BY <1>1 DEF AllKept, FirstLight
  <1>3. \A p : PlacedAt(p)' = PlacedAt(p)
    BY <1>1 DEF PlacedAt
  <1>4. \A p : Cpu!TotalUsage(PlacedAt(p))' = Cpu!TotalUsage(PlacedAt(p))
    BY <1>3, TotalSame
  <1>5. Loaded => Loaded'
    BY <1>1, <1>3, <1>4 DEF Loaded
  <1> QED
    BY <1>1, <1>2, <1>5 DEF Greedy

\* A VM stops: it was not listed, or this interval's placement is off.
LEMMA GreedyStop == ASSUME CpuInv, Greedy, NEW v \in VMs, Cpu!Stop(v) PROVE Greedy'
  <1>1. /\ UNCHANGED <<n_host_cpus, cpu_pc, cpu_doms, usages, unplaced, new_mapping, workloads,
                       turn>>
        /\ read_of' = [i \in Cpu!Slots |-> IF read_of[i] = v THEN 0 ELSE read_of[i]]
        /\ allowed' = [allowed EXCEPT ![v] = Cpu!PCpus]
    BY DEF Cpu!Stop, Cpu!locals, Cpu!placement
  <1>2. /\ Cpu!n_vms' = Cpu!n_vms /\ Cpu!Positions' = Cpu!Positions /\ Cpu!PCpus' = Cpu!PCpus
        /\ Cpu!Free' = Cpu!Free /\ (Cpu!ManyVMs' <=> Cpu!ManyVMs)
        /\ \A i : Cpu!VM(i)' = Cpu!VM(i)
    BY <1>1 DEF Cpu!n_vms, Cpu!Positions, Cpu!PCpus, Cpu!Free, Cpu!ManyVMs, Cpu!VM
  <1>3. FirstLight' <=> FirstLight
    BY <1>1, <1>2 DEF FirstLight
  <1> SUFFICES ASSUME cpu_pc = "place", Cpu!ManyVMs, AllKept', FirstLight
               PROVE  Loaded'
    BY <1>1, <1>2, <1>3 DEF Greedy
  <1>4. ASSUME NEW i \in Cpu!Positions PROVE read_of[i] = Cpu!VM(i) /\ Cpu!VM(i) # v
    <2>1. read_of'[i] = Cpu!VM(i) /\ Cpu!VM(i) \in VMs /\ i \in Cpu!Slots
      BY <1>2, PositionsAre DEF AllKept
    <2>2. Cpu!VM(i) # 0
      BY <2>1, HypervisorAssumption DEF VMs
    <2> QED
      BY <1>1, <2>1, <2>2
  <1>5. \A i \in Cpu!Positions : allowed'[Cpu!VM(i)] = allowed[Cpu!VM(i)]
    BY <1>1, <1>4, PositionsAre, SameHost DEF CpuInv, Cpu!TypeOK
  <1>6. \A p : PlacedAt(p)' = PlacedAt(p)
    BY <1>1, <1>2, <1>5 DEF PlacedAt
  <1>7. \A p : Cpu!TotalUsage(PlacedAt(p))' = Cpu!TotalUsage(PlacedAt(p))
    BY <1>1, <1>6, TotalSame
  <1>8. Loaded
    BY <1>4 DEF Greedy, AllKept
  <1> QED
    BY <1>1, <1>2, <1>6, <1>7, <1>8 DEF Loaded

\* What TotalUsage needs to know of a placement.
LEMMA PlaceFacts ==
    ASSUME CpuInv, cpu_pc = "place"
    PROVE  /\ Cpu!n_vms \in Nat /\ Cpu!Positions = 0 .. Cpu!n_vms - 1
           /\ usages \in [0 .. Cpu!n_vms - 1 -> Nat]
           /\ workloads \in [Cpu!PCpus -> Nat]
           /\ new_mapping \in [Cpu!PCpus -> Cpu!Positions \cup {0}]
  <1>1. Cpu!n_vms \in Nat /\ Cpu!Positions = 0 .. Cpu!n_vms - 1
    BY PositionsAre
  <1>2. usages \in [Cpu!Positions -> Nat]
    BY DEF CpuInv, LoadsRead
  <1> QED
    BY <1>1, <1>2 DEF CpuInv, Cpu!TypeOK

\* At first nobody is placed.
LEMMA GreedyRebalance == ASSUME CpuInv, Cpu!Rebalance PROVE Greedy'
  <1>1. /\ UNCHANGED <<n_host_cpus, cpu_doms, usages>>
        /\ unplaced' = Cpu!Positions
        /\ workloads' = [p \in Cpu!PCpus |-> 0]
        /\ cpu_pc = "mapping"
    BY DEF Cpu!Rebalance, Cpu!hostvars
  <1>2. Cpu!n_vms' = Cpu!n_vms /\ Cpu!Positions' = Cpu!Positions /\ Cpu!PCpus' = Cpu!PCpus
    BY <1>1 DEF Cpu!n_vms, Cpu!Positions, Cpu!PCpus
  <1>3. \A p : PlacedAt(p)' = {}
    BY <1>1, <1>2 DEF PlacedAt
  <1>4. Cpu!TotalUsage({}) = 0
    <2>1. /\ Cpu!n_vms \in Nat /\ Cpu!Positions = 0 .. Cpu!n_vms - 1
          /\ usages \in [Cpu!Positions -> Nat]
      BY <1>1, PositionsAre DEF CpuInv, LoadsRead
    <2> QED
      BY <2>1, TotalEmpty
  <1>5. \A p : Cpu!TotalUsage(PlacedAt(p))' = 0
    BY <1>1, <1>3, <1>4, TotalSame
  <1>6. Loaded'
    BY <1>1, <1>2, <1>3, <1>5 DEF Loaded
  <1> QED
    BY <1>6 DEF Greedy

\* A VM as light as that is not placed first.
LEMMA NotFirst ==
    ASSUME CpuInv, Cpu!PlacesBusy, FirstLight, NEW i \in Cpu!NextByUsage
    PROVE  i # 0
  <1> USE DEF Cpu!PlacesBusy
  <1> DEFINE above == {j \in Cpu!Positions : usages[j] > usages[0]}
             placed == Cpu!Positions \ unplaced
  <1>1. SUFFICES ASSUME i = 0 PROVE FALSE
    OBVIOUS
  <1>2. 0 \in unplaced /\ \A j \in unplaced : usages[0] >= usages[j]
    BY <1>1 DEF Cpu!NextByUsage
  <1>3. unplaced \subseteq Cpu!Positions /\ usages \in [Cpu!Positions -> Nat]
    BY DEF CpuInv, Cpu!TypeOK, LoadsRead
  <1>4. above \subseteq placed
    <2> SUFFICES ASSUME NEW j \in Cpu!Positions, usages[j] > usages[0], j \in unplaced PROVE FALSE
      OBVIOUS
    <2>1. usages[0] >= usages[j] /\ usages[0] \in Nat /\ usages[j] \in Nat
      BY <1>2, <1>3
    <2> QED
      BY <2>1
  <1>5. turn \in Nat /\ IsFiniteSet(placed) /\ Cardinality(placed) = turn
    BY PlacedCount
  <1>6. Cardinality(above) >= n_host_cpus
    BY DEF FirstLight
  <1> HIDE DEF above, placed
  <1>7. Cardinality(above) <= Cardinality(placed) /\ Cardinality(above) \in Nat
    BY <1>4, <1>5, FS_Subset, FS_CardinalityType
  <1>8. n_host_cpus \in Nat
    BY PCpusAre
  <1> QED
    BY <1>5, <1>6, <1>7, <1>8

\* A VM is placed on p: it was nowhere, and the others stay where they are.
LEMMA PlacedThere ==
    ASSUME CpuInv, cpu_pc = "place", NEW i \in unplaced, NEW p,
           unplaced' = unplaced \ {i}, cpu_doms' = cpu_doms,
           allowed' = [allowed EXCEPT ![Cpu!VM(i)] = {p}]
    PROVE  /\ \A q : i \notin PlacedAt(q)
           /\ \A q : PlacedAt(q)' = IF q = p THEN PlacedAt(q) \cup {i} ELSE PlacedAt(q)
  <1>1. Cpu!Positions' = Cpu!Positions /\ \A j : Cpu!VM(j)' = Cpu!VM(j)
    BY DEF Cpu!Positions, Cpu!n_vms, Cpu!VM
  <1>2. unplaced \subseteq Cpu!Positions
    BY DEF CpuInv, Cpu!TypeOK
  <1>3. \A j \in Cpu!Positions :
          allowed'[Cpu!VM(j)] = IF j = i THEN {p} ELSE allowed[Cpu!VM(j)]
    BY <1>2, PositionsAre, SameHost DEF CpuInv, Cpu!TypeOK
  <1>4. \A q : PlacedAt(q)' = {j \in Cpu!Positions \ unplaced' : allowed'[Cpu!VM(j)] = {q}}
    BY <1>1 DEF PlacedAt
  <1>5. ASSUME NEW q
        PROVE  PlacedAt(q)' = IF q = p THEN PlacedAt(q) \cup {i} ELSE PlacedAt(q)
    <2>1. \A j \in Cpu!Positions \ unplaced' :
            allowed'[Cpu!VM(j)] = {q} <=> IF j = i THEN q = p ELSE allowed[Cpu!VM(j)] = {q}
      BY <1>3
    <2> QED
      BY <2>1, <1>2, <1>4 DEF PlacedAt
  <1> QED
    BY <1>5 DEF PlacedAt

\* One of the busiest goes to a pCPU that has got nobody.
LEMMA GreedyBusy ==
    ASSUME CpuInv, Greedy, NEW i \in Cpu!NextByUsage, Cpu!PlaceBusy(i)
    PROVE  Greedy'
  <1>1. PICK p : p = IF mapping[i] \in Cpu!Free THEN mapping[i] ELSE Cpu!Min(Cpu!Free)
    OBVIOUS
  <1>2. /\ UNCHANGED <<n_host_cpus, cpu_pc, read_of, cpu_doms, usages>>
        /\ Cpu!PlacesBusy /\ cpu_pc = "place" /\ Cpu!ManyVMs /\ turn < n_host_cpus
        /\ unplaced' = unplaced \ {i} /\ turn' = turn + 1
        /\ allowed' = [allowed EXCEPT ![Cpu!VM(i)] = {p}]
        /\ new_mapping' = [new_mapping EXCEPT ![p] = i]
        /\ workloads' = [workloads EXCEPT ![p] = usages[i]]
    BY <1>1 DEF Cpu!PlaceBusy, Cpu!placing, Cpu!PlacesBusy, Cpu!pin_vm_to_pcpu, Cpu!Advance
  <1>3. p \in Cpu!Free /\ p \in Cpu!PCpus
    <2>1. Cpu!Free \in SUBSET Nat /\ Cpu!Free # {}
      BY <1>2, FreeLeft, PCpusAre DEF Cpu!Free
    <2>2. p \in Cpu!Free
      BY <1>1, <2>1, MinIn
    <2> QED
      BY <2>2 DEF Cpu!Free
  <1>4. /\ Cpu!n_vms' = Cpu!n_vms /\ Cpu!Positions' = Cpu!Positions /\ Cpu!PCpus' = Cpu!PCpus
        /\ (Cpu!ManyVMs' <=> Cpu!ManyVMs) /\ \A j : Cpu!VM(j)' = Cpu!VM(j)
    BY <1>2 DEF Cpu!n_vms, Cpu!Positions, Cpu!PCpus, Cpu!VM, Cpu!ManyVMs
  <1>5. (AllKept' <=> AllKept) /\ (FirstLight' <=> FirstLight)
    BY <1>2, <1>4 DEF AllKept, FirstLight
  <1> SUFFICES ASSUME AllKept, FirstLight PROVE Loaded'
    BY <1>5 DEF Greedy
  <1>6. Loaded
    BY <1>2 DEF Greedy
  <1>7. i # 0 /\ i \in unplaced /\ i \in Cpu!Positions
    BY <1>2, NotFirst DEF Cpu!NextByUsage, CpuInv, Cpu!TypeOK
  <1>8. /\ \A q : i \notin PlacedAt(q)
        /\ \A q : PlacedAt(q)' = IF q = p THEN PlacedAt(q) \cup {i} ELSE PlacedAt(q)
    BY <1>2, <1>7, PlacedThere
  <1>9. PlacedAt(p) = {}
    BY <1>2, <1>3, <1>6 DEF Loaded
  <1>10. /\ Cpu!n_vms \in Nat /\ Cpu!Positions = 0 .. Cpu!n_vms - 1
         /\ usages \in [0 .. Cpu!n_vms - 1 -> Nat]
         /\ workloads \in [Cpu!PCpus -> Nat]
         /\ new_mapping \in [Cpu!PCpus -> Cpu!Positions \cup {0}]
    BY <1>2, PlaceFacts
  <1>11. usages[i] \in Nat /\ Cpu!TotalUsage({}) = 0 /\ Cpu!TotalUsage({} \cup {i}) = 0 + usages[i]
    BY <1>7, <1>10, TotalEmpty, TotalAdd
  <1>12. workloads[p] = 0
    BY <1>3, <1>6, <1>9, <1>11 DEF Loaded
  <1>13. /\ workloads'[p] = usages[i]
         /\ \A q \in Cpu!PCpus : q # p => workloads'[q] = workloads[q]
         /\ new_mapping'[p] = i
         /\ \A q \in Cpu!PCpus : q # p => new_mapping'[q] = new_mapping[q]
    BY <1>2, <1>3, <1>10
  <1>14. \A q \in Cpu!PCpus : workloads'[q] \in Nat /\ workloads'[q] >= workloads[q]
    BY <1>10, <1>11, <1>12, <1>13
  <1>15. ASSUME NEW q \in Cpu!PCpus, turn' < n_host_cpus', q \in Cpu!Free'
         PROVE  PlacedAt(q)' = {}
    <2>1. new_mapping'[q] = 0
      BY <1>15 DEF Cpu!Free
    <2>2. q # p /\ q \in Cpu!Free
      BY <2>1, <1>7, <1>13 DEF Cpu!Free
    <2> QED
      BY <2>2, <1>2, <1>6, <1>8 DEF Loaded
  <1>16. ASSUME NEW q \in Cpu!PCpus PROVE workloads'[q] = Cpu!TotalUsage(PlacedAt(q)')
    <2>1. CASE q = p
      <3>1. PlacedAt(q)' = {} \cup {i}
        BY <2>1, <1>8, <1>9
      <3> QED
        BY <2>1, <3>1, <1>11, <1>13
    <2>2. CASE q # p
      BY <2>2, <1>6, <1>8, <1>13 DEF Loaded
    <2> QED
      BY <2>1, <2>2
  <1>17. ASSUME NEW q \in Cpu!PCpus, NEW r \in Cpu!PCpus, NEW k \in PlacedAt(q)',
                \A l \in PlacedAt(q)' : usages[k] <= usages[l]
         PROVE  workloads'[q] - usages[k] <= workloads'[r]
    <2>1. CASE q = p
      <3>1. k = i
        BY <2>1, <1>8, <1>9, <1>17
      <3> QED
        BY <2>1, <3>1, <1>11, <1>13, <1>14
    <2>2. CASE q # p
      <3>1. k \in PlacedAt(q) /\ workloads'[q] = workloads[q]
        BY <2>2, <1>8, <1>13, <1>17
      <3>2. workloads[q] - usages[k] <= workloads[r]
        BY <2>2, <3>1, <1>6, <1>8, <1>17 DEF Loaded
      <3>3. usages[k] \in Nat /\ workloads[q] \in Nat /\ workloads[r] \in Nat
        BY <3>1, <1>10 DEF PlacedAt
      <3> QED
        BY <3>1, <3>2, <3>3, <1>14
    <2> QED
      BY <2>1, <2>2
  <1>18. \A q : Cpu!TotalUsage(PlacedAt(q))' = Cpu!TotalUsage(PlacedAt(q)')
    BY <1>2, TotalSame
  <1> QED
    BY <1>2, <1>4, <1>15, <1>16, <1>17, <1>18 DEF Loaded

\* One of the others goes to a pCPU with the least load: without it that pCPU has
\* no more than the rest, and it is lighter than all placed before it.
LEMMA GreedyRest ==
    ASSUME CpuInv, Greedy, NEW i \in Cpu!NextByUsage, Cpu!PlaceRest(i)
    PROVE  Greedy'
  <1>1. PICK p : p = Cpu!Min(Cpu!LeastLoaded)
    OBVIOUS
  <1>2. /\ UNCHANGED <<n_host_cpus, cpu_pc, read_of, cpu_doms, usages, new_mapping>>
        /\ cpu_pc = "place" /\ Cpu!ManyVMs /\ turn \in n_host_cpus .. Cpu!n_vms - 1
        /\ unplaced' = unplaced \ {i} /\ turn' = turn + 1
        /\ allowed' = [allowed EXCEPT ![Cpu!VM(i)] = {p}]
        /\ workloads' = [workloads EXCEPT ![p] = workloads[p] + usages[i]]
    BY <1>1 DEF Cpu!PlaceRest, Cpu!placing, Cpu!PlacesRest, Cpu!pin_vm_to_pcpu, Cpu!Advance
  <1>3. p \in Cpu!PCpus /\ \A q \in Cpu!PCpus : workloads[p] <= workloads[q]
    BY <1>1, <1>2, LeastOf
  <1>4. /\ Cpu!n_vms' = Cpu!n_vms /\ Cpu!Positions' = Cpu!Positions /\ Cpu!PCpus' = Cpu!PCpus
        /\ (Cpu!ManyVMs' <=> Cpu!ManyVMs) /\ \A j : Cpu!VM(j)' = Cpu!VM(j)
    BY <1>2 DEF Cpu!n_vms, Cpu!Positions, Cpu!PCpus, Cpu!VM, Cpu!ManyVMs
  <1>5. (AllKept' <=> AllKept) /\ (FirstLight' <=> FirstLight)
    BY <1>2, <1>4 DEF AllKept, FirstLight
  <1> SUFFICES ASSUME AllKept, FirstLight PROVE Loaded'
    BY <1>5 DEF Greedy
  <1>6. Loaded
    BY <1>2 DEF Greedy
  <1>7. i \in unplaced /\ i \in Cpu!Positions
    BY <1>2 DEF Cpu!NextByUsage, CpuInv, Cpu!TypeOK
  <1>8. /\ \A q : i \notin PlacedAt(q)
        /\ \A q : PlacedAt(q)' = IF q = p THEN PlacedAt(q) \cup {i} ELSE PlacedAt(q)
    BY <1>2, <1>7, PlacedThere
  <1>9. /\ Cpu!n_vms \in Nat /\ Cpu!Positions = 0 .. Cpu!n_vms - 1
        /\ usages \in [0 .. Cpu!n_vms - 1 -> Nat]
        /\ workloads \in [Cpu!PCpus -> Nat]
    BY <1>2, PlaceFacts
  <1>10. /\ usages[i] \in Nat
         /\ Cpu!TotalUsage(PlacedAt(p) \cup {i}) = Cpu!TotalUsage(PlacedAt(p)) + usages[i]
    BY <1>7, <1>8, <1>9, TotalAdd
  <1>11. /\ workloads'[p] = workloads[p] + usages[i]
         /\ \A q \in Cpu!PCpus : q # p => workloads'[q] = workloads[q]
    BY <1>2, <1>3, <1>9
  <1>12. \A q \in Cpu!PCpus : workloads'[q] \in Nat /\ workloads'[q] >= workloads[q]
    BY <1>9, <1>10, <1>11
  <1>13. ~(turn' < n_host_cpus')
    <2>1. n_host_cpus \in Nat
      BY PCpusAre
    <2> QED
      BY <2>1, <1>2, <1>9
  <1>14. ASSUME NEW q \in Cpu!PCpus PROVE workloads'[q] = Cpu!TotalUsage(PlacedAt(q)')
    <2>1. CASE q = p
      <3>1. PlacedAt(q)' = PlacedAt(p) \cup {i}
        BY <2>1, <1>8
      <3>2. workloads[p] = Cpu!TotalUsage(PlacedAt(p))
        BY <1>3, <1>6 DEF Loaded
      <3> QED
        BY <2>1, <3>1, <3>2, <1>10, <1>11
    <2>2. CASE q # p
      BY <2>2, <1>6, <1>8, <1>11 DEF Loaded
    <2> QED
      BY <2>1, <2>2
  <1>15. ASSUME NEW q \in Cpu!PCpus, NEW r \in Cpu!PCpus, NEW k \in PlacedAt(q)',
                \A l \in PlacedAt(q)' : usages[k] <= usages[l]
         PROVE  workloads'[q] - usages[k] <= workloads'[r]
    <2>1. CASE q = p
      <3>1. k = i \/ k \in PlacedAt(p)
        BY <2>1, <1>8, <1>15
      <3>2. usages[k] \in Nat /\ (k # i => usages[k] >= usages[i])
        <4>1. k # i => k \in Cpu!Positions \ unplaced
          BY <3>1 DEF PlacedAt
        <4> QED
          BY <4>1, <1>2, <1>7, <1>9, <1>10 DEF CpuInv, PlacedMany
      <3>3. usages[k] <= usages[i]
        BY <2>1, <1>8, <1>15
      <3>4. usages[k] = usages[i]
        BY <3>2, <3>3, <1>10
      <3>5. workloads[p] <= workloads[r] /\ workloads[p] \in Nat /\ workloads[r] \in Nat
        BY <1>3, <1>9
      <3> QED
        BY <2>1, <3>4, <3>5, <1>10, <1>11, <1>12
    <2>2. CASE q # p
      <3>1. k \in PlacedAt(q) /\ workloads'[q] = workloads[q]
        BY <2>2, <1>8, <1>11, <1>15
      <3>2. workloads[q] - usages[k] <= workloads[r]
        BY <2>2, <3>1, <1>6, <1>8, <1>15 DEF Loaded
      <3>3. usages[k] \in Nat /\ workloads[q] \in Nat /\ workloads[r] \in Nat
        BY <3>1, <1>9 DEF PlacedAt
      <3> QED
        BY <3>1, <3>2, <3>3, <1>12
    <2> QED
      BY <2>1, <2>2
  <1>16. \A q : Cpu!TotalUsage(PlacedAt(q))' = Cpu!TotalUsage(PlacedAt(q)')
    BY <1>2, TotalSame
  <1> QED
    BY <1>2, <1>4, <1>13, <1>14, <1>15, <1>16 DEF Loaded

\* Every step of the vCPU scheduler and around it.
LEMMA StepGreedy == ASSUME CpuInv, Greedy, Cpu!Next PROVE Greedy'
  <1>1. CASE \/ Cpu!Return \/ Cpu!get_active_vm \/ Cpu!GetTimesFails \/ Cpu!GetMappingFails
             \/ Cpu!PinFails \/ Cpu!Balanced \/ Cpu!Finished \/ Cpu!GetFirstTimes \/ Cpu!GetTimes
    BY <1>1, GreedyAway DEF Cpu!Return, Cpu!get_active_vm, Cpu!GetTimesFails, Cpu!GetMappingFails,
       Cpu!PinFails, Cpu!Exit, Cpu!Balanced, Cpu!Finished, Cpu!Sleep, Cpu!GetFirstTimes,
       Cpu!GetTimes
  <1>2. CASE Cpu!StaysAlone \/ Cpu!PinsAlone \/ Cpu!LeavesAlone
    <2>1. ~Cpu!ManyVMs'
      BY <1>2 DEF Cpu!StaysAlone, Cpu!PinsAlone, Cpu!LeavesAlone, Cpu!MovesAlone, Cpu!placing,
                  Cpu!ManyVMs, Cpu!n_vms
    <2> QED
      BY <2>1, GreedyAway
  <1>3. ASSUME NEW v \in VMs, Cpu!Start(v) PROVE Greedy'
    BY <1>3, GreedyKept DEF Cpu!Start, Cpu!locals, Cpu!placement
  <1> QED
    BY <1>1, <1>2, <1>3, GreedyRebalance, GreedyBusy, GreedyRest, GreedyStop, SameHost
       DEF Cpu!Next, Cpu!Scheduler

-----------------------------------------------------------------------------
(* The theorems *)

VirtInv ==
    \/ Coordinates /\ MemInv /\ cpu_pc = "loop"
    \/ Schedules /\ CpuInv /\ Greedy /\ pc = "loop"

allvars == <<program, vars, cpuvars>>

\* VirtInv holds at first.
LEMMA InitVirt == ASSUME InitMemory \/ InitCpu PROVE VirtInv
  <1>1. CASE InitMemory
    BY <1>1, InitMem DEF InitMemory, VirtInv
  <1>2. CASE InitCpu
    <2>1. Schedules /\ CpuInv /\ cpu_pc = "loop" /\ pc = "loop"
      BY <1>2, InitCpuInv DEF InitCpu, Cpu!Init
    <2>2. Greedy
      BY <2>1 DEF Greedy
    <2> QED
      BY <2>1, <2>2 DEF VirtInv
  <1> QED
    BY <1>1, <1>2

\* A step in which nothing changes keeps VirtInv.
LEMMA StutterVirt == ASSUME VirtInv, UNCHANGED allvars PROVE VirtInv'
  <1> USE DEF allvars, vars, cpuvars, vmvars, readings
  <1>1. CASE Coordinates /\ MemInv /\ cpu_pc = "loop"
    <2>1. MemInv'
      BY <1>1 DEF MemInv, TypeOK, HostInv, OffUnused, Idle, Read, Planned, HostReserve, Grown,
                  Shrunk, Distinct, VMs, Running, mem_alloc_unit, host_mem_low
    <2> QED
      BY <1>1, <2>1 DEF VirtInv, Coordinates
  <1>2. CASE Schedules /\ CpuInv /\ Greedy /\ pc = "loop"
    <2>1. Cpu!TypeOK' /\ HostInv' /\ Distinct(cpu_doms)' /\ TimesKept' /\ LoadsRead'
      BY <1>2, SMTT(60) DEF CpuInv, Cpu!TypeOK, HostInv, Distinct, TimesKept, LoadsRead, VMs, Cpu!VMs,
                  Cpu!Slots, Cpu!Positions, Cpu!n_vms, Cpu!PCpus
    <2>2. PlacedMany'
      BY <1>2 DEF CpuInv, PlacedMany, Marked, Cpu!Positions, Cpu!n_vms, Cpu!PCpus, Cpu!VM,
                  Cpu!ManyVMs
    <2>3. Greedy'
      BY <1>2, GreedyKept
    <2> QED
      BY <1>2, <2>1, <2>2, <2>3 DEF VirtInv, Schedules, CpuInv
  <1> QED
    BY <1>1, <1>2 DEF VirtInv

\* Every step keeps VirtInv.
LEMMA StepVirt == ASSUME VirtInv, [VirtNext]_allvars PROVE VirtInv'
  <1>1. CASE UNCHANGED allvars
    BY <1>1, StutterVirt
  <1>2. CASE Coordinates /\ Next /\ UNCHANGED <<program, cpuvars>>
    <2>1. MemInv /\ cpu_pc = "loop"
      BY <1>2 DEF VirtInv, Coordinates, Schedules
    <2> QED
      BY <1>2, <2>1, StepMem DEF VirtInv, Coordinates, cpuvars
  <1>3. CASE Schedules /\ Cpu!Next /\ UNCHANGED <<program, memvars>>
    <2>1. CpuInv /\ Greedy /\ pc = "loop"
      BY <1>3 DEF VirtInv, Coordinates, Schedules
    <2>2. CpuInv' /\ Greedy'
      BY <1>3, <2>1, StepCpu, StepGreedy
    <2> QED
      BY <1>3, <2>1, <2>2 DEF VirtInv, Schedules, memvars
  <1> QED
    BY <1>1, <1>2, <1>3 DEF VirtNext

\* The invariant of both programs, whichever of them runs.
THEOREM VirtInvariance == VirtSpec => []VirtInv
  <1>1. ASSUME InitMemory \/ InitCpu PROVE VirtInv
    BY <1>1, InitVirt
  <1>2. ASSUME VirtInv, [VirtNext]_allvars PROVE VirtInv'
    BY <1>2, StepVirt
  <1> QED
    BY <1>1, <1>2, PTL DEF VirtSpec, allvars

\* memory_coordinator.c and vcpu_scheduler.c keep their state in its type,
\* whatever VMs start, stop or do.
THEOREM VirtTypeCorrect == VirtSpec => []VirtTypeOK
  <1>1. VirtInv => VirtTypeOK
    BY DEF VirtInv, VirtTypeOK, MemInv, CpuInv, Coordinates, Schedules
  <1> QED
    BY <1>1, VirtInvariance, PTL

\* MemoryScheduler plans no interval that leaves the host less than host_mem_low
\* of what it read, but for the wrap of the unsigned subtraction.
THEOREM KeepsReserve == VirtSpec => []HostReserve
  <1>1. VirtInv => HostReserve
    BY DEF VirtInv, MemInv, HostReserve
  <1> QED
    BY <1>1, VirtInvariance, PTL

\* CPUScheduler puts the busiest VMs on different pCPUs, but for the first of
\* the list, for any number of VMs and pCPUs.
THEOREM SpreadsBusiest == VirtSpec => []BusiestApart
  <1>1. ASSUME VirtInv PROVE BusiestApart
    <2> USE DEF Cpu!Pinned
    <2> SUFFICES ASSUME Cpu!Pinned, Cpu!ManyVMs, NEW i \in Cpu!Busiest, NEW j \in Cpu!Busiest,
                        i # j, allowed[Cpu!VM(i)] = allowed[Cpu!VM(j)], i # 0, j # 0
                 PROVE  FALSE
      BY Zenon DEF BusiestApart, Cpu!BusiestApart
    <2>1. CpuInv
      BY <1>1 DEF VirtInv
    <2>2. i \in Cpu!Positions /\ j \in Cpu!Positions
      BY DEF Cpu!Busiest
    <2>3. unplaced = {}
      <3>1. unplaced \subseteq Cpu!Positions /\ Cardinality(unplaced) = Cpu!n_vms - Cpu!n_vms
        BY <2>1 DEF CpuInv, Cpu!TypeOK, PlacedMany
      <3>2. IsFiniteSet(unplaced) /\ Cpu!n_vms \in Nat
        BY <2>1, <3>1, PositionsAre, FS_Subset
      <3>3. Cardinality(unplaced) = 0
        BY <3>1, <3>2
      <3> QED
        BY <3>2, <3>3, FS_EmptySet
    <2>4. ASSUME NEW k \in Cpu!Busiest, k # 0
          PROVE  \E p \in Marked : new_mapping[p] = k /\ allowed[Cpu!VM(k)] = {p}
      <3>1. k \in Cpu!Positions \ unplaced
        BY <2>3 DEF Cpu!Busiest
      <3>2. ~(Cardinality({l \in Cpu!Positions : usages[l] >= usages[k]}) > n_host_cpus)
        <4> DEFINE above == {l \in Cpu!Positions : usages[l] >= usages[k]}
        <4>1. IsFiniteSet(above)
          BY <2>1, PositionsAre, FS_Subset
        <4>2. Cardinality(above) <= n_host_cpus
          <5>1. \A m \in Cpu!Busiest :
                  Cardinality({l \in Cpu!Positions : usages[l] >= usages[m]}) <= n_host_cpus
            BY SameCardinality, Zenon DEF Cpu!Busiest
          <5> QED
            BY <5>1, Zenon
        <4>3. Cardinality(above) \in Nat /\ n_host_cpus \in Nat
          BY <4>1, <2>1, PCpusAre, FS_CardinalityType
        <4> HIDE DEF above
        <4>4. ~(Cardinality(above) > n_host_cpus)
          BY <4>2, <4>3
        <4> QED
          BY <4>4 DEF above
      <3>3. PICK p \in Marked : new_mapping[p] = k
        BY <2>1, <2>4, <3>1, <3>2 DEF CpuInv, PlacedMany
      <3>4. allowed[Cpu!VM(k)] = {p}
        BY <2>1, <3>1, <3>3 DEF CpuInv, PlacedMany
      <3> QED
        BY <3>3, <3>4
    <2>5. PICK p \in Marked : new_mapping[p] = i /\ allowed[Cpu!VM(i)] = {p}
      BY <2>4
    <2>6. PICK q \in Marked : new_mapping[q] = j /\ allowed[Cpu!VM(j)] = {q}
      BY <2>4
    <2>7. p = q
      BY <2>5, <2>6
    <2> QED
      BY <2>5, <2>6, <2>7
  <1> QED
    BY <1>1, VirtInvariance, PTL

\* Once all VMs are placed, Loaded says what GreedyBalanced says.
LEMMA GreedyImplies == ASSUME CpuInv, Greedy PROVE GreedyBalanced
  <1> DEFINE here(p) == {i \in Cpu!Positions : allowed[Cpu!VM(i)] = {p}}
             load(p) == Cpu!TotalUsage(here(p))
  <1> SUFFICES ASSUME Cpu!Pinned, Cpu!ManyVMs,
                      Cpu!Cardinality({i \in Cpu!Positions : usages[i] > usages[0]}) >= n_host_cpus,
                      NEW p \in Cpu!PCpus, NEW q \in Cpu!PCpus, Cpu!Cardinality(here(p)) > 1
               PROVE  load(p) - Cpu!Min({usages[i] : i \in here(p)}) <= load(q)
    BY Zenon DEF GreedyBalanced, Cpu!GreedyBalanced
  <1>1. cpu_pc = "place" /\ turn = Cpu!n_vms /\ AllKept
    BY DEF Cpu!Pinned, AllKept
  <1>2. FirstLight
    BY SameCardinality, Zenon DEF FirstLight
  <1>3. Loaded
    BY <1>1, <1>2 DEF Greedy
  <1>4. unplaced = {}
    <2>1. unplaced \subseteq Cpu!Positions /\ Cardinality(unplaced) = Cpu!n_vms - Cpu!n_vms
      BY <1>1 DEF CpuInv, Cpu!TypeOK, PlacedMany
    <2>2. IsFiniteSet(unplaced) /\ Cpu!n_vms \in Nat
      BY <2>1, PositionsAre, FS_Subset
    <2>3. Cardinality(unplaced) = 0
      BY <2>1, <2>2
    <2> QED
      BY <2>2, <2>3, FS_EmptySet
  <1>5. \A r : here(r) = PlacedAt(r)
    BY <1>4 DEF PlacedAt
  <1>6. workloads[p] = load(p) /\ workloads[q] = load(q)
    BY <1>3, <1>5 DEF Loaded
  <1>7. usages \in [Cpu!Positions -> Nat]
    BY <1>1 DEF CpuInv, LoadsRead
  <1>8. here(p) # {}
    <2>1. SUFFICES ASSUME here(p) = {} PROVE FALSE
      OBVIOUS
    <2>2. Cardinality(here(p)) = 0
      BY <2>1, FS_EmptySet, Zenon
    <2>3. Cpu!Cardinality(here(p)) = 0
      BY <2>2, SameCardinality, Zenon
    <2> HIDE DEF here
    <2> QED
      BY <2>3
  <1> DEFINE V == {usages[i] : i \in here(p)}
  <1>9. V \in SUBSET Nat /\ V # {}
    BY <1>7, <1>8
  <1>10. Cpu!Min(V) \in V /\ \A v \in V : Cpu!Min(V) <= v
    <2> HIDE DEF V
    <2> QED
      BY <1>9, Least DEF Cpu!Min
  <1>11. PICK k \in here(p) : Cpu!Min(V) = usages[k]
    BY <1>10
  <1>12. \A l \in here(p) : usages[k] <= usages[l]
    BY <1>10, <1>11, ZenonT(60)
  <1>13. workloads[p] - usages[k] <= workloads[q]
    <2> HIDE DEF here, V
    <2> QED
      BY <1>3, <1>5, <1>11, <1>12 DEF Loaded
  <1> QED
    BY <1>6, <1>11, <1>13

\* CPUScheduler leaves no pCPU whose lightest VM would be better off elsewhere,
\* for any number of VMs and pCPUs, unless the first VM of the list may be among
\* those placed first.
THEOREM BalancesGreedily == VirtSpec => []GreedyBalanced
  <1>1. ASSUME VirtInv PROVE GreedyBalanced
    <2>1. CASE CpuInv /\ Greedy
      BY <2>1, GreedyImplies
    <2>2. CASE cpu_pc = "loop"
      BY <2>2 DEF GreedyBalanced, Cpu!GreedyBalanced, Cpu!Pinned
    <2> QED
      BY <1>1, <2>1, <2>2 DEF VirtInv
  <1> QED
    BY <1>1, VirtInvariance, PTL

\* The load CPUScheduler computes for a VM that has kept its position is the
\* time it has used since the interval before, although times are kept by
\* position, VMs come and go, and the subtraction is unsigned.
THEOREM MeasuresTrue == VirtSpec => UsageTrue
  <1> DEFINE Measured == \A i \in Cpu!Positions :
               read_of[i] = Cpu!VM(i) => usages'[i] = time'[Cpu!VM(i)] - time[Cpu!VM(i)]
  <1>1. ASSUME VirtInv, Cpu!GetTimes PROVE Measured
    <2>1. CpuInv
      BY <1>1 DEF VirtInv, Cpu!GetTimes
    <2> SUFFICES ASSUME NEW i \in Cpu!Positions, read_of[i] = Cpu!VM(i)
                 PROVE  usages'[i] = time'[Cpu!VM(i)] - time[Cpu!VM(i)]
      OBVIOUS
    <2> DEFINE v == Cpu!VM(i)
    <2>2. i \in Cpu!Slots /\ v \in Cpu!VMs /\ v # 0
      BY <2>1, PositionsAre, SameHost, HypervisorAssumption DEF VMs
    <2>3. cpu_times[i] = time[v] /\ time[v] \in Nat
      BY <2>1, <2>2 DEF CpuInv, TimesKept, Cpu!TypeOK
    <2>4. v \in Cpu!Running
      <3>1. Cpu!AllListedRun
        BY <1>1 DEF Cpu!GetTimes
      <3>2. i + 1 \in 1 .. Cpu!n_vms /\ v = cpu_doms[i + 1]
        BY <2>1, PositionsAre DEF Cpu!VM
      <3> QED
        BY <3>1, <3>2 DEF Cpu!AllListedRun
    <2>5. PICK u \in [Cpu!Running -> Amounts] :
            time' = [w \in Cpu!VMs |-> IF w \in Cpu!Running THEN time[w] + u[w] ELSE 0]
      BY <1>1 DEF Cpu!GetTimes, Cpu!VMsRan
    <2>6. u[v] \in 0 .. ULLRange - 1 /\ time'[v] = time[v] + u[v]
      BY <2>2, <2>4, <2>5, SchedulerAssumption
    <2>7. usages'[i] = (time'[v] - cpu_times[i]) % ULLRange
      BY <1>1 DEF Cpu!GetTimes, Cpu!UsageAt
    <2> HIDE DEF v
    <2>8. usages'[i] = u[v] % ULLRange
      <3>1. time'[v] - cpu_times[i] = u[v]
        BY <2>3, <2>6, HypervisorAssumption
      <3> QED
        BY <2>7, <3>1
    <2>9. u[v] % ULLRange = u[v]
      BY <2>6, HypervisorAssumption
    <2>10. usages'[i] = time'[v] - time[v]
      BY <2>3, <2>6, <2>8, <2>9, HypervisorAssumption
    <2> QED
      BY <2>10 DEF v
  <1>2. ASSUME VirtInv PROVE [Cpu!GetTimes => Measured]_(Cpu!vars)
    BY <1>1, <1>2
  <1> QED
    BY <1>2, VirtInvariance, PTL DEF UsageTrue, Cpu!UsageTrue
=============================================================================
