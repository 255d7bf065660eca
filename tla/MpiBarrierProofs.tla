-------------------------- MODULE MpiBarrierProofs --------------------------
(***************************************************************************)
(* The barriers of project2 that use MPI, for any number of processes,     *)
(* threads and harness iterations: how many messages of gtmpi1.c wait,     *)
(* what gtmpi2.c receives from MPI_ANY_SOURCE, who speaks for a process in *)
(* combined.c, and that the harness sees only steps of a barrier.          *)
(***************************************************************************)
EXTENDS MCMpiBarriers, FiniteSetTheorems, WellFoundedInduction, TLAPS

-----------------------------------------------------------------------------
(* The invariant of the tree barrier over messages *)

R == Diss!Parties  \* the ranks of mpi/harness.c

AP(p) == Tree!ArrivalParent(p)
WP(p) == Tree!WakeupParent(p)
Children(p) == {c \in R \ {0} : AP(c) = p}

\* How often p has gathered the reports of its children, reported to its
\* parent, and been woken; and how often its wakeup parent has signalled it.
Gathers(p) == tree_it[p] + (IF tree_pc[p] \in {"report", "wait", "wake", "wake2"} THEN 1 ELSE 0)
Reports(p) == tree_it[p] + (IF tree_pc[p] \in {"wait", "wake", "wake2"} THEN 1 ELSE 0)
Wakes(p) == tree_it[p] + (IF tree_pc[p] \in {"wake", "wake2"} THEN 1 ELSE 0)
Signals(p) == tree_it[WP(p)]
                + (IF tree_pc[WP(p)] = "wake2" /\ p = 2 * WP(p) + 1 THEN 1 ELSE 0)

\* How many reports of p its parent has received.
Received(p) == Reports(p) - tree_sent[<<p, AP(p)>>]

\* The root does not report; a rank inside is in a call the harness makes.
TreeControl ==
    /\ tree_pc[0] \notin {"report", "wait"}
    /\ \A p \in R : tree_pc[p] # "loop" => tree_it[p] < NumIter

\* A message is a report to the arrival parent or a signal of the wakeup
\* parent, and the signals in flight are those the rank was not yet woken by.
InFlight ==
    /\ \A s, d \in R : tree_sent[<<s, d>>] > 0 =>
         (s # 0 /\ d = AP(s)) \/ (d # 0 /\ s = WP(d))
    /\ \A d \in R \ {0} : tree_sent[<<WP(d), d>>] = Signals(d) - Wakes(d)

\* A parent receives one report of each child in each call.
Receives ==
    \A c \in R \ {0} :
        /\ tree_pc[AP(c)] = "loop" => Received(c) = tree_it[AP(c)]
        /\ tree_pc[AP(c)] = "gather" =>
             Received(c) = tree_it[AP(c)] \/ Received(c) = tree_it[AP(c)] + 1
        /\ tree_pc[AP(c)] \notin {"loop", "gather"} => Received(c) = tree_it[AP(c)] + 1

\* finished_children counts them.
Arrived(p) == {c \in Children(p) : Received(c) = tree_it[p] + 1}
Finished ==
    \A p \in R : tree_pc[p] = "gather" => finished[p] = Cardinality(Arrived(p))

\* Nobody is woken for a call before the root has gathered.
WokenInOrder == \A p \in R : Wakes(p) <= Gathers(0)

TreeInv ==
    Tree!TypeOK /\ TreeControl /\ InFlight /\ Receives /\ Finished /\ WokenInOrder

-----------------------------------------------------------------------------
(* The shape of the two trees *)

\* Ranks are the numbers below NumParties.
LEMMA RanksAre ==
    /\ NumParties \in Nat /\ NumParties > 0 /\ NumIter \in Nat
    /\ \A t : t \in R <=> t \in Nat /\ t < NumParties
    /\ 0 \in R /\ Tree!Ranks = R /\ Diss!Ranks = R
  BY NumberingAssumption, CombinedAssumption
  DEF R, Diss!Parties, Diss!Ranks, Tree!Ranks, Tree!Parties

\* The rank (rank - 1) / 4 a rank reports to, and whose reports a rank gathers.
LEMMA ArrivalTree ==
    ASSUME NEW t \in R, t # 0
    PROVE  /\ AP(t) \in R /\ AP(t) < t
           /\ \A p \in R : AP(t) = p <=> 4 * p + 1 <= t /\ t <= 4 * p + 4
  <1> DEFINE a == (t - 1) \div 4
  <1>1. t \in Nat /\ t < NumParties
    BY RanksAre
  <1>2. a \in Nat /\ 4 * a + 1 <= t /\ t <= 4 * a + 4
    BY <1>1
  <1> HIDE DEF a
  <1>3. a < t /\ a \in R
    BY <1>1, <1>2, RanksAre
  <1>4. \A q \in Nat : a = q <=> 4 * q + 1 <= t /\ t <= 4 * q + 4
    BY <1>1, <1>2
  <1> QED
    BY <1>3, <1>4, RanksAre DEF a, AP, Tree!ArrivalParent

\* The rank (rank - 1) / 2 that wakes a rank up, and the two ranks it wakes.
LEMMA WakeupTree ==
    ASSUME NEW t \in R, t # 0
    PROVE  /\ WP(t) \in R /\ WP(t) < t
           /\ t = 2 * WP(t) + 1 \/ t = 2 * WP(t) + 2
           /\ \A p \in R : t = 2 * p + 1 \/ t = 2 * p + 2 => p = WP(t)
  <1> DEFINE a == (t - 1) \div 2
  <1>1. t \in Nat /\ t < NumParties
    BY RanksAre
  <1>2. a \in Nat /\ (t = 2 * a + 1 \/ t = 2 * a + 2)
    BY <1>1
  <1> HIDE DEF a
  <1>3. a < t /\ a \in R
    BY <1>1, <1>2, RanksAre
  <1>4. \A q \in Nat : t = 2 * q + 1 \/ t = 2 * q + 2 => q = a
    BY <1>1, <1>2
  <1> QED
    BY <1>2, <1>3, <1>4, RanksAre DEF a, WP, Tree!WakeupParent

\* Reports go to smaller ranks and signals to larger ones.
LEMMA PairsDiffer ==
    ASSUME NEW c \in R, NEW d \in R, c # 0, d # 0
    PROVE  <<c, AP(c)>> # <<WP(d), d>>
  <1>1. AP(c) \in Nat /\ WP(d) \in Nat /\ AP(c) < c /\ WP(d) < d /\ c \in Nat /\ d \in Nat
    BY ArrivalTree, WakeupTree, RanksAre
  <1> QED
    BY <1>1

\* num_children is the number of children, the consecutive ranks the assert
\* on MPI_SOURCE allows.
LEMMA ChildrenAre ==
    ASSUME NEW p \in R
    PROVE  /\ Children(p) = Tree!first_child(p) .. Tree!first_child(p) + Tree!num_children(p) - 1
           /\ IsFiniteSet(Children(p)) /\ Cardinality(Children(p)) = Tree!num_children(p)
           /\ Tree!num_children(p) \in 0 .. 4
  <1> DEFINE f == 4 * p + 1
  <1> DEFINE n == Tree!num_children(p)
  <1>1. p \in Nat /\ p < NumParties /\ NumParties \in Nat
    BY RanksAre
  <1>2. n \in 0 .. 4 /\ n = IF NumParties - f < 0 THEN 0 ELSE IF NumParties - f > 4 THEN 4
                              ELSE NumParties - f
    BY <1>1 DEF Tree!num_children, Tree!first_child
  <1>3. ASSUME NEW c PROVE c \in Children(p) <=> c \in f .. f + n - 1
    <2>1. c \in Children(p) <=> c \in Nat /\ c < NumParties /\ c # 0 /\ f <= c /\ c <= f + 3
      BY <1>1, ArrivalTree, RanksAre DEF Children
    <2> HIDE DEF n
    <2> QED
      BY <2>1, <1>1, <1>2
  <1>4. Children(p) = f .. f + n - 1
    BY <1>3
  <1>5. IsFiniteSet(f .. f + n - 1) /\ Cardinality(f .. f + n - 1) = n
    <2> HIDE DEF n
    <2>1. f \in Int /\ f + n - 1 \in Int /\ n \in Nat
      BY <1>1, <1>2
    <2>2. IsFiniteSet(f .. f + n - 1)
      BY <2>1, FS_Interval
    <2>3. Cardinality(f .. f + n - 1) = IF f > f + n - 1 THEN 0 ELSE (f + n - 1) - f + 1
      BY <2>1, FS_Interval
    <2> QED
      BY <2>1, <2>2, <2>3
  <1> QED
    BY <1>2, <1>4, <1>5 DEF Tree!first_child

\* A nonempty set of natural numbers has a least member.
LEMMA Least ==
    ASSUME NEW S \in SUBSET Nat, S # {}
    PROVE  \E t \in S : \A u \in S : t <= u
  <1>1. PICK t \in S : \A u \in S : ~(<<u, t>> \in OpToRel(<, Nat))
    BY NatLessThanWellFounded, WFMin, Zenon
  <1>2. \A u \in S : ~(u < t)
    BY <1>1 DEF OpToRel
  <1> QED
    BY <1>2

-----------------------------------------------------------------------------
(* The tree barrier keeps its invariant *)

TreeLabels == {"loop", "gather", "report", "wait", "wake", "wake2"}

\* Tree!TypeOK, with the ranks named.
LEMMA TreeTypes ==
    ASSUME Tree!TypeOK
    PROVE  /\ tree_sent \in [R \X R -> Nat]
           /\ tree_pc \in [R -> TreeLabels]
           /\ finished \in [R -> 0 .. 4]
           /\ tree_it \in [R -> 0 .. NumIter]
           /\ \A p \in R : tree_it[p] \in Nat /\ tree_it[p] <= NumIter
           /\ \A s, d \in R : tree_sent[<<s, d>>] \in Nat
  BY RanksAre DEF Tree!TypeOK, TreeLabels

\* How the counts of one rank compare.
LEMMA TreeCounts ==
    ASSUME Tree!TypeOK, NEW p \in R
    PROVE  /\ Gathers(p) \in Nat /\ Reports(p) \in Nat /\ Wakes(p) \in Nat
           /\ tree_it[p] <= Wakes(p) /\ Wakes(p) <= Reports(p) /\ Reports(p) <= Gathers(p)
           /\ Reports(p) <= Wakes(p) + 1 /\ Gathers(p) <= tree_it[p] + 1
  BY TreeTypes DEF Gathers, Reports, Wakes

\* A parent has received what was sent to it and is no longer in flight, one
\* report of each child for each time it has gathered.
LEMMA ReceivedBound ==
    ASSUME Tree!TypeOK, Receives, NEW c \in R, c # 0
    PROVE  /\ Received(c) \in Int /\ Received(c) <= Reports(c)
           /\ Gathers(AP(c)) <= Received(c)
           /\ tree_sent[<<c, AP(c)>>] = Reports(c) - Received(c)
  <1>1. AP(c) \in R
    BY ArrivalTree
  <1>2. tree_sent[<<c, AP(c)>>] \in Nat /\ Reports(c) \in Nat
    BY <1>1, TreeTypes, TreeCounts
  <1>3. Received(c) \in Int /\ Received(c) <= Reports(c)
          /\ tree_sent[<<c, AP(c)>>] = Reports(c) - Received(c)
    BY <1>2 DEF Received
  <1>4. Gathers(AP(c)) <= Received(c)
    BY <1>1, <1>3, TreeTypes DEF Receives, Gathers
  <1> QED
    BY <1>3, <1>4

\* The root is the last to gather: of the ranks that had gathered less often
\* the least would have a parent that had not, and a child is never behind.
LEMMA RootLast ==
    ASSUME Tree!TypeOK, Receives, NEW u \in R
    PROVE  Gathers(0) <= Gathers(u) /\ (u # 0 => Gathers(0) <= Reports(u))
  <1> DEFINE Behind == {t \in R : Gathers(t) < Gathers(0)}
  <1>1. ASSUME Behind # {} PROVE FALSE
    <2>1. PICK t \in Behind : \A v \in Behind : t <= v
      <3>1. Behind \in SUBSET Nat
        BY RanksAre
      <3> HIDE DEF Behind
      <3> QED
        BY <3>1, <1>1, Least
    <2>2. t \in R /\ t # 0
      BY <2>1, RanksAre, TreeCounts
    <2>3. AP(t) \in R /\ AP(t) < t
      BY <2>2, ArrivalTree
    <2>4. Gathers(0) <= Gathers(AP(t))
      <3>1. AP(t) \notin Behind
        BY <2>1, <2>2, <2>3, RanksAre
      <3> QED
        BY <3>1, <2>3, RanksAre, TreeCounts
    <2>5. Gathers(AP(t)) <= Received(t) /\ Received(t) <= Reports(t) /\ Received(t) \in Int
      BY <2>2, ReceivedBound
    <2>6. /\ Reports(t) <= Gathers(t) /\ Reports(t) \in Nat /\ Gathers(t) \in Nat
          /\ Gathers(AP(t)) \in Nat /\ Gathers(0) \in Nat /\ Gathers(t) < Gathers(0)
      BY <2>1, <2>2, <2>3, RanksAre, TreeCounts
    <2> QED
      BY <2>4, <2>5, <2>6
  <1>2. \A v \in R : Gathers(0) <= Gathers(v)
    BY <1>1, RanksAre, TreeCounts
  <1>3. ASSUME u # 0 PROVE Gathers(0) <= Reports(u)
    <2>1. AP(u) \in R
      BY <1>3, ArrivalTree
    <2>2. Gathers(AP(u)) <= Received(u) /\ Received(u) <= Reports(u) /\ Received(u) \in Int
      BY <1>3, ReceivedBound
    <2>3. Reports(u) \in Nat /\ Gathers(AP(u)) \in Nat /\ Gathers(0) \in Nat
      BY <2>1, RanksAre, TreeCounts
    <2> QED
      BY <2>1, <2>2, <2>3, <1>2
  <1> QED
    BY <1>2, <1>3

\* A rank is signalled for no call that the root has not gathered for.
LEMMA SignalsBound ==
    ASSUME TreeInv, NEW d \in R, d # 0
    PROVE  /\ Signals(d) \in Nat /\ Wakes(d) <= Signals(d)
           /\ Signals(d) <= Gathers(0) /\ Gathers(0) <= Reports(d)
           /\ tree_sent[<<WP(d), d>>] = Signals(d) - Wakes(d)
  <1>1. WP(d) \in R /\ tree_sent[<<WP(d), d>>] \in Nat
    BY WakeupTree, TreeTypes DEF TreeInv
  <1>2. Signals(d) \in Nat /\ Signals(d) <= Wakes(WP(d))
    BY <1>1, TreeTypes DEF TreeInv, Signals, Wakes
  <1>3. tree_sent[<<WP(d), d>>] = Signals(d) - Wakes(d) /\ Wakes(d) \in Nat
    BY TreeCounts DEF TreeInv, InFlight
  <1>4. Wakes(WP(d)) <= Gathers(0) /\ Wakes(WP(d)) \in Nat /\ Gathers(0) \in Nat
    BY <1>1, RanksAre, TreeCounts DEF TreeInv, WokenInOrder
  <1>5. Gathers(0) <= Reports(d)
    BY RootLast DEF TreeInv
  <1> QED
    BY <1>1, <1>2, <1>3, <1>4, <1>5

\* What a rank that gathers can find: the report of a child for this call.
LEMMA OnlyReports ==
    ASSUME TreeInv, NEW p \in R, NEW c \in R, tree_pc[p] = "gather", tree_sent[<<c, p>>] > 0
    PROVE  /\ c # 0 /\ AP(c) = p /\ c \in Children(p)
           /\ tree_sent[<<c, p>>] = 1 /\ tree_it[c] = tree_it[p]
           /\ Received(c) = tree_it[p]
  <1>1. /\ Gathers(p) = tree_it[p] /\ Reports(p) = tree_it[p] /\ Wakes(p) = tree_it[p]
        /\ tree_it[p] \in Nat /\ tree_it[c] \in Nat
    BY TreeTypes DEF TreeInv, Gathers, Reports, Wakes
  <1>2. ~(p # 0 /\ c = WP(p))
    BY <1>1, SignalsBound, RanksAre, TreeCounts DEF TreeInv
  <1>3. c # 0 /\ AP(c) = p
    BY <1>2 DEF TreeInv, InFlight
  <1>4. Wakes(c) <= tree_it[p] /\ Wakes(c) \in Nat
    <2>1. Wakes(c) <= Gathers(0) /\ Gathers(0) <= Gathers(p) /\ Gathers(0) \in Nat
      BY RootLast, RanksAre, TreeCounts DEF TreeInv, WokenInOrder
    <2> QED
      BY <2>1, <1>1, TreeCounts DEF TreeInv
  <1>5. /\ Reports(c) <= tree_it[p] + 1 /\ Reports(c) \in Nat
        /\ Received(c) \in Int /\ tree_it[p] <= Received(c)
        /\ tree_sent[<<c, p>>] = Reports(c) - Received(c)
    BY <1>1, <1>3, <1>4, TreeCounts, ReceivedBound DEF TreeInv
  <1>6. tree_sent[<<c, p>>] = 1 /\ Received(c) = tree_it[p] /\ Reports(c) = tree_it[p] + 1
    BY <1>1, <1>5, TreeTypes DEF TreeInv
  <1>7. tree_it[c] = tree_it[p]
    BY <1>1, <1>4, <1>6 DEF Reports, Wakes
  <1> QED
    BY <1>3, <1>6, <1>7 DEF Children

\* The harness calls gtmpi_barrier: nothing has been gathered for this call.
LEMMA EnterTree == ASSUME TreeInv, NEW p \in R, Tree!Enter(p) PROVE TreeInv'
  <1> USE RanksAre, TreeTypes DEF TreeInv, Tree!Enter
  <1>1. Tree!TypeOK' /\ TreeControl'
    BY DEF Tree!TypeOK, TreeControl
  <1>2. \A q \in R : /\ Gathers(q)' = Gathers(q) /\ Reports(q)' = Reports(q)
                           /\ Wakes(q)' = Wakes(q)
    BY DEF Gathers, Reports, Wakes
  <1>3. \A c \in R \ {0} : Signals(c)' = Signals(c) /\ Received(c)' = Received(c)
    BY <1>2, WakeupTree DEF Signals, Received
  <1>4. InFlight' /\ WokenInOrder'
    BY <1>2, <1>3 DEF InFlight, WokenInOrder
  <1>5. Receives'
    BY <1>3, ArrivalTree DEF Receives
  <1>6. Finished'
    <2>1. ASSUME NEW q \in R PROVE Arrived(q)' = Arrived(q)
      BY <1>3 DEF Arrived, Children
    <2>2. Arrived(p) = {}
      BY DEF Arrived, Children, Receives
    <2> QED
      BY <2>1, <2>2, FS_EmptySet DEF Finished
  <1> QED
    BY <1>1, <1>4, <1>5, <1>6

\* A report is received: the first one of its sender in this call.
LEMMA GatherTree == ASSUME TreeInv, NEW p \in R, Tree!Gather(p) PROVE TreeInv'
  <1> USE RanksAre, TreeTypes DEF TreeInv, Tree!Gather
  <1>1. PICK c \in R : tree_sent[<<c, p>>] > 0 /\ tree_sent' = [tree_sent EXCEPT ![<<c, p>>] = @ - 1]
    OBVIOUS
  <1>2. c # 0 /\ AP(c) = p /\ c \in Children(p) /\ Received(c) = tree_it[p]
    BY <1>1, OnlyReports
  <1>3. \A s, d \in R : tree_sent'[<<s, d>>] = IF s = c /\ d = p THEN tree_sent[<<c, p>>] - 1
                                                ELSE tree_sent[<<s, d>>]
    BY <1>1
  <1>4. finished[p] < Tree!num_children(p) /\ Tree!num_children(p) \in 0 .. 4
    BY ChildrenAre
  <1>5. Tree!TypeOK' /\ TreeControl'
    <2>1. tree_sent' \in [R \X R -> Nat]
      BY <1>1
    <2>2. finished' \in [R -> 0 .. 4]
      BY <1>4
    <2> QED
      BY <2>1, <2>2 DEF Tree!TypeOK, TreeControl
  <1>6. \A q \in R : /\ Gathers(q)' = Gathers(q) /\ Reports(q)' = Reports(q)
                           /\ Wakes(q)' = Wakes(q)
    BY DEF Gathers, Reports, Wakes
  <1>7. \A d \in R \ {0} : Signals(d)' = Signals(d)
    BY DEF Signals
  <1>8. \A d \in R \ {0} : Received(d)' = IF d = c THEN Received(c) + 1 ELSE Received(d)
    <2> SUFFICES ASSUME NEW d \in R, d # 0
                 PROVE  Received(d)' = IF d = c THEN Received(c) + 1 ELSE Received(d)
      BY Zenon
    <2>1. AP(d) \in R /\ Reports(d) \in Nat /\ Reports(d)' = Reports(d) /\ tree_sent[<<c, p>>] \in Nat
      BY <1>6, ArrivalTree, TreeCounts
    <2>2. tree_sent'[<<d, AP(d)>>] = IF d = c THEN tree_sent[<<c, p>>] - 1
                                     ELSE tree_sent[<<d, AP(d)>>]
      BY <2>1, <1>2, <1>3
    <2>3. Received(d)' = Reports(d) - tree_sent'[<<d, AP(d)>>]
      BY <2>1 DEF Received, AP
    <2>4. CASE d = c
      BY <2>1, <2>2, <2>3, <2>4, <1>2 DEF Received
    <2>5. CASE d # c
      BY <2>1, <2>2, <2>3, <2>5 DEF Received
    <2> QED
      BY <2>4, <2>5
  <1>9. InFlight'
    <2>1. \A d \in R \ {0} : tree_sent'[<<WP(d), d>>] = tree_sent[<<WP(d), d>>]
      <3>1. \A d \in R \ {0} : WP(d) \in R /\ ~(WP(d) = c /\ d = p)
        BY <1>2, PairsDiffer, WakeupTree
      <3> QED
        BY <3>1, <1>3
    <2>2. \A s, d \in R : tree_sent'[<<s, d>>] > 0 => tree_sent[<<s, d>>] > 0
      BY <1>1, <1>3
    <2> QED
      BY <2>1, <2>2, <1>6, <1>7 DEF InFlight
  <1>10. WokenInOrder'
    BY <1>6 DEF WokenInOrder
  <1>11. Receives'
    BY <1>2, <1>8, ArrivalTree DEF Receives
  <1>12. Finished'
    <2>1. Arrived(p)' = Arrived(p) \cup {c} /\ c \notin Arrived(p)
      BY <1>2, <1>8 DEF Arrived, Children
    <2>2. IsFiniteSet(Arrived(p))
      BY ChildrenAre, FS_Subset DEF Arrived
    <2>3. Cardinality(Arrived(p)') = Cardinality(Arrived(p)) + 1
      BY <2>1, <2>2, FS_AddElement
    <2>4. ASSUME NEW q \in R, q # p PROVE Arrived(q)' = Arrived(q) /\ finished'[q] = finished[q]
      BY <2>4, <1>2, <1>8 DEF Arrived, Children
    <2>5. finished'[p] = finished[p] + 1
      OBVIOUS
    <2> QED
      BY <2>3, <2>4, <2>5 DEF Finished
  <1> QED
    BY <1>5, <1>9, <1>10, <1>11, <1>12

\* The loop ends when every child has been counted.
LEMMA GatheredTree == ASSUME TreeInv, NEW p \in R, Tree!Gathered(p) PROVE TreeInv'
  <1> USE RanksAre, TreeTypes DEF TreeInv, Tree!Gathered
  <1>1. Tree!TypeOK' /\ TreeControl'
    BY DEF Tree!TypeOK, TreeControl
  <1>2. \A c \in Children(p) : Received(c) = tree_it[p] + 1
    <2>1. Arrived(p) \in SUBSET Children(p) /\ Cardinality(Arrived(p)) = Cardinality(Children(p))
      BY ChildrenAre DEF Arrived, Finished
    <2>2. Arrived(p) = Children(p)
      BY <2>1, ChildrenAre, FS_Subset
    <2> QED
      BY <2>2 DEF Arrived
  <1>3. \A q \in R : /\ q # p => Gathers(q)' = Gathers(q) /\ Wakes(q)' = Wakes(q)
                     /\ q # 0 => Wakes(q)' = Wakes(q) /\ Reports(q)' = Reports(q)
    BY DEF Gathers, Reports, Wakes
  <1>4. Gathers(p)' = Gathers(p) + 1 /\ (p = 0 => Wakes(0)' = Gathers(0)')
    BY DEF Gathers, Wakes
  <1>5. \A c \in R \ {0} : Signals(c)' = Signals(c) /\ Received(c)' = Received(c)
    BY <1>3, WakeupTree DEF Signals, Received
  <1>6. InFlight'
    BY <1>3, <1>5 DEF InFlight
  <1>7. WokenInOrder'
    <2>1. Gathers(0) \in Nat /\ Gathers(0)' \in Nat /\ Gathers(0) <= Gathers(0)'
      BY <1>3, <1>4, TreeCounts
    <2>2. \A q \in R : Wakes(q) \in Nat /\ (q # 0 \/ p # 0 => Wakes(q)' = Wakes(q))
      BY <1>3, TreeCounts
    <2> QED
      BY <2>1, <2>2, <1>4 DEF WokenInOrder
  <1>8. Receives'
    BY <1>2, <1>5, ArrivalTree DEF Receives, Children
  <1>9. Finished'
    <2>1. ASSUME NEW q \in R PROVE Arrived(q)' = Arrived(q)
      BY <1>5 DEF Arrived, Children
    <2> QED
      BY <2>1 DEF Finished
  <1> QED
    BY <1>1, <1>6, <1>7, <1>8, <1>9

\* A report is sent; it is received later.
LEMMA ReportTree == ASSUME TreeInv, NEW p \in R, Tree!Report(p) PROVE TreeInv'
  <1> USE RanksAre, TreeTypes DEF TreeInv, Tree!Report
  <1>1. p # 0 /\ AP(p) \in R
    BY ArrivalTree DEF TreeControl
  <1>2. \A s, d \in R : tree_sent'[<<s, d>>] = IF s = p /\ d = AP(p) THEN tree_sent[<<s, d>>] + 1
                                                ELSE tree_sent[<<s, d>>]
    BY <1>1 DEF AP
  <1>3. Tree!TypeOK' /\ TreeControl'
    <2>1. tree_sent' \in [R \X R -> Nat]
      BY <1>1 DEF AP
    <2> QED
      BY <2>1, <1>1 DEF Tree!TypeOK, TreeControl
  <1>4. \A q \in R : /\ Gathers(q)' = Gathers(q) /\ Wakes(q)' = Wakes(q)
                     /\ Reports(q)' = IF q = p THEN Reports(q) + 1 ELSE Reports(q)
    BY DEF Gathers, Reports, Wakes
  <1>5. \A c \in R \ {0} : Signals(c)' = Signals(c)
    BY WakeupTree DEF Signals
  <1>6. \A c \in R \ {0} : Received(c)' = Received(c)
    <2>1. \A c \in R \ {0} : AP(c) \in R /\ Reports(c) \in Nat
      BY ArrivalTree, TreeCounts
    <2> QED
      BY <2>1, <1>2, <1>4 DEF Received
  <1>7. InFlight'
    <2>1. \A d \in R \ {0} : WP(d) \in R /\ ~(WP(d) = p /\ d = AP(p))
      BY <1>1, PairsDiffer, WakeupTree
    <2> QED
      BY <2>1, <1>1, <1>2, <1>4, <1>5 DEF InFlight
  <1>8. WokenInOrder' /\ Receives'
    BY <1>4, <1>6, ArrivalTree DEF WokenInOrder, Receives
  <1>9. Finished'
    <2>1. ASSUME NEW q \in R PROVE Arrived(q)' = Arrived(q)
      BY <1>6 DEF Arrived, Children
    <2> QED
      BY <2>1 DEF Finished
  <1> QED
    BY <1>3, <1>7, <1>8, <1>9

\* A signal is received: the root has gathered for this call.
LEMMA AwakeTree == ASSUME TreeInv, NEW p \in R, Tree!Awake(p) PROVE TreeInv'
  <1> USE RanksAre, TreeTypes DEF TreeInv, Tree!Awake
  <1>1. p # 0 /\ WP(p) \in R
    BY WakeupTree DEF TreeControl
  <1>2. \A s, d \in R : tree_sent'[<<s, d>>] = IF s = WP(p) /\ d = p THEN tree_sent[<<s, d>>] - 1
                                                ELSE tree_sent[<<s, d>>]
    BY <1>1 DEF WP
  <1>3. tree_sent[<<WP(p), p>>] > 0
    BY DEF WP
  <1>4. Tree!TypeOK' /\ TreeControl'
    <2>1. tree_sent' \in [R \X R -> Nat]
      BY <1>1, <1>3 DEF WP
    <2> QED
      BY <2>1, <1>1 DEF Tree!TypeOK, TreeControl
  <1>5. \A q \in R : /\ Gathers(q)' = Gathers(q) /\ Reports(q)' = Reports(q)
                     /\ Wakes(q)' = IF q = p THEN Wakes(q) + 1 ELSE Wakes(q)
    BY DEF Gathers, Reports, Wakes
  <1>6. \A d \in R \ {0} : Signals(d)' = Signals(d)
    BY WakeupTree DEF Signals
  <1>7. \A c \in R \ {0} : Received(c)' = Received(c)
    <2>1. \A c \in R \ {0} : AP(c) \in R /\ ~(c = WP(p) /\ AP(c) = p)
      BY <1>1, PairsDiffer, ArrivalTree
    <2> QED
      BY <2>1, <1>2, <1>5 DEF Received
  <1>8. InFlight'
    <2>1. \A d \in R \ {0} : WP(d) \in R /\ Signals(d) \in Nat /\ Wakes(d) \in Nat
      BY WakeupTree, SignalsBound, TreeCounts
    <2>2. \A s, d \in R : tree_sent'[<<s, d>>] > 0 => tree_sent[<<s, d>>] > 0
      BY <1>2, <1>3
    <2>3. \A d \in R \ {0} : tree_sent'[<<WP(d), d>>] = Signals(d)' - Wakes(d)'
      BY <2>1, <1>1, <1>2, <1>5, <1>6 DEF InFlight
    <2> QED
      BY <2>2, <2>3 DEF InFlight
  <1>9. WokenInOrder'
    <2>1. Wakes(p) + 1 <= Gathers(0)
      BY <1>1, <1>3, SignalsBound, TreeCounts
    <2> QED
      BY <2>1, <1>5 DEF WokenInOrder
  <1>10. Receives'
    BY <1>7, ArrivalTree DEF Receives
  <1>11. Finished'
    <2>1. ASSUME NEW q \in R PROVE Arrived(q)' = Arrived(q)
      BY <1>7 DEF Arrived, Children
    <2> QED
      BY <2>1 DEF Finished
  <1> QED
    BY <1>4, <1>8, <1>9, <1>10, <1>11

\* The first child is signalled.
LEMMA WakeFirstTree == ASSUME TreeInv, NEW p \in R, Tree!WakeFirst(p) PROVE TreeInv'
  <1> USE RanksAre, TreeTypes DEF TreeInv, Tree!WakeFirst
  <1>1. ASSUME NEW s \in R, NEW d \in R
        PROVE  tree_sent'[<<s, d>>] = IF s = p /\ d = 2 * p + 1 THEN tree_sent[<<s, d>>] + 1
                                      ELSE tree_sent[<<s, d>>]
    <2>1. tree_sent'[<<s, d>>]
            = tree_sent[<<s, d>>] + (IF <<s, d>> = <<p, 2 * p + 1>> THEN 1 ELSE 0)
      BY DEF Tree!Woken
    <2>2. <<s, d>> = <<p, 2 * p + 1>> <=> s = p /\ d = 2 * p + 1
      OBVIOUS
    <2>3. tree_sent[<<s, d>>] \in Nat
      OBVIOUS
    <2> HIDE DEF Tree!WakeFirst, Tree!WakeSecond
    <2> QED
      BY <2>1, <2>2, <2>3
  <1>2. Tree!TypeOK' /\ TreeControl'
    <2>1. tree_sent' \in [R \X R -> Nat]
      BY DEF Tree!Woken
    <2> QED
      BY <2>1 DEF Tree!TypeOK, TreeControl
  <1>3. \A q \in R : /\ Gathers(q)' = Gathers(q) /\ Reports(q)' = Reports(q)
                           /\ Wakes(q)' = Wakes(q)
    BY DEF Gathers, Reports, Wakes
  <1>4. ASSUME NEW d \in R, d # 0
        PROVE  Signals(d)' = IF d = 2 * p + 1 THEN Signals(d) + 1 ELSE Signals(d)
    <2>1. WP(d) \in R /\ (d = 2 * WP(d) + 1 \/ d = 2 * WP(d) + 2)
            /\ (d = 2 * p + 1 \/ d = 2 * p + 2 => p = WP(d)) /\ d \in Nat /\ p \in Nat
      BY <1>4, WakeupTree
    <2> QED
      BY <2>1 DEF Signals
  <1>5. \A c \in R \ {0} : Received(c)' = Received(c)
    <2>1. \A c \in R \ {0} : AP(c) \in R /\ ~(c = p /\ AP(c) = 2 * p + 1)
      BY ArrivalTree
    <2> QED
      BY <2>1, <1>1, <1>3 DEF Received
  <1>6. InFlight'
    <2>1. ASSUME NEW d \in R, d # 0
          PROVE  tree_sent'[<<WP(d), d>>] = Signals(d)' - Wakes(d)'
      <3>1. WP(d) \in R /\ (d = 2 * p + 1 => p = WP(d)) /\ Signals(d) \in Nat /\ Wakes(d) \in Nat
        BY <2>1, WakeupTree, SignalsBound, TreeCounts
      <3>2. tree_sent[<<WP(d), d>>] = Signals(d) - Wakes(d)
        BY <2>1 DEF InFlight
      <3> QED
        BY <3>1, <3>2, <2>1, <1>1, <1>3, <1>4
    <2>2. ASSUME NEW s \in R, NEW d \in R, tree_sent'[<<s, d>>] > 0
          PROVE  (s # 0 /\ d = AP(s)) \/ (d # 0 /\ s = WP(d))
      BY <2>2, <1>1, WakeupTree DEF InFlight
    <2> QED
      BY <2>1, <2>2 DEF InFlight
  <1>7. WokenInOrder'
    BY <1>3 DEF WokenInOrder
  <1>8. Receives'
    BY <1>5, ArrivalTree DEF Receives
  <1>9. Finished'
    <2>1. ASSUME NEW q \in R, tree_pc'[q] = "gather" PROVE Arrived(q)' = Arrived(q) /\ tree_pc[q] = "gather"
      BY <2>1, <1>5 DEF Arrived, Children
    <2> QED
      BY <2>1 DEF Finished
  <1> QED
    BY <1>2, <1>6, <1>7, <1>8, <1>9

\* The second child is signalled and the call returns.
LEMMA WakeSecondTree == ASSUME TreeInv, NEW p \in R, Tree!WakeSecond(p) PROVE TreeInv'
  <1> USE RanksAre, TreeTypes DEF TreeInv, Tree!WakeSecond
  <1>1. ASSUME NEW s \in R, NEW d \in R
        PROVE  tree_sent'[<<s, d>>] = IF s = p /\ d = 2 * p + 2 THEN tree_sent[<<s, d>>] + 1
                                      ELSE tree_sent[<<s, d>>]
    <2>1. tree_sent'[<<s, d>>]
            = tree_sent[<<s, d>>] + (IF <<s, d>> = <<p, 2 * p + 2>> THEN 1 ELSE 0)
      BY DEF Tree!Woken
    <2>2. <<s, d>> = <<p, 2 * p + 2>> <=> s = p /\ d = 2 * p + 2
      OBVIOUS
    <2>3. tree_sent[<<s, d>>] \in Nat
      OBVIOUS
    <2> HIDE DEF Tree!WakeFirst, Tree!WakeSecond
    <2> QED
      BY <2>1, <2>2, <2>3
  <1>2. Tree!TypeOK' /\ TreeControl'
    <2>1. tree_sent' \in [R \X R -> Nat]
      BY DEF Tree!Woken
    <2> QED
      BY <2>1 DEF Tree!TypeOK, TreeControl
  <1>3. \A q \in R : /\ Gathers(q)' = Gathers(q) /\ Reports(q)' = Reports(q)
                           /\ Wakes(q)' = Wakes(q)
    BY DEF Gathers, Reports, Wakes
  <1>4. ASSUME NEW d \in R, d # 0
        PROVE  Signals(d)' = IF d = 2 * p + 2 THEN Signals(d) + 1 ELSE Signals(d)
    <2>1. WP(d) \in R /\ (d = 2 * WP(d) + 1 \/ d = 2 * WP(d) + 2)
            /\ (d = 2 * p + 1 \/ d = 2 * p + 2 => p = WP(d)) /\ d \in Nat /\ p \in Nat
      BY <1>4, WakeupTree
    <2> QED
      BY <2>1 DEF Signals
  <1>5. \A c \in R \ {0} : Received(c)' = Received(c)
    <2>1. \A c \in R \ {0} : AP(c) \in R /\ ~(c = p /\ AP(c) = 2 * p + 2)
      BY ArrivalTree
    <2> QED
      BY <2>1, <1>1, <1>3 DEF Received
  <1>6. InFlight'
    <2>1. ASSUME NEW d \in R, d # 0
          PROVE  tree_sent'[<<WP(d), d>>] = Signals(d)' - Wakes(d)'
      <3>1. WP(d) \in R /\ (d = 2 * p + 2 => p = WP(d)) /\ Signals(d) \in Nat /\ Wakes(d) \in Nat
        BY <2>1, WakeupTree, SignalsBound, TreeCounts
      <3>2. tree_sent[<<WP(d), d>>] = Signals(d) - Wakes(d)
        BY <2>1 DEF InFlight
      <3> QED
        BY <3>1, <3>2, <2>1, <1>1, <1>3, <1>4
    <2>2. ASSUME NEW s \in R, NEW d \in R, tree_sent'[<<s, d>>] > 0
          PROVE  (s # 0 /\ d = AP(s)) \/ (d # 0 /\ s = WP(d))
      BY <2>2, <1>1, WakeupTree DEF InFlight
    <2> QED
      BY <2>1, <2>2 DEF InFlight
  <1>7. WokenInOrder'
    BY <1>3 DEF WokenInOrder
  <1>8. Receives'
    BY <1>5, ArrivalTree DEF Receives
  <1>9. Finished'
    <2>1. ASSUME NEW q \in R, tree_pc'[q] = "gather" PROVE Arrived(q)' = Arrived(q) /\ tree_pc[q] = "gather"
      BY <2>1, <1>5 DEF Arrived, Children
    <2> QED
      BY <2>1 DEF Finished
  <1> QED
    BY <1>2, <1>6, <1>7, <1>8, <1>9

\* Initially nothing is in flight and nobody has been signalled.
LEMMA InitTree == ASSUME Tree!Init PROVE TreeInv
  <1> USE RanksAre DEF Tree!Init
  <1>1. Tree!TypeOK /\ TreeControl
    BY DEF Tree!TypeOK, TreeControl
  <1>2. \A p \in R : Gathers(p) = 0 /\ Reports(p) = 0 /\ Wakes(p) = 0
    BY DEF Gathers, Reports, Wakes
  <1>3. \A c \in R \ {0} : WP(c) \in R /\ AP(c) \in R
    BY WakeupTree, ArrivalTree
  <1>4. \A c \in R \ {0} : Signals(c) = 0 /\ Received(c) = 0
    BY <1>2, <1>3 DEF Signals, Received
  <1>5. InFlight /\ Receives /\ Finished /\ WokenInOrder
    BY <1>2, <1>3, <1>4 DEF InFlight, Receives, Finished, WokenInOrder
  <1> QED
    BY <1>1, <1>5 DEF TreeInv

\* Every step of gtmpi2.c keeps the invariant.
LEMMA NextTree ==
    ASSUME TreeInv, (\E p \in R : Tree!Step(p)) \/ UNCHANGED tree_vars
    PROVE  TreeInv'
  <1>1. CASE UNCHANGED tree_vars
    BY <1>1
    DEF tree_vars, TreeInv, Tree!TypeOK, TreeControl, InFlight, Receives, Finished, Arrived,
        WokenInOrder, Children, Received, Signals, Wakes, Reports, Gathers
  <1> QED
    BY <1>1, EnterTree, GatherTree, GatheredTree, ReportTree, AwakeTree, WakeFirstTree,
       WakeSecondTree
    DEF Tree!Step

\* A rank of gtmpi2.c that is about to return knows that everyone has made
\* the call: the root had gathered before it was woken.
LEMMA TreeReturnsLast ==
    ASSUME TreeInv, NEW p \in R, tree_pc[p] = "wake2", NEW q \in R
    PROVE  tree_it[p] + 1 <= tree_it[q] + (IF Tree!Inside(q) THEN 1 ELSE 0)
  <1>1. Wakes(p) = tree_it[p] + 1 /\ Wakes(p) <= Gathers(0)
    BY DEF TreeInv, WokenInOrder, Wakes
  <1>2. Gathers(0) <= Gathers(q)
    BY RootLast DEF TreeInv
  <1>3. /\ Gathers(q) <= tree_it[q] + (IF Tree!Inside(q) THEN 1 ELSE 0)
        /\ Gathers(0) \in Nat /\ Gathers(q) \in Nat /\ tree_it[q] \in Nat /\ tree_it[p] \in Nat
    BY TreeCounts, TreeTypes, RanksAre DEF TreeInv, Gathers, Tree!Inside
  <1> QED
    BY <1>1, <1>2, <1>3

-----------------------------------------------------------------------------
(* The rounds of a dissemination barrier *)

MaxRounds == NumProcs + NumParties

\* 2^k is positive and larger than k.
LEMMA PowerLarge == ASSUME NEW k \in 0 .. MaxRounds PROVE 2^k \in Nat /\ k < 2^k
  <1> DEFINE Small == {j \in 0 .. MaxRounds : ~(2^j \in Nat /\ j < 2^j)}
  <1>0. MaxRounds \in Nat
    BY NumberingAssumption, CombinedAssumption DEF MaxRounds
  <1>1. ASSUME Small # {} PROVE FALSE
    <2>1. PICK m \in Small : \A j \in Small : m <= j
      <3>1. Small \in SUBSET Nat
        BY <1>0
      <3> HIDE DEF Small
      <3> QED
        BY <3>1, <1>1, Least
    <2>2. m # 0
      <3>1. ~(2^m \in Nat /\ m < 2^m)
        OBVIOUS
      <3> HIDE DEF Small
      <3>2. m = 0 => 2^m = 1
        OBVIOUS
      <3> QED
        BY <3>1, <3>2
    <2>3. m - 1 \in 0 .. MaxRounds /\ m - 1 \notin Small
      BY <2>1, <2>2, <1>0
    <2>4. 2^(m - 1) \in Nat /\ m - 1 < 2^(m - 1)
      BY <2>3
    <2>5. 2^((m - 1) + 1) = 2 * 2^(m - 1)
      BY <2>3, PowerAssumption DEF MaxRounds
    <2>6. (m - 1) + 1 = m /\ m \in Nat
      BY <1>0
    <2>7. 2^m = 2 * 2^(m - 1)
      BY <2>5, <2>6
    <2>8. ~(2^m \in Nat /\ m < 2^m)
      OBVIOUS
    <2> DEFINE half == 2^(m - 1)
    <2> DEFINE whole == 2^m
    <2>9. /\ half \in Nat /\ m - 1 < half /\ m \in Nat /\ whole = 2 * half
          /\ ~(whole \in Nat /\ m < whole)
      BY <2>4, <2>6, <2>7, <2>8
    <2> HIDE DEF Small, half, whole
    <2> QED
      BY <2>2, <2>9
  <1> QED
    BY <1>1

\* Powers grow.
LEMMA PowerGrows ==
    ASSUME NEW j \in 0 .. MaxRounds, NEW k \in 0 .. MaxRounds, j < k
    PROVE  2^j < 2^k
  <1> DEFINE Small == {i \in j + 1 .. MaxRounds : ~(2^j < 2^i)}
  <1>0. MaxRounds \in Nat
    BY NumberingAssumption, CombinedAssumption DEF MaxRounds
  <1>1. ASSUME Small # {} PROVE FALSE
    <2>1. PICK m \in Small : \A i \in Small : m <= i
      <3>1. Small \in SUBSET Nat
        BY <1>0
      <3> HIDE DEF Small
      <3> QED
        BY <3>1, <1>1, Least
    <2>2. m - 1 \in 0 .. MaxRounds /\ m \in Nat /\ m - 1 \in Nat /\ m - 1 >= j
      BY <1>0
    <2>3. 2^((m - 1) + 1) = 2 * 2^(m - 1)
      BY <2>2, PowerAssumption DEF MaxRounds
    <2>4. 2^m = 2 * 2^(m - 1)
      <3>1. (m - 1) + 1 = m
        BY <2>2
      <3> QED
        BY <3>1, <2>3
    <2>5. 2^(m - 1) \in Nat /\ 0 < 2^(m - 1) /\ 2^j \in Nat
      BY <2>2, PowerLarge
    <2>6. 2^j <= 2^(m - 1)
      <3>1. CASE m - 1 = j
        BY <3>1, <2>5
      <3>2. CASE m - 1 # j
        <4>1. m - 1 \notin Small /\ m - 1 \in j + 1 .. MaxRounds
          BY <2>1, <2>2, <3>2
        <4>2. 2^j < 2^(m - 1)
          BY <4>1
        <4> QED
          BY <4>2, <2>5
      <3> QED
        BY <3>1, <3>2
    <2>7. ~(2^j < 2^m)
      OBVIOUS
    <2> HIDE DEF Small
    <2> QED
      BY <2>4, <2>5, <2>6, <2>7
  <1>2. k \in j + 1 .. MaxRounds
    BY <1>0
  <1> QED
    BY <1>1, <1>2

\* NumRounds(n) is the least number of rounds whose windows span n ranks.
LEMMA RoundsAre ==
    ASSUME NEW n \in Nat, 0 < n, n <= MaxRounds
    PROVE  /\ NumRounds(n) \in 0 .. n /\ NumRounds(n) \in Nat /\ NumRounds(n) <= MaxRounds
           /\ n <= 2^NumRounds(n)
           /\ \A j \in 0 .. NumRounds(n) - 1 : 2^j \in Nat /\ 0 < 2^j /\ 2^j < n
  <1> DEFINE Wide == {k \in 0 .. n : n <= 2^k}
  <1>0. MaxRounds \in Nat
    BY NumberingAssumption, CombinedAssumption DEF MaxRounds
  <1>1. n \in Wide
    BY <1>0, PowerLarge
  <1>2. PICK m \in Wide : \A k \in Wide : m <= k
    <2>1. Wide \in SUBSET Nat
      OBVIOUS
    <2> HIDE DEF Wide
    <2> QED
      BY <2>1, <1>1, Least
  <1>3. 2^m >= n /\ \A j \in 0 .. m - 1 : 2^j < n
    <2>1. 2^m >= n
      OBVIOUS
    <2>2. ASSUME NEW j \in 0 .. m - 1 PROVE 2^j < n
      <3>1. j \in 0 .. MaxRounds /\ j \in 0 .. n /\ j < m
        BY <1>0
      <3>2. j \notin Wide
        BY <1>2, <3>1
      <3>3. 2^j \in Nat
        BY <3>1, PowerLarge
      <3> QED
        BY <3>1, <3>2, <3>3
    <2> QED
      BY <2>1, <2>2
  <1>4. \E k \in 0 .. n : 2^k >= n /\ \A j \in 0 .. k - 1 : 2^j < n
    BY <1>3
  <1> DEFINE k == NumRounds(n)
  <1>5. k \in 0 .. n /\ 2^k >= n /\ \A j \in 0 .. k - 1 : 2^j < n
    BY <1>4 DEF NumRounds
  <1> HIDE DEF k
  <1>6. \A j \in 0 .. k - 1 : 2^j \in Nat /\ 0 < 2^j
    <2> TAKE j \in 0 .. k - 1
    <2>1. j \in 0 .. MaxRounds /\ j \in Nat
      BY <1>0, <1>5
    <2> QED
      BY <2>1, PowerLarge
  <1>7. 2^k \in Nat
    <2>1. k \in 0 .. MaxRounds
      BY <1>0, <1>5
    <2> QED
      BY <2>1, PowerLarge
  <1>8. k \in 0 .. n /\ k \in Nat /\ k <= MaxRounds /\ n <= 2^k
    BY <1>0, <1>5, <1>7
  <1> QED
    BY <1>5, <1>6, <1>8 DEF k

\* The rank j places before d in the circle of n ranks.
Before(d, j, n) == IF j <= d THEN d - j ELSE d - j + n

\* The partners of a round are 2^k places apart, and different rounds have
\* different partners.
LEMMA Partners ==
    ASSUME NEW n \in Nat, 0 < n, n <= MaxRounds, NEW k \in 0 .. NumRounds(n) - 1
    PROVE  /\ \A s \in 0 .. n - 1 : SendTo(s, k, n) \in 0 .. n - 1
           /\ \A d \in 0 .. n - 1 : /\ RecvFrom(d, k, n) = Before(d, 2^k, n)
                                    /\ RecvFrom(d, k, n) \in 0 .. n - 1
           /\ \A s, d \in 0 .. n - 1 : SendTo(s, k, n) = d <=> RecvFrom(d, k, n) = s
           /\ \A s \in 0 .. n - 1 : \A l \in 0 .. NumRounds(n) - 1 :
                SendTo(s, l, n) = SendTo(s, k, n) => l = k
  <1> DEFINE shift(s, x) == IF s + x < n THEN s + x ELSE s + x - n
  <1>1. \A l \in 0 .. NumRounds(n) - 1 : 2^l \in Nat /\ 0 < 2^l /\ 2^l < n
    BY RoundsAre
  <1>2. \A s \in 0 .. n - 1 : \A x \in Nat : x < n =>
          /\ (s + x) % n = shift(s, x) /\ (s - x + n) % n = Before(s, x, n)
    BY DEF Before
  <1>3. \A s \in 0 .. n - 1 : \A l \in 0 .. NumRounds(n) - 1 :
          SendTo(s, l, n) = shift(s, 2^l) /\ RecvFrom(s, l, n) = Before(s, 2^l, n)
    BY <1>1, <1>2 DEF SendTo, RecvFrom
  <1>4. \A s, d \in 0 .. n - 1 : \A x \in Nat : x < n =>
          /\ shift(s, x) \in 0 .. n - 1 /\ Before(s, x, n) \in 0 .. n - 1
          /\ shift(s, x) = d <=> Before(d, x, n) = s
          /\ \A y \in Nat : y < n /\ shift(s, x) = shift(s, y) => x = y
    BY DEF Before
  <1>5. \A l \in 0 .. NumRounds(n) - 1 : 2^l = 2^k => l = k
    <2>1. \A l \in 0 .. NumRounds(n) - 1 : l \in 0 .. MaxRounds /\ l \in Nat
      BY RoundsAre, NumberingAssumption, CombinedAssumption DEF MaxRounds
    <2>2. ASSUME NEW l \in 0 .. NumRounds(n) - 1, l # k PROVE 2^l # 2^k
      <3>1. l < k \/ k < l
        BY <2>1, <2>2
      <3>2. 2^l < 2^k \/ 2^k < 2^l
        BY <3>1, <2>1, PowerGrows
      <3> QED
        BY <3>2, <1>1
    <2> QED
      BY <2>2
  <1> HIDE DEF shift
  <1>6. \A s \in 0 .. n - 1 : \A l \in 0 .. NumRounds(n) - 1 :
          SendTo(s, l, n) = SendTo(s, k, n) => l = k
    <2> SUFFICES ASSUME NEW s \in 0 .. n - 1, NEW l \in 0 .. NumRounds(n) - 1,
                        SendTo(s, l, n) = SendTo(s, k, n)
                 PROVE  2^l = 2^k
      BY <1>5
    <2> QED
      BY <1>1, <1>3, <1>4
  <1>7. /\ \A s \in 0 .. n - 1 : SendTo(s, k, n) = shift(s, 2^k)
        /\ \A d \in 0 .. n - 1 : RecvFrom(d, k, n) = Before(d, 2^k, n)
    BY <1>3
  <1>8. /\ \A s \in 0 .. n - 1 : shift(s, 2^k) \in 0 .. n - 1 /\ Before(s, 2^k, n) \in 0 .. n - 1
        /\ \A s, d \in 0 .. n - 1 : shift(s, 2^k) = d <=> Before(d, 2^k, n) = s
    BY <1>1, <1>4
  <1> QED
    BY <1>6, <1>7, <1>8

\* sends[<<s, k>>]: how often s has sent in round k; past[<<d, k>>]: how often
\* d has got past its first k rounds.  What is in flight from s to d is what s
\* has sent in the one round that makes them partners and d has not received.
Balanced(n, flying, sends, past) ==
    /\ flying \in [(0 .. n - 1) \X (0 .. n - 1) -> Nat]
    /\ \A s \in 0 .. n - 1 : \A k \in 0 .. NumRounds(n) - 1 :
         flying[<<s, SendTo(s, k, n)>>] = sends[<<s, k>>] - past[<<SendTo(s, k, n), k + 1>>]
    /\ \A s, d \in 0 .. n - 1 : flying[<<s, d>>] > 0 =>
         \E k \in 0 .. NumRounds(n) - 1 : d = SendTo(s, k, n)

SendCounts(n) == [(0 .. n - 1) \X (0 .. NumRounds(n) - 1) -> Nat]
PastCounts(n) == [(0 .. n - 1) \X (0 .. NumRounds(n)) -> Nat]

\* A message sent in a round is in flight until its partner has received it.
LEMMA SendBalanced ==
    ASSUME NEW n \in Nat, 0 < n, n <= MaxRounds,
           NEW flying, NEW sends \in SendCounts(n), NEW past \in PastCounts(n),
           Balanced(n, flying, sends, past),
           NEW s \in 0 .. n - 1, NEW k \in 0 .. NumRounds(n) - 1
    PROVE  Balanced(n, [flying EXCEPT ![<<s, SendTo(s, k, n)>>] = @ + 1],
                       [sends EXCEPT ![<<s, k>>] = @ + 1], past)
  <1> DEFINE d == SendTo(s, k, n)
             f == [flying EXCEPT ![<<s, d>>] = @ + 1]
             g == [sends EXCEPT ![<<s, k>>] = @ + 1]
             Rk == 0 .. n - 1
             Ro == 0 .. NumRounds(n) - 1
  <1>1. d \in Rk /\ \A t \in Rk : \A l \in Ro : SendTo(t, l, n) \in Rk
    BY Partners
  <1>2. \A l \in Ro : SendTo(s, l, n) = d => l = k
    BY Partners
  <1>3. flying \in [Rk \X Rk -> Nat] /\ sends \in [Rk \X Ro -> Nat]
    BY DEF Balanced, SendCounts
  <1>4. NumRounds(n) \in Nat /\ \A t \in Rk : \A l \in Ro : past[<<SendTo(t, l, n), l + 1>>] \in Nat
    <2>1. NumRounds(n) \in Nat
      BY RoundsAre
    <2>2. \A l \in Ro : l + 1 \in 0 .. NumRounds(n)
      BY <2>1
    <2> QED
      BY <2>1, <2>2, <1>1 DEF PastCounts
  <1> HIDE DEF d, Rk, Ro
  <1>5. \A t, u \in Rk : f[<<t, u>>] = IF t = s /\ u = d THEN flying[<<t, u>>] + 1
                                        ELSE flying[<<t, u>>]
    BY <1>1, <1>3 DEF Rk
  <1>6. \A t \in Rk : \A l \in Ro : g[<<t, l>>] = IF t = s /\ l = k THEN sends[<<t, l>>] + 1
                                                    ELSE sends[<<t, l>>]
    BY <1>3 DEF Rk, Ro
  <1>7. f \in [Rk \X Rk -> Nat]
    BY <1>1, <1>3 DEF Rk
  <1> HIDE DEF f, g
  <1>8. ASSUME NEW t \in Rk, NEW l \in Ro
        PROVE  f[<<t, SendTo(t, l, n)>>] = g[<<t, l>>] - past[<<SendTo(t, l, n), l + 1>>]
    <2>1. flying[<<t, SendTo(t, l, n)>>] = sends[<<t, l>>] - past[<<SendTo(t, l, n), l + 1>>]
      BY DEF Balanced, Rk, Ro
    <2>2. sends[<<t, l>>] \in Nat
      BY <1>3
    <2>3. SendTo(t, l, n) \in Rk /\ (t = s => (SendTo(t, l, n) = d <=> l = k))
      BY <1>1, <1>2 DEF d
    <2> QED
      BY <2>1, <2>2, <2>3, <1>4, <1>5, <1>6
  <1>9. ASSUME NEW t \in Rk, NEW u \in Rk, f[<<t, u>>] > 0
        PROVE  \E l \in Ro : u = SendTo(t, l, n)
    <2>1. CASE t = s /\ u = d
      BY <2>1 DEF d, Ro
    <2>2. CASE ~(t = s /\ u = d)
      BY <2>2, <1>5, <1>9 DEF Balanced, Rk, Ro
    <2> QED
      BY <2>1, <2>2
  <1> QED
    BY <1>7, <1>8, <1>9 DEF Balanced, f, g, d, Rk, Ro

\* A receive takes a message of its round.
LEMMA RecvBalanced ==
    ASSUME NEW n \in Nat, 0 < n, n <= MaxRounds,
           NEW flying, NEW sends \in SendCounts(n), NEW past \in PastCounts(n),
           Balanced(n, flying, sends, past),
           NEW d \in 0 .. n - 1, NEW k \in 0 .. NumRounds(n) - 1,
           flying[<<RecvFrom(d, k, n), d>>] > 0
    PROVE  Balanced(n, [flying EXCEPT ![<<RecvFrom(d, k, n), d>>] = @ - 1], sends,
                       [past EXCEPT ![<<d, k + 1>>] = @ + 1])
  <1> DEFINE s == RecvFrom(d, k, n)
             f == [flying EXCEPT ![<<s, d>>] = @ - 1]
             g == [past EXCEPT ![<<d, k + 1>>] = @ + 1]
             Rk == 0 .. n - 1
             Ro == 0 .. NumRounds(n) - 1
             Rn == 0 .. NumRounds(n)
  <1>1. s \in Rk /\ \A t \in Rk : \A l \in Ro : SendTo(t, l, n) \in Rk
    BY Partners
  <1>2. \A t \in Rk : SendTo(t, k, n) = d <=> t = s
    BY Partners
  <1>3. \A l \in Ro : SendTo(s, l, n) = d => l = k
    <2>1. \A t \in Rk : \A l \in Ro : SendTo(t, l, n) = SendTo(t, k, n) => l = k
      BY Partners
    <2> HIDE DEF s, Rk, Ro
    <2> QED
      BY <2>1, <1>1, <1>2
  <1>4. flying \in [Rk \X Rk -> Nat] /\ sends \in [Rk \X Ro -> Nat] /\ past \in [Rk \X Rn -> Nat]
    BY DEF Balanced, SendCounts, PastCounts
  <1>5. \A l \in Ro : l \in Nat /\ l + 1 \in Rn
    BY RoundsAre
  <1>6. flying[<<s, d>>] > 0
    OBVIOUS
  <1> HIDE DEF s, Rk, Ro, Rn
  <1>7. \A t, u \in Rk : f[<<t, u>>] = IF t = s /\ u = d THEN flying[<<t, u>>] - 1
                                        ELSE flying[<<t, u>>]
    BY <1>1, <1>4 DEF Rk
  <1>8. \A u \in Rk : \A l \in Rn : g[<<u, l>>] = IF u = d /\ l = k + 1 THEN past[<<u, l>>] + 1
                                                    ELSE past[<<u, l>>]
    BY <1>4, <1>5 DEF Rk
  <1>9. f \in [Rk \X Rk -> Nat]
    BY <1>1, <1>4, <1>6 DEF Rk
  <1> HIDE DEF f, g
  <1>10. ASSUME NEW t \in Rk, NEW l \in Ro
         PROVE  f[<<t, SendTo(t, l, n)>>] = sends[<<t, l>>] - g[<<SendTo(t, l, n), l + 1>>]
    <2>1. flying[<<t, SendTo(t, l, n)>>] = sends[<<t, l>>] - past[<<SendTo(t, l, n), l + 1>>]
      BY DEF Balanced, Rk, Ro
    <2>2. /\ sends[<<t, l>>] \in Nat /\ SendTo(t, l, n) \in Rk /\ l + 1 \in Rn /\ l \in Nat /\ k \in Nat
          /\ past[<<SendTo(t, l, n), l + 1>>] \in Nat
      BY <1>1, <1>4, <1>5 DEF Ro
    <2>3. t = s /\ SendTo(t, l, n) = d <=> SendTo(t, l, n) = d /\ l + 1 = k + 1
      BY <2>2, <1>1, <1>2, <1>3
    <2>4. CASE t = s /\ SendTo(t, l, n) = d
      BY <2>1, <2>2, <2>3, <2>4, <1>7, <1>8
    <2>5. CASE ~(t = s /\ SendTo(t, l, n) = d)
      BY <2>1, <2>2, <2>3, <2>5, <1>7, <1>8
    <2> QED
      BY <2>4, <2>5
  <1>11. ASSUME NEW t \in Rk, NEW u \in Rk, f[<<t, u>>] > 0
         PROVE  \E l \in Ro : u = SendTo(t, l, n)
    <2>1. flying[<<t, u>>] > 0
      BY <1>6, <1>7, <1>11
    <2> QED
      BY <2>1 DEF Balanced, Rk, Ro
  <1> QED
    BY <1>9, <1>10, <1>11 DEF Balanced, f, g, s, Rk, Ro

\* The rounds of one rank follow each other.
InOrder(n, sends, past) ==
    \A p \in 0 .. n - 1 : \A k \in 0 .. NumRounds(n) - 1 :
        sends[<<p, k>>] <= past[<<p, k>>] /\ past[<<p, k + 1>>] <= past[<<p, k>>]

\* Who is past k rounds knows that the 2^k ranks up to it have entered: of the
\* rounds for which this failed the least would have one before it that does.
LEMMA Window ==
    ASSUME NEW n \in Nat, 0 < n, n <= MaxRounds,
           NEW flying, NEW sends \in SendCounts(n), NEW past \in PastCounts(n),
           Balanced(n, flying, sends, past), InOrder(n, sends, past),
           NEW k \in 0 .. NumRounds(n), NEW d \in 0 .. n - 1, NEW j \in 0 .. n - 1, j < 2^k
    PROVE  past[<<d, k>>] <= past[<<Before(d, j, n), 0>>]
  <1> DEFINE Rk == 0 .. n - 1
             Knows(l) == \A u, i \in Rk : i < 2^l => past[<<u, l>>] <= past[<<Before(u, i, n), 0>>]
             Fails == {l \in 0 .. NumRounds(n) : ~Knows(l)}
  <1>1. NumRounds(n) \in Nat /\ NumRounds(n) <= MaxRounds /\ MaxRounds \in Nat
    BY RoundsAre, NumberingAssumption, CombinedAssumption DEF MaxRounds
  <1>2. past \in [Rk \X (0 .. NumRounds(n)) -> Nat]
    BY DEF PastCounts
  <1>3. \A u, i \in Rk : Before(u, i, n) \in Rk
    BY DEF Before
  <1>4. Knows(0)
    <2> SUFFICES ASSUME NEW u \in Rk, NEW i \in Rk, i < 2^0
                 PROVE  past[<<u, 0>>] <= past[<<Before(u, i, n), 0>>]
      OBVIOUS
    <2>1. i = 0
      OBVIOUS
    <2>2. Before(u, i, n) = u
      BY <2>1 DEF Before
    <2>3. past[<<u, 0>>] \in Nat
      BY <1>1, <1>2
    <2> QED
      BY <2>2, <2>3
  <1>5. ASSUME NEW l \in 0 .. NumRounds(n) - 1, Knows(l) PROVE Knows(l + 1)
    <2> SUFFICES ASSUME NEW u \in Rk, NEW i \in Rk, i < 2^(l + 1)
                 PROVE  past[<<u, l + 1>>] <= past[<<Before(u, i, n), 0>>]
      OBVIOUS
    <2> DEFINE w == 2^l
               v == Before(u, w, n)
    <2>1. w \in Nat /\ 0 < w /\ w < n /\ i < 2 * w
      <3>1. 2^(l + 1) = 2 * 2^l
        BY <1>1, PowerAssumption DEF MaxRounds
      <3> QED
        BY <3>1, RoundsAre
    <2>2. v = RecvFrom(u, l, n) /\ v \in Rk /\ SendTo(v, l, n) = u
      BY Partners
    <2>3. past[<<u, l + 1>>] <= past[<<u, l>>]
      BY DEF InOrder
    <2>4. sends[<<v, l>>] <= past[<<v, l>>]
      BY <2>2 DEF InOrder
    <2>5. flying[<<v, u>>] = sends[<<v, l>>] - past[<<u, l + 1>>] /\ flying[<<v, u>>] \in Nat
      BY <2>2 DEF Balanced
    <2>6. /\ past[<<u, l + 1>>] \in Nat /\ past[<<u, l>>] \in Nat /\ past[<<v, l>>] \in Nat
          /\ sends[<<v, l>>] \in Nat
      <3>1. l \in 0 .. NumRounds(n) /\ l + 1 \in 0 .. NumRounds(n)
        BY <1>1
      <3> QED
        BY <3>1, <1>2, <2>2 DEF SendCounts
    <2>7. past[<<Before(u, i, n), 0>>] \in Nat
      <3>1. 0 \in 0 .. NumRounds(n)
        BY <1>1
      <3> HIDE DEF Rk, w, v
      <3>2. Before(u, i, n) \in Rk
        BY <1>3
      <3> QED
        BY <3>1, <3>2, <1>2
    <2>8. CASE i < w
      <3>1. past[<<u, l>>] <= past[<<Before(u, i, n), 0>>]
        BY <1>5, <2>8
      <3> HIDE DEF w, v
      <3> QED
        BY <3>1, <2>3, <2>6, <2>7
    <2>9. CASE w <= i
      <3>1. i - w \in Rk /\ i - w < w /\ Before(v, i - w, n) = Before(u, i, n)
        <4> HIDE DEF w
        <4> QED
          BY <2>1, <2>9 DEF Before
      <3>2. past[<<v, l>>] <= past[<<Before(u, i, n), 0>>]
        <4>1. past[<<v, l>>] <= past[<<Before(v, i - w, n), 0>>]
          BY <1>5, <2>2, <3>1
        <4> QED
          BY <3>1, <4>1
      <3> HIDE DEF w, v
      <3> QED
        BY <3>2, <2>4, <2>5, <2>6, <2>7
    <2> HIDE DEF w
    <2> QED
      BY <2>1, <2>8, <2>9
  <1> HIDE DEF Knows
  <1>6. ASSUME Fails # {} PROVE FALSE
    <2>1. PICK l \in Fails : \A i \in Fails : l <= i
      <3>1. Fails \in SUBSET Nat
        BY <1>1
      <3> HIDE DEF Fails
      <3> QED
        BY <3>1, <1>6, Least
    <2>2. l # 0 /\ l \in 0 .. NumRounds(n)
      BY <1>4
    <2>3. l - 1 \in 0 .. NumRounds(n) - 1 /\ l - 1 \notin Fails /\ l - 1 \in 0 .. NumRounds(n)
      BY <2>1, <2>2, <1>1
    <2>4. Knows((l - 1) + 1)
      BY <2>3, <1>5
    <2>5. (l - 1) + 1 = l
      BY <2>2, <1>1
    <2> QED
      BY <2>4, <2>5
  <1> QED
    BY <1>6 DEF Knows

\* Who is past all rounds knows that everyone has entered.
LEMMA Everyone ==
    ASSUME NEW n \in Nat, 0 < n, n <= MaxRounds,
           NEW flying, NEW sends \in SendCounts(n), NEW past \in PastCounts(n),
           Balanced(n, flying, sends, past), InOrder(n, sends, past),
           NEW d \in 0 .. n - 1, NEW q \in 0 .. n - 1
    PROVE  past[<<d, NumRounds(n)>>] <= past[<<q, 0>>]
  <1> DEFINE j == IF q <= d THEN d - q ELSE d - q + n
  <1>1. j \in 0 .. n - 1 /\ Before(d, j, n) = q /\ j < n
    BY DEF Before
  <1>2. NumRounds(n) \in 0 .. NumRounds(n) /\ n <= 2^NumRounds(n) /\ 2^NumRounds(n) \in Nat
    <2>1. NumRounds(n) \in Nat /\ NumRounds(n) <= MaxRounds /\ MaxRounds \in Nat
      BY RoundsAre, NumberingAssumption, CombinedAssumption DEF MaxRounds
    <2> QED
      BY <2>1, RoundsAre, PowerLarge
  <1> HIDE DEF j
  <1>3. j < 2^NumRounds(n)
    BY <1>1, <1>2
  <1> QED
    BY <1>1, <1>2, <1>3, Window

\* Functions of two arguments that agree are equal.
LEMMA PairFunctions ==
    ASSUME NEW A, NEW B, NEW C, NEW f \in [A \X B -> C], NEW g \in [A \X B -> C],
           \A a \in A : \A b \in B : f[<<a, b>>] = g[<<a, b>>]
    PROVE  f = g
  <1>1. \A x \in A \X B : f[x] = g[x]
    OBVIOUS
  <1> QED
    BY <1>1

\* Only the sends of the rounds and the receives matter.
LEMMA SameBalance ==
    ASSUME NEW n, NEW flying, NEW sends, NEW past, NEW sends2, NEW past2,
           Balanced(n, flying, sends, past),
           \A p \in 0 .. n - 1 : \A k \in 0 .. NumRounds(n) - 1 :
               sends2[<<p, k>>] = sends[<<p, k>>] /\ past2[<<p, k + 1>>] = past[<<p, k + 1>>],
           \A s \in 0 .. n - 1 : \A k \in 0 .. NumRounds(n) - 1 : SendTo(s, k, n) \in 0 .. n - 1
    PROVE  Balanced(n, flying, sends2, past2)
  <1>1. flying \in [(0 .. n - 1) \X (0 .. n - 1) -> Nat]
          /\ \A s, d \in 0 .. n - 1 : flying[<<s, d>>] > 0 =>
               \E k \in 0 .. NumRounds(n) - 1 : d = SendTo(s, k, n)
    BY DEF Balanced
  <1>2. ASSUME NEW s \in 0 .. n - 1, NEW k \in 0 .. NumRounds(n) - 1
        PROVE  flying[<<s, SendTo(s, k, n)>>] = sends2[<<s, k>>] - past2[<<SendTo(s, k, n), k + 1>>]
    <2>1. flying[<<s, SendTo(s, k, n)>>] = sends[<<s, k>>] - past[<<SendTo(s, k, n), k + 1>>]
      BY DEF Balanced
    <2>2. sends2[<<s, k>>] = sends[<<s, k>>]
      OBVIOUS
    <2>3. past2[<<SendTo(s, k, n), k + 1>>] = past[<<SendTo(s, k, n), k + 1>>]
      OBVIOUS
    <2> QED
      BY <2>1, <2>2, <2>3, Zenon
  <1> QED
    BY <1>1, <1>2, Zenon DEF Balanced

-----------------------------------------------------------------------------
(* The dissemination barrier keeps its invariant *)

\* How often p has sent in round k, and how often it has got past k rounds.
DissSends(p, k) ==
    diss_it[p] + (IF \/ diss_pc[p] # "loop" /\ k < diss_round[p]
                     \/ diss_pc[p] = "recv" /\ k = diss_round[p] THEN 1 ELSE 0)
DissPast(p, k) == diss_it[p] + (IF diss_pc[p] # "loop" /\ k <= diss_round[p] THEN 1 ELSE 0)

K == NumRounds(NumParties)
diss_sends == [x \in R \X (0 .. K - 1) |-> DissSends(x[1], x[2])]
diss_past == [x \in R \X (0 .. K) |-> DissPast(x[1], x[2])]

\* A rank inside is in a call the harness makes, and receives in a round.
DissControl ==
    \A p \in R : /\ diss_pc[p] # "loop" => diss_it[p] < NumIter
                 /\ diss_pc[p] = "recv" => diss_round[p] < K

DissInv == Diss!TypeOK /\ DissControl /\ Balanced(NumParties, diss_sent, diss_sends, diss_past)

\* The constants of gtmpi1.c.
LEMMA DissRanks ==
    /\ R = 0 .. NumParties - 1 /\ NumParties \in Nat /\ 0 < NumParties
    /\ NumParties <= MaxRounds /\ Diss!Ranks = R
  BY RanksAre, CombinedAssumption DEF R, Diss!Parties, MaxRounds

\* Its number of rounds.
LEMMA DissRounds == K \in Nat /\ Diss!num_rounds = K /\ NumIter \in Nat
  <1>1. K \in Nat
    BY DissRanks, RoundsAre DEF K
  <1>2. Diss!num_rounds = K
    BY DEF Diss!num_rounds, Diss!NumRounds, K, NumRounds
  <1> QED
    BY <1>1, <1>2, RanksAre

\* The ranks it sends to and receives from.
LEMMA DissPartners ==
    ASSUME NEW p \in R, NEW k \in 0 .. K - 1
    PROVE  /\ Diss!SendTo(p, k, NumParties) = SendTo(p, k, NumParties)
           /\ Diss!RecvFrom(p, k, NumParties) = RecvFrom(p, k, NumParties)
           /\ SendTo(p, k, NumParties) \in R /\ RecvFrom(p, k, NumParties) \in R
  <1>1. SendTo(p, k, NumParties) \in R /\ RecvFrom(p, k, NumParties) \in R
    BY DissRanks, Partners DEF K
  <1> QED
    BY <1>1 DEF Diss!SendTo, SendTo, Diss!RecvFrom, RecvFrom

\* Diss!TypeOK, with the ranks and rounds named.
LEMMA DissTypes ==
    Diss!TypeOK <=>
        /\ diss_sent \in [R \X R -> Nat]
        /\ diss_pc \in [R -> {"loop", "send", "recv"}]
        /\ diss_round \in [R -> 0 .. K]
        /\ diss_it \in [R -> 0 .. NumIter]
  BY DissRanks, DissRounds DEF Diss!TypeOK

\* The counts are natural numbers, and the rounds of a call follow each other.
LEMMA DissCounts ==
    ASSUME Diss!TypeOK
    PROVE  /\ diss_sends \in SendCounts(NumParties) /\ diss_past \in PastCounts(NumParties)
           /\ \A p \in R : \A k \in 0 .. K - 1 : diss_sends[<<p, k>>] = DissSends(p, k)
           /\ \A p \in R : \A k \in 0 .. K : diss_past[<<p, k>>] = DissPast(p, k)
           /\ InOrder(NumParties, diss_sends, diss_past)
  <1> USE DissTypes, DissRounds
  <1>1. /\ \A p \in R : \A k \in 0 .. K - 1 : diss_sends[<<p, k>>] = DissSends(p, k)
        /\ \A p \in R : \A k \in 0 .. K : diss_past[<<p, k>>] = DissPast(p, k)
    BY DEF diss_sends, diss_past
  <1>2. /\ \A p \in R : \A k \in 0 .. K - 1 : DissSends(p, k) \in Nat
        /\ \A p \in R : \A k \in 0 .. K : DissPast(p, k) \in Nat
    BY DEF DissSends, DissPast
  <1>3. diss_sends \in SendCounts(NumParties) /\ diss_past \in PastCounts(NumParties)
    BY <1>2, DissRanks DEF diss_sends, diss_past, SendCounts, PastCounts, K
  <1>4. ASSUME NEW p \in R, NEW k \in 0 .. K - 1
        PROVE  DissSends(p, k) <= DissPast(p, k) /\ DissPast(p, k + 1) <= DissPast(p, k)
    <2>1. diss_round[p] \in Nat /\ diss_it[p] \in Nat /\ k \in Nat
      OBVIOUS
    <2> QED
      BY <2>1 DEF DissSends, DissPast
  <1>5. \A k \in 0 .. K - 1 : k \in 0 .. K /\ k + 1 \in 0 .. K
    OBVIOUS
  <1>6. InOrder(NumParties, diss_sends, diss_past)
    BY <1>1, <1>4, <1>5, DissRanks DEF InOrder, K
  <1> QED
    BY <1>1, <1>3, <1>6

\* The counts of the rounds stay when the call is made and when it returns.
LEMMA EnterLeaveDiss ==
    ASSUME DissInv, NEW p \in R, Diss!Enter(p) \/ Diss!Leave(p)
    PROVE  DissInv'
  <1> USE DissTypes, DissRounds
  <1>0. Diss!TypeOK /\ DissControl
    BY DEF DissInv
  <1>1. Diss!TypeOK' /\ DissControl'
    <2>1. CASE Diss!Enter(p)
      BY <1>0, <2>1, DissRanks DEF Diss!Enter, DissControl, Diss!TypeOK
    <2>2. CASE Diss!Leave(p)
      <3>1. diss_it[p] + 1 \in 0 .. NumIter
        BY <1>0, <2>2 DEF Diss!Leave, DissControl
      <3>2. Diss!TypeOK'
        BY <1>0, <2>2, <3>1, DissRanks DEF Diss!Leave, Diss!TypeOK
      <3>3. DissControl'
        BY <1>0, <2>2 DEF Diss!Leave, DissControl
      <3> QED
        BY <3>2, <3>3
    <2> QED
      BY <2>1, <2>2
  <1>2. ASSUME NEW q \in R, NEW k \in 0 .. K - 1
        PROVE  DissSends(q, k)' = DissSends(q, k) /\ DissPast(q, k + 1)' = DissPast(q, k + 1)
    <2>1. CASE Diss!Enter(p)
      BY <1>0, <2>1 DEF Diss!Enter, DissSends, DissPast
    <2>2. CASE Diss!Leave(p)
      BY <1>0, <2>2 DEF Diss!Leave, DissSends, DissPast
    <2> QED
      BY <2>1, <2>2
  <1>3. ASSUME NEW q \in R, NEW k \in 0 .. K - 1
        PROVE  /\ diss_sends'[<<q, k>>] = diss_sends[<<q, k>>]
               /\ diss_past'[<<q, k + 1>>] = diss_past[<<q, k + 1>>]
    <2>1. k + 1 \in 0 .. K
      OBVIOUS
    <2> QED
      BY <2>1, <1>2 DEF diss_sends, diss_past
  <1>4. diss_sent' = diss_sent
    BY DEF Diss!Enter, Diss!Leave
  <1>5. Balanced(NumParties, diss_sent, diss_sends', diss_past')
    BY <1>3, SameBalance, DissPartners, DissRanks DEF K, DissInv
  <1> QED
    BY <1>1, <1>4, <1>5 DEF DissInv

\* A send is counted in its round.
LEMMA SendDiss == ASSUME DissInv, NEW p \in R, Diss!Send(p) PROVE DissInv'
  <1> USE DissTypes, DissRounds
  <1> DEFINE k == diss_round[p]
  <1>0. Diss!TypeOK /\ DissControl /\ Balanced(NumParties, diss_sent, diss_sends, diss_past)
    BY DEF DissInv
  <1>1. k \in 0 .. K - 1 /\ k \in Nat /\ SendTo(p, k, NumParties) \in R
    <2>1. k \in 0 .. K - 1 /\ k \in Nat
      BY <1>0 DEF Diss!Send
    <2> QED
      BY <2>1, DissPartners
  <1>2. diss_sent' = [diss_sent EXCEPT ![<<p, SendTo(p, k, NumParties)>>] = @ + 1]
    BY <1>1, DissPartners DEF Diss!Send
  <1>3. /\ diss_pc[p] = "send" /\ diss_pc' = [diss_pc EXCEPT ![p] = "recv"]
        /\ diss_round' = diss_round /\ diss_it' = diss_it
    BY DEF Diss!Send
  <1>4. Diss!TypeOK' /\ DissControl'
    <2>1. diss_sent' \in [R \X R -> Nat]
      BY <1>0, <1>1, <1>2
    <2>2. diss_pc' \in [R -> {"loop", "send", "recv"}] /\ diss_it' \in [R -> 0 .. NumIter]
      BY <1>0, <1>3
    <2>3. diss_round' \in [R -> 0 .. K]
      BY <1>0, <1>1, <1>3
    <2>4. Diss!TypeOK'
      BY <2>1, <2>2, <2>3, DissRanks DEF Diss!TypeOK
    <2> QED
      BY <1>0, <1>1, <1>3, <2>4 DEF DissControl
  <1>5. diss_sends' = [diss_sends EXCEPT ![<<p, k>>] = @ + 1]
    <2>1. ASSUME NEW q \in R, NEW l \in 0 .. K - 1
          PROVE  DissSends(q, l)' = IF q = p /\ l = k THEN DissSends(q, l) + 1 ELSE DissSends(q, l)
      BY <1>0, <1>3 DEF DissSends
    <2>2. \A q \in R : \A l \in 0 .. K - 1 : DissSends(q, l) \in Nat /\ DissSends(q, l)' \in Nat
      BY <1>0, <2>1 DEF DissSends
    <2> HIDE DEF k
    <2>3. diss_sends' \in [R \X (0 .. K - 1) -> Nat]
            /\ [diss_sends EXCEPT ![<<p, k>>] = @ + 1] \in [R \X (0 .. K - 1) -> Nat]
      BY <2>2, <1>1 DEF diss_sends
    <2>4. ASSUME NEW q \in R, NEW l \in 0 .. K - 1
          PROVE  diss_sends'[<<q, l>>] = [diss_sends EXCEPT ![<<p, k>>] = @ + 1][<<q, l>>]
      BY <2>1, <1>1 DEF diss_sends
    <2> QED
      BY <2>3, <2>4, PairFunctions
  <1>6. diss_past' = diss_past
    <2>1. ASSUME NEW q \in R, NEW l \in 0 .. K PROVE DissPast(q, l)' = DissPast(q, l)
      BY <1>0, <1>3 DEF DissPast
    <2> QED
      BY <2>1 DEF diss_past
  <1>7. diss_sends \in SendCounts(NumParties) /\ diss_past \in PastCounts(NumParties)
    BY <1>0, DissCounts
  <1> HIDE DEF k
  <1>8. Balanced(NumParties, diss_sent', diss_sends', diss_past')
    BY <1>0, <1>1, <1>2, <1>5, <1>6, <1>7, SendBalanced, DissRanks DEF K
  <1> QED
    BY <1>4, <1>8 DEF DissInv

\* A receive takes a message of its round, and the round is past.
LEMMA RecvDiss == ASSUME DissInv, NEW p \in R, Diss!Recv(p) PROVE DissInv'
  <1> USE DissTypes, DissRounds
  <1> DEFINE k == diss_round[p]
             s == RecvFrom(p, k, NumParties)
  <1>0. Diss!TypeOK /\ DissControl /\ Balanced(NumParties, diss_sent, diss_sends, diss_past)
    BY DEF DissInv
  <1>1. k \in 0 .. K - 1 /\ k \in Nat /\ s \in R
    <2>1. k \in 0 .. K - 1 /\ k \in Nat
      BY <1>0 DEF Diss!Recv, DissControl
    <2> QED
      BY <2>1, DissPartners
  <1>2. diss_sent' = [diss_sent EXCEPT ![<<s, p>>] = @ - 1] /\ diss_sent[<<s, p>>] > 0
    BY <1>1, DissPartners DEF Diss!Recv
  <1>3. /\ diss_pc[p] = "recv" /\ diss_pc' = [diss_pc EXCEPT ![p] = "send"]
        /\ diss_round' = [diss_round EXCEPT ![p] = @ + 1] /\ diss_it' = diss_it
    BY DEF Diss!Recv
  <1>4. Diss!TypeOK' /\ DissControl'
    <2> HIDE DEF s
    <2>1. diss_sent' \in [R \X R -> Nat]
      BY <1>0, <1>1, <1>2
    <2>2. diss_pc' \in [R -> {"loop", "send", "recv"}] /\ diss_it' \in [R -> 0 .. NumIter]
      BY <1>0, <1>3
    <2>3. diss_round' \in [R -> 0 .. K]
      BY <1>0, <1>1, <1>3
    <2>4. Diss!TypeOK'
      BY <2>1, <2>2, <2>3, DissRanks DEF Diss!TypeOK
    <2> QED
      BY <1>0, <1>1, <1>3, <2>4 DEF DissControl
  <1>5. diss_past' = [diss_past EXCEPT ![<<p, k + 1>>] = @ + 1]
    <2>1. ASSUME NEW q \in R, NEW l \in 0 .. K
          PROVE  DissPast(q, l)' = IF q = p /\ l = k + 1 THEN DissPast(q, l) + 1 ELSE DissPast(q, l)
      BY <1>0, <1>3 DEF DissPast
    <2>2. k + 1 \in 0 .. K
      BY <1>1
    <2>3. \A q \in R : \A l \in 0 .. K : DissPast(q, l) \in Nat /\ DissPast(q, l)' \in Nat
      BY <1>0, <2>1 DEF DissPast
    <2> HIDE DEF k
    <2>4. diss_past' \in [R \X (0 .. K) -> Nat]
            /\ [diss_past EXCEPT ![<<p, k + 1>>] = @ + 1] \in [R \X (0 .. K) -> Nat]
      BY <2>3, <2>2 DEF diss_past
    <2>5. ASSUME NEW q \in R, NEW l \in 0 .. K
          PROVE  diss_past'[<<q, l>>] = [diss_past EXCEPT ![<<p, k + 1>>] = @ + 1][<<q, l>>]
      BY <2>1, <2>2 DEF diss_past
    <2> QED
      BY <2>4, <2>5, PairFunctions
  <1>6. diss_sends' = diss_sends
    <2>1. ASSUME NEW q \in R, NEW l \in 0 .. K - 1 PROVE DissSends(q, l)' = DissSends(q, l)
      BY <1>0, <1>3 DEF DissSends
    <2> QED
      BY <2>1 DEF diss_sends
  <1>7. diss_sends \in SendCounts(NumParties) /\ diss_past \in PastCounts(NumParties)
    BY <1>0, DissCounts
  <1> HIDE DEF k
  <1>8. Balanced(NumParties, diss_sent', diss_sends', diss_past')
    BY <1>0, <1>1, <1>2, <1>5, <1>6, <1>7, RecvBalanced, DissRanks DEF K
  <1> QED
    BY <1>4, <1>8 DEF DissInv

\* Initially no call has been made.
LEMMA InitDiss == ASSUME Diss!Init PROVE DissInv
  <1>1. /\ diss_sent = [x \in R \X R |-> 0] /\ diss_pc = [p \in R |-> "loop"]
        /\ diss_round = [p \in R |-> 0] /\ diss_it = [p \in R |-> 0]
    BY DissRanks DEF Diss!Init
  <1>2. Diss!TypeOK /\ DissControl
    BY <1>1, DissTypes, DissRounds DEF DissControl
  <1>3. /\ \A p \in R : \A k \in 0 .. K - 1 : diss_sends[<<p, k>>] = 0
        /\ \A p \in R : \A k \in 0 .. K : diss_past[<<p, k>>] = 0
    BY <1>1 DEF diss_sends, diss_past, DissSends, DissPast
  <1>4. \A p \in R : \A k \in 0 .. K - 1 : SendTo(p, k, NumParties) \in R /\ k + 1 \in 0 .. K
    BY DissPartners, DissRounds
  <1>5. ASSUME NEW s \in R, NEW k \in 0 .. K - 1
        PROVE  diss_sent[<<s, SendTo(s, k, NumParties)>>]
                 = diss_sends[<<s, k>>] - diss_past[<<SendTo(s, k, NumParties), k + 1>>]
    <2>1. SendTo(s, k, NumParties) \in R /\ k + 1 \in 0 .. K
      BY <1>4
    <2>2. diss_sends[<<s, k>>] = 0 /\ diss_past[<<SendTo(s, k, NumParties), k + 1>>] = 0
      BY <1>3, <2>1
    <2>3. diss_sent[<<s, SendTo(s, k, NumParties)>>] = 0
      BY <1>1, <2>1
    <2> QED
      BY <2>2, <2>3
  <1>6. diss_sent \in [R \X R -> Nat] /\ \A s, d \in R : ~(diss_sent[<<s, d>>] > 0)
    BY <1>1
  <1>7. Balanced(NumParties, diss_sent, diss_sends, diss_past)
    BY <1>5, <1>6, DissRanks, Zenon DEF Balanced, K
  <1> QED
    BY <1>2, <1>7 DEF DissInv

\* Every step of gtmpi1.c keeps the invariant.
LEMMA NextDiss ==
    ASSUME DissInv, (\E p \in R : Diss!Step(p)) \/ UNCHANGED diss_vars
    PROVE  DissInv'
  <1>1. CASE UNCHANGED diss_vars
    <2>1. diss_sends' = diss_sends /\ diss_past' = diss_past /\ DissControl' = DissControl
      BY <1>1 DEF diss_vars, diss_sends, diss_past, DissSends, DissPast, DissControl
    <2>2. Diss!TypeOK' = Diss!TypeOK /\ diss_sent' = diss_sent
      BY <1>1 DEF diss_vars, Diss!TypeOK
    <2> QED
      BY <2>1, <2>2 DEF DissInv
  <1> QED
    BY <1>1, EnterLeaveDiss, SendDiss, RecvDiss DEF Diss!Step

\* Who is past all rounds of a call of gtmpi1.c knows that everyone has made
\* the call.
LEMMA DissReturnsLast ==
    ASSUME DissInv, NEW p \in R, NEW q \in R
    PROVE  DissPast(p, K) <= diss_it[q] + (IF Diss!Inside(q) THEN 1 ELSE 0)
  <1>0. Diss!TypeOK /\ Balanced(NumParties, diss_sent, diss_sends, diss_past)
    BY DEF DissInv
  <1>1. diss_past[<<p, K>>] <= diss_past[<<q, 0>>]
    BY <1>0, DissRanks, DissCounts, Everyone DEF K
  <1>2. diss_past[<<p, K>>] = DissPast(p, K) /\ diss_past[<<q, 0>>] = DissPast(q, 0)
    <2>1. K \in 0 .. K /\ 0 \in 0 .. K
      BY DissRounds
    <2> QED
      BY <1>0, <2>1, DissCounts
  <1>3. DissPast(q, 0) = diss_it[q] + (IF Diss!Inside(q) THEN 1 ELSE 0)
    BY <1>0, DissTypes, DissRounds DEF DissPast, Diss!Inside
  <1> QED
    BY <1>1, <1>2, <1>3

\* The backlog: a rank is at most one call ahead of another.
LEMMA DissBacklog == ASSUME DissInv PROVE BacklogBounded
  <1> USE DissTypes, DissRounds
  <1>0. Diss!TypeOK /\ Balanced(NumParties, diss_sent, diss_sends, diss_past)
    BY DEF DissInv
  <1>1. ASSUME NEW s \in R, NEW d \in R, diss_sent[<<s, d>>] > 0
        PROVE  /\ diss_sent[<<s, d>>] <= 2
               /\ diss_pc[s] = "loop" /\ diss_pc[d] = "loop" => diss_it[s] # diss_it[d]
    <2>1. PICK k \in 0 .. K - 1 : d = SendTo(s, k, NumParties)
      BY <1>0, <1>1, DissRanks DEF Balanced, K
    <2>2. diss_sent[<<s, d>>] = diss_sends[<<s, k>>] - diss_past[<<d, k + 1>>]
      BY <1>0, <2>1, DissRanks DEF Balanced, K
    <2>3. diss_sent[<<s, d>>] = DissSends(s, k) - DissPast(d, k + 1)
      <3>1. k + 1 \in 0 .. K
        OBVIOUS
      <3> QED
        BY <1>0, <3>1, <2>2, DissCounts
    <2>4. /\ DissSends(s, k) <= diss_it[s] + 1 /\ diss_it[d] <= DissPast(d, k + 1)
          /\ DissSends(s, k) \in Nat /\ DissPast(d, k + 1) \in Nat
          /\ diss_it[s] <= DissPast(s, K) /\ DissPast(s, K) \in Nat
          /\ diss_pc[s] = "loop" => DissSends(s, k) = diss_it[s]
          /\ diss_it[s] \in Nat /\ diss_it[d] \in Nat
      BY <1>0 DEF DissSends, DissPast
    <2>5. DissPast(s, K) <= diss_it[d] + 1
      <3>1. DissPast(s, K) <= diss_it[d] + (IF Diss!Inside(d) THEN 1 ELSE 0)
        BY DissReturnsLast
      <3> QED
        BY <3>1, <2>4
    <2> QED
      BY <2>3, <2>4, <2>5, <1>1
  <1>2. \A s, d \in R : diss_sent[<<s, d>>] \in Nat
    BY <1>0
  <1>3. ASSUME NEW s \in R, NEW d \in R PROVE diss_sent[<<s, d>>] <= 2
    <2>1. diss_sent[<<s, d>>] \in Nat
      BY <1>2
    <2>2. diss_sent[<<s, d>>] > 0 => diss_sent[<<s, d>>] <= 2
      BY <1>1
    <2> QED
      BY <2>1, <2>2
  <1>4. ASSUME \A p \in R : diss_pc[p] = "loop", \A p, q \in R : diss_it[p] = diss_it[q]
        PROVE  \A s, d \in R : diss_sent[<<s, d>>] = 0
    <2> SUFFICES ASSUME NEW s \in R, NEW d \in R PROVE diss_sent[<<s, d>>] = 0
      OBVIOUS
    <2>1. diss_sent[<<s, d>>] \in Nat
      BY <1>2
    <2>2. ~(diss_sent[<<s, d>>] > 0)
      BY <1>1, <1>4
    <2> QED
      BY <2>1, <2>2
  <1> QED
    BY <1>3, <1>4, DissRanks DEF BacklogBounded, Diss!BacklogBounded, Diss!Inside

-----------------------------------------------------------------------------
(* The invariant of the combined barrier *)

Mates(p) == {p} \X Team                     \* the threads of process p
Mate(p) == <<p, CHOOSE m \in Team : TRUE>>  \* one of them

Waiting(t) == pc[t] = "spin" /\ my_sense[t] # sense[t[1]]
Released(t) == pc[t] = "spin" /\ my_sense[t] = sense[t[1]]
Speaking(t) == pc[t] \in {"send", "recv", "flip"}
Waiters(p) == {t \in Mates(p) : Waiting(t)}
Silent(p) == \A t \in Mates(p) : ~Speaking(t)
Receiving(p) == \E t \in Mates(p) : pc[t] = "recv"

\* The calls t has been released from, and those the threads of p have met in.
Episodes(t) == it[t] + (IF Released(t) THEN 1 ELSE 0)
Met(p) == Episodes(Mate(p))

Labels == {"loop", "arrive", "send", "recv", "flip", "spin"}

\* A thread inside is in a call the harness makes; it receives in a round, and
\* resets count after the last one.
CombinedControl ==
    \A t \in Threads : /\ pc[t] # "loop" => it[t] < NumIter
                       /\ pc[t] = "recv" => round[t[1]] < num_rounds
                       /\ pc[t] = "flip" => round[t[1]] = num_rounds

\* sense is not flipped under a thread that has yet to arrive.
SenseFresh ==
    \A t \in Threads : pc[t] = "arrive" \/ Speaking(t) => my_sense[t] # sense[t[1]]

\* The threads of a process have met equally often.
Agreement == \A t, u \in Threads : t[1] = u[1] => Episodes(t) = Episodes(u)

\* count is what is missing while nobody speaks for the process,
CountOpen ==
    \A p \in Ranks : Silent(p) => count[p] + Cardinality(Waiters(p)) = num_threads /\ count[p] > 0

\* and all others wait for the one who does.
CountClosed ==
    \A t \in Threads : Speaking(t) =>
        /\ count[t[1]] = IF pc[t] = "flip" THEN num_threads ELSE 0
        /\ \A u \in Threads : u[1] = t[1] /\ u # t => Waiting(u)

TeamInv == TypeOK /\ CombinedControl /\ SenseFresh /\ Agreement /\ CountOpen /\ CountClosed

\* How often the processes have sent in a round and got past some rounds.
CombinedSends(p, k) ==
    Met(p) + (IF \/ ~Silent(p) /\ k < round[p]
                 \/ Receiving(p) /\ k = round[p] THEN 1 ELSE 0)
CombinedPast(p, k) == Met(p) + (IF ~Silent(p) /\ k <= round[p] THEN 1 ELSE 0)

combined_sends == [x \in Ranks \X (0 .. num_rounds - 1) |-> CombinedSends(x[1], x[2])]
combined_past == [x \in Ranks \X (0 .. num_rounds) |-> CombinedPast(x[1], x[2])]

CombinedInv == TeamInv /\ Balanced(NumProcs, sent, combined_sends, combined_past)

-----------------------------------------------------------------------------
\* The constants of combined.c.
LEMMA TeamsAre ==
    /\ NumProcs \in Nat /\ 0 < NumProcs /\ NumProcs <= MaxRounds /\ NumIter \in Nat
    /\ Ranks = 0 .. NumProcs - 1
    /\ num_threads \in Nat /\ num_threads > 0 /\ num_rounds \in Nat
    /\ \A t \in Threads : t[1] \in Ranks
  <1>1. /\ NumProcs \in Nat /\ 0 < NumProcs /\ NumProcs <= MaxRounds /\ NumIter \in Nat
        /\ Ranks = 0 .. NumProcs - 1 /\ \A t \in Threads : t[1] \in Ranks
    BY CombinedAssumption, NumberingAssumption DEF MaxRounds, Ranks, Threads
  <1>2. num_threads \in Nat /\ num_threads > 0
    BY CombinedAssumption, FS_CardinalityType, FS_EmptySet DEF num_threads
  <1>3. num_rounds \in Nat
    BY <1>1, RoundsAre DEF num_rounds
  <1> QED
    BY <1>1, <1>2, <1>3

\* Every process has num_threads threads.
LEMMA MatesAre ==
    ASSUME NEW p \in Ranks
    PROVE  /\ IsFiniteSet(Mates(p)) /\ Cardinality(Mates(p)) = num_threads
           /\ \A t : t \in Mates(p) <=> t \in Threads /\ t[1] = p
           /\ Mate(p) \in Mates(p)
  <1>1. IsFiniteSet({p}) /\ Cardinality({p}) = 1
    BY FS_Singleton
  <1>2. IsFiniteSet(Team) /\ Team # {} /\ num_threads \in Nat
    BY CombinedAssumption, TeamsAre
  <1>3. IsFiniteSet(Mates(p)) /\ Cardinality(Mates(p)) = Cardinality({p}) * Cardinality(Team)
    BY <1>1, <1>2, FS_Product DEF Mates
  <1>4. Cardinality(Mates(p)) = num_threads
    BY <1>1, <1>2, <1>3 DEF num_threads
  <1>5. \A t : t \in Mates(p) <=> t \in Threads /\ t[1] = p
    BY DEF Mates, Threads
  <1>6. Mate(p) \in Mates(p)
    BY <1>2 DEF Mate, Mates
  <1> QED
    BY <1>3, <1>4, <1>5, <1>6

\* The waiters of a process are a finite set, and when one thread is missing
\* in it all others wait.
LEMMA WaitersAre ==
    ASSUME NEW p \in Ranks
    PROVE  /\ IsFiniteSet(Waiters(p)) /\ Cardinality(Waiters(p)) \in Nat
           /\ \A t \in Mates(p) : t \notin Waiters(p) /\ Cardinality(Waiters(p)) + 1 = num_threads
                => \A u \in Mates(p) \ {t} : Waiting(u)
  <1>1. IsFiniteSet(Waiters(p)) /\ Cardinality(Waiters(p)) \in Nat
    BY MatesAre, FS_Subset, FS_CardinalityType DEF Waiters
  <1>2. ASSUME NEW t \in Mates(p), t \notin Waiters(p), Cardinality(Waiters(p)) + 1 = num_threads
        PROVE  \A u \in Mates(p) \ {t} : Waiting(u)
    <2>1. Cardinality(Waiters(p) \cup {t}) = Cardinality(Waiters(p)) + 1
      BY <1>1, <1>2, FS_AddElement
    <2>2. Waiters(p) \cup {t} \subseteq Mates(p)
      BY DEF Waiters
    <2>3. Waiters(p) \cup {t} = Mates(p)
      BY <2>1, <2>2, <1>2, MatesAre, FS_Subset
    <2> QED
      BY <2>3 DEF Waiters
  <1> QED
    BY <1>1, <1>2

\* Initially nobody has called the barrier.
LEMMA InitTeam == ASSUME Init PROVE TeamInv
  <1> USE TeamsAre DEF Init
  <1>1. TypeOK
    <2>1. sense \in [Ranks -> BOOLEAN] /\ my_sense \in [Threads -> BOOLEAN]
      BY Zenon
    <2>2. count \in [Ranks -> 0 .. num_threads] /\ round \in [Ranks -> 0 .. num_rounds]
            /\ sent \in [Ranks \X Ranks -> Nat] /\ it \in [Threads -> 0 .. NumIter]
      OBVIOUS
    <2>3. pc \in [Threads -> Labels]
      BY DEF Labels
    <2> QED
      BY <2>1, <2>2, <2>3, Zenon DEF TypeOK, Labels
  <1>2. CombinedControl /\ SenseFresh /\ Agreement /\ CountClosed
    BY DEF CombinedControl, SenseFresh, Agreement, CountClosed, Speaking, Episodes, Released
  <1>3. CountOpen
    <2>1. \A p \in Ranks : Waiters(p) = {}
      BY MatesAre DEF Waiters, Waiting
    <2>2. \A p \in Ranks : Cardinality(Waiters(p)) = 0
      BY <2>1, FS_EmptySet
    <2>3. \A p \in Ranks : count[p] = num_threads
      OBVIOUS
    <2> QED
      BY <2>2, <2>3 DEF CountOpen
  <1> QED
    BY <1>1, <1>2, <1>3 DEF TeamInv

\* Reading sense on entry.
LEMMA EnterTeam == ASSUME TeamInv, NEW t \in Threads, Enter(t) PROVE TeamInv'
  <1> USE TeamsAre DEF TeamInv, Enter, TypeOK
  <1>1. TypeOK' /\ CombinedControl'
    BY DEF CombinedControl
  <1>2. \A u \in Threads : /\ Waiting(u)' = Waiting(u) /\ Released(u)' = Released(u)
                           /\ Speaking(u)' = Speaking(u)
    BY SMTT(60) DEF Waiting, Released, Speaking
  <1>3. SenseFresh' /\ Agreement'
    BY <1>2 DEF SenseFresh, Agreement, Episodes
  <1>4. CountOpen'
    <2>1. ASSUME NEW p \in Ranks PROVE Waiters(p)' = Waiters(p) /\ Silent(p)' = Silent(p)
      <3>1. \A u \in Mates(p) : u \in Threads
        BY MatesAre, Zenon
      <3> QED
        BY <1>2, <3>1, Zenon DEF Waiters, Silent, Mates
    <2> QED
      BY <2>1 DEF CountOpen
  <1>5. CountClosed'
    BY <1>2 DEF CountClosed, Speaking
  <1> QED
    BY <1>1, <1>3, <1>4, <1>5

\* The fetch-and-sub adds a waiter, or makes t speak when all others wait.
LEMMA ArriveTeam == ASSUME TeamInv, NEW t \in Threads, Arrive(t) PROVE TeamInv'
  <1> USE TeamsAre DEF TeamInv, Arrive
  <1> DEFINE p == t[1]
  <1>1. my_sense[t] # sense[p]
    BY DEF SenseFresh
  <1>2. Silent(p) /\ t \in Mates(p)
    <2>1. p \in Ranks /\ t \in Mates(p)
      BY MatesAre
    <2>2. ASSUME NEW u \in Threads, u[1] = p PROVE ~Speaking(u)
      BY <2>2 DEF CountClosed, Waiting, Speaking
    <2> QED
      BY <2>1, <2>2, MatesAre DEF Silent
  <1>3. /\ count[p] + Cardinality(Waiters(p)) = num_threads /\ count[p] > 0
        /\ count[p] \in Nat /\ count[p] <= num_threads
    BY <1>2 DEF CountOpen, TypeOK
  <1>4. TypeOK'
    <2>1. count' \in [Ranks -> 0 .. num_threads]
      BY <1>3, SMTT(60) DEF TypeOK
    <2>2. pc' \in [Threads -> Labels]
      BY ZenonT(60) DEF TypeOK, Labels
    <2>3. round' \in [Ranks -> 0 .. num_rounds]
      <3>1. CASE count[p] = 1
        <4>1. round' = [round EXCEPT ![p] = 0]
          BY <3>1
        <4> QED
          BY <4>1 DEF TypeOK
      <3>2. CASE count[p] # 1
        BY <3>2 DEF TypeOK
      <3> QED
        BY <3>1, <3>2
    <2> QED
      BY <2>1, <2>2, <2>3 DEF TypeOK, Labels
  <1>5. CombinedControl'
    <2> SUFFICES ASSUME NEW u \in Threads
                 PROVE  /\ pc'[u] # "loop" => it'[u] < NumIter
                        /\ pc'[u] = "recv" => round'[u[1]] < num_rounds
                        /\ pc'[u] = "flip" => round'[u[1]] = num_rounds
      BY DEF CombinedControl
    <2>1. CASE u = t
      BY <2>1 DEF CombinedControl, TypeOK
    <2>2. CASE u # t
      <3>1. pc'[u] = pc[u] /\ it'[u] = it[u]
        BY <2>2 DEF TypeOK
      <3>2. u[1] = p => pc[u] \notin {"recv", "flip"}
        BY <1>2, MatesAre DEF Silent, Speaking
      <3>3. u[1] # p => round'[u[1]] = round[u[1]]
        BY DEF TypeOK
      <3> QED
        BY <3>1, <3>2, <3>3 DEF CombinedControl
    <2> QED
      BY <2>1, <2>2
  <1>6. \A u \in Threads : Released(u)' = Released(u) /\ (u # t => Waiting(u)' = Waiting(u))
                           /\ (u # t => Speaking(u)' = Speaking(u))
    BY <1>1 DEF Released, Waiting, Speaking, TypeOK
  <1>7. Agreement'
    BY <1>6 DEF Agreement, Episodes
  <1>8. SenseFresh'
    BY <1>1, <1>6 DEF SenseFresh, TypeOK, Speaking
  <1>9. ~Waiting(t) /\ t \notin Waiters(p)
    BY DEF Waiting, Waiters
  <1>10. ASSUME NEW q \in Ranks, q # p
         PROVE  Waiters(q)' = Waiters(q) /\ Silent(q)' = Silent(q) /\ count'[q] = count[q]
    <2>1. \A u \in Mates(q) : u \in Threads /\ u # t
      BY <1>10, MatesAre
    <2>2. count'[q] = count[q]
      BY <1>10 DEF TypeOK
    <2>3. Waiters(q)' = Waiters(q) /\ Silent(q)' = Silent(q)
      BY <2>1, <1>6 DEF Waiters, Silent
    <2> QED
      BY <2>2, <2>3
  <1>11. CASE count[p] = 1
    <2>1. \A u \in Mates(p) \ {t} : Waiting(u)
      BY <1>2, <1>3, <1>9, <1>11, WaitersAre
    <2>2. \A u \in Mates(p) \ {t} : Waiting(u)' /\ ~Speaking(u)'
      BY <2>1, <1>6, MatesAre DEF Waiting, Speaking
    <2>3. pc'[t] = "send" /\ count'[p] = 0 /\ ~Silent(p)'
      BY <1>2, <1>11 DEF TypeOK, Silent, Speaking
    <2>4. CountClosed'
      <3> SUFFICES ASSUME NEW u \in Threads, Speaking(u)'
                   PROVE  /\ count'[u[1]] = IF pc'[u] = "flip" THEN num_threads ELSE 0
                          /\ \A v \in Threads : v[1] = u[1] /\ v # u => Waiting(v)'
        BY DEF CountClosed
      <3>1. CASE u = t
        BY <3>1, <2>2, <2>3, MatesAre
      <3>2. CASE u # t
        <4>1. u[1] # p
          BY <3>2, <2>2, MatesAre
        <4>2. Speaking(u) /\ count'[u[1]] = count[u[1]] /\ pc'[u] = pc[u]
          BY <3>2, <4>1, <1>6 DEF TypeOK
        <4> QED
          BY <4>1, <4>2, <1>6 DEF CountClosed
      <3> QED
        BY <3>1, <3>2
    <2>5. CountOpen'
      BY <2>3, <1>10 DEF CountOpen
    <2> QED
      BY <1>4, <1>5, <1>7, <1>8, <2>4, <2>5
  <1>12. CASE count[p] # 1
    <2>1. pc'[t] = "spin" /\ Waiting(t)' /\ ~Speaking(t)' /\ count'[p] = count[p] - 1
      BY <1>1, <1>12 DEF TypeOK, Waiting, Speaking
    <2>2. Waiters(p)' = Waiters(p) \cup {t} /\ Silent(p)'
      BY <1>2, <1>6, <2>1, MatesAre DEF Waiters, Silent
    <2>3. Cardinality(Waiters(p)') = Cardinality(Waiters(p)) + 1
      BY <2>2, <1>9, WaitersAre, FS_AddElement
    <2>4. CountOpen'
      <3>1. count'[p] + Cardinality(Waiters(p)') = num_threads /\ count'[p] > 0
        BY <2>1, <2>3, <1>3, <1>12, WaitersAre, SMTT(60)
      <3> QED
        BY <3>1, <1>10 DEF CountOpen
    <2>5. CountClosed'
      <3> SUFFICES ASSUME NEW u \in Threads, Speaking(u)'
                   PROVE  /\ count'[u[1]] = IF pc'[u] = "flip" THEN num_threads ELSE 0
                          /\ \A v \in Threads : v[1] = u[1] /\ v # u => Waiting(v)'
        BY DEF CountClosed
      <3>1. u # t /\ Speaking(u)
        BY <2>1, <1>6
      <3>2. u[1] # p
        BY <3>1, <1>2, MatesAre DEF Silent
      <3>3. count'[u[1]] = count[u[1]] /\ pc'[u] = pc[u]
        BY <3>1, <3>2 DEF TypeOK
      <3> QED
        BY <3>1, <3>2, <3>3, <1>6 DEF CountClosed
    <2> QED
      BY <1>4, <1>5, <1>7, <1>8, <2>4, <2>5
  <1> QED
    BY <1>11, <1>12

\* While t speaks, its rounds and its reset of count keep the others waiting.
LEMMA SpeakTeam ==
    ASSUME TeamInv, NEW t \in Threads, Send(t) \/ Recv(t) \/ Reset(t)
    PROVE  TeamInv'
  <1> USE TeamsAre DEF TeamInv
  <1> DEFINE p == t[1]
  <1>1. /\ Speaking(t) /\ Speaking(t)' /\ pc[t] \in {"send", "recv"}
        /\ pc' = [pc EXCEPT ![t] = pc'[t]] /\ pc'[t] \in {"send", "recv", "flip"}
        /\ sense' = sense /\ my_sense' = my_sense /\ it' = it
        /\ count' = [count EXCEPT ![p] = IF pc'[t] = "flip" THEN num_threads ELSE 0]
        /\ round \in [Ranks -> 0 .. num_rounds] /\ round' = [round EXCEPT ![p] = round'[p]]
        /\ round'[p] \in 0 .. num_rounds
        /\ pc'[t] = "recv" => round'[p] < num_rounds
        /\ pc'[t] = "flip" => round'[p] = num_rounds
    <2>1. count \in [Ranks -> 0 .. num_threads] /\ count[p] = 0 /\ pc[t] \in {"send", "recv"}
      BY DEF Send, Recv, Reset, CountClosed, Speaking, TypeOK
    <2>2. count = [count EXCEPT ![p] = 0]
      BY <2>1
    <2>3. CASE Send(t)
      BY <2>1, <2>2, <2>3 DEF Send, TypeOK, Speaking
    <2>4. CASE Recv(t)
      <3>1. round \in [Ranks -> 0 .. num_rounds] /\ pc \in [Threads -> Labels] /\ p \in Ranks
        BY DEF TypeOK, Labels
      <3>2. round[p] \in Nat /\ round[p] < num_rounds
        BY <2>4, <3>1 DEF Recv, CombinedControl
      <3>3. round' = [round EXCEPT ![p] = @ + 1] /\ pc' = [pc EXCEPT ![t] = "send"]
              /\ sense' = sense /\ my_sense' = my_sense /\ it' = it /\ count' = count
        BY <2>4 DEF Recv
      <3>4. round'[p] = round[p] + 1 /\ pc'[t] = "send"
        BY <3>1, <3>3
      <3>5. round' = [round EXCEPT ![p] = round'[p]] /\ pc' = [pc EXCEPT ![t] = pc'[t]]
        BY <3>3, <3>4
      <3>6. count' = [count EXCEPT ![p] = IF pc'[t] = "flip" THEN num_threads ELSE 0]
        BY <3>3, <3>4, <2>2
      <3>7. round'[p] \in 0 .. num_rounds
        BY <3>2, <3>4
      <3>8. Speaking(t) /\ Speaking(t)'
        BY <2>1, <3>4 DEF Speaking
      <3> QED
        BY <2>1, <3>1, <3>3, <3>4, <3>5, <3>6, <3>7, <3>8
    <2>5. CASE Reset(t)
      BY <2>1, <2>2, <2>5 DEF Reset, TypeOK, Speaking
    <2> QED
      BY <2>3, <2>4, <2>5
  <1>2. sent' \in [Ranks \X Ranks -> Nat]
    <2>1. sent \in [Ranks \X Ranks -> Nat]
      BY DEF TypeOK
    <2>2. CASE Send(t)
      <3>1. round[p] \in 0 .. num_rounds - 1 /\ p \in Ranks
        BY <2>2, SMTT(60) DEF Send, TypeOK
      <3>2. SendTo(p, round[p], NumProcs) \in Ranks
        BY <3>1, Partners DEF num_rounds
      <3> QED
        BY <2>1, <2>2, <3>1, <3>2 DEF Send
    <2>3. CASE Recv(t)
      <3>1. round[p] \in 0 .. num_rounds - 1 /\ p \in Ranks
        BY <2>3, SMTT(60) DEF Recv, TypeOK, CombinedControl
      <3>2. RecvFrom(p, round[p], NumProcs) \in Ranks
        BY <3>1, Partners DEF num_rounds
      <3> QED
        BY <2>1, <2>3, <3>1, <3>2 DEF Recv
    <2>4. CASE Reset(t)
      BY <2>1, <2>4 DEF Reset
    <2> QED
      BY <2>2, <2>3, <2>4
  <1>3. TypeOK'
    <2>1. count' \in [Ranks -> 0 .. num_threads]
      BY <1>1 DEF TypeOK
    <2>2. round' \in [Ranks -> 0 .. num_rounds]
      BY <1>1
    <2>3. pc' \in [Threads -> Labels]
      BY <1>1 DEF TypeOK, Labels
    <2> QED
      BY <1>1, <1>2, <2>1, <2>2, <2>3 DEF TypeOK, Labels
  <1>4. \A u \in Threads : /\ Waiting(u)' = Waiting(u) /\ Released(u)' = Released(u)
                           /\ Speaking(u)' = Speaking(u) /\ (u # t => pc'[u] = pc[u])
    BY <1>1, SMTT(60) DEF Waiting, Released, Speaking, TypeOK
  <1>5. \A u \in Threads : u[1] = p /\ u # t => Waiting(u) /\ pc[u] = "spin" /\ ~Speaking(u)
    BY <1>1 DEF CountClosed, Waiting, Speaking
  <1>6. CombinedControl'
    <2> SUFFICES ASSUME NEW u \in Threads
                 PROVE  /\ pc'[u] # "loop" => it'[u] < NumIter
                        /\ pc'[u] = "recv" => round'[u[1]] < num_rounds
                        /\ pc'[u] = "flip" => round'[u[1]] = num_rounds
      BY DEF CombinedControl
    <2>1. CASE u = t
      BY <2>1, <1>1 DEF CombinedControl
    <2>2. CASE u # t
      <3>1. pc'[u] = pc[u] /\ it'[u] = it[u]
        BY <2>2, <1>1, <1>4
      <3>2. u[1] # p => round'[u[1]] = round[u[1]]
        BY <1>1
      <3> QED
        BY <2>2, <3>1, <3>2, <1>5 DEF CombinedControl
    <2> QED
      BY <2>1, <2>2
  <1>7. SenseFresh' /\ Agreement'
    BY <1>1, <1>4 DEF SenseFresh, Agreement, Episodes, TypeOK
  <1>8. \A q \in Ranks : Waiters(q)' = Waiters(q) /\ Silent(q)' = Silent(q)
    BY <1>4, MatesAre DEF Waiters, Silent
  <1>9. CountOpen'
    <2>1. ~Silent(p)
      BY <1>1, MatesAre DEF Silent
    <2> QED
      BY <2>1, <1>1, <1>8, SMTT(60) DEF CountOpen, TypeOK
  <1>10. CountClosed'
    <2> SUFFICES ASSUME NEW u \in Threads, Speaking(u)'
                 PROVE  /\ count'[u[1]] = IF pc'[u] = "flip" THEN num_threads ELSE 0
                        /\ \A v \in Threads : v[1] = u[1] /\ v # u => Waiting(v)'
      BY DEF CountClosed
    <2>1. CASE u = t
      BY <2>1, <1>1, <1>4, <1>5 DEF TypeOK
    <2>2. CASE u # t
      <3>1. Speaking(u) /\ u[1] # p
        BY <2>2, <1>4, <1>5
      <3> QED
        BY <3>1, <2>2, <1>1, <1>4, SMTT(60) DEF CountClosed, TypeOK
    <2> QED
      BY <2>1, <2>2
  <1> QED
    BY <1>3, <1>6, <1>7, <1>9, <1>10

\* Flipping sense releases the threads of the process.
LEMMA FlipTeam == ASSUME TeamInv, NEW t \in Threads, Flip(t) PROVE TeamInv'
  <1> USE TeamsAre DEF TeamInv, Flip
  <1> DEFINE p == t[1]
  <1>1. it[t] < NumIter /\ my_sense[t] # sense[p] /\ Speaking(t) /\ count[p] = num_threads
    BY DEF CombinedControl, SenseFresh, Speaking, CountClosed
  <1>2. TypeOK'
    <2>1. sense' \in [Ranks -> BOOLEAN]
      BY Zenon DEF TypeOK
    <2>2. it' \in [Threads -> 0 .. NumIter]
      BY <1>1, SMTT(60) DEF TypeOK
    <2>3. pc' \in [Threads -> Labels]
      BY DEF TypeOK, Labels
    <2> QED
      BY <2>1, <2>2, <2>3 DEF TypeOK, Labels
  <1>3. \A u \in Threads : u[1] = p /\ u # t => Waiting(u) /\ pc[u] = "spin" /\ pc'[u] = "spin"
    BY <1>1 DEF CountClosed, Waiting, TypeOK
  <1>4. \A u \in Threads : u[1] = p /\ u # t => Released(u)' /\ ~Waiting(u)' /\ ~Released(u)
    <2> SUFFICES ASSUME NEW u \in Threads, u[1] = p, u # t
                 PROVE  Released(u)' /\ ~Waiting(u)' /\ ~Released(u)
      OBVIOUS
    <2>1. pc[u] = "spin" /\ pc'[u] = "spin" /\ my_sense[u] # sense[p]
      BY <1>3 DEF Waiting
    <2>2. sense'[p] = my_sense[t] /\ my_sense' = my_sense
      BY DEF TypeOK
    <2>3. my_sense[u] = my_sense[t]
      <3>1. my_sense[u] \in BOOLEAN /\ my_sense[t] \in BOOLEAN /\ sense[p] \in BOOLEAN
        BY DEF TypeOK
      <3> QED
        BY <3>1, <2>1, <1>1
    <2> QED
      BY <2>1, <2>2, <2>3 DEF Waiting, Released
  <1>5. ~Released(t) /\ ~Released(t)' /\ ~Waiting(t)' /\ ~Speaking(t)'
    BY DEF Released, Waiting, Speaking, TypeOK
  <1>6. \A u \in Threads : u[1] # p => /\ Waiting(u)' = Waiting(u) /\ Released(u)' = Released(u)
                                      /\ pc'[u] = pc[u] /\ it'[u] = it[u]
    BY DEF Waiting, Released, TypeOK
  <1>7. Agreement'
    <2>1. \A u \in Threads : Episodes(u)' = IF u[1] = p THEN Episodes(u) + 1 ELSE Episodes(u)
      BY <1>4, <1>5, <1>6, SMTT(60) DEF Episodes, TypeOK
    <2> QED
      BY <2>1 DEF Agreement
  <1>8. CombinedControl'
    BY DEF CombinedControl, TypeOK
  <1>9. SenseFresh'
    BY <1>3, <1>5, <1>6 DEF SenseFresh, Speaking, TypeOK
  <1>10. CountClosed'
    <2> SUFFICES ASSUME NEW u \in Threads, Speaking(u)'
                 PROVE  /\ count'[u[1]] = IF pc'[u] = "flip" THEN num_threads ELSE 0
                        /\ \A v \in Threads : v[1] = u[1] /\ v # u => Waiting(v)'
      BY DEF CountClosed
    <2>1. u[1] # p /\ Speaking(u)
      BY <1>3, <1>5, <1>6 DEF Speaking
    <2> QED
      BY <2>1, <1>6 DEF CountClosed
  <1>11. CountOpen'
    <2>1. Waiters(p)' = {}
      BY <1>4, <1>5, MatesAre DEF Waiters
    <2>2. Cardinality(Waiters(p)') = 0
      BY <2>1, FS_EmptySet
    <2>3. \A q \in Ranks \ {p} : Waiters(q)' = Waiters(q) /\ Silent(q)' = Silent(q)
      BY <1>6, MatesAre DEF Waiters, Silent, Speaking
    <2> QED
      BY <2>2, <2>3, <1>1 DEF CountOpen
  <1> QED
    BY <1>2, <1>7, <1>8, <1>9, <1>10, <1>11

\* Leaving the spin loop turns a released thread into one that has returned.
LEMMA LeaveTeam == ASSUME TeamInv, NEW t \in Threads, Leave(t) PROVE TeamInv'
  <1> USE TeamsAre DEF TeamInv, Leave
  <1>1. it[t] < NumIter
    BY DEF CombinedControl
  <1>2. TypeOK' /\ CombinedControl'
    <2>1. it' \in [Threads -> 0 .. NumIter]
      BY <1>1, SMTT(60) DEF TypeOK
    <2>2. pc' \in [Threads -> Labels]
      BY DEF TypeOK, Labels
    <2> QED
      BY <2>1, <2>2 DEF TypeOK, Labels, CombinedControl
  <1>3. ASSUME NEW u \in Threads
        PROVE  Waiting(u)' = Waiting(u) /\ Episodes(u)' = Episodes(u) /\ Speaking(u)' = Speaking(u)
    <2>1. CASE u = t
      <3>1. ~Waiting(t) /\ ~Waiting(t)' /\ ~Speaking(t) /\ ~Speaking(t)' /\ Released(t)
              /\ ~Released(t)' /\ it'[t] = it[t] + 1 /\ it[t] \in Nat
        BY DEF Waiting, Released, Speaking, TypeOK
      <3>2. Episodes(t)' = Episodes(t)
        BY <3>1 DEF Episodes
      <3>3. Waiting(t)' = Waiting(t) /\ Speaking(t)' = Speaking(t)
        BY <3>1 DEF Waiting, Speaking
      <3> QED
        BY <2>1, <3>2, <3>3
    <2>2. CASE u # t
      BY <2>2 DEF Waiting, Released, Speaking, Episodes, TypeOK
    <2> QED
      BY <2>1, <2>2
  <1>4. SenseFresh' /\ Agreement'
    BY <1>3 DEF SenseFresh, Agreement, TypeOK
  <1>5. CountOpen'
    <2>1. ASSUME NEW p \in Ranks PROVE Waiters(p)' = Waiters(p) /\ Silent(p)' = Silent(p)
      <3>1. \A u \in Mates(p) : u \in Threads
        BY MatesAre, Zenon
      <3> QED
        BY <1>3, <3>1, Zenon DEF Waiters, Silent, Mates
    <2> QED
      BY <2>1 DEF CountOpen
  <1>6. CountClosed'
    BY <1>3 DEF CountClosed, Speaking, TypeOK
  <1> QED
    BY <1>2, <1>4, <1>5, <1>6

\* The counts of the processes are natural numbers and their rounds follow
\* each other.
LEMMA CombinedCounts ==
    ASSUME TeamInv
    PROVE  /\ combined_sends \in SendCounts(NumProcs) /\ combined_past \in PastCounts(NumProcs)
           /\ \A p \in Ranks : Met(p) \in Nat /\ round[p] \in 0 .. num_rounds
           /\ \A p \in Ranks : \A k \in 0 .. num_rounds - 1 :
                combined_sends[<<p, k>>] = CombinedSends(p, k)
           /\ \A p \in Ranks : \A k \in 0 .. num_rounds :
                combined_past[<<p, k>>] = CombinedPast(p, k)
           /\ InOrder(NumProcs, combined_sends, combined_past)
  <1>1. num_rounds \in Nat /\ Ranks = 0 .. NumProcs - 1 /\ num_rounds = NumRounds(NumProcs)
    BY TeamsAre DEF num_rounds
  <1>2. /\ \A p \in Ranks : \A k \in 0 .. num_rounds - 1 :
             combined_sends[<<p, k>>] = CombinedSends(p, k)
        /\ \A p \in Ranks : \A k \in 0 .. num_rounds :
             combined_past[<<p, k>>] = CombinedPast(p, k)
    BY DEF combined_sends, combined_past
  <1>3. \A p \in Ranks : Met(p) \in Nat /\ round[p] \in 0 .. num_rounds
    BY MatesAre, TeamsAre, SMTT(60) DEF Met, Episodes, TeamInv, TypeOK
  <1>4. /\ \A p \in Ranks : \A k \in 0 .. num_rounds - 1 : CombinedSends(p, k) \in Nat
        /\ \A p \in Ranks : \A k \in 0 .. num_rounds : CombinedPast(p, k) \in Nat
    BY <1>3 DEF CombinedSends, CombinedPast
  <1>5. combined_sends \in SendCounts(NumProcs) /\ combined_past \in PastCounts(NumProcs)
    BY <1>1, <1>4 DEF combined_sends, combined_past, SendCounts, PastCounts
  <1>6. ASSUME NEW p \in Ranks, NEW k \in 0 .. num_rounds - 1
        PROVE  CombinedSends(p, k) <= CombinedPast(p, k) /\ CombinedPast(p, k + 1) <= CombinedPast(p, k)
    <2>1. Receiving(p) => ~Silent(p)
      BY DEF Receiving, Silent, Speaking
    <2>2. Met(p) \in Nat /\ round[p] \in Nat /\ k \in Nat
      BY <1>1, <1>3
    <2> QED
      BY <2>1, <2>2 DEF CombinedSends, CombinedPast
  <1>7. \A k \in 0 .. num_rounds - 1 : k \in 0 .. num_rounds /\ k + 1 \in 0 .. num_rounds
    BY <1>1
  <1>8. InOrder(NumProcs, combined_sends, combined_past)
    BY <1>1, <1>2, <1>6, <1>7 DEF InOrder
  <1> QED
    BY <1>2, <1>3, <1>5, <1>8

\* The steps that send and receive nothing leave the counts of the rounds
\* alone: a thread begins to speak before its first round, and the threads of
\* a process have met when the last one is past.
LEMMA QuietCombined ==
    ASSUME CombinedInv, TeamInv', sent' = sent,
           \A p \in Ranks :
             \/ /\ Met(p)' = Met(p) /\ Silent(p)' = Silent(p) /\ Receiving(p)' = Receiving(p)
                /\ round'[p] = round[p]
             \/ Met(p)' = Met(p) /\ Silent(p) /\ ~Receiving(p)' /\ round'[p] = 0
             \/ Met(p)' = Met(p) + 1 /\ ~Silent(p) /\ Silent(p)' /\ round[p] = num_rounds
    PROVE  CombinedInv'
  <1>1. num_rounds \in Nat /\ Ranks = 0 .. NumProcs - 1 /\ num_rounds = NumRounds(NumProcs)
    BY TeamsAre DEF num_rounds
  <1>2. ASSUME NEW p \in Ranks, NEW k \in 0 .. num_rounds - 1
        PROVE  /\ CombinedSends(p, k)' = CombinedSends(p, k)
               /\ CombinedPast(p, k + 1)' = CombinedPast(p, k + 1)
    <2>1. Met(p) \in Nat /\ round[p] \in Nat /\ k \in Nat /\ k < num_rounds
      BY <1>1, CombinedCounts DEF CombinedInv
    <2>2. (Receiving(p) => ~Silent(p)) /\ (Receiving(p)' => ~Silent(p)')
      BY DEF Receiving, Silent, Speaking
    <2>3. CASE /\ Met(p)' = Met(p) /\ Silent(p)' = Silent(p) /\ Receiving(p)' = Receiving(p)
               /\ round'[p] = round[p]
      BY <2>3 DEF CombinedSends, CombinedPast
    <2>4. CASE Met(p)' = Met(p) /\ Silent(p) /\ ~Receiving(p)' /\ round'[p] = 0
      BY <2>1, <2>2, <2>4 DEF CombinedSends, CombinedPast
    <2>5. CASE Met(p)' = Met(p) + 1 /\ ~Silent(p) /\ Silent(p)' /\ round[p] = num_rounds
      BY <2>1, <2>2, <2>5 DEF CombinedSends, CombinedPast
    <2> QED
      BY <2>3, <2>4, <2>5
  <1>3. ASSUME NEW p \in Ranks, NEW k \in 0 .. num_rounds - 1
        PROVE  /\ combined_sends'[<<p, k>>] = combined_sends[<<p, k>>]
               /\ combined_past'[<<p, k + 1>>] = combined_past[<<p, k + 1>>]
    <2>1. k + 1 \in 0 .. num_rounds
      BY <1>1
    <2> QED
      BY <2>1, <1>2 DEF combined_sends, combined_past
  <1>4. \A s \in Ranks : \A k \in 0 .. num_rounds - 1 : SendTo(s, k, NumProcs) \in Ranks
    BY <1>1, TeamsAre, Partners
  <1>5. Balanced(NumProcs, sent, combined_sends', combined_past')
    BY <1>1, <1>3, <1>4, SameBalance DEF CombinedInv
  <1> QED
    BY <1>5 DEF CombinedInv

\* The thread that speaks is the only one to.
LEMMA Speaker ==
    ASSUME TeamInv, NEW t \in Threads, Speaking(t)
    PROVE  ~Silent(t[1]) /\ (Receiving(t[1]) <=> pc[t] = "recv")
  <1>1. t[1] \in Ranks /\ t \in Mates(t[1])
    BY TeamsAre, MatesAre
  <1>2. \A u \in Mates(t[1]) : u # t => pc[u] = "spin"
    BY <1>1, MatesAre DEF TeamInv, CountClosed, Waiting
  <1> QED
    BY <1>1, <1>2 DEF Silent, Receiving

\* What a step of t leaves alone in the other processes.
LEMMA OtherProcesses ==
    ASSUME TeamInv, NEW t \in Threads, Step(t), NEW p \in Ranks, p # t[1]
    PROVE  /\ Met(p)' = Met(p) /\ Silent(p)' = Silent(p) /\ Receiving(p)' = Receiving(p)
           /\ round'[p] = round[p]
  <1>1. \A u \in Mates(p) : u \in Threads /\ u # t /\ u[1] = p
    BY MatesAre
  <1>2. Mate(p) \in Mates(p)
    BY MatesAre
  <1>3. \A u \in Threads : u # t => pc'[u] = pc[u] /\ my_sense'[u] = my_sense[u] /\ it'[u] = it[u]
    BY DEF TeamInv, TypeOK, Step, Enter, Arrive, Send, Recv, Reset, Flip, Leave
  <1>4. sense'[p] = sense[p] /\ round'[p] = round[p]
    BY DEF TeamInv, TypeOK, Step, Enter, Arrive, Send, Recv, Reset, Flip, Leave
  <1>5. Silent(p)' = Silent(p) /\ Receiving(p)' = Receiving(p)
    BY <1>1, <1>3 DEF Silent, Receiving, Speaking
  <1>6. Met(p)' = Met(p)
    <2> DEFINE u == Mate(p)
    <2>1. u \in Threads /\ u # t /\ u[1] = p
      BY <1>1, <1>2
    <2>2. Released(u)' = Released(u) /\ it'[u] = it[u]
      BY <2>1, <1>3, <1>4 DEF Released
    <2>3. Episodes(u)' = Episodes(u)
      BY <2>2 DEF Episodes
    <2> QED
      BY <2>3 DEF Met, Mate
  <1> QED
    BY <1>4, <1>5, <1>6

\* A call, a return and the reset of count are seen by nobody else.
LEMMA EnterLeaveCombined ==
    ASSUME CombinedInv, NEW t \in Threads, Enter(t) \/ Leave(t) \/ Reset(t)
    PROVE  CombinedInv'
  <1> DEFINE p == t[1]
  <1>1. TeamInv /\ TeamInv' /\ Step(t) /\ p \in Ranks /\ sent' = sent
    BY EnterTeam, LeaveTeam, SpeakTeam, TeamsAre DEF CombinedInv, Step, Enter, Leave, Reset
  <1>2. \A u \in Threads : /\ Speaking(u)' = Speaking(u) /\ Episodes(u)' = Episodes(u)
                           /\ pc'[u] = "recv" <=> pc[u] = "recv"
    <2>1. CASE Enter(t)
      BY <1>1, <2>1 DEF TeamInv, TypeOK, Enter, Speaking, Episodes, Released
    <2>2. CASE Leave(t)
      <3>1. ASSUME NEW u \in Threads PROVE Episodes(u)' = Episodes(u)
        <4>1. CASE u = t
          <5>1. Released(t) /\ ~Released(t)' /\ it'[t] = it[t] + 1 /\ it[t] \in Nat
            BY <1>1, <2>2, TeamsAre DEF TeamInv, TypeOK, Leave, Released
          <5> QED
            BY <4>1, <5>1 DEF Episodes
        <4>2. CASE u # t
          BY <1>1, <2>2, <4>2 DEF TeamInv, TypeOK, Leave, Released, Episodes
        <4> QED
          BY <4>1, <4>2
      <3>2. \A u \in Threads : Speaking(u)' = Speaking(u) /\ (pc'[u] = "recv" <=> pc[u] = "recv")
        BY <1>1, <2>2 DEF TeamInv, TypeOK, Leave, Speaking
      <3> QED
        BY <3>1, <3>2
    <2>3. CASE Reset(t)
      BY <1>1, <2>3 DEF TeamInv, TypeOK, Reset, Speaking, Episodes, Released
    <2> QED
      BY <2>1, <2>2, <2>3
  <1>3. \A u \in Mates(p) : u \in Threads
    BY <1>1, MatesAre
  <1>4. Silent(p)' = Silent(p) /\ Receiving(p)' = Receiving(p)
    BY <1>2, <1>3 DEF Silent, Receiving
  <1>5. Met(p)' = Met(p)
    <2>1. Mate(p) \in Threads
      BY <1>1, MatesAre
    <2> QED
      BY <2>1, <1>2 DEF Met, Mate
  <1>6. round' = round
    BY DEF Enter, Leave, Reset
  <1>7. \A q \in Ranks : /\ Met(q)' = Met(q) /\ Silent(q)' = Silent(q)
                         /\ Receiving(q)' = Receiving(q) /\ round'[q] = round[q]
    BY <1>1, <1>4, <1>5, <1>6, OtherProcesses
  <1> QED
    BY <1>1, <1>7, QuietCombined

\* The last thread to arrive has all its rounds before it.
LEMMA ArriveCombined == ASSUME CombinedInv, NEW t \in Threads, Arrive(t) PROVE CombinedInv'
  <1> DEFINE p == t[1]
  <1>1. TeamInv /\ TeamInv' /\ Step(t) /\ p \in Ranks /\ sent' = sent
    BY ArriveTeam, TeamsAre DEF CombinedInv, Step, Arrive
  <1>2. t \in Mates(p) /\ \A u \in Mates(p) : u \in Threads /\ u[1] = p
    BY <1>1, MatesAre
  <1>3. pc[t] = "arrive" /\ my_sense[t] # sense[p] /\ pc \in [Threads -> Labels]
    BY <1>1 DEF TeamInv, TypeOK, SenseFresh, Arrive, Labels
  <1>4. Silent(p)
    <2>1. ASSUME NEW u \in Threads, u[1] = p PROVE ~Speaking(u)
      BY <1>1, <1>3, <2>1 DEF TeamInv, CountClosed, Waiting, Speaking
    <2> QED
      BY <2>1, <1>2 DEF Silent
  <1>5. \A u \in Threads : (u # t => pc'[u] = pc[u]) /\ pc'[t] \in {"send", "spin"}
    BY <1>3 DEF Arrive
  <1>6. ~Receiving(p)'
    BY <1>2, <1>4, <1>5 DEF Receiving, Silent, Speaking
  <1>7. Met(p)' = Met(p)
    <2>1. ASSUME NEW u \in Threads PROVE Episodes(u)' = Episodes(u)
      <3>1. Released(u)' = Released(u) /\ it' = it
        BY <1>3, <1>5 DEF Released, Arrive
      <3> QED
        BY <3>1 DEF Episodes
    <2>2. Mate(p) \in Threads
      BY <1>1, MatesAre
    <2> QED
      BY <2>1, <2>2 DEF Met, Mate
  <1>8. CASE count[p] = 1
    <2>1. round'[p] = 0
      BY <1>1, <1>8 DEF Arrive, TeamInv, TypeOK
    <2> QED
      BY <2>1, <1>1, <1>4, <1>6, <1>7, OtherProcesses, QuietCombined
  <1>9. CASE count[p] # 1
    <2>1. round' = round /\ pc'[t] = "spin"
      BY <1>3, <1>9 DEF Arrive
    <2>2. Silent(p)' = Silent(p) /\ Receiving(p)' = Receiving(p)
      BY <2>1, <1>2, <1>3, <1>5 DEF Silent, Receiving, Speaking
    <2> QED
      BY <2>1, <2>2, <1>1, <1>7, OtherProcesses, QuietCombined
  <1> QED
    BY <1>8, <1>9

\* The flip ends the episode of the process.
LEMMA FlipCombined == ASSUME CombinedInv, NEW t \in Threads, Flip(t) PROVE CombinedInv'
  <1> DEFINE p == t[1]
  <1>1. TeamInv /\ TeamInv' /\ Step(t) /\ p \in Ranks /\ sent' = sent /\ Speaking(t)
    BY FlipTeam, TeamsAre DEF CombinedInv, Step, Flip, Speaking
  <1>2. t \in Mates(p) /\ \A u \in Mates(p) : u \in Threads /\ u[1] = p
    BY <1>1, MatesAre
  <1>3. round[p] = num_rounds /\ my_sense[t] # sense[p]
    BY <1>1 DEF TeamInv, CombinedControl, SenseFresh, Flip
  <1>4. ~Silent(p)
    BY <1>1, Speaker
  <1>5. \A u \in Mates(p) : u # t => Waiting(u) /\ pc[u] = "spin" /\ pc'[u] = "spin"
    BY <1>1, <1>2 DEF TeamInv, CountClosed, Waiting, TypeOK, Flip
  <1>6. Silent(p)'
    BY <1>1, <1>2, <1>5 DEF Silent, Speaking, Flip, TeamInv, TypeOK
  <1>7. Met(p)' = Met(p) + 1
    <2> DEFINE u == Mate(p)
    <2>1. u \in Mates(p) /\ u \in Threads
      BY <1>1, <1>2, MatesAre
    <2>2. Episodes(u)' = Episodes(u) + 1
      <3>1. CASE u = t
        <4>1. ~Released(t) /\ ~Released(t)' /\ it'[t] = it[t] + 1 /\ it[t] \in Nat
          BY <1>1, TeamsAre DEF Released, Flip, TeamInv, TypeOK
        <4> QED
          BY <4>1, <3>1 DEF Episodes
      <3>2. CASE u # t
        <4>1. my_sense[u] \in BOOLEAN /\ my_sense[t] \in BOOLEAN /\ sense[p] \in BOOLEAN
          BY <1>1, <2>1 DEF TeamInv, TypeOK
        <4>2. my_sense[u] = my_sense[t] /\ pc[u] = "spin" /\ pc'[u] = "spin"
          BY <4>1, <1>2, <1>3, <1>5, <2>1, <3>2 DEF Waiting
        <4>3. ~Released(u) /\ Released(u)'
          <5>1. sense'[p] = my_sense[t] /\ my_sense' = my_sense /\ u[1] = p
            BY <1>1, <1>2, <2>1 DEF Flip, TeamInv, TypeOK
          <5> QED
            BY <5>1, <4>2, <1>3 DEF Released
        <4>4. it'[u] = it[u] /\ it[u] \in Nat
          BY <1>1, <2>1, <3>2, TeamsAre DEF Flip, TeamInv, TypeOK
        <4> QED
          BY <4>3, <4>4 DEF Episodes
      <3> QED
        BY <3>1, <3>2
    <2> QED
      BY <2>2 DEF Met, Mate
  <1> QED
    BY <1>1, <1>3, <1>4, <1>6, <1>7, OtherProcesses, QuietCombined

\* A step of a round leaves the episodes and the speakers alone.
LEMMA RoundStep ==
    ASSUME CombinedInv, NEW t \in Threads, Send(t) \/ Recv(t)
    PROVE  /\ TeamInv /\ TeamInv' /\ Step(t) /\ t[1] \in Ranks
           /\ round[t[1]] \in 0 .. num_rounds - 1 /\ round[t[1]] \in Nat
           /\ \A q \in Ranks : Met(q)' = Met(q) /\ Met(q) \in Nat /\ Silent(q)' = Silent(q)
           /\ ~Silent(t[1]) /\ (Receiving(t[1]) <=> pc[t] = "recv")
           /\ (Receiving(t[1])' <=> pc'[t] = "recv")
           /\ \A q \in Ranks : q # t[1] => Receiving(q)' = Receiving(q) /\ round'[q] = round[q]
  <1>1. TeamInv /\ TeamInv' /\ Step(t) /\ t[1] \in Ranks
    BY SpeakTeam, TeamsAre DEF CombinedInv, Step
  <1>2. round[t[1]] \in 0 .. num_rounds - 1 /\ round[t[1]] \in Nat
    <2>1. round[t[1]] \in 0 .. num_rounds /\ num_rounds \in Nat
      BY <1>1, TeamsAre DEF TeamInv, TypeOK
    <2>2. round[t[1]] < num_rounds
      BY <1>1 DEF Send, Recv, TeamInv, CombinedControl
    <2> QED
      BY <2>1, <2>2
  <1>3. Speaking(t) /\ Speaking(t)'
    BY <1>1 DEF Speaking, Send, Recv, TeamInv, TypeOK
  <1>4. ~Silent(t[1]) /\ (Receiving(t[1]) <=> pc[t] = "recv")
    BY <1>1, <1>3, Speaker
  <1>5. t \in Mates(t[1]) /\ \A u \in Mates(t[1]) : u \in Threads
    BY <1>1, MatesAre
  <1>6. \A u \in Mates(t[1]) : u # t => pc[u] = "spin" /\ pc'[u] = "spin"
    <2>1. \A u \in Mates(t[1]) : u # t => pc[u] = "spin"
      BY <1>1, <1>3, <1>5, MatesAre DEF TeamInv, CountClosed, Waiting
    <2> QED
      BY <2>1, <1>1, <1>5 DEF Send, Recv, TeamInv, TypeOK
  <1>7. ~Silent(t[1])' /\ (Receiving(t[1])' <=> pc'[t] = "recv")
    BY <1>3, <1>5, <1>6 DEF Silent, Receiving
  <1>8. Met(t[1])' = Met(t[1])
    <2>1. ASSUME NEW u \in Threads PROVE Episodes(u)' = Episodes(u)
      <3>1. Released(u)' = Released(u) /\ it' = it
        BY <1>1 DEF Released, Send, Recv, TeamInv, TypeOK
      <3> QED
        BY <3>1 DEF Episodes
    <2>2. Mate(t[1]) \in Threads
      BY <1>1, MatesAre
    <2> QED
      BY <2>1, <2>2 DEF Met, Mate
  <1>9. \A q \in Ranks : Met(q) \in Nat
    BY <1>1, CombinedCounts
  <1>10. \A q \in Ranks : q # t[1] =>
           /\ Met(q)' = Met(q) /\ Silent(q)' = Silent(q) /\ Receiving(q)' = Receiving(q)
           /\ round'[q] = round[q]
    BY <1>1, OtherProcesses
  <1>11. \A q \in Ranks : Met(q)' = Met(q) /\ Met(q) \in Nat
    BY <1>8, <1>9, <1>10
  <1>12. \A q \in Ranks : Silent(q)' = Silent(q)
    BY <1>4, <1>7, <1>10 DEF Silent
  <1> QED
    BY <1>1, <1>2, <1>4, <1>7, <1>10, <1>11, <1>12

\* The process sends in its round.
LEMMA SendCombined == ASSUME CombinedInv, NEW t \in Threads, Send(t) PROVE CombinedInv'
  <1> DEFINE p == t[1]
             k == round[p]
  <1>1. /\ TeamInv /\ TeamInv' /\ p \in Ranks /\ k \in 0 .. num_rounds - 1 /\ k \in Nat
        /\ \A q \in Ranks : Met(q)' = Met(q) /\ Met(q) \in Nat /\ Silent(q)' = Silent(q)
        /\ ~Silent(p) /\ ~Receiving(p) /\ Receiving(p)'
        /\ \A q \in Ranks : q # p => Receiving(q)' = Receiving(q)
        /\ round' = round
    <2>1. pc[t] = "send" /\ pc'[t] = "recv" /\ round' = round
      BY DEF Send, CombinedInv, TeamInv, TypeOK
    <2> QED
      BY <2>1, RoundStep
  <1>2. num_rounds \in Nat /\ Ranks = 0 .. NumProcs - 1 /\ num_rounds = NumRounds(NumProcs)
    BY TeamsAre DEF num_rounds
  <1>3. ASSUME NEW q \in Ranks, NEW l \in 0 .. num_rounds - 1
        PROVE  CombinedSends(q, l)' = IF q = p /\ l = k THEN CombinedSends(q, l) + 1
                                      ELSE CombinedSends(q, l)
    <2>1. CASE q = p
      BY <2>1, <1>1, <1>2 DEF CombinedSends
    <2>2. CASE q # p
      BY <2>2, <1>1 DEF CombinedSends
    <2> QED
      BY <2>1, <2>2
  <1>4. ASSUME NEW q \in Ranks, NEW l \in 0 .. num_rounds
        PROVE  CombinedPast(q, l)' = CombinedPast(q, l)
    BY <1>1 DEF CombinedPast
  <1>5. combined_past' = combined_past
    BY <1>4 DEF combined_past
  <1>6. combined_sends \in SendCounts(NumProcs) /\ combined_past \in PastCounts(NumProcs)
    BY <1>1, CombinedCounts
  <1> HIDE DEF k, p
  <1>7. combined_sends' = [combined_sends EXCEPT ![<<p, k>>] = @ + 1]
    <2>1. \A q \in Ranks : \A l \in 0 .. num_rounds - 1 :
            CombinedSends(q, l) \in Nat /\ CombinedSends(q, l)' \in Nat
      <3>1. \A q \in Ranks : \A l \in 0 .. num_rounds - 1 : CombinedSends(q, l) \in Nat
        BY <1>1 DEF CombinedSends
      <3> QED
        BY <3>1, <1>3
    <2>2. combined_sends' \in [Ranks \X (0 .. num_rounds - 1) -> Nat]
            /\ [combined_sends EXCEPT ![<<p, k>>] = @ + 1]
                 \in [Ranks \X (0 .. num_rounds - 1) -> Nat]
      BY <2>1, <1>1 DEF combined_sends
    <2>3. ASSUME NEW q \in Ranks, NEW l \in 0 .. num_rounds - 1
          PROVE  combined_sends'[<<q, l>>] = [combined_sends EXCEPT ![<<p, k>>] = @ + 1][<<q, l>>]
      BY <1>1, <1>3 DEF combined_sends
    <2> QED
      BY <2>2, <2>3, PairFunctions
  <1>8. sent' = [sent EXCEPT ![<<p, SendTo(p, k, NumProcs)>>] = @ + 1]
    BY DEF Send, p, k
  <1>9. Balanced(NumProcs, sent', combined_sends', combined_past')
    BY <1>1, <1>2, <1>5, <1>6, <1>7, <1>8, SendBalanced, TeamsAre DEF CombinedInv
  <1> QED
    BY <1>1, <1>9 DEF CombinedInv

\* The process receives in its round and is past it.
LEMMA RecvCombined == ASSUME CombinedInv, NEW t \in Threads, Recv(t) PROVE CombinedInv'
  <1> DEFINE p == t[1]
             k == round[p]
             s == RecvFrom(p, k, NumProcs)
  <1>1. /\ TeamInv /\ TeamInv' /\ p \in Ranks /\ k \in 0 .. num_rounds - 1 /\ k \in Nat
        /\ \A q \in Ranks : Met(q)' = Met(q) /\ Met(q) \in Nat /\ Silent(q)' = Silent(q)
        /\ ~Silent(p) /\ Receiving(p) /\ ~Receiving(p)' /\ round'[p] = k + 1
        /\ \A q \in Ranks : q # p => Receiving(q)' = Receiving(q) /\ round'[q] = round[q]
    <2>1. pc[t] = "recv" /\ pc'[t] = "send"
      BY DEF Recv, CombinedInv, TeamInv, TypeOK
    <2>2. p \in Ranks
      BY TeamsAre
    <2>3. round'[p] = k + 1
      BY <2>2 DEF Recv, CombinedInv, TeamInv, TypeOK
    <2> QED
      BY <2>1, <2>3, RoundStep
  <1>2. num_rounds \in Nat /\ Ranks = 0 .. NumProcs - 1 /\ num_rounds = NumRounds(NumProcs)
    BY TeamsAre DEF num_rounds
  <1>3. ASSUME NEW q \in Ranks, NEW l \in 0 .. num_rounds
        PROVE  CombinedPast(q, l)' = IF q = p /\ l = k + 1 THEN CombinedPast(q, l) + 1
                                     ELSE CombinedPast(q, l)
    <2>1. CASE q = p
      BY <2>1, <1>1, <1>2 DEF CombinedPast
    <2>2. CASE q # p
      BY <2>2, <1>1 DEF CombinedPast
    <2> QED
      BY <2>1, <2>2
  <1>4. ASSUME NEW q \in Ranks, NEW l \in 0 .. num_rounds - 1
        PROVE  CombinedSends(q, l)' = CombinedSends(q, l)
    <2>1. CASE q = p
      BY <2>1, <1>1, <1>2 DEF CombinedSends
    <2>2. CASE q # p
      BY <2>2, <1>1 DEF CombinedSends
    <2> QED
      BY <2>1, <2>2
  <1>5. combined_sends' = combined_sends
    BY <1>4 DEF combined_sends
  <1>6. combined_sends \in SendCounts(NumProcs) /\ combined_past \in PastCounts(NumProcs)
    BY <1>1, CombinedCounts
  <1>7. sent' = [sent EXCEPT ![<<s, p>>] = @ - 1] /\ sent[<<s, p>>] > 0
    BY DEF Recv
  <1> HIDE DEF k, p
  <1>8. combined_past' = [combined_past EXCEPT ![<<p, k + 1>>] = @ + 1]
    <2>1. \A q \in Ranks : \A l \in 0 .. num_rounds :
            CombinedPast(q, l) \in Nat /\ CombinedPast(q, l)' \in Nat
      <3>1. \A q \in Ranks : \A l \in 0 .. num_rounds : CombinedPast(q, l) \in Nat
        BY <1>1 DEF CombinedPast
      <3> QED
        BY <3>1, <1>3
    <2>2. k + 1 \in 0 .. num_rounds
      BY <1>1, <1>2
    <2>3. combined_past' \in [Ranks \X (0 .. num_rounds) -> Nat]
            /\ [combined_past EXCEPT ![<<p, k + 1>>] = @ + 1] \in [Ranks \X (0 .. num_rounds) -> Nat]
      BY <2>1, <2>2, <1>1 DEF combined_past
    <2>4. ASSUME NEW q \in Ranks, NEW l \in 0 .. num_rounds
          PROVE  combined_past'[<<q, l>>] = [combined_past EXCEPT ![<<p, k + 1>>] = @ + 1][<<q, l>>]
      BY <1>1, <1>3, <2>2 DEF combined_past
    <2> QED
      BY <2>3, <2>4, PairFunctions
  <1>9. Balanced(NumProcs, sent', combined_sends', combined_past')
    BY <1>1, <1>2, <1>5, <1>6, <1>7, <1>8, RecvBalanced, TeamsAre DEF CombinedInv
  <1> QED
    BY <1>1, <1>9 DEF CombinedInv

\* Initially no process has sent anything.
LEMMA InitCombined == ASSUME Init PROVE CombinedInv
  <1>1. TeamInv
    BY InitTeam
  <1>2. num_rounds \in Nat /\ Ranks = 0 .. NumProcs - 1 /\ num_rounds = NumRounds(NumProcs)
    BY TeamsAre DEF num_rounds
  <1>3. \A p \in Ranks : Met(p) = 0 /\ Silent(p) /\ ~Receiving(p)
    <2> SUFFICES ASSUME NEW p \in Ranks PROVE Met(p) = 0 /\ Silent(p) /\ ~Receiving(p)
      OBVIOUS
    <2>1. Mate(p) \in Threads /\ \A t \in Mates(p) : t \in Threads
      BY MatesAre
    <2>2. \A t \in Threads : pc[t] = "loop" /\ it[t] = 0
      BY DEF Init
    <2>3. Met(p) = 0
      BY <2>1, <2>2 DEF Met, Episodes, Released
    <2> QED
      BY <2>1, <2>2, <2>3 DEF Silent, Speaking, Receiving
  <1>4. /\ \A p \in Ranks : \A k \in 0 .. num_rounds - 1 : combined_sends[<<p, k>>] = 0
        /\ \A p \in Ranks : \A k \in 0 .. num_rounds : combined_past[<<p, k>>] = 0
    BY <1>3 DEF combined_sends, combined_past, CombinedSends, CombinedPast
  <1>5. ASSUME NEW s \in Ranks, NEW k \in 0 .. num_rounds - 1
        PROVE  sent[<<s, SendTo(s, k, NumProcs)>>]
                 = combined_sends[<<s, k>>] - combined_past[<<SendTo(s, k, NumProcs), k + 1>>]
    <2>1. SendTo(s, k, NumProcs) \in Ranks /\ k + 1 \in 0 .. num_rounds
      <3>1. SendTo(s, k, NumProcs) \in Ranks
        BY <1>2, TeamsAre, Partners
      <3>2. k + 1 \in 0 .. num_rounds
        BY <1>2
      <3> QED
        BY <3>1, <3>2
    <2>2. combined_sends[<<s, k>>] = 0 /\ combined_past[<<SendTo(s, k, NumProcs), k + 1>>] = 0
      BY <1>4, <2>1
    <2>3. sent[<<s, SendTo(s, k, NumProcs)>>] = 0
      BY <2>1 DEF Init
    <2> QED
      BY <2>2, <2>3
  <1>6. sent \in [Ranks \X Ranks -> Nat] /\ \A s, d \in Ranks : ~(sent[<<s, d>>] > 0)
    BY DEF Init
  <1>7. Balanced(NumProcs, sent, combined_sends, combined_past)
    BY <1>2, <1>5, <1>6, Zenon DEF Balanced
  <1> QED
    BY <1>1, <1>7 DEF CombinedInv

\* Every step of combined.c keeps the invariant.
LEMMA NextCombined ==
    ASSUME CombinedInv, (\E t \in Threads : Step(t)) \/ UNCHANGED vars
    PROVE  CombinedInv'
  <1>1. CASE UNCHANGED vars
    <2>1. TeamInv' = TeamInv
      BY <1>1 DEF vars, TeamInv, TypeOK, CombinedControl, SenseFresh, Agreement, CountOpen,
                  CountClosed, Episodes, Released, Waiting, Speaking, Silent, Waiters
    <2>2. combined_sends' = combined_sends /\ combined_past' = combined_past /\ sent' = sent
      BY <1>1 DEF vars, combined_sends, combined_past, CombinedSends, CombinedPast, Met, Episodes,
                  Released, Silent, Speaking, Receiving
    <2> QED
      BY <2>1, <2>2 DEF CombinedInv
  <1> QED
    BY <1>1, EnterLeaveCombined, ArriveCombined, SendCombined, RecvCombined, FlipCombined DEF Step

\* A thread of combined.c that is released or about to flip knows that every
\* thread of every process has made the call.
LEMMA CombinedReturnsLast ==
    ASSUME CombinedInv, NEW t \in Threads, pc[t] = "flip" \/ Released(t), NEW u \in Threads
    PROVE  it[t] + 1 <= it[u] + (IF Inside(u) THEN 1 ELSE 0)
  <1> DEFINE p == t[1]
             q == u[1]
  <1>1. TeamInv /\ p \in Ranks /\ q \in Ranks /\ it[t] \in Nat /\ it[u] \in Nat
    <2>1. TeamInv /\ it \in [Threads -> 0 .. NumIter] /\ NumIter \in Nat
      BY TeamsAre DEF CombinedInv, TeamInv, TypeOK
    <2> QED
      BY <2>1, TeamsAre
  <1>2. num_rounds \in Nat /\ Ranks = 0 .. NumProcs - 1 /\ num_rounds = NumRounds(NumProcs)
    BY TeamsAre DEF num_rounds
  <1>3. CombinedPast(p, num_rounds) <= CombinedPast(q, 0)
    <2>1. combined_past[<<p, num_rounds>>] <= combined_past[<<q, 0>>]
      BY <1>1, <1>2, TeamsAre, CombinedCounts, Everyone DEF CombinedInv
    <2>2. num_rounds \in 0 .. num_rounds /\ 0 \in 0 .. num_rounds
      BY <1>2
    <2> QED
      BY <1>1, <2>1, <2>2, CombinedCounts
  <1>4. Episodes(t) = Met(p) /\ Episodes(u) = Met(q) /\ Met(p) \in Nat /\ Met(q) \in Nat
    <2>1. Mate(p) \in Threads /\ Mate(p)[1] = p /\ Mate(q) \in Threads /\ Mate(q)[1] = q
      BY <1>1, MatesAre
    <2> QED
      BY <1>1, <2>1, CombinedCounts DEF TeamInv, Agreement, Met
  <1>5. it[t] + 1 <= CombinedPast(p, num_rounds)
    <2>1. CASE pc[t] = "flip"
      <3>1. ~Silent(p) /\ round[p] = num_rounds /\ ~Released(t)
        BY <1>1, <2>1, Speaker DEF Speaking, Released, TeamInv, CombinedControl
      <3> QED
        BY <3>1, <1>1, <1>2, <1>4 DEF CombinedPast, Episodes
    <2>2. CASE Released(t)
      BY <2>2, <1>1, <1>2, <1>4 DEF CombinedPast, Episodes
    <2> QED
      BY <2>1, <2>2
  <1>6. CombinedPast(q, 0) <= it[u] + (IF Inside(u) THEN 1 ELSE 0)
    <2>1. CASE Silent(q)
      BY <2>1, <1>1, <1>4 DEF CombinedPast, Episodes, Released, Inside
    <2>2. CASE ~Silent(q)
      <3>1. PICK v \in Threads : v[1] = q /\ Speaking(v)
        BY <1>1, <2>2, MatesAre DEF Silent
      <3>2. Inside(u) /\ ~Released(u)
        <4>1. CASE u = v
          BY <4>1, <3>1 DEF Inside, Released, Speaking
        <4>2. CASE u # v
          BY <1>1, <4>2, <3>1 DEF TeamInv, CountClosed, Waiting, Inside, Released
        <4> QED
          BY <4>1, <4>2
      <3> QED
        BY <3>2, <1>1, <1>4 DEF CombinedPast, Episodes
    <2> QED
      BY <2>1, <2>2
  <1>7. CombinedPast(p, num_rounds) \in Nat /\ CombinedPast(q, 0) \in Nat
    BY <1>4 DEF CombinedPast
  <1> QED
    BY <1>1, <1>3, <1>5, <1>6, <1>7

-----------------------------------------------------------------------------
(* The harness with any of the three barriers *)

\* The barriers that are not linked keep their initial values.
Unlinked ==
    /\ linked \in {"gtmpi1.c", "gtmpi2.c", "combined.c"}
    /\ linked # "gtmpi1.c" => \A p \in R : diss_pc[p] = "loop" /\ diss_it[p] = 0
    /\ linked # "gtmpi2.c" => \A p \in R : tree_pc[p] = "loop" /\ tree_it[p] = 0
    /\ linked # "combined.c" => \A t \in Threads : pc[t] = "loop" /\ it[t] = 0

\* The inductive invariant of the programs.
MpiInv == DissInv /\ TreeInv /\ CombinedInv /\ Unlinked

\* The quotient and the remainder determine a number.
LEMMA Division ==
    ASSUME NEW a \in Nat, NEW b \in Nat, NEW n \in Nat, n > 0, a \div n = b \div n, a % n = b % n
    PROVE  a = b
  OBVIOUS

\* The numbering gives every rank a thread, and different ranks different ones.
LEMMA Numbering ==
    ASSUME NEW p \in R, NEW q \in R
    PROVE  ThreadOf(p) \in Threads /\ (ThreadOf(p) = ThreadOf(q) => p = q)
  <1>1. ThreadOf(p) \in Threads
    BY NumberingAssumption DEF R, Diss!Parties
  <1>2. p \in Nat /\ q \in Nat /\ num_threads \in Nat /\ num_threads > 0
    BY RanksAre, TeamsAre
  <1>3. ASSUME ThreadOf(p) = ThreadOf(q) PROVE p = q
    <2>1. p \div num_threads = q \div num_threads /\ p % num_threads = q % num_threads
      BY <1>3 DEF ThreadOf
    <2> QED
      BY <1>2, <2>1, Division
  <1> QED
    BY <1>1, <1>3

\* What a step does, by the barrier that is linked.
LEMMA MpiStep ==
    ASSUME [MpiNext]_mpi_vars
    PROVE  \/ UNCHANGED mpi_vars
           \/ \E p \in R :
                /\ linked' = linked
                /\ \/ linked = "gtmpi1.c" /\ Diss!Step(p) /\ UNCHANGED <<vars, tree_vars>>
                   \/ linked = "gtmpi2.c" /\ Tree!Step(p) /\ UNCHANGED <<vars, diss_vars>>
                   \/ /\ linked = "combined.c" /\ Step(ThreadOf(p))
                      /\ UNCHANGED <<diss_vars, tree_vars>>
  BY DEF MpiNext, PartyStep, MpiDone, R

\* Whichever barrier the program is linked with, the invariants of all three
\* hold: those that are not linked do not move.
THEOREM MpiInvariance == MpiSpec => []MpiInv
  <1>1. MpiInit => MpiInv
    <2> SUFFICES ASSUME MpiInit PROVE MpiInv
      OBVIOUS
    <2>1. \A p \in R : diss_pc[p] = "loop" /\ diss_it[p] = 0 /\ tree_pc[p] = "loop" /\ tree_it[p] = 0
      BY RanksAre DEF MpiInit, Diss!Init, Tree!Init
    <2>2. \A t \in Threads : pc[t] = "loop" /\ it[t] = 0
      BY DEF MpiInit, Init
    <2>3. Unlinked
      BY <2>1, <2>2 DEF MpiInit, Unlinked
    <2> QED
      BY <2>3, InitDiss, InitTree, InitCombined DEF MpiInit, MpiInv
  <1>2. ASSUME MpiInv, [MpiNext]_mpi_vars PROVE MpiInv'
    <2>1. /\ (\E p \in R : Diss!Step(p)) \/ UNCHANGED diss_vars
          /\ (\E p \in R : Tree!Step(p)) \/ UNCHANGED tree_vars
          /\ (\E t \in Threads : Step(t)) \/ UNCHANGED vars
      BY <1>2, MpiStep, Numbering DEF mpi_vars
    <2>2. DissInv' /\ TreeInv' /\ CombinedInv'
      BY <1>2, <2>1, NextDiss, NextTree, NextCombined DEF MpiInv
    <2>3. /\ linked' = linked
          /\ linked # "gtmpi1.c" => UNCHANGED diss_vars
          /\ linked # "gtmpi2.c" => UNCHANGED tree_vars
          /\ linked # "combined.c" => UNCHANGED vars
      BY <1>2, MpiStep DEF mpi_vars
    <2>4. Unlinked'
      BY <1>2, <2>3 DEF MpiInv, Unlinked, vars, diss_vars, tree_vars
    <2> QED
      BY <2>2, <2>4 DEF MpiInv
  <1> QED
    BY <1>1, <1>2, PTL DEF MpiSpec

\* The variables of the three barriers keep their types: no number of messages
\* in flight and no count of missing threads goes below zero.
THEOREM MpiTypeCorrect == MpiSpec => []MpiTypeOK
  <1>1. MpiInv => MpiTypeOK
    BY DEF MpiInv, DissInv, TreeInv, CombinedInv, TeamInv, MpiTypeOK
  <1> QED
    BY <1>1, MpiInvariance, PTL

\* In gtmpi1.c at most two messages of one rank wait at another, and none is
\* left over between calls.
THEOREM DissBacklogBounded == MpiSpec => []BacklogBounded
  <1>1. MpiInv => BacklogBounded
    BY DissBacklog DEF MpiInv
  <1> QED
    BY <1>1, MpiInvariance, PTL

\* In gtmpi2.c a rank that receives from MPI_ANY_SOURCE with the one tag there
\* is finds only reports of its children for this call.
THEOREM TreeGathersReports == MpiSpec => []TreeOnlyReportsGathered
  <1>1. MpiInv => TreeOnlyReportsGathered
    <2> SUFFICES ASSUME MpiInv, NEW p \in R, NEW s \in R, tree_pc[p] = "gather",
                        tree_sent[<<s, p>>] > 0
                 PROVE  /\ s \in Tree!first_child(p)
                                   .. Tree!first_child(p) + Tree!num_children(p) - 1
                        /\ tree_sent[<<s, p>>] = 1 /\ tree_it[s] = tree_it[p]
      BY RanksAre DEF TreeOnlyReportsGathered, Tree!OnlyReportsGathered
    <2>1. s \in Children(p) /\ tree_sent[<<s, p>>] = 1 /\ tree_it[s] = tree_it[p]
      BY OnlyReports DEF MpiInv
    <2> QED
      BY <2>1, ChildrenAre
  <1> QED
    BY <1>1, MpiInvariance, PTL

\* In combined.c one thread of a process at most talks to the other processes,
\* and all others of its process wait for it.
THEOREM SpeaksAlone == MpiSpec => []OneSpeaker
  <1>1. MpiInv => OneSpeaker
    BY DEF MpiInv, CombinedInv, TeamInv, CountClosed, Speaking, Waiting, OneSpeaker
  <1> QED
    BY <1>1, MpiInvariance, PTL

-----------------------------------------------------------------------------
(* The abstract barrier *)

\* The counts of the abstract barrier.
in(p) == IF InsideCall(p) THEN 1 ELSE 0
Entered == [p \in R |-> Calls(p) + in(p)]
Left == [p \in R |-> Calls(p)]

\* The abstract steps, said with these counts.
LEMMA HarnessedSteps ==
    /\ \A p \in R :
         /\ Entered[p] = Left[p] /\ Entered[p] < NumIter
         /\ Entered' = [Entered EXCEPT ![p] = @ + 1] /\ Left' = Left
         => Harnessed!Next
    /\ \A p \in R :
         /\ Left[p] < Entered[p] /\ \A q \in R : Entered[p] <= Entered[q]
         /\ Left' = [Left EXCEPT ![p] = @ + 1] /\ Entered' = Entered
         => Harnessed!Next
    /\ Entered' = Entered /\ Left' = Left => UNCHANGED Harnessed!vars
  BY Zenon DEF Entered, Left, in, R, Harnessed!Next, Harnessed!Enter, Harnessed!Leave,
     Harnessed!vars

\* A call, a return that everyone has entered, and nothing are what the
\* abstract barrier allows.
LEMMA AbstractStep ==
    ASSUME NEW p \in R, \A q \in R : Calls(q) \in Nat,
           \A q \in R : q # p => Calls(q)' = Calls(q) /\ InsideCall(q)' = InsideCall(q),
           \/ Calls(p)' = Calls(p) /\ ~InsideCall(p) /\ InsideCall(p)' /\ Calls(p) < NumIter
           \/ /\ Calls(p)' = Calls(p) + 1 /\ InsideCall(p) /\ ~InsideCall(p)'
              /\ \A q \in R : Calls(p) + 1 <= Calls(q) + in(q)
           \/ Calls(p)' = Calls(p) /\ InsideCall(p)' = InsideCall(p)
    PROVE  [Harnessed!Next]_(Harnessed!vars)
  <1>1. \A q \in R : q # p => Left'[q] = Left[q] /\ Entered'[q] = Entered[q]
    BY DEF Left, Entered, in
  <1>2. CASE Calls(p)' = Calls(p) /\ ~InsideCall(p) /\ InsideCall(p)' /\ Calls(p) < NumIter
    <2>1. Left'[p] = Left[p] /\ Entered[p] = Left[p] /\ Entered'[p] = Entered[p] + 1
            /\ Entered[p] < NumIter
      BY <1>2 DEF Left, Entered, in
    <2>2. Left' = Left
      BY <2>1, <1>1 DEF Left
    <2>3. Entered' = [Entered EXCEPT ![p] = @ + 1]
      BY <2>1, <1>1 DEF Entered
    <2> QED
      BY <2>1, <2>2, <2>3, HarnessedSteps
  <1>3. CASE /\ Calls(p)' = Calls(p) + 1 /\ InsideCall(p) /\ ~InsideCall(p)'
             /\ \A q \in R : Calls(p) + 1 <= Calls(q) + in(q)
    <2>1. Left'[p] = Left[p] + 1 /\ Left[p] < Entered[p] /\ Entered'[p] = Entered[p]
      BY <1>3 DEF Left, Entered, in
    <2>2. \A q \in R : Entered[p] <= Entered[q]
      BY <1>3 DEF Entered, in
    <2>3. Left' = [Left EXCEPT ![p] = @ + 1]
      BY <2>1, <1>1 DEF Left
    <2>4. Entered' = Entered
      BY <2>1, <1>1 DEF Entered
    <2> QED
      BY <2>1, <2>2, <2>3, <2>4, HarnessedSteps
  <1>4. CASE Calls(p)' = Calls(p) /\ InsideCall(p)' = InsideCall(p)
    <2>1. Left' = Left /\ Entered' = Entered
      BY <1>4 DEF Left, Entered, in
    <2> QED
      BY <2>1, HarnessedSteps
  <1> QED
    BY <1>2, <1>3, <1>4

\* With gtmpi1.c linked the calls are those of the dissemination barrier.
LEMMA DissHarnessed ==
    ASSUME MpiInv, linked = "gtmpi1.c", NEW p \in R, Diss!Step(p), UNCHANGED <<vars, tree_vars>>
    PROVE  [Harnessed!Next]_(Harnessed!vars)
  <1>1. \A q \in R : diss_it[q] \in Nat /\ diss_pc[q] \in {"loop", "send", "recv"}
    BY DissTypes, RanksAre DEF MpiInv, DissInv
  <1>2. ASSUME NEW q \in R
        PROVE  /\ Calls(q) = diss_it[q] /\ Calls(q)' = diss_it'[q]
               /\ InsideCall(q) = (diss_pc[q] # "loop") /\ InsideCall(q)' = (diss_pc'[q] # "loop")
    <2>1. /\ tree_it[q] = 0 /\ it[ThreadOf(q)] = 0 /\ tree_it'[q] = 0 /\ it'[ThreadOf(q)] = 0
          /\ tree_pc[q] = "loop" /\ pc[ThreadOf(q)] = "loop"
          /\ tree_pc'[q] = "loop" /\ pc'[ThreadOf(q)] = "loop"
      BY Numbering DEF MpiInv, Unlinked, vars, tree_vars
    <2>2. DissInv'
      BY NextDiss DEF MpiInv
    <2>3. diss_it'[q] \in Nat
      BY <2>2, DissRanks, RanksAre DEF DissInv, Diss!TypeOK
    <2> QED
      BY <2>1, <2>3, <1>1 DEF Calls, InsideCall, Diss!Inside, Tree!Inside, Inside
  <1>3. /\ diss_it \in [R -> 0 .. NumIter] /\ diss_pc \in [R -> {"loop", "send", "recv"}]
    BY DissTypes DEF MpiInv, DissInv
  <1>4. \A q \in R : q # p => diss_it'[q] = diss_it[q] /\ diss_pc'[q] = diss_pc[q]
    BY <1>3 DEF Diss!Step, Diss!Enter, Diss!Send, Diss!Recv, Diss!Leave
  <1>5. \/ diss_it'[p] = diss_it[p] /\ diss_pc[p] = "loop" /\ diss_pc'[p] # "loop"
             /\ diss_it[p] < NumIter
        \/ diss_it'[p] = diss_it[p] + 1 /\ diss_pc[p] # "loop" /\ diss_pc'[p] = "loop"
             /\ \A q \in R : diss_it[p] + 1 <= diss_it[q] + in(q)
        \/ diss_it'[p] = diss_it[p] /\ (diss_pc'[p] # "loop") = (diss_pc[p] # "loop")
    <2>1. CASE Diss!Enter(p)
      BY <2>1, <1>3 DEF Diss!Enter
    <2>2. CASE Diss!Send(p) \/ Diss!Recv(p)
      BY <2>2, <1>3 DEF Diss!Send, Diss!Recv
    <2>3. CASE Diss!Leave(p)
      <3>1. diss_it'[p] = diss_it[p] + 1 /\ diss_pc[p] # "loop" /\ diss_pc'[p] = "loop"
        BY <2>3, <1>3 DEF Diss!Leave
      <3>2. DissPast(p, K) = diss_it[p] + 1
        BY <2>3, DissRounds DEF Diss!Leave, DissPast
      <3>3. \A q \in R : DissPast(p, K) <= diss_it[q] + (IF Diss!Inside(q) THEN 1 ELSE 0)
        BY DissReturnsLast DEF MpiInv
      <3>4. \A q \in R : in(q) = IF Diss!Inside(q) THEN 1 ELSE 0
        BY <1>2 DEF in, Diss!Inside
      <3> QED
        BY <3>1, <3>2, <3>3, <3>4
    <2> QED
      BY <2>1, <2>2, <2>3 DEF Diss!Step
  <1>6. \A q \in R : Calls(q) \in Nat
    BY <1>1, <1>2
  <1>7. \A q \in R : q # p => Calls(q)' = Calls(q) /\ InsideCall(q)' = InsideCall(q)
    BY <1>2, <1>4
  <1>8. \/ Calls(p)' = Calls(p) /\ ~InsideCall(p) /\ InsideCall(p)' /\ Calls(p) < NumIter
        \/ /\ Calls(p)' = Calls(p) + 1 /\ InsideCall(p) /\ ~InsideCall(p)'
           /\ \A q \in R : Calls(p) + 1 <= Calls(q) + in(q)
        \/ Calls(p)' = Calls(p) /\ InsideCall(p)' = InsideCall(p)
    BY <1>2, <1>5
  <1> QED
    BY <1>6, <1>7, <1>8, AbstractStep

\* With gtmpi2.c linked they are those of the tree barrier.
LEMMA TreeHarnessed ==
    ASSUME MpiInv, linked = "gtmpi2.c", NEW p \in R, Tree!Step(p), UNCHANGED <<vars, diss_vars>>
    PROVE  [Harnessed!Next]_(Harnessed!vars)
  <1>1. \A q \in R : tree_it[q] \in Nat
    BY TreeTypes DEF MpiInv, TreeInv
  <1>2. ASSUME NEW q \in R
        PROVE  /\ Calls(q) = tree_it[q] /\ Calls(q)' = tree_it'[q]
               /\ InsideCall(q) = (tree_pc[q] # "loop") /\ InsideCall(q)' = (tree_pc'[q] # "loop")
    <2>1. /\ diss_it[q] = 0 /\ it[ThreadOf(q)] = 0 /\ diss_it'[q] = 0 /\ it'[ThreadOf(q)] = 0
          /\ diss_pc[q] = "loop" /\ pc[ThreadOf(q)] = "loop"
          /\ diss_pc'[q] = "loop" /\ pc'[ThreadOf(q)] = "loop"
      BY Numbering DEF MpiInv, Unlinked, vars, diss_vars
    <2>2. TreeInv'
      BY NextTree DEF MpiInv
    <2>3. tree_it'[q] \in Nat
      BY <2>2, RanksAre DEF TreeInv, Tree!TypeOK
    <2> QED
      BY <2>1, <2>3, <1>1 DEF Calls, InsideCall, Diss!Inside, Tree!Inside, Inside
  <1>3. tree_it \in [R -> 0 .. NumIter] /\ tree_pc \in [R -> TreeLabels]
    BY TreeTypes DEF MpiInv, TreeInv
  <1>4. \A q \in R : q # p => tree_it'[q] = tree_it[q] /\ tree_pc'[q] = tree_pc[q]
    BY <1>3 DEF Tree!Step, Tree!Enter, Tree!Gather, Tree!Gathered, Tree!Report, Tree!Awake,
                Tree!WakeFirst, Tree!WakeSecond
  <1>5. \/ tree_it'[p] = tree_it[p] /\ tree_pc[p] = "loop" /\ tree_pc'[p] # "loop"
             /\ tree_it[p] < NumIter
        \/ tree_it'[p] = tree_it[p] + 1 /\ tree_pc[p] # "loop" /\ tree_pc'[p] = "loop"
             /\ \A q \in R : tree_it[p] + 1 <= tree_it[q] + in(q)
        \/ tree_it'[p] = tree_it[p] /\ (tree_pc'[p] # "loop") = (tree_pc[p] # "loop")
    <2>1. CASE Tree!Enter(p)
      BY <2>1, <1>3 DEF Tree!Enter
    <2>2. CASE \/ Tree!Gather(p) \/ Tree!Gathered(p) \/ Tree!Report(p) \/ Tree!Awake(p)
               \/ Tree!WakeFirst(p)
      BY <2>2, <1>3 DEF Tree!Gather, Tree!Gathered, Tree!Report, Tree!Awake, Tree!WakeFirst
    <2>3. CASE Tree!WakeSecond(p)
      <3>1. tree_it'[p] = tree_it[p] + 1 /\ tree_pc[p] = "wake2" /\ tree_pc'[p] = "loop"
        BY <2>3, <1>3 DEF Tree!WakeSecond
      <3>2. \A q \in R : tree_it[p] + 1 <= tree_it[q] + (IF Tree!Inside(q) THEN 1 ELSE 0)
        BY <3>1, TreeReturnsLast DEF MpiInv
      <3>3. \A q \in R : in(q) = IF Tree!Inside(q) THEN 1 ELSE 0
        BY <1>2 DEF in, Tree!Inside
      <3> QED
        BY <3>1, <3>2, <3>3
    <2> QED
      BY <2>1, <2>2, <2>3 DEF Tree!Step
  <1>6. \A q \in R : Calls(q) \in Nat
    BY <1>1, <1>2
  <1>7. \A q \in R : q # p => Calls(q)' = Calls(q) /\ InsideCall(q)' = InsideCall(q)
    BY <1>2, <1>4
  <1>8. \/ Calls(p)' = Calls(p) /\ ~InsideCall(p) /\ InsideCall(p)' /\ Calls(p) < NumIter
        \/ /\ Calls(p)' = Calls(p) + 1 /\ InsideCall(p) /\ ~InsideCall(p)'
           /\ \A q \in R : Calls(p) + 1 <= Calls(q) + in(q)
        \/ Calls(p)' = Calls(p) /\ InsideCall(p)' = InsideCall(p)
    BY <1>2, <1>5
  <1> QED
    BY <1>6, <1>7, <1>8, AbstractStep

\* With combined.c linked they are those of the threads.
LEMMA CombinedHarnessed ==
    ASSUME MpiInv, linked = "combined.c", NEW p \in R, Step(ThreadOf(p)),
           UNCHANGED <<diss_vars, tree_vars>>
    PROVE  [Harnessed!Next]_(Harnessed!vars)
  <1> DEFINE t == ThreadOf(p)
  <1>1. t \in Threads /\ \A q \in R : ThreadOf(q) \in Threads /\ (q # p => ThreadOf(q) # t)
    BY Numbering
  <1>2. it \in [Threads -> 0 .. NumIter] /\ pc \in [Threads -> Labels] /\ NumIter \in Nat
    BY TeamsAre DEF MpiInv, CombinedInv, TeamInv, TypeOK, Labels
  <1>3. it' \in [Threads -> 0 .. NumIter]
    <2>1. CombinedInv'
      BY <1>1, NextCombined DEF MpiInv
    <2> QED
      BY <2>1 DEF CombinedInv, TeamInv, TypeOK
  <1>4. ASSUME NEW q \in R
        PROVE  /\ Calls(q) = it[ThreadOf(q)] /\ Calls(q)' = it'[ThreadOf(q)]
               /\ InsideCall(q) = Inside(ThreadOf(q)) /\ InsideCall(q)' = Inside(ThreadOf(q))'
               /\ Calls(q) \in Nat
    <2>1. /\ diss_it[q] = 0 /\ tree_it[q] = 0 /\ diss_it'[q] = 0 /\ tree_it'[q] = 0
          /\ diss_pc[q] = "loop" /\ tree_pc[q] = "loop"
          /\ diss_pc'[q] = "loop" /\ tree_pc'[q] = "loop"
      BY DEF MpiInv, Unlinked, diss_vars, tree_vars
    <2>2. it[ThreadOf(q)] \in Nat /\ it'[ThreadOf(q)] \in Nat
      BY <1>1, <1>2, <1>3
    <2>3. Calls(q) = it[ThreadOf(q)] /\ Calls(q)' = it'[ThreadOf(q)] /\ Calls(q) \in Nat
      BY <2>1, <2>2 DEF Calls, ThreadOf
    <2> QED
      BY <2>1, <2>3 DEF InsideCall, Diss!Inside, Tree!Inside, Inside, ThreadOf
  <1> HIDE DEF t
  <1>5. \A u \in Threads : u # t => it'[u] = it[u] /\ Inside(u)' = Inside(u)
    BY <1>2 DEF t, Step, Enter, Arrive, Send, Recv, Reset, Flip, Leave, Inside
  <1>6. \/ it'[t] = it[t] /\ ~Inside(t) /\ Inside(t)' /\ it[t] < NumIter
        \/ /\ it'[t] = it[t] + 1 /\ Inside(t) /\ ~Inside(t)'
           /\ \A u \in Threads : it[t] + 1 <= it[u] + (IF Inside(u) THEN 1 ELSE 0)
        \/ it'[t] = it[t] /\ Inside(t)' = Inside(t)
    <2>1. CASE Enter(t)
      BY <2>1, <1>1, <1>2 DEF Enter, Inside
    <2>2. CASE Arrive(t) \/ Send(t) \/ Recv(t) \/ Reset(t)
      BY <2>2, <1>1, <1>2 DEF Arrive, Send, Recv, Reset, Inside
    <2>3. CASE Flip(t) \/ Leave(t)
      <3>1. it'[t] = it[t] + 1 /\ Inside(t) /\ ~Inside(t)' /\ (pc[t] = "flip" \/ Released(t))
        BY <2>3, <1>1, <1>2 DEF Flip, Leave, Inside, Released
      <3>2. \A u \in Threads : it[t] + 1 <= it[u] + (IF Inside(u) THEN 1 ELSE 0)
        BY <3>1, <1>1, CombinedReturnsLast DEF MpiInv
      <3> QED
        BY <3>1, <3>2
    <2> QED
      BY <2>1, <2>2, <2>3 DEF t, Step
  <1>7. \A q \in R : q # p => Calls(q)' = Calls(q) /\ InsideCall(q)' = InsideCall(q)
    BY <1>1, <1>4, <1>5
  <1>8. Calls(p) = it[t] /\ Calls(p)' = it'[t] /\ InsideCall(p) = Inside(t) /\ InsideCall(p)' = Inside(t)'
    BY <1>4 DEF t
  <1>9. (\A u \in Threads : it[t] + 1 <= it[u] + (IF Inside(u) THEN 1 ELSE 0))
          => \A q \in R : Calls(p) + 1 <= Calls(q) + in(q)
    BY <1>1, <1>4, <1>8 DEF in
  <1> QED
    BY <1>4, <1>6, <1>7, <1>8, <1>9, AbstractStep

\* Whichever barrier is linked, every step of the program is a step of the
\* abstract barrier or changes nothing in it: nobody leaves a call that
\* another rank or thread has not entered.
THEOREM MpiRefinesBarrier == MpiSpec => Harnessed!Init /\ [][Harnessed!Next]_(Harnessed!vars)
  <1>1. MpiInit => Harnessed!Init
    <2> SUFFICES ASSUME MpiInit PROVE Harnessed!Init
      OBVIOUS
    <2>1. ASSUME NEW p \in R PROVE Calls(p) = 0 /\ ~InsideCall(p)
      <3>1. diss_pc[p] = "loop" /\ diss_it[p] = 0 /\ tree_pc[p] = "loop" /\ tree_it[p] = 0
        BY RanksAre DEF MpiInit, Diss!Init, Tree!Init
      <3>2. pc[ThreadOf(p)] = "loop" /\ it[ThreadOf(p)] = 0
        BY Numbering DEF MpiInit, Init
      <3> QED
        BY <3>1, <3>2 DEF Calls, InsideCall, Diss!Inside, Tree!Inside, Inside
    <2> QED
      BY <2>1 DEF Harnessed!Init, R
  <1>2. ASSUME MpiInv, [MpiNext]_mpi_vars PROVE [Harnessed!Next]_(Harnessed!vars)
    <2>1. CASE UNCHANGED mpi_vars
      <3>1. Entered' = Entered /\ Left' = Left
        BY <2>1 DEF mpi_vars, vars, diss_vars, tree_vars, Entered, Left, in, Calls, InsideCall,
                    Diss!Inside, Tree!Inside, Inside, ThreadOf
      <3> QED
        BY <3>1, HarnessedSteps
    <2> QED
      BY <1>2, <2>1, MpiStep, DissHarnessed, TreeHarnessed, CombinedHarnessed
  <1> QED
    BY <1>1, <1>2, MpiInvariance, PTL DEF MpiSpec

=============================================================================
