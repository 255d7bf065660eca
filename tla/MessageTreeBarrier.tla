------------------------- MODULE MessageTreeBarrier -------------------------
(***************************************************************************)
(* The MPI tree barrier of project2/mpi/gtmpi2.c: a rank receives one      *)
(* message from each of its children in a 4-ary arrival tree, whichever    *)
(* comes first (MPI_ANY_SOURCE), sends one to its parent there, and waits  *)
(* for one from its parent in a binary wakeup tree.  Both kinds of message *)
(* are empty and carry the tag 0, so a receiver tells them apart by their  *)
(* sender at best.                                                         *)
(***************************************************************************)
EXTENDS Harness, Integers

Ranks == Parties

VARIABLES sent,      \* sent[s, d]: messages from s to d not yet received
          pc,        \* where each rank is
          finished,  \* finished_children
          it         \* the calls that have returned

vars == <<sent, pc, finished, it>>

first_child(p) == 4 * p + 1
num_children(p) ==
    LET rest == NumParties - first_child(p)
    IN  IF rest < 0 THEN 0 ELSE IF rest > 4 THEN 4 ELSE rest
ArrivalParent(p) == (p - 1) \div 4
WakeupParent(p) == (p - 1) \div 2

TypeOK ==
    /\ sent \in [Ranks \X Ranks -> Nat]
    /\ pc \in [Ranks -> {"loop", "gather", "report", "wait", "wake", "wake2"}]
    /\ finished \in [Ranks -> 0 .. 4]
    /\ it \in [Ranks -> 0 .. NumIter]

Init ==
    /\ sent = [x \in Ranks \X Ranks |-> 0]
    /\ pc = [p \in Ranks |-> "loop"]
    /\ finished = [p \in Ranks |-> 0]
    /\ it = [p \in Ranks |-> 0]

Enter(p) ==
    /\ pc[p] = "loop"
    /\ it[p] < NumIter
    /\ pc' = [pc EXCEPT ![p] = "gather"]
    /\ finished' = [finished EXCEPT ![p] = 0]
    /\ UNCHANGED <<sent, it>>

\* MPI_Recv(MPI_ANY_SOURCE)
Gather(p) ==
    /\ pc[p] = "gather"
    /\ finished[p] < num_children(p)
    /\ \E c \in Ranks :
         /\ sent[<<c, p>>] > 0
         /\ sent' = [sent EXCEPT ![<<c, p>>] = @ - 1]
    /\ finished' = [finished EXCEPT ![p] = @ + 1]
    /\ UNCHANGED <<pc, it>>

\* A rank that reports before its children have arrived.
GatheredEarly(p) ==
    /\ pc[p] = "gather"
    /\ pc' = [pc EXCEPT ![p] = IF p = 0 THEN "wake" ELSE "report"]
    /\ UNCHANGED <<sent, finished, it>>

\* All children have arrived.
Gathered(p) ==
    /\ pc[p] = "gather"
    /\ finished[p] = num_children(p)
    /\ pc' = [pc EXCEPT ![p] = IF p = 0 THEN "wake" ELSE "report"]
    /\ UNCHANGED <<sent, finished, it>>

\* A rank that reports to its parent in the wakeup tree.
ReportToWaker(p) ==
    /\ pc[p] = "report"
    /\ sent' = [sent EXCEPT ![<<p, WakeupParent(p)>>] = @ + 1]
    /\ pc' = [pc EXCEPT ![p] = "wait"]
    /\ UNCHANGED <<finished, it>>

\* MPI_Isend to (rank - 1) / 4
Report(p) ==
    /\ pc[p] = "report"
    /\ sent' = [sent EXCEPT ![<<p, ArrivalParent(p)>>] = @ + 1]
    /\ pc' = [pc EXCEPT ![p] = "wait"]
    /\ UNCHANGED <<finished, it>>

\* MPI_Recv from (rank - 1) / 2
Awake(p) ==
    /\ pc[p] = "wait"
    /\ sent[<<WakeupParent(p), p>>] > 0
    /\ sent' = [sent EXCEPT ![<<WakeupParent(p), p>>] = @ - 1]
    /\ pc' = [pc EXCEPT ![p] = "wake"]
    /\ UNCHANGED <<finished, it>>

\* What is in flight when p has woken its k-th child up, if it has one.
Woken(p, k) ==
    [x \in Ranks \X Ranks |-> sent[x] + (IF x = <<p, 2 * p + k>> THEN 1 ELSE 0)]

\* MPI_Isend to the first child in the wakeup tree.
WakeFirst(p) ==
    /\ pc[p] = "wake"
    /\ sent' = Woken(p, 1)
    /\ pc' = [pc EXCEPT ![p] = "wake2"]
    /\ UNCHANGED <<finished, it>>

\* MPI_Isend to the second one, and gtmpi_barrier returns.
WakeSecond(p) ==
    /\ pc[p] = "wake2"
    /\ sent' = Woken(p, 2)
    /\ it' = [it EXCEPT ![p] = @ + 1]
    /\ pc' = [pc EXCEPT ![p] = "loop"]
    /\ UNCHANGED finished

Step(p) == Enter(p) \/ Gather(p) \/ Gathered(p) \/ Report(p) \/ Awake(p)
            \/ WakeFirst(p) \/ WakeSecond(p)

Done == (\A p \in Ranks : pc[p] = "loop" /\ it[p] = NumIter) /\ UNCHANGED vars

Next == (\E p \in Ranks : Step(p)) \/ Done

\* Each process keeps running, and a message sent can be received.
Spec == Init /\ [][Next]_vars /\ \A p \in Ranks : WF_vars(Step(p))

-----------------------------------------------------------------------------
(* Properties *)

Inside(p) == pc[p] # "loop"

\* A rank that gathers never finds a message that is not a report of a child
\* for this call: no wakeup, and no report of a child that is a call ahead.
\* The assert on MPI_SOURCE holds, with the tighter bound too.
OnlyReportsGathered ==
    \A p, s \in Ranks :
        pc[p] = "gather" /\ sent[<<s, p>>] > 0 =>
            /\ s \in first_child(p) .. first_child(p) + num_children(p) - 1
            /\ sent[<<s, p>>] = 1 /\ it[s] = it[p]

=============================================================================
