---------------------------- MODULE BarrierSpec ----------------------------
(***************************************************************************)
(* What every barrier of project2 promises to the harness that calls it    *)
(* NumIter times from each of the Parties (OpenMP threads or MPI ranks):   *)
(* nobody leaves its k-th call before everybody has entered its k-th call, *)
(* and, if all keep running, everybody leaves its last call.               *)
(***************************************************************************)
EXTENDS Naturals

CONSTANTS Parties,  \* the threads or processes that meet at the barrier
          NumIter   \* num_iter of the harness loop

VARIABLES entered,  \* entered[p]: how often p has called the barrier
          left      \* left[p]: how often p has returned from it

vars == <<entered, left>>

TypeOK ==
    /\ entered \in [Parties -> 0 .. NumIter]
    /\ left \in [Parties -> 0 .. NumIter]

Init ==
    /\ entered = [p \in Parties |-> 0]
    /\ left = [p \in Parties |-> 0]

\* The harness loop of p calls the barrier once more.
Enter(p) ==
    /\ entered[p] = left[p]
    /\ entered[p] < NumIter
    /\ entered' = [entered EXCEPT ![p] = @ + 1]
    /\ UNCHANGED left

\* The call of p returns: everyone has made the same call.
Leave(p) ==
    /\ left[p] < entered[p]
    /\ \A q \in Parties : entered[p] <= entered[q]
    /\ left' = [left EXCEPT ![p] = @ + 1]
    /\ UNCHANGED entered

Next == \E p \in Parties : Enter(p) \/ Leave(p)

\* What fairness of every party comes to: everyone leaves its last call.
Completion == <>(\A p \in Parties : left[p] = NumIter)

Spec == Init /\ [][Next]_vars /\ Completion

=============================================================================
