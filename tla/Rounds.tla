------------------------------- MODULE Rounds -------------------------------
(***************************************************************************)
(* The partners of a dissemination barrier among n ranks, as computed in   *)
(* project2/mpi/gtmpi1.c and again in project2/combined/combined.c.        *)
(***************************************************************************)
EXTENDS Integers

\* ceil(log2(n))
NumRounds(n) == CHOOSE k \in 0 .. n : 2^k >= n /\ \A j \in 0 .. k - 1 : 2^j < n

\* The rank a message of this round goes to, and the one it comes from.
SendTo(rank, round, n) == (rank + 2^round) % n
RecvFrom(rank, round, n) == (rank - 2^round + n) % n

=============================================================================
