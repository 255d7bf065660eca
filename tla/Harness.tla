------------------------------ MODULE Harness ------------------------------
(***************************************************************************)
(* What the harness programs of project2 (omp/harness.c, mpi/harness.c)    *)
(* fix before the first barrier: the number of threads or processes and    *)
(* how often each of them calls the barrier the program is linked with.    *)
(***************************************************************************)
EXTENDS Naturals

CONSTANTS NumParties,  \* num_threads or num_processes
          NumIter      \* num_iter, or num_rounds in mpi/harness.c

ASSUME HarnessAssumption == NumParties \in Nat \ {0} /\ NumIter \in Nat

\* The ids omp_get_thread_num and MPI_Comm_rank give out.
Parties == 0 .. NumParties - 1

=============================================================================
