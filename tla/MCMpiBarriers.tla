---------------------------- MODULE MCMpiBarriers ---------------------------
(***************************************************************************)
(* The programs of project2 that use MPI: the harness of mpi/ linked with  *)
(* gtmpi1.c (DisseminationBarrier) or gtmpi2.c (MessageTreeBarrier), and   *)
(* that of combined/ (CombinedBarrier).  The variables of the barriers     *)
(* that are not linked do not exist in a program: they keep their initial  *)
(* values.  The threads of the combined barrier are numbered like ranks.   *)
(***************************************************************************)
EXTENDS CombinedBarrier

CONSTANT NumParties  \* num_processes of mpi/harness.c, Cardinality(Threads) here

VARIABLES linked,  \* the source file the harness is linked with
          diss_sent, diss_pc, diss_round, diss_it,
          tree_sent, tree_pc, finished, tree_it

Diss == INSTANCE DisseminationBarrier
    WITH sent <- diss_sent, pc <- diss_pc, round <- diss_round, it <- diss_it
Tree == INSTANCE MessageTreeBarrier
    WITH sent <- tree_sent, pc <- tree_pc, it <- tree_it

diss_vars == <<diss_sent, diss_pc, diss_round, diss_it>>
tree_vars == <<tree_sent, tree_pc, finished, tree_it>>
mpi_vars == <<vars, diss_vars, tree_vars, linked>>

ThreadOf(p) == <<p \div num_threads, p % num_threads>>

\* The numbering gives every rank a thread.
ASSUME NumberingAssumption ==
    /\ NumParties \in Nat \ {0}
    /\ \A p \in 0 .. NumParties - 1 : ThreadOf(p) \in Threads

\* Doubling, as far as the rounds of a dissemination barrier go.
ASSUME PowerAssumption ==
    \A k \in 0 .. NumProcs + NumParties : 2^(k + 1) = 2 * 2^k

MpiInit ==
    /\ linked \in {"gtmpi1.c", "gtmpi2.c", "combined.c"}
    /\ Init /\ Diss!Init /\ Tree!Init

PartyStep(p) ==
    /\ UNCHANGED linked
    /\ \/ linked = "gtmpi1.c" /\ Diss!Step(p) /\ UNCHANGED <<vars, tree_vars>>
       \/ linked = "gtmpi2.c" /\ Tree!Step(p) /\ UNCHANGED <<vars, diss_vars>>
       \/ linked = "combined.c" /\ Step(ThreadOf(p)) /\ UNCHANGED <<diss_vars, tree_vars>>

\* Every rank or thread has left its last call.
MpiDone ==
    /\ CASE linked = "gtmpi1.c" -> Diss!Done
         [] linked = "gtmpi2.c" -> Tree!Done
         [] linked = "combined.c" -> Done
    /\ UNCHANGED mpi_vars

MpiNext == (\E p \in Diss!Parties : PartyStep(p)) \/ MpiDone

\* Each process and thread keeps running, and a message sent can be received.
MpiSpec ==
    MpiInit /\ [][MpiNext]_mpi_vars /\ \A p \in Diss!Parties : WF_mpi_vars(PartyStep(p))

\* The backlog between two ranks of gtmpi1.c stays bounded, and nothing is
\* left over between two calls.
BacklogBounded == Diss!BacklogBounded

\* A rank that gathers in gtmpi2.c never finds a message that is not a report
\* of a child for this call, although every message has the same tag.
TreeOnlyReportsGathered == Tree!OnlyReportsGathered

\* Whichever barrier is linked, it implements the abstract barrier: a call is
\* entered when the harness makes it, left when it returns, and everyone
\* leaves the last call.
Calls(p) == diss_it[p] + tree_it[p] + it[ThreadOf(p)]
InsideCall(p) == Diss!Inside(p) \/ Tree!Inside(p) \/ Inside(ThreadOf(p))

Harnessed == INSTANCE BarrierSpec
    WITH Parties <- Diss!Parties,
         entered <- [p \in Diss!Parties |-> Calls(p) + (IF InsideCall(p) THEN 1 ELSE 0)],
         left <- [p \in Diss!Parties |-> Calls(p)]

ImplementsBarrier == Harnessed!Spec

\* The types of the barriers: no number of messages in flight below zero, no
\* count below zero.
MpiTypeOK == TypeOK /\ Diss!TypeOK /\ Tree!TypeOK

=============================================================================
