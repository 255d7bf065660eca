---------------------------- MODULE MCMapReduce -----------------------------
(* Small instances of the MapReduce system for TLC. *)
EXTENDS MapReduce, TLC

\* Workers differ in nothing but their place in the configuration file, which
\* the initial states leave open, when none of them is absent.
WorkerSymmetry == Permutations(Workers)

=============================================================================
