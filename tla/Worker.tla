------------------------------- MODULE Worker -------------------------------
(***************************************************************************)
(* The worker processes of project4 (worker.cc, worker_request.cc,         *)
(* mr_tasks.cc), the RPCs that carry jobs to them (client_call.h) and the  *)
(* files they write.  A worker takes map and reduce requests one at a time *)
(* from one queue.  A map job appends its key/value pairs to one           *)
(* intermediate file per partition, named after the partition and the      *)
(* worker's port; a reduce job reads intermediate files and appends to the *)
(* output file of its partition.  Nothing is ever truncated.               *)
(*                                                                         *)
(* Data: a shard stands for the pairs it yields, at least one for each     *)
(* partition; an intermediate file is how often it holds each shard; an    *)
(* output file is the sequence of what each reduce job appended to it.     *)
(***************************************************************************)
EXTENDS Integers, Sequences, FiniteSets

CONSTANTS Workers,        \* the workers of the configuration file
          Absent,         \* those of them that are not running
          NumShards,      \* shards.size() when the master starts
          NumPartitions,  \* n_output_files
          MaxCrash,       \* bound: how many workers may die
          MaxTimeout      \* bound: how many RPCs may miss their deadline

ASSUME WorkersAssumption == IsFiniteSet(Workers) /\ Workers # {} /\ Absent \subseteq Workers
ASSUME SizesAssumption ==
    /\ NumShards \in Nat
    /\ NumPartitions \in Nat \ {0}  \* validate_mr_spec
    /\ MaxCrash \in Nat
    /\ MaxTimeout \in Nat

Shards == 1 .. NumShards
Partitions == 1 .. NumPartitions

VARIABLES alive,         \* alive[w]: the process of w runs
          calls,         \* MapCall/ReduceCall objects not yet taken from the queue
          late,          \* jobs a worker still has after the master's deadline
          inter_file,    \* inter_file[w][p][s]: copies of s in intermediate/p_w.txt
          output_file,   \* output_file[p]: what each reduce job appended
          crashes,       \* workers that died so far
          timeouts       \* deadlines missed so far

wvars == <<alive, calls, late, inter_file, output_file, crashes, timeouts>>

\* One file's content, and what one reduce job read of every worker's file.
FileContent == [Shards -> Nat]
Chunk == [Workers -> FileContent]

NoShard == [s \in Shards |-> 0]

\* files is query.files of a reduce job: the workers whose files it reads.
Jobs == [worker : Workers, is_map_job : BOOLEAN, job : Shards \cup Partitions,
         files : SUBSET Workers]
Call == [worker : Workers, is_map_job : BOOLEAN, job : Shards \cup Partitions,
         files : SUBSET Workers, status : {"sent", "ok", "error"}]

JobOf(c) == [worker |-> c.worker, is_map_job |-> c.is_map_job, job |-> c.job,
             files |-> c.files]

WorkerTypeOK ==
    /\ alive \in [Workers -> BOOLEAN]
    /\ calls \in SUBSET Call
    /\ late \in SUBSET Jobs
    /\ inter_file \in [Workers -> [Partitions -> FileContent]]
    /\ output_file \in [Partitions -> Seq(Chunk)]
    /\ crashes \in 0 .. MaxCrash
    /\ timeouts \in 0 .. MaxTimeout

\* The intermediate and the output directory start empty.
WorkerInit ==
    /\ alive = [w \in Workers |-> w \notin Absent]
    /\ calls = {}
    /\ late = {}
    /\ inter_file = [w \in Workers |-> [p \in Partitions |-> NoShard]]
    /\ output_file = [p \in Partitions |-> <<>>]
    /\ crashes = 0
    /\ timeouts = 0

\* BaseMapperInternal::dump appends shard s to the files of w for the
\* partitions in P.
Dump(w, s, P) ==
    [inter_file EXCEPT ![w] =
        [p \in Partitions |-> [t \in Shards |->
            inter_file[w][p][t] + (IF p \in P /\ t = s THEN 1 ELSE 0)]]]

\* handle_map_job: the pairs of all the partitions of the shard are dumped.
handle_map_job(j) ==
    /\ inter_file' = Dump(j.worker, j.job, Partitions)
    /\ UNCHANGED output_file

\* handle_reduce_job: the files are read as they are now (a missing one is
\* skipped) and the reduced pairs are appended to the output file.
handle_reduce_job(j) ==
    /\ output_file' = [output_file EXCEPT ![j.job] = Append(@,
           [w \in Workers |-> IF w \in j.files THEN inter_file[w][j.job] ELSE NoShard])]
    /\ UNCHANGED inter_file

HandleJob(j) ==
    \/ j.is_map_job /\ handle_map_job(j)
    \/ ~j.is_map_job /\ handle_reduce_job(j)

\* Request::Proceed in state PROCESS: do the job, then Finish with OK.
Proceed(w) ==
    \E c \in calls :
        /\ c.worker = w
        /\ c.status = "sent"
        /\ alive[w]
        /\ HandleJob(JobOf(c))
        /\ calls' = (calls \ {c}) \cup {[c EXCEPT !.status = "ok"]}
        /\ UNCHANGED <<alive, late, crashes, timeouts>>

\* The same for a job whose RPC the master has already given up.
ProceedLate(w) ==
    \E j \in late :
        /\ j.worker = w
        /\ alive[w]
        /\ HandleJob(j)
        /\ late' = late \ {j}
        /\ UNCHANGED <<alive, calls, crashes, timeouts>>

\* The deadline set by send_mapper_job or send_reducer_job passes while the
\* worker is slow: the call ends with an error, the worker keeps the job.
Deadline ==
    \E c \in calls :
        /\ c.status = "sent"
        /\ alive[c.worker]
        /\ timeouts < MaxTimeout
        /\ timeouts' = timeouts + 1
        /\ calls' = (calls \ {c}) \cup {[c EXCEPT !.status = "error"]}
        /\ late' = late \cup {JobOf(c)}
        /\ UNCHANGED <<alive, inter_file, output_file, crashes>>

\* A call to a worker that is gone ends with an error.
Unavailable(w) ==
    \E c \in calls :
        /\ c.worker = w
        /\ c.status = "sent"
        /\ ~alive[w]
        /\ calls' = (calls \ {c}) \cup {[c EXCEPT !.status = "error"]}
        /\ UNCHANGED <<alive, late, inter_file, output_file, crashes, timeouts>>

\* The process of w dies.  The job it was doing may have dumped some of its
\* partitions, or the whole output of a reduce, without the reply leaving.
Crash(w) ==
    /\ alive[w]
    /\ crashes < MaxCrash
    /\ crashes' = crashes + 1
    /\ alive' = [alive EXCEPT ![w] = FALSE]
    /\ late' = {j \in late : j.worker # w}
    /\ \/ UNCHANGED <<inter_file, output_file>>
       \/ \E j \in late \cup {JobOf(c) : c \in {d \in calls : d.status = "sent"}} :
            /\ j.worker = w
            /\ \/ /\ j.is_map_job
                  /\ \E P \in SUBSET Partitions : inter_file' = Dump(w, j.job, P)
                  /\ UNCHANGED output_file
               \/ ~j.is_map_job /\ handle_reduce_job(j)
    /\ UNCHANGED <<calls, timeouts>>

WorkerNext ==
    \/ \E w \in Workers : Proceed(w) \/ ProceedLate(w) \/ Unavailable(w) \/ Crash(w)
    \/ Deadline

=============================================================================
