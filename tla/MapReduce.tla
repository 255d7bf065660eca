----------------------------- MODULE MapReduce ------------------------------
(***************************************************************************)
(* The whole of project4 at run time: the three threads of the master and  *)
(* the worker processes, as MapReduceImpl::run_master starts them.         *)
(***************************************************************************)
EXTENDS Master

vars == <<wvars, flags, books, counters, clients, ready_queue, mainvars, pollvars, monvars>>

TypeOK == WorkerTypeOK /\ MasterTypeOK

Init == WorkerInit /\ MasterInit

\* Workers act on their own; their steps change nothing of the master.
WorkerStep ==
    /\ WorkerNext
    /\ UNCHANGED <<flags, books, counters, clients, ready_queue, mainvars, pollvars, monvars>>

\* run has returned, or the process has died.
Terminated == pm \in {"done", "failed", "crashed"} /\ UNCHANGED vars

Next == MainStep \/ SpuriousWakeup \/ PollStep \/ MonitorStep \/ WorkerStep \/ Terminated

\* Every thread of the master keeps running and every RPC ends (it has a
\* deadline).  Nothing makes a worker crash, an RPC miss its deadline or a
\* condition variable wake up spuriously.
Answer(w) ==
    /\ Proceed(w) \/ Unavailable(w)
    /\ UNCHANGED <<flags, books, counters, clients, ready_queue, mainvars, pollvars, monvars>>

Fairness ==
    /\ WF_vars(MainStep)
    /\ WF_vars(PollStep)
    /\ WF_vars(MonitorStep)
    /\ \A w \in Workers : WF_vars(Answer(w))

Spec == Init /\ [][Next]_vars
FairSpec == Spec /\ Fairness

-----------------------------------------------------------------------------
(* Properties *)

\* The pool of workers is a pool of tokens: a worker is in ready_queue once,
\* or in the hand of the main thread, or has one call under way, or its answer
\* is about to make it ready again; never two of these.  Main and poll thread
\* hand the token over without a common lock around the RPC.
Ready(w) == {k \in 1 .. Len(ready_queue) : ready_queue[k] = w}
OneJobPerWorker ==
    \A w \in Workers :
        Cardinality(Ready(w)) + (IF pm \in {"call", "send"} /\ hand = w THEN 1 ELSE 0)
            + Cardinality({c \in calls : c.worker = w})
            + (IF pp = "push" /\ pcall.worker = w THEN 1 ELSE 0) <= 1

\* Until the map phase is complete the books of the master still know every
\* shard: it is yet to be dispatched, or unfinished, or in map_shards of a
\* worker that a failure would give back.  The exceptions are the shards sent
\* through a client that the monitor destroyed at that moment.
InRest(s) == phase = "map" /\ \E k \in i .. Len(jobs) : jobs[k] = s
InSeq(s, q) == \E k \in 1 .. Len(q) : q[k] = s
NoShardForgotten ==
    ~map_complete => \A s \in Shards \ freed_shards :
        \/ InRest(s)
        \/ InSeq(s, unfinished_shards)
        \/ \E w \in worker_ips : InSeq(s, map_shards[w])

\* num_map_msgs - num_dropped_map_jobs, by which the master decides that the
\* map phase is over, is backed by the answers credited to workers that are
\* still listed.  It exceeds them by the answer the poll thread is about to
\* credit, and by one for each dropped worker at most: the answer that was past
\* the look-up of the client when the monitor destroyed it.
Credited == UNION {{w} \X (1 .. completed_map_jobs[w]) : w \in worker_ips}
AnswersAccounted ==
    ~map_complete =>
        num_map_msgs - num_dropped_map_jobs <=
            Cardinality(Credited) + Cardinality(dropped_worker_ips)
              + (IF pp = "credit" /\ pcall.is_map_job /\ pcall.worker \in worker_ips
                   THEN 1 ELSE 0)

\* The monitor never blocks in receive_monitor_pong for a pong nobody owes
\* it, although num_workers shrinks while it counts and pongs of earlier
\* rounds are left over.
Owed == Cardinality(UNION {{x} \X (1 .. pings[x]) : x \in Workers \X BOOLEAN})
PongsOwed == pn = "recv" => Owed >= num_workers - pongs

\* The poll thread gives the flag away only to a main thread that is on its
\* way to raise it again, so the two never wait for each other.
FlagComesBack ==
    pp = "wait" /\ ~map_reduce_flag =>
        pm \in {"woken", "triggered", "counting", "raising", "crashed"}

\* What the intermediate files of the workers in F hold of s for partition p
\* is exactly one copy.
OneCopy(F, p, s) ==
    \E w \in F : inter_file[w][p][s] = 1 /\ \A v \in F \ {w} : inter_file[v][p][s] = 0

\* While reduce jobs are dispatched, the files they are told to read hold
\* every shard once.
ReduceSeesAllShards ==
    phase = "reduce" /\ pm \notin {"done", "failed", "crashed"} =>
        \A p \in Partitions : \A s \in Shards : OneCopy(idx2files[p], p, s)

\* run returns with every shard reduced into every output file once, and no
\* intermediate file left behind.
OutputCorrect ==
    pm \in {"done", "failed"} =>
        /\ \A p \in Partitions :
             /\ Len(output_file[p]) = 1
             /\ \A s \in Shards : \E w \in Workers :
                  /\ output_file[p][1][w][s] = 1
                  /\ \A v \in Workers \ {w} : output_file[p][1][v][s] = 0
        /\ \A w \in Workers, p \in Partitions : inter_file[w][p] = NoShard

\* A monitoring round the main thread asks for is made.
MonitorAnswers == pm = "triggered" ~> pm # "triggered"

\* Once the main thread has joined the reduce poll thread, run returns.
Shutdown == pm = "stopping" ~> pm \in {"done", "failed", "crashed"}

\* A main thread that sleeps before the poll thread has looked at the last
\* answer of the phase is woken up.
WokenByLastAnswer ==
    (pm = "asleep" /\ (calls # {} \/ pp \in PollLabels \ {"next", "wait", "exit"}))
        ~> pm # "asleep"

\* Every shard reaches a worker and is mapped.
EveryShardMapped ==
    \A s \in Shards : <>(\E w \in Workers : inter_file[w][1][s] > 0)

\* "When all map tasks and reduce tasks have been completed, the master wakes
\* up the user program": run returns.
RunReturns == <>(pm \in {"done", "failed"})

\* "when a request is timeout, we will drop the job assigned to it and direct
\* it to another worker"
TimedOutJobRedirected ==
    \A w \in Workers, s \in Shards :
        (\E j \in late : j.worker = w /\ j.is_map_job /\ j.job = s)
            ~> (\E v \in Workers \ {w} : InSeq(s, map_shards[v]))

\* "remove intermediate files created by this worker"
DropRemovesFiles ==
    [][\A w \in worker_ips \ worker_ips' :
          ~map_complete => \A p \in Partitions : <<p, w>> \notin intermediate_files']_vars

=============================================================================
