# A TLA+ model of Advanced-OS

The repository holds the five programs of an operating systems course: a
producer/consumer exercise (`prelab`), a vCPU scheduler and a memory coordinator
for libvirt (`project1-1`), five barriers (`project2`), a store that queries
vendors over gRPC (`project3`) and a MapReduce framework (`project4`). This
directory models all five, checks them with TLC on small instances, and proves
their safety properties with TLAPS for all instances.

## 1. Inventory

| Component | State | Operations | Hard behaviour |
|---|---|---|---|
| sense-reversing barrier, `project2/omp/gtmp1.c` | `count`, `sense`, a local `my_sense` | `gtmp_init`, `gtmp_barrier` | reuse: the counter is reset and the sense flipped in two stores while threads leave and return |
| MCS tree barrier, `project2/omp/gtmp2.c` | per node: four child flags in one int, `sense`, `parent_sense` | `gtmp_init`, `gtmp_barrier` | flags set up again with one store while children write single bytes |
| dissemination barrier, `project2/mpi/gtmpi1.c` | messages in flight | `gtmpi_init`, `gtmpi_barrier` | one tag for all rounds and all calls |
| message tree barrier, `project2/mpi/gtmpi2.c` | messages in flight | `gtmpi_init`, `gtmpi_barrier` | `MPI_ANY_SOURCE` with the tag that wakeups use too |
| combined barrier, `project2/combined/combined.c` | the state of both levels | `combined_init`, `combined_barrier` | any thread of a process may have to talk to MPI |
| producer/consumer, `prelab/producer_consumer.c` | linked queue, number of producers, two mutexes | main, `producer_routine`, `consumer_routine` | end decided from two pieces of state under two locks; destruction of the mutexes |
| MapReduce master, `project4/src/master.*`, `worker_client.*` | ready queue, workers, clients, counters, flags, unfinished shards, files | `run`, `schedule_monitor`, `poll_workers`, `monitor`, `handle_worker_failure` | three threads with three mutexes and three condition variables; unlocked reads; dropped workers; lost wakeups |
| MapReduce worker, `worker*.cc`, `mr_tasks.cc` | intermediate and output files | `handle_map_job`, `handle_reduce_job`, ping | append-only files; death in the middle of a dump; work after the master's deadline |
| store, `project3/src` | completion queue, job queue, `CallData` objects, bids | `HandleRpcs`, `Threadpool`, `getProductBid` | objects shared by handler and pool; back pressure; clients that go away |
| map and reduce jobs, `worker_request.cc`, `mr_tasks.cc` | buffer of pairs, intermediate and output files | `emit`, `dump`, `handle_map_job`, `handle_reduce_job` | buffer at its limit; lines at the end of a segment; text that has to be taken apart again |
| specification file, `mapreduce_spec.h` | `mr_spec_`, which outlives a run | `read_mr_spec_from_config_file`, `validate_mr_spec` | a second run on the same object |
| file sharding, `file_shard.h` | `file_shards_`, which outlives a run | `get_split`, `shard_files` | boundaries of shards, lines and files; files that vanish |
| framework glue, `mapreduce*.cc`, `mr_task_factory.cc` | the two above, registered tasks | `run` | returns of every step |
| memory coordinator, `project1-1/memory` | none over intervals; statistics, sizes planned | `MemoryScheduler` | unsigned wrap-around; VMs that stop between list, query and change |
| vCPU scheduler, `project1-1/cpu` | `cpu_times` of the interval before | `CPUScheduler` | times by position in a list that changes, 0 as a mark, pins one by one |
| scripts, examples, tests | none that lasts | | none |

How they interact: the five programs are independent of each other. Inside
`project4`, the master's main thread gives jobs to workers over RPC; the poll
thread takes the answers and puts workers back in `ready_queue`; the monitor
thread pings workers and takes those that fail out of all the books; main and
poll thread hand `map_reduce_flag` back and forth, main and monitor
`trigger_monitoring`. Inside `project3`, the handler thread adds a job per request to the
queue of the pool, the job makes the next `CallData`, asks the vendors, replies,
and the handler deletes the `CallData` when the reply is out. Around the master
of `project4`, `MapReduceImpl::run` reads and checks the specification, cuts the
files and hands the shards over; the workers read the segments of a shard, and
meet each other only through files. The two programs of `project1-1` share
nothing but the hypervisor, which they ask and command without any lock.

What makes each correct: a barrier lets nobody out before everybody is in, and
everybody out in the end (`BarrierSpec`); the queue keeps its shape and every
letter is printed and freed once; MapReduce reduces every shard once into every
partition, forgets no shard when a worker fails and returns; a shard consists of
whole lines, every line reaches `map` once and every pair the `reduce` of its
key; the store answers each client once, with the bids of all vendors that gave
one; the coordinator serves whoever it can and leaves the host its reserve; the
scheduler spreads the measured load over the pCPUs.

The hazards, each with its line and the properties aimed at it, are listed in
`PROJECT.json`.

## 2. Modules

| Module | Models |
|---|---|
| `Harness` | the number of threads or ranks and of calls, common to the barriers |
| `BarrierSpec` | what every barrier promises: enter and leave, safety and liveness |
| `SenseBarrier`, `TreeBarrier`, `DisseminationBarrier`, `MessageTreeBarrier`, `CombinedBarrier` | the five barriers under the loop of their harness; each shown to implement `BarrierSpec` |
| `Rounds` | number of rounds and partners of a round, shared by the two dissemination barriers |
| `ProducerConsumer` | the prelab |
| `Worker` | worker processes, RPCs in flight, files, crashes, deadlines |
| `Master` | EXTENDS `Worker`: the three threads of the master |
| `MapReduce` | EXTENDS `Master`: the composed system, fairness, properties |
| `Store` | project3: handler, pool, vendor client |
| `MapReduceSpec` | the specification file: `mr_spec_`, reading and validation |
| `FileShard` | EXTENDS `MapReduceSpec`: `shard_files`, one action per look at a file |
| `MrTasks` | EXTENDS `FileShard`: lines of a shard, `emit` and `dump`, grouping by key |
| `MapReduceImpl` | EXTENDS `MrTasks`: `run` from the configuration file to the output files |
| `Hypervisor` | external: the list of running VMs, which start and stop |
| `MemoryCoordinator`, `VcpuScheduler` | EXTEND `Hypervisor`: the two programs of project1-1 |
| `OmpBarrierProofs`, `MpiBarrierProofs`, `ProducerConsumerProofs`, `StoreProofs`, `MapReduceProofs`, `NoFaultProofs`, `JobProofs`, `VirtProofs` | the theorems of section 4, each beside the module it is about; those about barriers and about project1-1 are stated for the `MC` modules that choose among them |
| `MCOmpBarriers`, `MCMpiBarriers` | a harness linked with one of the two OpenMP barriers, or of the three barriers that use MPI: the choice is made in the initial state, and the variables of the others keep their initial values |
| `MCVirt` | either program of project1-1, in the same way |
| other `MC...` | the same modules for TLC, with a symmetry set for `MapReduce` |

**Granularity.** In the OpenMP barriers one action is one access to a shared
variable; the shared variables are volatile and the build is for x86, so stores become
visible in order (reordering of a store with a later load cannot matter here:
no thread decides from another shared variable after a store without an atomic
operation or a spin in between). In the MPI barriers it is one send or receive.
In `ProducerConsumer` a step ends where a mutex is locked or the last one held
is unlocked. In `Master` it is one critical section, or one access outside of
any: look-ups of clients, the check of a flag and the send of a job are
separate actions wherever another thread can get between them. So the poll
thread counts an answer, credits it to the client and registers its files in
three steps, the last section of `schedule_monitor` is three steps too (it holds
`m_map_reduce`, which the monitor does not take; the poll thread is kept out by
`MainHoldsLock`), and `run` looks at `unfinished_shards` twice (`CheckShards`,
`RefillShards`). What stays in one step: `++` and `+=` on a counter; the counters
that one condition compares; the insertions of the files of one answer; the test and
the move of `unfinished_shards` (the monitor only appends in between). In `Store` it is
one critical section or one call into gRPC. In the programs of project1-1 it is
one list of queries (all VMs of the list are read at once) or one change of one
VM, so VMs start and stop between the list, the readings and each change. The vCPU
scheduler places one VM per step (`unplaced`, `new_mapping`, `workloads` and `turn`
are the locals of that loop); `BusiestApart` and `GreedyBalanced` speak of the pins
when all are placed and no VM of the list has stopped since its time was read (`Pinned`). In
`MapReduceImpl` it is one look at a file, or one job.

**Abstractions.** A shard stands for the key/value pairs it yields, an
intermediate file for how often it holds each shard, an output file for what
each reduce job appended; a letter is its number; a bid is the vendor it comes
from. Prices, names, formatting and logging are left out. Operations of the standard
containers are atomic, although the master makes some of them without a lock
(`worker_ips`, `intermediate_files`, `unfinished_shards`). A use of a client
after the monitor has destroyed it is a choice: the process ends
(`CallDroppedClient`), or the freed memory still works and the shard is
remembered by nobody (`freed_shards`). `initial_monitor_job`, which the constructor does
not set, starts with either value. `reduce_partitions` of a client is never
filled, so the reduce branch of `handle_worker_failure` gives nothing back.
`intermediate_files` is a set of names; which file of a dropped worker comes
first in it, and is removed, is left open (`RemoveIntermediate`). That the port of a
worker occurs in the names of its own files only is assumed. If `rmdir` fails for
another reason than files that are left, `run` returns false (label `failed`). The
intermediate directory starts empty.

Memory is in megabytes, as after the divisions of the code, and every VM reports
its statistics. CPU loads are whole percentages of an interval; the comparison of
the standard deviation with the threshold is squared and multiplied out, so that it is exact. A VM that is not pinned may be found on any pCPU when it is read.
`read_of` records which VM a time was read from; the code has no such variable,
and no action looks at it.

In `MapReduceImpl` a file is its size and the offsets of its newlines, a line is
where it is, a key is the sequence of its parts between commas, and the
intermediate files of a partition are one bag of lines. The loops over the lines
of the configuration file, the pairs of a job, the segments of a shard and the
loads of the VMs are recursive functions along their index. The master is taken to
give every shard and every partition out once: that, and what faults do to it,
is the subject of `MapReduce`. `MapStuck` is where the two meet badly: with
`NumShards = 0` the main thread of `Master` never wakes up either.

**External parts** (modelled from how the code uses them): the network and the
operating system in `Worker` (`Unavailable`, `Crash`); clients, vendors and gRPC
in `Store` (`Query`, `Cancel`, `Match`, `VendorAnswers`); libvirt, the VMs and
what runs in them (`Hypervisor`, `SetMemory`, `GuestUses`, `VMsRan`): a VM gives back
only memory it does not use, and a size above its maximum is refused; the user's
map and whoever deletes files (`map`, `Delete`). The event of a reply to a client
that has gone may carry `ok = false`; gRPC fills `reply` and `status` of a call
inside `Next`, which is why the calls to all vendors can share them.

## 3. Runs

| Run | Instance | Shows |
|---|---|---|
| `omp_barriers` | 6 threads, 3 calls | inductive invariant and safety of the sense-reversing barrier; no report of a child lost or counted twice in the tree barrier; both refine `BarrierSpec` |
| `mpi_barriers` | 6 ranks, or 3 processes of 2 threads, 2 calls | dissemination: at most two messages wait between two ranks, none left over; message tree: only reports of this call are gathered (so the `assert` holds); combined: one thread per process talks to MPI; all three refine `BarrierSpec` |
| `producer_consumer` | 5 letters | queue shape, each letter once, mutexes destroyed last, termination |
| `no_fault` | 2 workers, 3 shards, 2 partitions | the flag comes back; the reduce phase sees every shard once; the output is right if `run` returns; every shard is mapped; a main thread asleep in time is woken |
| `faults` | 2 workers, 2 shards, 1 crash, 1 missed deadline | one job per worker; the answers by which the master ends the map phase are credited to workers it still lists, but for those that raced with a drop |
| `crash` | 3 workers, one of which does not run, 1 shard, 1 crash | no shard forgotten; the monitor never waits for a pong nobody owes, and answers; the shutdown ends |
| `store` | 2 queries, 2 threads, 2 vendors, 1 client that may go | one acceptor, `CallData` not used after delete, complete bids, everyone who stays is answered |
| `virt` | 3 to 4 VMs, 1 start, stop or change of load at any time; 2 or 3 pCPUs, 2 intervals | memory: the host keeps its reserve unless it has less than is taken; once the load stops changing, nobody is left whom the coordinator could serve. vCPUs: loads belong to the VM they are used for if it has kept its position; the busiest VMs get pCPUs of their own and the rest is balanced, but for the first VM of the list |
| `job` | all pairs of files of up to 5 bytes, 7 configuration files, 2 calls of `run`, deletion at any time | shards of whole lines and of the size asked for; when sharding fails; every line mapped once, in one piece; `reduce` gets every key once with all its values |

Runs that show a disagreement between the code and what the repository says:

| Run | Property | What happens |
|---|---|---|
| `run_returns` | `RunReturns` | The poll thread looks at the last answer before main raises `map_reduce_flag`, does not notify, and waits for an answer that never comes; main sleeps for ever. No fault is needed |
| `timed_out_job` | `TimedOutJobRedirected` | A job that misses its deadline on a worker that answers pings is counted as dropped and given to nobody |
| `drop_files` | `DropRemovesFiles` | Only the first file of a dropped worker is removed, because of a `break` |

`FlagComesBack`, `ReduceSeesAllShards` and `OutputCorrect` are claimed only
without faults: with crashes the defects above make the first two fail.

More disagreements are modelled as the code has them, and the properties say so
where they make an exception of them, but have no run of their own:

- a worker dropped between the check of `master.cc:332` ("if the worker has been
  dropped, skip it") and the look-up of its client is called all the same;
- the pool takes the larger of the machine's threads and the "maximum" of the
  command line (`threadpool.h:47`);
- a client that goes away before its reply makes `GPR_ASSERT(ok)`
  (`store.cc:189`) fail, and the store ends for everybody (`AbortOnEvent`);
- the host check of `memory_coordinator.c:160` is unsigned: a host that has less
  than is asked for passes it, although `project1-1/README.md` says "The host
  should not release memory if it has less than or equal to 200 MB of unused
  memory." (the exception of `HostReserve`);
- `cpu/src/Readme.md` says "Allocate the first `n_host_cpus` largest VMs, each of
  which on a different pCPU."; the pCPU of the first VM of the list looks free
  and may be given again (the exception of `BusiestApart`). With no more VMs than
  pCPUs, a VM that has to move is pinned to every free pCPU in turn
  (`vcpu_scheduler.c:301`, no `break`), and the next one finds none;
- a shard that would end exactly at the end of a file makes `create_shards` fail
  (the exception of `FailsAtExactEnd`), although the job is in order;
- a configuration file with fewer addresses than `n_workers` is refused, and
  accepted when `run` is called again with it, with every input file twice (the
  exception of `EveryLineOnce`); so would be another file whose addresses bring
  the list to the right length;
- a last line without a newline reaches `map` with a `'\0'` at its end; the
  mapper of the tests, which copies it as a C string, does not notice;
- a key with a comma is cut at the comma (the exception of `ReduceExact`);
- with nothing but empty input files there is no shard, and the master, which
  only answers wake up, sleeps for ever (`MapStuck`).

**Bounds and why they are enough.** Six threads or ranks are the smallest
number with two levels in the 4-ary arrival tree and three in the binary wakeup
tree; six ranks are not a power of two and need three rounds; two calls suffice
for messages of one call to meet another, three for a sense to come back to its
first value. (`mpi/harness.c` makes one call as committed; its `num_rounds` is
the parameter.) Three shards for two workers make a worker serve twice; two
partitions are needed for `drop_files`. `MaxCrash` and `MaxTimeout` bound the
faults, and only those; `Absent` names workers of the configuration file that
do not run. Two failures among three workers are the least for a second error
of a dropped worker, which needs a ping left over from an earlier round; they
exercise every branch of `handle_worker_failure`. Two queries for two threads let one job run, sleep or
finish at every point of the other; a thread that is not scheduled yet stands for one
that is busy, so a query also waits for a thread. Workers are interchangeable,
so the safety run with faults uses them as a symmetry set; the liveness runs do
not.

In `virt`, three VMs run at first, so that with a start the memory coordinator
sees four; the host's free memory runs over the values below, at and above the
reserve; `ULLRange` is larger than any sum that occurs, so that a result wraps
only where 2^64 would be wrapped; three or four VMs on two or three pCPUs are fewer, as
many or more. Two intervals are the least in which loads are measured: the
first only stores the times. VMs may be idle or not (`Amounts`), which gives
equal and different loads. `CHECK_DEADLOCK FALSE`: both programs may exit or be
interrupted. In `job`, a kilobyte has two bytes and an int 128 values: shards of
2 and 4 bytes end within, at the end of, and beyond lines and files of up to
5 bytes, two short files fit into one shard, and 33 kilobytes overflow. Lines
may be empty and files may lack a last newline or be empty. The threshold of two
pairs is met in every job of a file with a line. Two calls of `run` are the
least for one to see what the other left. `CHECK_DEADLOCK FALSE`: the user makes
no more calls, or the process is gone.

**Fairness.** Threads and processes keep being scheduled: weak fairness per
thread. In `ProducerConsumer` the threads compete for a mutex that may be taken
and released for ever, so weak fairness is not enough; strong fairness stands for
the mutex not passing one waiter over for ever, which the `sched_yield` after
each release is there for. RPCs of the master end because they have a
deadline. Calls to vendors have none: that they end is asked of the vendors,
and is a hazard. gRPC gives waiting requests to a new `CallData` in turn
(strong fairness of `Match`). The memory coordinator is scheduled again after
every sleep (weak fairness of `Coordinator`); `CoordinatorSettles` relies on nothing else, for the bounded changes of load
stop by themselves. Nothing is assumed about crashes, missed
deadlines or spurious wakeups.

## 4. Proofs

Every theorem holds for all values of the constants that satisfy the named
assumptions. Each rests on an inductive invariant, which TLC has checked on the
instance of the run (but for `InterInv` of `JobProofs`, which quantifies over all
texts). Each invariant is a conjunction of
named parts, and each part has a lemma that says which steps keep it.

### `OmpBarrierProofs`

The sense-reversing barrier:

- `Invariance`: `Spec => []IInv`. `BarrierSafety` alone is not inductive: it
  says nothing of `count` and `sense`. `IInv` adds that all threads agree on how many episodes
  are over (a released thread that has not yet left counts as through), that a
  thread about to arrive has a sense that differs from the shared one, that
  `count` plus the number of waiting threads is the size of the team while
  nobody is between the last arrival and the flip, and that everyone else waits
  while somebody is. The proof has one lemma per action; the cardinality of the
  waiting set is handled with `FiniteSetTheorems`.
- `Safety`: `Spec => []BarrierSafety`, from `Invariance`.
- `RefinesBarrierSteps`: initial states and steps map to those of
  `BarrierSpec`.

The tree barrier, and the harness with either of the two:

- `TreeKeepsReports`: `TreeNoReportLost`, for every number of threads, whatever
  the shape of the last level of the tree. `TreeInv` says what each child flag
  means from where parent and child are (`Flags`, `Reports`), that the sense of
  a thread is the parity of its call (`Senses`), and that nobody is woken before
  the root has gathered all reports (`WokenInOrder`).
- `OmpRefinesBarrier`: the harness with either barrier takes only steps of
  `BarrierSpec`. That everybody has entered when the root has gathered
  (`RootLast`) follows down the arrival tree from the reports: of those that
  have not, the least would have a parent that has, and a report it never made.

Assumptions: there is at least one thread, `NumIter` is a natural number
(`HarnessAssumption`).

### `MpiBarrierProofs`

- `MpiTypeCorrect`, `DissBacklogBounded`, `TreeGathersReports`, `SpeaksAlone`:
  the four invariants of the run `mpi_barriers`.
- `MpiRefinesBarrier`: initial states and steps of all three barriers map to
  those of `BarrierSpec`.

For the two dissemination barriers the invariant is `Balanced`: between two
ranks there are as many messages in flight as sends of the one exceed receives
of the other, counted over all calls of the round that joins them. From it
follows (`Window`) that when a rank is past k rounds of a call, the 2^k ranks up
to it have entered that call; after the last round that is everybody. For the message tree, `InFlight` says which message each channel can
hold, `Receives` and `Finished` count the reports of a node, and
`WokenInOrder` keeps wakeups after the reports: a message that
`MPI_ANY_SOURCE` can match is a report of this call. For the combined barrier,
`TeamInv` is the invariant of a sense-reversing barrier per process, with
`Balanced` between the processes.

Assumptions: `CombinedAssumption` (at least one process and one thread per
process), `NumberingAssumption` (the instances have the same number of parties:
every rank has a thread), and `PowerAssumption`, 2^(k+1) = 2 * 2^k as far as
the rounds go. The last is a fact of arithmetic the provers do not know; TLC
evaluates it.

### `ProducerConsumerProofs`

- `QueueLinked`, `LettersOnce`, `DestroysLast`, for every number of letters.
  `Inv` adds to the shape of the queue what `exit` leaves behind (`Exits`), who holds which mutex
  (`Locks`), how far the threads have come with respect to each other
  (`Phases`), that a consumer leaves only a queue that stays empty (`Progress`),
  who has a letter in hand (`Hands`), and that the letters taken are those in
  one hand and those printed and freed (`Accounts`).

Assumption: `NumLettersAssumption`.

### `StoreProofs`

- `TypeCorrect`, `AcceptsOne`, `OwnedCallData`, `CompleteBids`, for every
  number of requests, vendors and threads and any clients that go away.
  `Token`: the right to accept the next request is in exactly one place (with
  gRPC, in an event, in the queue of the pool, or with a job that has not yet made
  the next `CallData`). `Jobs`, `Queued` and `Events` say who has a
  `CallData` in each of its states; `Answers`, `Reading` and `Collected`
  follow the replies of the vendors through the completion queue of a call into
  the list of bids.

Assumption: `StoreAssumption`.

### `MapReduceProofs`

For every finite set of workers, every number of shards, partitions, crashes and
missed deadlines:

- `TypeCorrect`: `Spec => []TypeOK`. The types carry what makes them inductive: a worker is in
  hand only while a job is left, and the call the poll thread works on is one.
- `ShardsKept`: `Spec => []NoShardForgotten`. Until the map
  phase is complete each shard is still to be dispatched, unfinished, or in the
  books of a client. `Positions`, a helper of the proof, says where the main thread is,
  because the next pass replaces the vector of shards, which is sound only after
  all of it has been dispatched. Three
  lemmas carry the argument: sending moves a shard from the rest to a client,
  dropping a worker moves its shards to the unfinished ones, and the next pass
  moves these to the rest.
- `CountBacked`: `Spec => []AnswersAccounted`. `Backed` makes it inductive: of the
  dropped workers only those count whose answer is not in the hand of the poll
  thread and still to be counted (`Overcounted`). Dropping a worker takes its
  credit back; an answer of it that was counted and not yet credited, or is counted
  after the drop, is paid for by the worker itself, which is dropped once and
  whose later answers are discarded before they are counted.
- `OneJobEach`: `OneJobPerWorker`. `Tokens`: the places a worker can be in
  (the ready queue, the hand of the main thread, a call, the hand of the poll
  thread) exclude each other.
- `MonitorOwed`: `PongsOwed`. `RoundCovered` says it also while a failure is
  being handled: the pings that are unanswered, as a set, are at least
  `num_workers` less the pongs counted in this round.

Assumptions: `WorkersAssumption`, `SizesAssumption`.

### `NoFaultProofs`

The same system under `NoFaults`, the condition of the run `no_fault`: no crash,
no missed deadline, no absent worker; every number of workers, shards and
partitions, every schedule. With crashes the three properties do not hold
(section 3).

- `FlagReturns`, `ReduceSeesAll`, `OutputIsCorrect`: `FlagComesBack`,
  `ReduceSeesAllShards` and `OutputCorrect`, all from `NoFaultInv`. `Healthy`: nobody is
  dropped and nothing is unfinished. `Handover`: how `map_reduce_flag` and the
  two waits go round between main and poll thread. `Counting`: answers counted,
  calls under way and jobs left add up. `JobsOnce`: a job is in one call at
  most, and in none before it is given out. `Mapped`: a shard is in
  nobody's intermediate files until it is mapped, then in those of one worker for
  all partitions, which the master knows or will know when it has looked at an
  answer. `Reduced`: an output file is empty until its partition is reduced, then complete.

### `JobProofs`

For all input files (any number, size and places of newlines), all configuration
files, shard sizes, numbers of partitions, thresholds of the buffer, hashes and
pairs the user's map emits, any number of calls of `run` on the same object, and
files that somebody removes at any time:

- `FailsAtExactEndHolds`, `CutsAtLinesHolds`: `FailsAtExactEnd` and `CutsAtLines`,
  from `JobInv`. `SpecInv` follows `mr_spec_` over the calls of `run`: its
  numbers are those of the configuration file and its lists hold what the file lists once
  or more often, so that a job that passed the validation is never followed by
  another that does. Without it nothing would keep `shard_size` the same for
  the shards an object accumulates. `CutInv` says where the cutting is: while
  a file is cut, its offset and what is left of it add up to its size, the offset is just after a
  newline and where the last segment ends, and the shard and the room left in it add
  up to `shard_size`. `SegsInv` and `SizesInv` are `CutsAtLines`, strengthened by
  where a segment may end: after a newline, at the end of the file, or one byte
  past it if the file has no last newline.
- `EveryLineOnceHolds`: `EveryLineOnce`. `LinesInv`: while all input files are
  there, the lines of the segments cut so far are, in order, those of the files
  before this one and of this one up to `file_offset`. The work is in two lemmas: what
  `std::getline` gives of a segment of whole lines is the lines that start
  in it, and the lines up to a boundary followed by those after it are all lines.
  `MapInv`: a map job gets the lines of its shard, whichever job comes first.
- `ReduceExactHolds`: `ReduceExact`. `InterInv` (`Tallied`): a line is in the
  intermediate files of its partition as often as the shards mapped so far emitted a pair
  that becomes this line. Inside a job that is a fact about `emit` and `dump` (`Held`): a line
  is in a file or will be once the buffer is dumped, whatever the threshold.
  `OutInv`: what a reduce job wrote is `handle_reduce_job` of these files. The
  counts of all shards are carried over to the one sequence `Emitted` by
  renaming positions. A key that no other key is mistaken for is then in one partition, with
  all its values.

The operators here are recursive functions and folds over data of any size, and
what they compute is proved by induction along the natural numbers. The prover
cannot instantiate an induction theorem that takes a predicate; it can use one
about the set of the numbers for which a fact holds (`UpTo`, from the well-foundedness of
`<`). `Recursion` says that a function with given steps exists, `SameSteps` that it
is the only one; with these two the steps of each recursive function are a lemma
(`ReadSteps`, `SizeSteps`, `FlattenSteps`).

Assumption: `JobAssumption` (newlines are inside their file, values of numbers are
numbers and others strings, a key has a part at least).

### `VirtProofs`

For every number of VMs, starts, stops and changes of load:

- `VirtTypeCorrect`: `VirtTypeOK`.
- `KeepsReserve`: `HostReserve`. `MemInv` follows an interval from the list over
  the readings (`Read`) to the sizes that are planned (`Planned`). The property
  is about a step that plans for all VMs at once, and the work is in counting
  whom it serves; the lemma under it: the members of a list that fewer than c
  others precede are at most c.
- `SpreadsBusiest`: `BusiestApart`. `PlacedMany` says which pCPUs the VMs placed
  so far have, and that loads fall along the way; that one of the first
  `n_host_cpus` VMs finds a free pCPU is the pigeonhole principle.
- `BalancesGreedily`: `GreedyBalanced`. `Loaded`: `workloads` holds the sum of the
  loads of the VMs placed on each pCPU; a pCPU that is free has got nobody; and
  without its lightest VM no pCPU has more than any other. The last is kept because
  a VM goes to the least loaded pCPU and is no heavier than those before it,
  which `PlacedMany` says. A VM that stops undoes its pin, so `Loaded` is claimed
  only while all listed VMs have run on since their times were read (`AllKept`); and only if
  the first VM of the list is not placed among the first (`FirstLight`), for its
  number is the mark of a free pCPU and its load would be overwritten. Sums are recursive
  functions, treated as in `JobProofs` (`TotalSteps`, `TotalAdd`).
- `MeasuresTrue`: the action property `UsageTrue`. `TimesKept` relates
  `cpu_times` to the VM at the same position of the earlier list.

Assumptions: `HypervisorAssumption`, `MemoryAssumption`, `SchedulerAssumption` (at
least one pCPU; what a VM runs in an interval fits into an `unsigned long long`).

### Only model-checked

- All liveness, and the liveness part of the refinements: neither liveness
  under fairness nor ENABLED is in the prover's reach.

That is all: every invariant and every action property of the runs is stated by a
theorem for all values of the constants.

## 5. Not modelled

- the early return of `Master::run` when `mkdir` fails (two joinable threads are
  destroyed and the process ends before any job is sent);
- what a failure that the monitor handles as one of the map phase after
  `map_complete` was set (`master.cc:109` reads it without the lock) does to the
  result: the steps are modelled, but no property is claimed of them;
- an error of `virConnectListAllDomains`;
- a stale intermediate directory of an earlier run;
- data races inside containers; weak memory beyond what is said above;
- the CREATE/PROCESS/FINISH life of the worker's request objects, each of which
  is used by one thread only;
- `check_balance` of the vCPU scheduler, which nothing calls; intervals of
  3 seconds and more, for which `interval * 1000000000` overflows an int, and
  more than `MAX_VM` VMs;
- VMs that report no statistics (the arrays then hold 0);
- splitting lines of the specification file into characters; `register_tasks`,
  which runs before `main`; `run_worker.cc`;
- scripts, examples and test programs.

## 6. Plan

All components with a state of their own are modelled, and every safety
property that a run checks is proved. What could follow:

1. what stays true of `ReduceSeesAllShards` with missed deadlines but no
   crashes;
2. a composition of `MapReduceImpl` with `Master`, in which the jobs of the one
   are the calls of the other, instead of the assumption that every shard is
   given out once.
