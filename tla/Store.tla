------------------------------- MODULE Store -------------------------------
(***************************************************************************)
(* project3: the store.  One thread handles the events of the server's     *)
(* completion queue (HandleRpcs); a pool of threads runs the jobs it adds  *)
(* (Threadpool), each of which asks every vendor for a bid (VendorClient)  *)
(* and replies to the client.  The CallData that serves request r is named *)
(* by r; the one that waits for a request is counted in "waiting".  gRPC,  *)
(* the clients and the vendors are external.  Prices are left out: a bid   *)
(* is the vendor it comes from.                                            *)
(***************************************************************************)
EXTENDS Integers, Sequences, FiniteSets

CONSTANTS
    Requests,             \* the queries the clients may send
    Vendors,              \* vendor_ips
    Cancellers,           \* the requests whose client may go away
    HardwareConcurrency,  \* thread::hardware_concurrency()
    NumThreads,           \* argv[3]
    None                  \* no job

ASSUME StoreAssumption ==
    /\ IsFiniteSet(Requests) /\ IsFiniteSet(Vendors)
    /\ Cancellers \subseteq Requests
    /\ HardwareConcurrency \in Nat
    /\ NumThreads \in Nat \ {0}
    /\ None \notin Requests

VARIABLES
    client,       \* client[r]: what the client of r has seen
    waiting,      \* how many CallData wait for a request to arrive
    status,       \* status[r]: status_ of the CallData of r
    cq,           \* cq_: the events <<r, ok>> not yet handled
    handler,      \* where HandleRpcs is
    event_queue,  \* the jobs not yet taken by a thread
    pool, job,    \* where each thread of the pool is, and its job
    rpc,          \* rpc[r][v]: the call to vendor v made for r
    read,         \* read[r]: the vendors whose answer getProductBid has read
    bids          \* bids[r]: product_bids

vars == <<client, waiting, status, cq, handler, event_queue, pool, job, rpc, read, bids>>
servervars == <<waiting, status, cq, handler>>
bidvars == <<rpc, read, bids>>

\* threadpool.h takes the larger of the two.
Pool == 1 .. IF HardwareConcurrency > NumThreads THEN HardwareConcurrency ELSE NumThreads

TypeOK ==
    /\ client \in [Requests -> {"idle", "sent", "answered", "cancelled"}]
    /\ waiting \in {0, 1}
    /\ status \in [Requests -> {"none", "PROCESS", "FINISH", "deleted"}]
    /\ cq \in SUBSET (Requests \X BOOLEAN)
    /\ handler \in {"next", "notify", "aborted"}
    /\ event_queue \in Seq(Requests)
    /\ pool \in [Pool -> {"test", "asleep", "spawn", "ask", "collect", "finish"}]
    /\ job \in [Pool -> Requests \cup {None}]
    /\ rpc \in [Requests -> [Vendors -> {"idle", "sent", "ok", "error"}]]
    /\ read \in [Requests -> SUBSET Vendors]
    /\ bids \in [Requests -> Seq(Vendors)]

\* HandleRpcs has made the first CallData.
Init ==
    /\ client = [r \in Requests |-> "idle"]
    /\ waiting = 1
    /\ status = [r \in Requests |-> "none"]
    /\ cq = {}
    /\ handler = "next"
    /\ event_queue = <<>>
    /\ pool = [w \in Pool |-> "test"]
    /\ job = [w \in Pool |-> None]
    /\ rpc = [r \in Requests |-> [v \in Vendors |-> "idle"]]
    /\ read = [r \in Requests |-> {}]
    /\ bids = [r \in Requests |-> <<>>]

-----------------------------------------------------------------------------
(* External: clients, gRPC and vendors *)

Query(r) ==
    /\ client[r] = "idle"
    /\ client' = [client EXCEPT ![r] = "sent"]
    /\ UNCHANGED <<servervars, event_queue, pool, job, bidvars>>

Cancel(r) ==
    /\ r \in Cancellers
    /\ client[r] = "sent"
    /\ client' = [client EXCEPT ![r] = "cancelled"]
    /\ UNCHANGED <<servervars, event_queue, pool, job, bidvars>>

\* gRPC gives a request to a CallData that waits for one.
Match(r) ==
    /\ client[r] = "sent"
    /\ status[r] = "none"
    /\ waiting > 0
    /\ waiting' = waiting - 1
    /\ status' = [status EXCEPT ![r] = "PROCESS"]
    /\ cq' = cq \cup {<<r, TRUE>>}
    /\ UNCHANGED <<client, handler, event_queue, pool, job, bidvars>>

\* The call ends, with the vendor's bid or with an error status.
VendorAnswers(r, v) ==
    /\ rpc[r][v] = "sent"
    /\ \E s \in {"ok", "error"} : rpc' = [rpc EXCEPT ![r][v] = s]
    /\ UNCHANGED <<client, servervars, event_queue, pool, job, read, bids>>

-----------------------------------------------------------------------------
(* HandleRpcs *)

\* GPR_ASSERT(ok) ends the process.
AbortOnEvent(e) ==
    /\ handler = "next"
    /\ e \in cq
    /\ ~e[2]
    /\ handler' = "aborted"
    /\ cq' = cq \ {e}
    /\ UNCHANGED <<client, waiting, status, event_queue, pool, job, bidvars>>

\* Proceed in PROCESS: add_job pushes the job under the lock.
AddJob(e) ==
    /\ handler = "next"
    /\ e \in cq
    /\ e[2]
    /\ status[e[1]] = "PROCESS"
    /\ event_queue' = Append(event_queue, e[1])
    /\ handler' = "notify"
    /\ cq' = cq \ {e}
    /\ UNCHANGED <<client, waiting, status, pool, job, bidvars>>

NotifyNobody ==
    /\ handler = "notify"
    /\ handler' = "next"
    /\ UNCHANGED <<client, waiting, status, cq, event_queue, pool, job, bidvars>>

\* add_job's notify_one, the lock released: wakes one sleeper if there is any.
Notify ==
    LET asleep == {w \in Pool : pool[w] = "asleep"} IN
    /\ handler = "notify"
    /\ handler' = "next"
    /\ \/ asleep = {} /\ UNCHANGED pool
       \/ \E w \in asleep : pool' = [pool EXCEPT ![w] = "test"]
    /\ UNCHANGED <<client, waiting, status, cq, event_queue, job, bidvars>>

\* Proceed in FINISH: delete this.
Delete(e) ==
    /\ handler = "next"
    /\ e \in cq
    /\ e[2]
    /\ status[e[1]] = "FINISH"
    /\ status' = [status EXCEPT ![e[1]] = "deleted"]
    /\ cq' = cq \ {e}
    /\ UNCHANGED <<client, waiting, handler, event_queue, pool, job, bidvars>>

-----------------------------------------------------------------------------
(* A thread of the pool: ThreadLoop *)

\* A take that leaves the job in the queue.
TakeWithoutPop(w) ==
    /\ pool[w] = "test"
    /\ event_queue # <<>>
    /\ job' = [job EXCEPT ![w] = Head(event_queue)]
    /\ pool' = [pool EXCEPT ![w] = "spawn"]
    /\ UNCHANGED <<client, servervars, event_queue, bidvars>>

TakeJob(w) ==
    /\ pool[w] = "test"
    /\ event_queue # <<>>
    /\ job' = [job EXCEPT ![w] = Head(event_queue)]
    /\ event_queue' = Tail(event_queue)
    /\ pool' = [pool EXCEPT ![w] = "spawn"]
    /\ UNCHANGED <<client, servervars, bidvars>>

\* cv.wait finds its predicate false.
Sleep(w) ==
    /\ pool[w] = "test"
    /\ event_queue = <<>>
    /\ pool' = [pool EXCEPT ![w] = "asleep"]
    /\ UNCHANGED <<client, servervars, event_queue, job, bidvars>>

SpuriousWakeup(w) ==
    /\ pool[w] = "asleep"
    /\ pool' = [pool EXCEPT ![w] = "test"]
    /\ UNCHANGED <<client, servervars, event_queue, job, bidvars>>

-----------------------------------------------------------------------------
(* The job of Proceed, with getProductBid *)

\* A job that makes two.
SpawnTwice(w) ==
    /\ pool[w] = "spawn"
    /\ waiting' = waiting + 2
    /\ pool' = [pool EXCEPT ![w] = "ask"]
    /\ UNCHANGED <<client, status, cq, handler, event_queue, job, bidvars>>

\* new CallData: its constructor requests the next call.
Spawn(w) ==
    /\ pool[w] = "spawn"
    /\ waiting' = waiting + 1
    /\ pool' = [pool EXCEPT ![w] = "ask"]
    /\ UNCHANGED <<client, status, cq, handler, event_queue, job, bidvars>>

\* A stub for every vendor, and a call on every stub.
Ask(w) ==
    /\ pool[w] = "ask"
    /\ rpc' = [rpc EXCEPT ![job[w]] = [v \in Vendors |-> "sent"]]
    /\ pool' = [pool EXCEPT ![w] = "collect"]
    /\ UNCHANGED <<client, servervars, event_queue, job, read, bids>>

\* A loop that does not look at the status of the call.
CollectUnchecked(w) ==
    LET r == job[w] IN
    /\ pool[w] = "collect"
    /\ \E v \in Vendors \ read[r] :
         /\ rpc[r][v] \in {"ok", "error"}
         /\ read' = [read EXCEPT ![r] = @ \cup {v}]
         /\ bids' = [bids EXCEPT ![r] = Append(@, v)]
    /\ UNCHANGED <<client, servervars, event_queue, pool, job, rpc>>

\* cq.Next: one more answer, in the order they come; errors are passed over.
Collect(w) ==
    LET r == job[w] IN
    /\ pool[w] = "collect"
    /\ \E v \in Vendors \ read[r] :
         /\ rpc[r][v] \in {"ok", "error"}
         /\ read' = [read EXCEPT ![r] = @ \cup {v}]
         /\ bids' = IF rpc[r][v] = "ok" THEN [bids EXCEPT ![r] = Append(@, v)] ELSE bids
    /\ UNCHANGED <<client, servervars, event_queue, pool, job, rpc>>

\* A job that calls Finish before it sets status_.
MarkForgotten(w) ==
    /\ pool[w] = "collect"
    /\ read[job[w]] = Vendors
    /\ pool' = [pool EXCEPT ![w] = "finish"]
    /\ UNCHANGED <<client, servervars, event_queue, job, bidvars>>

\* All answers are read and put in reply_: status_ = FINISH.
MarkFinish(w) ==
    /\ pool[w] = "collect"
    /\ read[job[w]] = Vendors
    /\ status' = [status EXCEPT ![job[w]] = "FINISH"]
    /\ pool' = [pool EXCEPT ![w] = "finish"]
    /\ UNCHANGED <<client, waiting, cq, handler, event_queue, job, bidvars>>

\* responder_.Finish: gRPC sends the reply, or finds that the client has gone
\* (then the event may have ok = false); the thread is back in ThreadLoop.
Finish(w) ==
    LET r == job[w] IN
    /\ pool[w] = "finish"
    /\ \E ok \in BOOLEAN :
         /\ client[r] # "cancelled" => ok
         /\ cq' = cq \cup {<<r, ok>>}
    /\ client' = [client EXCEPT ![r] = IF @ = "cancelled" THEN @ ELSE "answered"]
    /\ pool' = [pool EXCEPT ![w] = "test"]
    /\ job' = [job EXCEPT ![w] = None]
    /\ UNCHANGED <<waiting, status, handler, event_queue, bidvars>>

-----------------------------------------------------------------------------
Running == handler # "aborted"

HandleRpcs == Running /\ ((\E e \in cq : AbortOnEvent(e) \/ AddJob(e) \/ Delete(e)) \/ Notify)
ThreadLoop(w) ==
    /\ Running
    /\ \/ TakeJob(w) \/ Sleep(w) \/ Spawn(w) \/ Ask(w) \/ Collect(w)
       \/ MarkFinish(w) \/ Finish(w)

\* Every client has its answer or has gone, or the process has.
Quiet ==
    /\ ~Running \/ \A r \in Requests : client[r] \in {"answered", "cancelled"}
    /\ UNCHANGED vars

Next ==
    \/ \E r \in Requests : Query(r) \/ Cancel(r) \/ (Running /\ Match(r))
    \/ \E r \in Requests, v \in Vendors : VendorAnswers(r, v)
    \/ HandleRpcs
    \/ \E w \in Pool : ThreadLoop(w) \/ (Running /\ SpuriousWakeup(w))
    \/ Quiet

\* The threads of the store are scheduled, gRPC delivers, and every call to a
\* vendor ends: the code sets no deadline, so this is asked of the vendors.
Fairness ==
    /\ WF_vars(HandleRpcs)
    /\ \A w \in Pool : WF_vars(ThreadLoop(w))
    /\ \A r \in Requests : SF_vars(Match(r))
    /\ \A r \in Requests, v \in Vendors : WF_vars(VendorAnswers(r, v))

Spec == Init /\ [][Next]_vars /\ Fairness

-----------------------------------------------------------------------------
(* Properties *)

\* Between the CallData that waits, the events of new requests, the queued
\* jobs and the jobs about to make the next CallData there is always exactly
\* one: the store never stops accepting requests, and because a job makes the
\* next CallData only when a thread runs it, at most one job is ever queued.
OneAcceptor ==
    Running =>
        waiting + Cardinality({e \in cq : status[e[1]] = "PROCESS"})
                + Len(event_queue) + Cardinality({w \in Pool : pool[w] = "spawn"}) = 1

\* A CallData is in use by one job at most, queued or running, and is not
\* deleted while it is: the event of Finish finds status_ = FINISH.
CallDataOwned ==
    \A r \in Requests :
        LET running == {w \in Pool : job[w] = r}
            queued == {k \in 1 .. Len(event_queue) : event_queue[k] = r}
        IN  /\ Cardinality(running) + Cardinality(queued) <= 1
            /\ running \cup queued # {} => status[r] # "deleted"
            /\ client[r] = "answered" => running = {} /\ queued = {}

\* A client is answered with the bid of every vendor whose call succeeded,
\* each once, and only after the calls to all vendors have ended.
BidsComplete ==
    \A r \in Requests :
        client[r] = "answered" =>
            LET offers == {v \in Vendors : rpc[r][v] = "ok"}
            IN  /\ \A v \in Vendors : rpc[r][v] \in {"ok", "error"}
                /\ {bids[r][k] : k \in 1 .. Len(bids[r])} = offers
                /\ Len(bids[r]) = Cardinality(offers)

\* Every client that stays is answered unless the store aborts: no notify_one
\* is lost, and no thread sleeps on a job.
EveryRequestAnswered ==
    \A r \in Requests :
        client[r] = "sent" ~> client[r] \in {"answered", "cancelled"} \/ ~Running

=============================================================================
