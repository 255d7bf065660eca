-------------------------- MODULE ProducerConsumer --------------------------
(***************************************************************************)
(* prelab/producer_consumer.c: one producer puts the letters in a linked   *)
(* queue, two consumers (one created by main, one by the producer) take    *)
(* and print them.  A thread's step ends where it locks a mutex, unlocks   *)
(* the last one it holds, creates or joins a thread.  The node of the k-th *)
(* letter is k and NULL is 0; the prev pointers, written and never read,   *)
(* are not kept.                                                           *)
(***************************************************************************)
EXTENDS Naturals, Sequences, FiniteSets

CONSTANT NumLetters  \* 'a' .. 'z'

ASSUME NumLettersAssumption == NumLetters \in Nat

VARIABLES
    front, back, next,  \* the queue: its ends and the next pointer of each node
    lock,               \* who holds queue.lock
    g_num_prod, g_num_prod_lock,
    c,                  \* the letter the producer is at
    node,               \* node[x]: prev_node_p of consumer x
    freed, printed,     \* nodes given to free, and the output
    count,              \* *count of each consumer
    pc,                 \* where each thread is
    destroyed           \* main has destroyed the mutexes

vars == <<front, back, next, lock, g_num_prod, g_num_prod_lock, c, node, freed, printed,
          count, pc, destroyed>>
queuevars == <<front, back, next>>
lockvars == <<lock, g_num_prod_lock, destroyed>>
outvars == <<freed, printed, count>>

NULL == 0
Nobody == "nobody"
Consumers == {"main_consumer", "producer_consumer"}
Threads == {"main", "producer"} \cup Consumers
Letters == 1 .. NumLetters

\* main has initialised the queue and the mutexes.
Init ==
    /\ front = NULL /\ back = NULL
    /\ next = [n \in Letters |-> NULL]
    /\ lock = Nobody
    /\ g_num_prod = 1 /\ g_num_prod_lock = Nobody
    /\ c = 1
    /\ node = [x \in Consumers |-> NULL]
    /\ freed = {} /\ printed = <<>>
    /\ count = [x \in Consumers |-> 0]
    /\ pc = [t \in Threads |-> IF t = "main" THEN "start" ELSE "off"]
    /\ destroyed = FALSE

-----------------------------------------------------------------------------
(* Threads are created and joined *)

\* pthread_create returned 0: t goes on at label l, the new thread u at k.
Create(t, l, u, k) ==
    /\ pc' = [pc EXCEPT ![t] = l, ![u] = k]
    /\ UNCHANGED <<queuevars, lockvars, outvars, g_num_prod, c, node>>

CreateProducer == pc["main"] = "start" /\ Create("main", "create", "producer", "start")
CreateMainConsumer ==
    pc["main"] = "create" /\ Create("main", "join_producer", "main_consumer", "lock_queue")
CreateProducerConsumer ==
    /\ pc["producer"] = "start"
    /\ Create("producer", "next_letter", "producer_consumer", "lock_queue")

\* pthread_create failed: exit(1) ends every thread.
CreateFails ==
    /\ pc["main"] \in {"start", "create"} \/ pc["producer"] = "start"
    /\ pc["main"] # "exited"
    /\ pc' = [t \in Threads |-> "exited"]
    /\ UNCHANGED <<queuevars, lockvars, outvars, g_num_prod, c, node>>

\* pthread_join(consumer_thread), in producer_routine and in main.
JoinProducerConsumer ==
    /\ pc["producer"] = "join_consumer"
    /\ pc["producer_consumer"] = "done"
    /\ pc' = [pc EXCEPT !["producer"] = "done"]
    /\ UNCHANGED <<queuevars, lockvars, outvars, g_num_prod, c, node>>

\* A main that does not wait for the producer.
JoinNobody ==
    /\ pc["main"] = "join_producer"
    /\ pc' = [pc EXCEPT !["main"] = "join_consumer"]
    /\ UNCHANGED <<queuevars, lockvars, outvars, g_num_prod, c, node>>

JoinProducer ==
    /\ pc["main"] = "join_producer"
    /\ pc["producer"] = "done"
    /\ pc' = [pc EXCEPT !["main"] = "join_consumer"]
    /\ UNCHANGED <<queuevars, lockvars, outvars, g_num_prod, c, node>>

\* The last join, after which main destroys the mutexes and returns.
JoinMainConsumer ==
    /\ pc["main"] = "join_consumer"
    /\ pc["main_consumer"] = "done"
    /\ pc' = [pc EXCEPT !["main"] = "done"]
    /\ destroyed' = TRUE
    /\ UNCHANGED <<queuevars, lock, g_num_prod_lock, outvars, g_num_prod, c, node>>

-----------------------------------------------------------------------------
(* producer_routine *)

\* A new node for the next letter; lock the queue.
LockToAdd ==
    /\ pc["producer"] = "next_letter"
    /\ c <= NumLetters
    /\ lock = Nobody
    /\ lock' = "producer"
    /\ next' = [next EXCEPT ![c] = NULL]
    /\ pc' = [pc EXCEPT !["producer"] = "add"]
    /\ UNCHANGED <<front, back, g_num_prod_lock, destroyed, outvars, g_num_prod, c, node>>

\* The node is appended, and the queue unlocked.
Add ==
    /\ pc["producer"] = "add"
    /\ front' = IF back = NULL THEN c ELSE front
    /\ next' = IF back = NULL THEN next ELSE [next EXCEPT ![back] = c]
    /\ back' = c
    /\ lock' = Nobody
    /\ c' = c + 1
    /\ pc' = [pc EXCEPT !["producer"] = "next_letter"]
    /\ UNCHANGED <<g_num_prod_lock, destroyed, outvars, g_num_prod, node>>

\* All letters are added: lock g_num_prod_lock, decrement, unlock.
LockToDecrement ==
    /\ pc["producer"] = "next_letter"
    /\ c > NumLetters
    /\ g_num_prod_lock = Nobody
    /\ g_num_prod_lock' = "producer"
    /\ pc' = [pc EXCEPT !["producer"] = "decrement"]
    /\ UNCHANGED <<queuevars, lock, destroyed, outvars, g_num_prod, c, node>>

DecrementForgotten ==
    /\ pc["producer"] = "decrement"
    /\ g_num_prod_lock' = Nobody
    /\ pc' = [pc EXCEPT !["producer"] = "join_consumer"]
    /\ UNCHANGED <<queuevars, lock, destroyed, outvars, g_num_prod, c, node>>

Decrement ==
    /\ pc["producer"] = "decrement"
    /\ g_num_prod' = g_num_prod - 1
    /\ g_num_prod_lock' = Nobody
    /\ pc' = [pc EXCEPT !["producer"] = "join_consumer"]
    /\ UNCHANGED <<queuevars, lock, destroyed, outvars, c, node>>

-----------------------------------------------------------------------------
(* consumer_routine *)

LockQueue(x) ==
    /\ pc[x] = "lock_queue"
    /\ lock = Nobody
    /\ lock' = x
    /\ pc' = [pc EXCEPT ![x] = "lock_num"]
    /\ UNCHANGED <<queuevars, g_num_prod_lock, destroyed, outvars, g_num_prod, c, node>>

LockNumProd(x) ==
    /\ pc[x] = "lock_num"
    /\ g_num_prod_lock = Nobody
    /\ g_num_prod_lock' = x
    /\ pc' = [pc EXCEPT ![x] = "test"]
    /\ UNCHANGED <<queuevars, lock, destroyed, outvars, g_num_prod, c, node>>

\* while (queue_p->front != NULL || g_num_prod > 0); the first statement of
\* the body, and of what follows the loop, unlocks g_num_prod_lock.
Test(x) ==
    /\ pc[x] = "test"
    /\ g_num_prod_lock' = Nobody
    /\ pc' = [pc EXCEPT ![x] = IF front # NULL \/ g_num_prod > 0 THEN "body" ELSE "return"]
    /\ UNCHANGED <<queuevars, lock, destroyed, outvars, g_num_prod, c, node>>

\* A removal at the front that prints the node at the back.
TakeReadsBack(x) ==
    /\ pc[x] = "body"
    /\ front # NULL
    /\ node' = [node EXCEPT ![x] = back]
    /\ back' = IF next[front] = NULL THEN NULL ELSE back
    /\ front' = next[front]
    /\ lock' = Nobody
    /\ pc' = [pc EXCEPT ![x] = "print"]
    /\ UNCHANGED <<next, g_num_prod_lock, destroyed, outvars, g_num_prod, c>>

\* A removal that leaves back on the removed node.
TakeKeepsBack(x) ==
    /\ pc[x] = "body"
    /\ front # NULL
    /\ node' = [node EXCEPT ![x] = front]
    /\ front' = next[front]
    /\ lock' = Nobody
    /\ pc' = [pc EXCEPT ![x] = "print"]
    /\ UNCHANGED <<back, next, g_num_prod_lock, destroyed, outvars, g_num_prod, c>>

\* The first node is taken off, and the queue unlocked.
Take(x) ==
    /\ pc[x] = "body"
    /\ front # NULL
    /\ node' = [node EXCEPT ![x] = front]
    /\ back' = IF next[front] = NULL THEN NULL ELSE back
    /\ front' = next[front]
    /\ lock' = Nobody
    /\ pc' = [pc EXCEPT ![x] = "print"]
    /\ UNCHANGED <<next, g_num_prod_lock, destroyed, outvars, g_num_prod, c>>

\* The queue is empty: unlock it and let others run.
Yield(x) ==
    /\ pc[x] = "body"
    /\ front = NULL
    /\ lock' = Nobody
    /\ pc' = [pc EXCEPT ![x] = "lock_queue"]
    /\ UNCHANGED <<queuevars, g_num_prod_lock, destroyed, outvars, g_num_prod, c, node>>

\* Without a lock: print, free, count.
PrintAndFree(x) ==
    /\ pc[x] = "print"
    /\ printed' = Append(printed, node[x])
    /\ freed' = freed \cup {node[x]}
    /\ count' = [count EXCEPT ![x] = @ + 1]
    /\ node' = [node EXCEPT ![x] = NULL]
    /\ pc' = [pc EXCEPT ![x] = "lock_queue"]
    /\ UNCHANGED <<queuevars, lockvars, g_num_prod, c>>

Return(x) ==
    /\ pc[x] = "return"
    /\ lock' = Nobody
    /\ pc' = [pc EXCEPT ![x] = "done"]
    /\ UNCHANGED <<queuevars, g_num_prod_lock, destroyed, outvars, g_num_prod, c, node>>

-----------------------------------------------------------------------------
Joins == JoinProducerConsumer \/ JoinProducer \/ JoinMainConsumer
Producer == CreateProducerConsumer \/ LockToAdd \/ Add \/ LockToDecrement \/ Decrement
Consumer(x) == LockQueue(x) \/ LockNumProd(x) \/ Test(x) \/ Take(x) \/ Yield(x)
                \/ PrintAndFree(x) \/ Return(x)

\* main has returned, or exit(1) has been called.
Terminated == pc["main"] \in {"done", "exited"} /\ UNCHANGED vars

Next ==
    \/ CreateProducer \/ CreateMainConsumer \/ CreateFails
    \/ Joins
    \/ Producer
    \/ \E x \in Consumers : Consumer(x)
    \/ Terminated

\* Every thread keeps being scheduled, and a thread that finds a mutex free
\* again and again gets it in the end: those who let it go call sched_yield.
Fairness ==
    /\ WF_vars(CreateProducer \/ CreateMainConsumer)
    /\ WF_vars(Joins)
    /\ SF_vars(Producer)
    /\ \A x \in Consumers : SF_vars(Consumer(x))

Spec == Init /\ [][Next]_vars /\ Fairness

-----------------------------------------------------------------------------
(* Properties *)

\* The queue is the run front .. back of the letters, linked in that order,
\* and back is the last letter added; so the two asserts of producer_routine
\* hold, and consumers take the letters in the order of the alphabet.
QueueShape ==
    /\ front = NULL <=> back = NULL
    /\ front # NULL =>
         /\ front <= back /\ back = c - 1
         /\ \A n \in front .. back : next[n] = IF n = back THEN NULL ELSE n + 1

\* The letters that have left the queue.
Taken == IF front = NULL THEN 1 .. c - 1 ELSE 1 .. front - 1

\* Every letter taken is in the hand of one consumer, or has been printed and
\* freed, once; nothing in the queue or in a hand has been freed.
EachLetterOnce ==
    LET inhand == {x \in Consumers : node[x] # NULL}
    IN  /\ Taken = freed \cup {node[x] : x \in inhand}
        /\ \A x \in inhand : node[x] \notin freed
        /\ Cardinality({node[x] : x \in inhand}) = Cardinality(inhand)
        /\ Len(printed) = Cardinality(freed)
        /\ {printed[k] : k \in 1 .. Len(printed)} = freed
        /\ count["main_consumer"] + count["producer_consumer"] = Len(printed)

\* The mutexes are destroyed only when no thread is left that would lock or
\* unlock them, and every letter has been printed by then.
DestroyedLast ==
    destroyed =>
        /\ \A t \in Threads : pc[t] = "done"
        /\ lock = Nobody /\ g_num_prod_lock = Nobody
        /\ freed = Letters

\* Unless exit(1) is called, main returns: nobody waits for ever for a mutex,
\* a letter or a thread.
MainReturns == <>(pc["main"] \in {"done", "exited"})

=============================================================================
