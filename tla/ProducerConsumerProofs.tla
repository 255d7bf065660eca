----------------------- MODULE ProducerConsumerProofs -----------------------
(***************************************************************************)
(* For any number of letters the queue of prelab/producer_consumer.c keeps *)
(* its shape, every letter is printed and freed once, and main destroys    *)
(* the mutexes when nobody can use them any more.                          *)
(***************************************************************************)
EXTENDS ProducerConsumer, FiniteSetTheorems, SequenceTheorems, TLAPS

Labels == {"off", "start", "create", "join_producer", "join_consumer", "done", "exited",
           "next_letter", "add", "decrement",
           "lock_queue", "lock_num", "test", "body", "print", "return"}

TypeOK ==
    /\ front \in 0 .. NumLetters /\ back \in 0 .. NumLetters
    /\ next \in [Letters -> 0 .. NumLetters]
    /\ lock \in Threads \cup {Nobody} /\ g_num_prod_lock \in Threads \cup {Nobody}
    /\ g_num_prod \in {0, 1}
    /\ c \in 1 .. NumLetters + 1
    /\ node \in [Consumers -> 0 .. NumLetters]
    /\ freed \in SUBSET Letters
    /\ printed \in Seq(Letters)
    /\ count \in [Consumers -> Nat]
    /\ pc \in [Threads -> Labels]
    /\ destroyed \in BOOLEAN

Running == pc["main"] # "exited"

\* exit(1) ends all threads at once, before main destroys the mutexes.
Exits == ~Running => ~destroyed /\ \A t \in Threads : pc[t] = "exited"

\* Who holds which mutex can be told from where the threads are.
Locks ==
    Running =>
        /\ lock # "main" /\ g_num_prod_lock # "main"
        /\ lock = "producer" <=> pc["producer"] = "add"
        /\ g_num_prod_lock = "producer" <=> pc["producer"] = "decrement"
        /\ \A x \in Consumers :
             /\ lock = x <=> pc[x] \in {"lock_num", "test", "body", "return"}
             /\ g_num_prod_lock = x <=> pc[x] = "test"

\* How far main, the producer and the consumers have come with respect to
\* each other.
Phases ==
    Running =>
        /\ destroyed <=> pc["main"] = "done"
        /\ pc["main"] \in {"start", "create", "join_producer", "join_consumer", "done"}
        /\ pc["producer"] \in {"off", "start", "next_letter", "add", "decrement",
                               "join_consumer", "done"}
        /\ \A x \in Consumers :
             pc[x] \in {"off", "lock_queue", "lock_num", "test", "body", "print", "return",
                        "done"}
        /\ pc["main"] = "start" => pc["producer"] = "off"
        /\ pc["main"] \in {"start", "create"} => pc["main_consumer"] = "off"
        /\ pc["producer"] \in {"off", "start"} => pc["producer_consumer"] = "off"
        /\ pc["main"] \in {"join_consumer", "done"} => pc["producer"] = "done"
        /\ pc["producer"] = "done" => pc["producer_consumer"] = "done"
        /\ pc["main"] = "done" => pc["main_consumer"] = "done"

\* What a thread may rely on where it is: the producer on the letter it is at,
\* and a consumer that leaves on a queue that stays empty.
Progress ==
    Running =>
        /\ pc["producer"] = "add" => c <= NumLetters /\ next[c] = NULL
        /\ pc["producer"] \in {"decrement", "join_consumer", "done"} => c = NumLetters + 1
        /\ g_num_prod = 0 <=> pc["producer"] \in {"join_consumer", "done"}
        /\ \A x \in Consumers : pc[x] \in {"return", "done"} => front = NULL /\ g_num_prod = 0

\* A consumer has a letter in its hand just when it is about to print it.
Hands == Running => \A x \in Consumers : node[x] # NULL <=> pc[x] = "print"

\* Taken letters are in one hand, or printed and freed; both consumers
\* together have counted what was printed.
InHand == {node[x] : x \in {y \in Consumers : node[y] # NULL}}
Accounts ==
    /\ Taken = freed \cup InHand
    /\ \A x \in Consumers : node[x] # NULL => node[x] \notin freed
    /\ \A x, y \in Consumers : x # y /\ node[x] # NULL => node[x] # node[y]
    /\ Len(printed) = Cardinality(freed)
    /\ {printed[k] : k \in 1 .. Len(printed)} = freed
    /\ count["main_consumer"] + count["producer_consumer"] = Len(printed)

\* The inductive invariant.
Inv ==
    /\ TypeOK /\ Exits /\ Locks /\ Phases /\ Progress /\ QueueShape /\ Hands /\ Accounts

\* Every step keeps the types.
LEMMA TypeStep ==
    ASSUME Inv, [Next]_vars
    PROVE  TypeOK'
  <1> USE NumLettersAssumption DEF Inv, TypeOK, Labels,
          NULL, Nobody, Letters, Threads, Consumers, queuevars, lockvars, outvars
  <1>1. CASE CreateProducer
    BY <1>1 DEF CreateProducer, Create
  <1>2. CASE CreateMainConsumer
    BY <1>2 DEF CreateMainConsumer, Create
  <1>3. CASE CreateFails
    BY <1>3 DEF CreateFails
  <1>4. CASE JoinProducerConsumer
    BY <1>4 DEF JoinProducerConsumer
  <1>5. CASE JoinProducer
    BY <1>5 DEF JoinProducer
  <1>6. CASE JoinMainConsumer
    BY <1>6 DEF JoinMainConsumer
  <1>7. CASE CreateProducerConsumer
    BY <1>7 DEF CreateProducerConsumer, Create
  <1>8. CASE LockToAdd
    BY <1>8 DEF LockToAdd
  <1>9. CASE Add
    BY <1>9 DEF Add, Phases, Progress, Running, Exits
  <1>10. CASE LockToDecrement
    BY <1>10 DEF LockToDecrement
  <1>11. CASE Decrement
    BY <1>11 DEF Decrement, Progress, Running, Exits
  <1>12. ASSUME NEW x \in Consumers, LockQueue(x) PROVE TypeOK'
    BY <1>12 DEF LockQueue
  <1>13. ASSUME NEW x \in Consumers, LockNumProd(x) PROVE TypeOK'
    BY <1>13 DEF LockNumProd
  <1>14. ASSUME NEW x \in Consumers, Test(x) PROVE TypeOK'
    BY <1>14 DEF Test
  <1>15. ASSUME NEW x \in Consumers, Take(x) PROVE TypeOK'
    <2>1. next[front] \in 0 .. NumLetters
      BY <1>15 DEF Take
    <2>2. front' \in 0 .. NumLetters /\ back' \in 0 .. NumLetters
      BY <2>1, <1>15 DEF Take
    <2>3. node' \in [Consumers -> 0 .. NumLetters]
      BY <1>15 DEF Take
    <2>4. pc' \in [Threads -> Labels]
      BY <1>15 DEF Take
    <2>5. lock' = Nobody /\ UNCHANGED <<next, g_num_prod_lock, destroyed, outvars, g_num_prod, c>>
      BY <1>15 DEF Take
    <2> HIDE DEF Letters, Labels, Threads, Consumers
    <2> QED
      BY <2>2, <2>3, <2>4, <2>5
  <1>16. ASSUME NEW x \in Consumers, Yield(x) PROVE TypeOK'
    BY <1>16 DEF Yield
  <1>17. ASSUME NEW x \in Consumers, PrintAndFree(x) PROVE TypeOK'
    <2>1. node[x] \in Letters
      BY <1>17 DEF Hands, Running, Exits, PrintAndFree
    <2>2. printed' \in Seq(Letters)
      BY <2>1, <1>17, AppendProperties DEF PrintAndFree
    <2>3. freed' \in SUBSET Letters
      BY <2>1, <1>17 DEF PrintAndFree
    <2>4. count' \in [Consumers -> Nat] /\ node' \in [Consumers -> 0 .. NumLetters]
      BY <1>17 DEF PrintAndFree
    <2>5. pc' \in [Threads -> Labels]
      BY <1>17 DEF PrintAndFree
    <2>6. UNCHANGED <<front, back, next, lock, g_num_prod_lock, destroyed, g_num_prod, c>>
      BY <1>17 DEF PrintAndFree
    <2> HIDE DEF Letters, Labels, Threads, Consumers
    <2> QED
      BY <2>2, <2>3, <2>4, <2>5, <2>6
  <1>18. ASSUME NEW x \in Consumers, Return(x) PROVE TypeOK'
    BY <1>18 DEF Return
  <1>19. CASE UNCHANGED vars
    BY <1>19 DEF vars
  <1> QED
    BY <1>1, <1>2, <1>3, <1>4, <1>5, <1>6, <1>7, <1>8, <1>9,
       <1>10, <1>11, <1>12, <1>13, <1>14, <1>15, <1>16, <1>17, <1>18, <1>19
    DEF Next, Joins, Producer, Consumer, Terminated

\* exit(1) ends everything at once; nothing runs after it.
LEMMA ExitsStep ==
    ASSUME Inv, [Next]_vars
    PROVE  Exits'
  <1> USE NumLettersAssumption DEF Inv, TypeOK, Labels, Exits, Running, Phases,
          NULL, Nobody, Letters, Threads, Consumers, queuevars, lockvars, outvars
  <1>1. CASE CreateProducer
    BY <1>1 DEF CreateProducer, Create
  <1>2. CASE CreateMainConsumer
    BY <1>2 DEF CreateMainConsumer, Create
  <1>3. CASE CreateFails
    BY <1>3 DEF CreateFails
  <1>4. CASE JoinProducerConsumer
    BY <1>4 DEF JoinProducerConsumer
  <1>5. CASE JoinProducer
    BY <1>5 DEF JoinProducer
  <1>6. CASE JoinMainConsumer
    BY <1>6 DEF JoinMainConsumer
  <1>7. CASE CreateProducerConsumer
    BY <1>7 DEF CreateProducerConsumer, Create
  <1>8. CASE LockToAdd
    BY <1>8 DEF LockToAdd
  <1>9. CASE Add
    BY <1>9 DEF Add
  <1>10. CASE LockToDecrement
    BY <1>10 DEF LockToDecrement
  <1>11. CASE Decrement
    BY <1>11 DEF Decrement
  <1>12. ASSUME NEW x \in Consumers, LockQueue(x) PROVE Exits'
    BY <1>12 DEF LockQueue
  <1>13. ASSUME NEW x \in Consumers, LockNumProd(x) PROVE Exits'
    BY <1>13 DEF LockNumProd
  <1>14. ASSUME NEW x \in Consumers, Test(x) PROVE Exits'
    BY <1>14 DEF Test
  <1>15. ASSUME NEW x \in Consumers, Take(x) PROVE Exits'
    BY <1>15 DEF Take
  <1>16. ASSUME NEW x \in Consumers, Yield(x) PROVE Exits'
    BY <1>16 DEF Yield
  <1>17. ASSUME NEW x \in Consumers, PrintAndFree(x) PROVE Exits'
    BY <1>17 DEF PrintAndFree
  <1>18. ASSUME NEW x \in Consumers, Return(x) PROVE Exits'
    BY <1>18 DEF Return
  <1>19. CASE UNCHANGED vars
    BY <1>19 DEF vars
  <1> QED
    BY <1>1, <1>2, <1>3, <1>4, <1>5, <1>6, <1>7, <1>8, <1>9,
       <1>10, <1>11, <1>12, <1>13, <1>14, <1>15, <1>16, <1>17, <1>18, <1>19
    DEF Next, Joins, Producer, Consumer, Terminated

\* A mutex changes hands only with the label of its holder.
LEMMA LocksStep ==
    ASSUME Inv, [Next]_vars
    PROVE  Locks'
  <1> USE NumLettersAssumption DEF Inv, TypeOK, Labels, Exits, Running, Phases, Locks,
          NULL, Nobody, Letters, Threads, Consumers, queuevars, lockvars, outvars
  <1>1. CASE CreateProducer
    BY <1>1 DEF CreateProducer, Create
  <1>2. CASE CreateMainConsumer
    BY <1>2 DEF CreateMainConsumer, Create
  <1>3. CASE CreateFails
    BY <1>3 DEF CreateFails
  <1>4. CASE JoinProducerConsumer
    BY <1>4 DEF JoinProducerConsumer
  <1>5. CASE JoinProducer
    BY <1>5 DEF JoinProducer
  <1>6. CASE JoinMainConsumer
    BY <1>6 DEF JoinMainConsumer
  <1>7. CASE CreateProducerConsumer
    BY <1>7 DEF CreateProducerConsumer, Create
  <1>8. CASE LockToAdd
    BY <1>8 DEF LockToAdd
  <1>9. CASE Add
    BY <1>9 DEF Add
  <1>10. CASE LockToDecrement
    BY <1>10 DEF LockToDecrement
  <1>11. CASE Decrement
    BY <1>11 DEF Decrement
  <1>12. ASSUME NEW x \in Consumers, LockQueue(x) PROVE Locks'
    BY <1>12 DEF LockQueue
  <1>13. ASSUME NEW x \in Consumers, LockNumProd(x) PROVE Locks'
    BY <1>13 DEF LockNumProd
  <1>14. ASSUME NEW x \in Consumers, Test(x) PROVE Locks'
    BY <1>14 DEF Test
  <1>15. ASSUME NEW x \in Consumers, Take(x) PROVE Locks'
    BY <1>15 DEF Take
  <1>16. ASSUME NEW x \in Consumers, Yield(x) PROVE Locks'
    BY <1>16 DEF Yield
  <1>17. ASSUME NEW x \in Consumers, PrintAndFree(x) PROVE Locks'
    BY <1>17 DEF PrintAndFree
  <1>18. ASSUME NEW x \in Consumers, Return(x) PROVE Locks'
    BY <1>18 DEF Return
  <1>19. CASE UNCHANGED vars
    BY <1>19 DEF vars
  <1> QED
    BY <1>1, <1>2, <1>3, <1>4, <1>5, <1>6, <1>7, <1>8, <1>9,
       <1>10, <1>11, <1>12, <1>13, <1>14, <1>15, <1>16, <1>17, <1>18, <1>19
    DEF Next, Joins, Producer, Consumer, Terminated

\* Threads are created before they run and joined after they end.
LEMMA PhasesStep ==
    ASSUME Inv, [Next]_vars
    PROVE  Phases'
  <1> USE NumLettersAssumption DEF Inv, TypeOK, Labels, Exits, Running, Phases,
          NULL, Nobody, Letters, Threads, Consumers, queuevars, lockvars, outvars
  <1>1. CASE CreateProducer
    BY <1>1 DEF CreateProducer, Create
  <1>2. CASE CreateMainConsumer
    BY <1>2 DEF CreateMainConsumer, Create
  <1>3. CASE CreateFails
    BY <1>3 DEF CreateFails
  <1>4. CASE JoinProducerConsumer
    BY <1>4 DEF JoinProducerConsumer
  <1>5. CASE JoinProducer
    BY <1>5 DEF JoinProducer
  <1>6. CASE JoinMainConsumer
    BY <1>6 DEF JoinMainConsumer
  <1>7. CASE CreateProducerConsumer
    BY <1>7 DEF CreateProducerConsumer, Create
  <1>8. CASE LockToAdd
    BY <1>8 DEF LockToAdd
  <1>9. CASE Add
    BY <1>9 DEF Add
  <1>10. CASE LockToDecrement
    BY <1>10 DEF LockToDecrement
  <1>11. CASE Decrement
    BY <1>11 DEF Decrement
  <1>12. ASSUME NEW x \in Consumers, LockQueue(x) PROVE Phases'
    BY <1>12 DEF LockQueue
  <1>13. ASSUME NEW x \in Consumers, LockNumProd(x) PROVE Phases'
    BY <1>13 DEF LockNumProd
  <1>14. ASSUME NEW x \in Consumers, Test(x) PROVE Phases'
    BY <1>14 DEF Test
  <1>15. ASSUME NEW x \in Consumers, Take(x) PROVE Phases'
    BY <1>15 DEF Take
  <1>16. ASSUME NEW x \in Consumers, Yield(x) PROVE Phases'
    BY <1>16 DEF Yield
  <1>17. ASSUME NEW x \in Consumers, PrintAndFree(x) PROVE Phases'
    BY <1>17 DEF PrintAndFree
  <1>18. ASSUME NEW x \in Consumers, Return(x) PROVE Phases'
    BY <1>18 DEF Return
  <1>19. CASE UNCHANGED vars
    BY <1>19 DEF vars
  <1> QED
    BY <1>1, <1>2, <1>3, <1>4, <1>5, <1>6, <1>7, <1>8, <1>9,
       <1>10, <1>11, <1>12, <1>13, <1>14, <1>15, <1>16, <1>17, <1>18, <1>19
    DEF Next, Joins, Producer, Consumer, Terminated

\* The producer counts itself out only after the last letter.
LEMMA ProgressStep ==
    ASSUME Inv, [Next]_vars
    PROVE  Progress'
  <1> USE NumLettersAssumption DEF Inv, TypeOK, Labels, Exits, Running, Phases, Locks, QueueShape,
          Progress,
          NULL, Nobody, Letters, Threads, Consumers, queuevars, lockvars, outvars
  <1>1. CASE CreateProducer
    BY <1>1 DEF CreateProducer, Create
  <1>2. CASE CreateMainConsumer
    BY <1>2 DEF CreateMainConsumer, Create
  <1>3. CASE CreateFails
    BY <1>3 DEF CreateFails
  <1>4. CASE JoinProducerConsumer
    BY <1>4 DEF JoinProducerConsumer
  <1>5. CASE JoinProducer
    BY <1>5 DEF JoinProducer
  <1>6. CASE JoinMainConsumer
    BY <1>6 DEF JoinMainConsumer
  <1>7. CASE CreateProducerConsumer
    BY <1>7 DEF CreateProducerConsumer, Create
  <1>8. CASE LockToAdd
    BY <1>8 DEF LockToAdd
  <1>9. CASE Add
    BY <1>9 DEF Add
  <1>10. CASE LockToDecrement
    BY <1>10 DEF LockToDecrement
  <1>11. CASE Decrement
    BY <1>11 DEF Decrement
  <1>12. ASSUME NEW x \in Consumers, LockQueue(x) PROVE Progress'
    BY <1>12 DEF LockQueue
  <1>13. ASSUME NEW x \in Consumers, LockNumProd(x) PROVE Progress'
    BY <1>13 DEF LockNumProd
  <1>14. ASSUME NEW x \in Consumers, Test(x) PROVE Progress'
    BY <1>14 DEF Test
  <1>15. ASSUME NEW x \in Consumers, Take(x) PROVE Progress'
    BY <1>15 DEF Take
  <1>16. ASSUME NEW x \in Consumers, Yield(x) PROVE Progress'
    BY <1>16 DEF Yield
  <1>17. ASSUME NEW x \in Consumers, PrintAndFree(x) PROVE Progress'
    BY <1>17 DEF PrintAndFree
  <1>18. ASSUME NEW x \in Consumers, Return(x) PROVE Progress'
    BY <1>18 DEF Return
  <1>19. CASE UNCHANGED vars
    BY <1>19 DEF vars
  <1> QED
    BY <1>1, <1>2, <1>3, <1>4, <1>5, <1>6, <1>7, <1>8, <1>9,
       <1>10, <1>11, <1>12, <1>13, <1>14, <1>15, <1>16, <1>17, <1>18, <1>19
    DEF Next, Joins, Producer, Consumer, Terminated

\* Adding and taking keep the queue linked from front to back.
LEMMA QueueShapeStep ==
    ASSUME Inv, [Next]_vars
    PROVE  QueueShape'
  <1> USE NumLettersAssumption DEF Inv, TypeOK, Labels, Exits, Running, Phases, Progress, QueueShape,
          NULL, Nobody, Letters, Threads, Consumers, queuevars, lockvars, outvars
  <1>1. CASE CreateProducer
    BY <1>1 DEF CreateProducer, Create
  <1>2. CASE CreateMainConsumer
    BY <1>2 DEF CreateMainConsumer, Create
  <1>3. CASE CreateFails
    BY <1>3 DEF CreateFails
  <1>4. CASE JoinProducerConsumer
    BY <1>4 DEF JoinProducerConsumer
  <1>5. CASE JoinProducer
    BY <1>5 DEF JoinProducer
  <1>6. CASE JoinMainConsumer
    BY <1>6 DEF JoinMainConsumer
  <1>7. CASE CreateProducerConsumer
    BY <1>7 DEF CreateProducerConsumer, Create
  <1>8. CASE LockToAdd
    BY <1>8 DEF LockToAdd
  <1>9. CASE Add
    BY <1>9, SMTT(60) DEF Add
  <1>10. CASE LockToDecrement
    BY <1>10 DEF LockToDecrement
  <1>11. CASE Decrement
    BY <1>11 DEF Decrement
  <1>12. ASSUME NEW x \in Consumers, LockQueue(x) PROVE QueueShape'
    BY <1>12 DEF LockQueue
  <1>13. ASSUME NEW x \in Consumers, LockNumProd(x) PROVE QueueShape'
    BY <1>13 DEF LockNumProd
  <1>14. ASSUME NEW x \in Consumers, Test(x) PROVE QueueShape'
    BY <1>14 DEF Test
  <1>15. ASSUME NEW x \in Consumers, Take(x) PROVE QueueShape'
    BY <1>15, SMTT(60) DEF Take
  <1>16. ASSUME NEW x \in Consumers, Yield(x) PROVE QueueShape'
    BY <1>16 DEF Yield
  <1>17. ASSUME NEW x \in Consumers, PrintAndFree(x) PROVE QueueShape'
    BY <1>17 DEF PrintAndFree
  <1>18. ASSUME NEW x \in Consumers, Return(x) PROVE QueueShape'
    BY <1>18 DEF Return
  <1>19. CASE UNCHANGED vars
    BY <1>19 DEF vars
  <1> QED
    BY <1>1, <1>2, <1>3, <1>4, <1>5, <1>6, <1>7, <1>8, <1>9,
       <1>10, <1>11, <1>12, <1>13, <1>14, <1>15, <1>16, <1>17, <1>18, <1>19
    DEF Next, Joins, Producer, Consumer, Terminated

\* A consumer's hand is filled and emptied with its label.
LEMMA HandsStep ==
    ASSUME Inv, [Next]_vars
    PROVE  Hands'
  <1> USE NumLettersAssumption DEF Inv, TypeOK, Labels, Exits, Running, Phases, QueueShape, Hands,
          NULL, Nobody, Letters, Threads, Consumers, queuevars, lockvars, outvars
  <1>1. CASE CreateProducer
    BY <1>1 DEF CreateProducer, Create
  <1>2. CASE CreateMainConsumer
    BY <1>2 DEF CreateMainConsumer, Create
  <1>3. CASE CreateFails
    BY <1>3 DEF CreateFails
  <1>4. CASE JoinProducerConsumer
    BY <1>4 DEF JoinProducerConsumer
  <1>5. CASE JoinProducer
    BY <1>5 DEF JoinProducer
  <1>6. CASE JoinMainConsumer
    BY <1>6 DEF JoinMainConsumer
  <1>7. CASE CreateProducerConsumer
    BY <1>7 DEF CreateProducerConsumer, Create
  <1>8. CASE LockToAdd
    BY <1>8 DEF LockToAdd
  <1>9. CASE Add
    BY <1>9 DEF Add
  <1>10. CASE LockToDecrement
    BY <1>10 DEF LockToDecrement
  <1>11. CASE Decrement
    BY <1>11 DEF Decrement
  <1>12. ASSUME NEW x \in Consumers, LockQueue(x) PROVE Hands'
    BY <1>12 DEF LockQueue
  <1>13. ASSUME NEW x \in Consumers, LockNumProd(x) PROVE Hands'
    BY <1>13 DEF LockNumProd
  <1>14. ASSUME NEW x \in Consumers, Test(x) PROVE Hands'
    BY <1>14 DEF Test
  <1>15. ASSUME NEW x \in Consumers, Take(x) PROVE Hands'
    BY <1>15 DEF Take
  <1>16. ASSUME NEW x \in Consumers, Yield(x) PROVE Hands'
    BY <1>16 DEF Yield
  <1>17. ASSUME NEW x \in Consumers, PrintAndFree(x) PROVE Hands'
    BY <1>17 DEF PrintAndFree
  <1>18. ASSUME NEW x \in Consumers, Return(x) PROVE Hands'
    BY <1>18 DEF Return
  <1>19. CASE UNCHANGED vars
    BY <1>19 DEF vars
  <1> QED
    BY <1>1, <1>2, <1>3, <1>4, <1>5, <1>6, <1>7, <1>8, <1>9,
       <1>10, <1>11, <1>12, <1>13, <1>14, <1>15, <1>16, <1>17, <1>18, <1>19
    DEF Next, Joins, Producer, Consumer, Terminated

\* The accounts depend on nothing but the queue's ends, the hands and the
\* output.
LEMMA AccountsStable ==
    ASSUME Accounts, UNCHANGED <<front, c, node, outvars>>
    PROVE  Accounts'
  <1>1. Taken' = Taken /\ InHand' = InHand
    BY DEF Taken, InHand
  <1> QED
    BY <1>1 DEF Accounts, outvars

\* A letter is added to the queue: none is taken by it.
LEMMA AddAccounts == ASSUME Inv, Add PROVE Accounts'
  <1> USE NumLettersAssumption DEF Inv, TypeOK, Add, outvars, NULL, Letters
  <1>1. Taken' = Taken
    BY DEF Taken, QueueShape, Progress, Phases, Running, Exits, Threads
  <1>2. InHand' = InHand
    BY DEF InHand
  <1> QED
    BY <1>1, <1>2 DEF Accounts

\* The front letter goes from the queue to the hand of x, which was empty.
LEMMA TakeAccounts == ASSUME Inv, NEW x \in Consumers, Take(x) PROVE Accounts'
  <1> USE NumLettersAssumption DEF Inv, TypeOK, Take, outvars, NULL, Letters
  <1>1. node[x] = NULL /\ Running
    BY DEF Hands, Running, Exits, Threads
  <1>2. Taken' = Taken \cup {front} /\ front \notin Taken
    <2>1. front \in 1 .. c - 1 /\ c' = c
      BY DEF QueueShape
    <2>2. CASE front = back
      <3>1. front' = NULL /\ front = c - 1
        BY <2>1, <2>2 DEF QueueShape
      <3> QED
        BY <2>1, <3>1, SMTT(60) DEF Taken
    <2>3. CASE front # back
      <3>1. front' = front + 1
        BY <2>1, <2>3 DEF QueueShape
      <3> QED
        BY <2>1, <3>1 DEF Taken
    <2> QED
      BY <2>2, <2>3
  <1>3. InHand' = InHand \cup {front}
    BY <1>1 DEF InHand, Consumers
  <1>4. Taken' = freed' \cup InHand'
    BY <1>2, <1>3 DEF Accounts
  <1>5. front \notin freed /\ \A y \in Consumers : node[y] # front
    BY <1>2 DEF Accounts, InHand
  <1>6. \A y \in Consumers : node'[y] = IF y = x THEN front ELSE node[y]
    OBVIOUS
  <1>7. \A y \in Consumers : node'[y] # NULL => node'[y] \notin freed'
    BY <1>5, <1>6 DEF Accounts
  <1>8. \A y, z \in Consumers : y # z /\ node'[y] # NULL => node'[y] # node'[z]
    BY <1>5, <1>6 DEF Accounts
  <1> QED
    BY <1>4, <1>7, <1>8 DEF Accounts

\* The letter in the hand of x is printed, freed and counted.
LEMMA PrintAccounts == ASSUME Inv, NEW x \in Consumers, PrintAndFree(x) PROVE Accounts'
  <1> USE NumLettersAssumption DEF Inv, TypeOK, PrintAndFree, outvars, queuevars, NULL, Letters
  <1>1. node[x] \in Letters
    BY DEF Hands, Running, Exits, Threads, Consumers
  <1>2. Taken' = Taken
    BY DEF Taken
  <1>3. \A y \in Consumers : node'[y] = IF y = x THEN NULL ELSE node[y]
    OBVIOUS
  <1>4. node[x] \notin freed /\ \A y \in Consumers : y # x => node[y] # node[x]
    BY <1>1, SMTT(60) DEF Accounts
  <1>5. Taken' = freed' \cup InHand'
    <2>1. InHand = InHand' \cup {node[x]}
      BY <1>1, <1>3 DEF InHand
    <2> QED
      BY <2>1, <1>2 DEF Accounts
  <1>6. \A y \in Consumers : node'[y] # NULL => node'[y] \notin freed'
    BY <1>3, <1>4 DEF Accounts
  <1>7. \A y, z \in Consumers : y # z /\ node'[y] # NULL => node'[y] # node'[z]
    BY <1>3 DEF Accounts
  <1>8. Len(printed') = Len(printed) + 1 /\ Len(printed) \in Nat
    BY <1>1, AppendProperties, LenProperties
  <1>9. Len(printed') = Cardinality(freed')
    <2>1. IsFiniteSet(1 .. NumLetters)
      BY FS_Interval
    <2>2. IsFiniteSet(freed)
      BY <2>1, FS_Subset
    <2>3. Cardinality(freed \cup {node[x]}) = Cardinality(freed) + 1
      BY <2>2, <1>4, FS_AddElement
    <2> QED
      BY <2>3, <1>8 DEF Accounts
  <1>10. {printed'[k] : k \in 1 .. Len(printed')} = freed'
    <2>1. \A k \in 1 .. Len(printed) : printed'[k] = printed[k]
      BY <1>1, AppendProperties
    <2>2. printed'[Len(printed')] = node[x]
      BY <1>1, <1>8, AppendProperties
    <2>3. {printed'[k] : k \in 1 .. Len(printed')}
            = {printed[k] : k \in 1 .. Len(printed)} \cup {node[x]}
      BY <2>1, <2>2, <1>8
    <2> QED
      BY <2>3 DEF Accounts
  <1>11. count'["main_consumer"] + count'["producer_consumer"] = Len(printed')
    BY <1>8 DEF Accounts, Consumers
  <1> QED
    BY <1>5, <1>6, <1>7, <1>9, <1>10, <1>11 DEF Accounts

\* Letters move from the queue to a hand and from there to the output.
LEMMA AccountsStep ==
    ASSUME Inv, [Next]_vars
    PROVE  Accounts'
  <1>1. CASE CreateProducer
    BY <1>1, AccountsStable DEF Inv, CreateProducer, Create, queuevars, outvars
  <1>2. CASE CreateMainConsumer
    BY <1>2, AccountsStable DEF Inv, CreateMainConsumer, Create, queuevars, outvars
  <1>3. CASE CreateFails
    BY <1>3, AccountsStable DEF Inv, CreateFails, queuevars, outvars
  <1>4. CASE JoinProducerConsumer
    BY <1>4, AccountsStable DEF Inv, JoinProducerConsumer, queuevars, outvars
  <1>5. CASE JoinProducer
    BY <1>5, AccountsStable DEF Inv, JoinProducer, queuevars, outvars
  <1>6. CASE JoinMainConsumer
    BY <1>6, AccountsStable DEF Inv, JoinMainConsumer, queuevars, outvars
  <1>7. CASE CreateProducerConsumer
    BY <1>7, AccountsStable DEF Inv, CreateProducerConsumer, Create, queuevars, outvars
  <1>8. CASE LockToAdd
    BY <1>8, AccountsStable DEF Inv, LockToAdd, queuevars, outvars
  <1>9. CASE Add
    BY <1>9, AddAccounts
  <1>10. CASE LockToDecrement
    BY <1>10, AccountsStable DEF Inv, LockToDecrement, queuevars, outvars
  <1>11. CASE Decrement
    BY <1>11, AccountsStable DEF Inv, Decrement, queuevars, outvars
  <1>12. ASSUME NEW x \in Consumers, LockQueue(x) PROVE Accounts'
    BY <1>12, AccountsStable DEF Inv, LockQueue, queuevars, outvars
  <1>13. ASSUME NEW x \in Consumers, LockNumProd(x) PROVE Accounts'
    BY <1>13, AccountsStable DEF Inv, LockNumProd, queuevars, outvars
  <1>14. ASSUME NEW x \in Consumers, Test(x) PROVE Accounts'
    BY <1>14, AccountsStable DEF Inv, Test, queuevars, outvars
  <1>15. ASSUME NEW x \in Consumers, Take(x) PROVE Accounts'
    BY <1>15, TakeAccounts
  <1>16. ASSUME NEW x \in Consumers, Yield(x) PROVE Accounts'
    BY <1>16, AccountsStable DEF Inv, Yield, queuevars, outvars
  <1>17. ASSUME NEW x \in Consumers, PrintAndFree(x) PROVE Accounts'
    BY <1>17, PrintAccounts
  <1>18. ASSUME NEW x \in Consumers, Return(x) PROVE Accounts'
    BY <1>18, AccountsStable DEF Inv, Return, queuevars, outvars
  <1>19. CASE UNCHANGED vars
    BY <1>19, AccountsStable DEF Inv, vars, outvars
  <1> QED
    BY <1>1, <1>2, <1>3, <1>4, <1>5, <1>6, <1>7, <1>8, <1>9,
       <1>10, <1>11, <1>12, <1>13, <1>14, <1>15, <1>16, <1>17, <1>18, <1>19
    DEF Next, Joins, Producer, Consumer, Terminated

\* Initially the queue is empty and only main runs.
LEMMA InitInv == Init => Inv
  <1> SUFFICES ASSUME Init PROVE Inv
    OBVIOUS
  <1> USE NumLettersAssumption DEF Init, NULL, Nobody
  <1>1. TypeOK
    <2>1. printed \in Seq(Letters) /\ freed \in SUBSET Letters
      OBVIOUS
    <2>2. count \in [Consumers -> Nat] /\ pc \in [Threads -> Labels]
      BY DEF Labels
    <2>3. front \in 0 .. NumLetters /\ back \in 0 .. NumLetters /\ c \in 1 .. NumLetters + 1
      OBVIOUS
    <2>4. next \in [Letters -> 0 .. NumLetters] /\ node \in [Consumers -> 0 .. NumLetters]
      OBVIOUS
    <2>5. lock \in Threads \cup {Nobody} /\ g_num_prod_lock \in Threads \cup {Nobody}
      OBVIOUS
    <2>6. g_num_prod \in {0, 1} /\ destroyed \in BOOLEAN
      OBVIOUS
    <2> HIDE DEF Init
    <2> QED
      BY <2>1, <2>2, <2>3, <2>4, <2>5, <2>6 DEF TypeOK
  <1>2. Exits /\ Locks /\ Phases /\ Progress /\ QueueShape /\ Hands
    BY DEF Exits, Locks, Phases, Progress, QueueShape, Hands, Running, Threads, Consumers
  <1>3. Accounts
    <2>1. Taken = {} /\ InHand = {}
      BY DEF Taken, InHand
    <2> QED
      BY <2>1, FS_EmptySet DEF Accounts, Consumers
  <1> QED
    BY <1>1, <1>2, <1>3 DEF Inv

\* The inductive invariant holds in every reachable state.
THEOREM Invariance == Spec => []Inv
  <1>1. Inv /\ [Next]_vars => Inv'
    BY TypeStep, ExitsStep, LocksStep, PhasesStep, ProgressStep, QueueShapeStep, HandsStep,
       AccountsStep DEF Inv
  <1> QED
    BY <1>1, InitInv, PTL DEF Spec

\* For any number of letters the list stays linked from front to back, so the
\* asserts of producer_routine hold.
THEOREM QueueLinked == Spec => []QueueShape
  <1>1. Inv => QueueShape
    BY DEF Inv
  <1> QED
    BY <1>1, Invariance, PTL

\* A letter that was taken is in one hand or has been printed and freed once:
\* no letter is lost, printed twice or used after free.
THEOREM LettersOnce == Spec => []EachLetterOnce
  <1>1. Inv => EachLetterOnce
    <2> SUFFICES ASSUME Inv PROVE EachLetterOnce
      OBVIOUS
    <2> DEFINE inhand == {x \in Consumers : node[x] # NULL}
    <2> DEFINE m == "main_consumer"
    <2> DEFINE p == "producer_consumer"
    <2>1. Cardinality({node[x] : x \in inhand}) = Cardinality(inhand)
      <3>1. CASE inhand = {}
        BY <3>1
      <3>2. CASE inhand = {m}
        <4>1. {node[x] : x \in inhand} = {node[m]}
          BY <3>2
        <4> QED
          BY <4>1, <3>2, FS_Singleton
      <3>3. CASE inhand = {p}
        <4>1. {node[x] : x \in inhand} = {node[p]}
          BY <3>3
        <4> QED
          BY <4>1, <3>3, FS_Singleton
      <3>4. CASE inhand = {m, p}
        <4>1. node[m] # node[p]
          BY <3>4 DEF Inv, Accounts, Consumers
        <4>2. {node[x] : x \in inhand} = {node[m]} \cup {node[p]}
          BY <3>4
        <4>3. ASSUME NEW a, NEW b, a # b PROVE Cardinality({a} \cup {b}) = 2
          <5>1. IsFiniteSet({a}) /\ Cardinality({a}) = 1 /\ b \notin {a}
            BY <4>3, FS_Singleton
          <5>2. Cardinality({a} \cup {b}) = Cardinality({a}) + 1
            BY <5>1, FS_AddElement
          <5> QED
            BY <5>1, <5>2
        <4>4. inhand = {m} \cup {p} /\ m # p
          BY <3>4
        <4>5. Cardinality({m} \cup {p}) = 2 /\ Cardinality({node[m]} \cup {node[p]}) = 2
          BY <4>1, <4>3, <4>4
        <4> QED
          BY <4>2, <4>4, <4>5
      <3> QED
        BY <3>1, <3>2, <3>3, <3>4 DEF Consumers
    <2> QED
      BY <2>1 DEF Inv, Accounts, InHand, EachLetterOnce
  <1> QED
    BY <1>1, Invariance, PTL

\* When main destroys the mutexes every thread has ended, no mutex is held and
\* all letters are out.
THEOREM DestroysLast == Spec => []DestroyedLast
  <1>1. Inv => DestroyedLast
    <2> SUFFICES ASSUME Inv, destroyed PROVE DestroyedLast
      BY DEF DestroyedLast
    <2> USE NumLettersAssumption DEF Inv, TypeOK, Threads, Consumers, NULL, Nobody
    <2>1. Running /\ \A t \in Threads : pc[t] = "done"
      BY DEF Exits, Phases, Running
    <2>2. lock = Nobody /\ g_num_prod_lock = Nobody
      BY <2>1 DEF Locks
    <2>3. Taken = Letters
      BY <2>1 DEF Taken, Progress, Letters
    <2>4. InHand = {}
      BY <2>1 DEF Hands, InHand
    <2> QED
      BY <2>1, <2>2, <2>3, <2>4 DEF DestroyedLast, Accounts
  <1> QED
    BY <1>1, Invariance, PTL

=============================================================================
