---------------------------- MODULE StoreProofs ----------------------------
(***************************************************************************)
(* For any requests, vendors and pool size the store of project3 always    *)
(* has exactly one CallData on the way to accept the next request, never   *)
(* shares or deletes a CallData in use, and answers with the complete      *)
(* list of bids.                                                           *)
(***************************************************************************)
EXTENDS Store, FiniteSetTheorems, SequenceTheorems, TLAPS

\* The events of new requests, and the threads about to make a CallData.
NewEvents == {e \in cq : status[e[1]] = "PROCESS"}
Spawners == {w \in Pool : pool[w] = "spawn"}

\* The right to accept the next request is in exactly one of four places.
Token ==
    \/ waiting = 1 /\ NewEvents = {} /\ event_queue = <<>> /\ Spawners = {}
    \/ waiting = 0 /\ (\E e \in cq : NewEvents = {e}) /\ event_queue = <<>> /\ Spawners = {}
    \/ waiting = 0 /\ NewEvents = {} /\ Len(event_queue) = 1 /\ Spawners = {}
    \/ waiting = 0 /\ NewEvents = {} /\ event_queue = <<>> /\ \E w \in Pool : Spawners = {w}

\* The threads of the pool have jobs of their own, at the stage status_ tells.
Jobs ==
    /\ \A w \in Pool : job[w] = None <=> pool[w] \in {"test", "asleep"}
    /\ \A w, u \in Pool : w # u /\ job[w] # None => job[w] # job[u]
    /\ \A w \in Pool : job[w] # None =>
         status[job[w]] = IF pool[w] = "finish" THEN "FINISH" ELSE "PROCESS"

\* A queued job belongs to no thread yet.
Queued ==
    \A k \in 1 .. Len(event_queue) :
        /\ status[event_queue[k]] = "PROCESS"
        /\ \A w \in Pool : job[w] # event_queue[k]

\* An event is the only one of its CallData, which no job uses; only the reply
\* can fail.
Events ==
    \A e \in cq :
        /\ status[e[1]] \in {"PROCESS", "FINISH"}
        /\ status[e[1]] = "PROCESS" => e[2]
        /\ \A f \in cq : f[1] = e[1] => f = e
        /\ \A k \in 1 .. Len(event_queue) : event_queue[k] # e[1]
        /\ \A w \in Pool : job[w] # e[1]

\* Only the reply answers a client, and it is the last use of the CallData.
Answers ==
    \A r \in Requests : client[r] = "answered" =>
        status[r] \in {"FINISH", "deleted"} /\ \A w \in Pool : job[w] # r

\* getProductBid begins with nothing read and returns when all is read.
Reading ==
    /\ \A r \in Requests : status[r] = "none" => read[r] = {}
    /\ \A e \in cq : status[e[1]] = "PROCESS" => read[e[1]] = {}
    /\ \A k \in 1 .. Len(event_queue) : read[event_queue[k]] = {}
    /\ \A w \in Pool : pool[w] \in {"spawn", "ask"} => read[job[w]] = {}
    /\ \A r \in Requests : status[r] \in {"FINISH", "deleted"} => read[r] = Vendors

\* What was read has ended, and what succeeded has been put in product_bids.
Offers(r) == {v \in read[r] : rpc[r][v] = "ok"}
Bids(r) == {bids[r][k] : k \in 1 .. Len(bids[r])}
Collected ==
    \A r \in Requests :
        /\ \A v \in read[r] : rpc[r][v] \in {"ok", "error"}
        /\ Bids(r) = Offers(r)
        /\ Len(bids[r]) = Cardinality(Offers(r))

\* The inductive invariant.
Inv == TypeOK /\ Token /\ Jobs /\ Queued /\ Events /\ Answers /\ Reading /\ Collected

\* The right to accept is in one place.
LEMMA TokenIn ==
    ASSUME Token
    PROVE  /\ waiting = 1 => NewEvents = {} /\ event_queue = <<>> /\ Spawners = {}
           /\ \A w \in Spawners : /\ waiting = 0 /\ NewEvents = {} /\ event_queue = <<>>
                                  /\ Spawners = {w}
           /\ event_queue # <<>> => /\ waiting = 0 /\ NewEvents = {} /\ Spawners = {}
                                    /\ Len(event_queue) = 1
           /\ \A e \in NewEvents : /\ waiting = 0 /\ event_queue = <<>> /\ Spawners = {}
                                   /\ NewEvents = {e}
  <1>1. Len(event_queue) = 1 => event_queue # <<>>
    OBVIOUS
  <1> QED
    BY <1>1 DEF Token

\* A step that leaves the four places alone leaves the token alone.
LEMMA TokenStable ==
    ASSUME Token, waiting' = waiting, NewEvents' = NewEvents, event_queue' = event_queue,
           Spawners' = Spawners
    PROVE  Token'
  <1>1. ASSUME NEW e, NewEvents = {e} PROVE e \in cq'
    BY <1>1 DEF NewEvents
  <1> QED
    BY <1>1 DEF Token

\* There is no second job in the queue.
LEMMA Front ==
    ASSUME TypeOK, Token, event_queue # <<>>
    PROVE  /\ Head(event_queue) \in Requests /\ Head(event_queue) = event_queue[1]
           /\ 1 \in 1 .. Len(event_queue) /\ Tail(event_queue) = <<>>
  <1>1. Len(event_queue) = 1 /\ event_queue \in Seq(Requests)
    BY TokenIn DEF TypeOK
  <1>2. Head(event_queue) = event_queue[1] /\ event_queue[1] \in Requests
    BY <1>1
  <1>3. Tail(event_queue) \in Seq(Requests) /\ Len(Tail(event_queue)) = 0
    BY <1>1, HeadTailProperties
  <1>4. Tail(event_queue) = <<>>
    BY <1>3, EmptySeq
  <1> QED
    BY <1>1, <1>2, <1>4

\* A thread with a job works for a request.
LEMMA JobOf ==
    ASSUME Inv, NEW w \in Pool, pool[w] \notin {"test", "asleep"}
    PROVE  job[w] \in Requests /\ job[w] # None
  BY StoreAssumption DEF Inv, TypeOK, Jobs

\* Every step keeps the types.
LEMMA TypeStep == ASSUME Inv, [Next]_vars PROVE TypeOK'
  <1> USE StoreAssumption DEF Inv, TypeOK,
          servervars, bidvars
  <1>1. ASSUME NEW r \in Requests, Query(r) PROVE TypeOK'
    BY <1>1 DEF Query
  <1>2. ASSUME NEW r \in Requests, Cancel(r) PROVE TypeOK'
    BY <1>2 DEF Cancel
  <1>3. ASSUME NEW r \in Requests, Match(r) PROVE TypeOK'
    <2>1. cq' \in SUBSET (Requests \X BOOLEAN)
      <3>1. <<r, TRUE>> \in Requests \X BOOLEAN
        BY Zenon
      <3> QED
        BY <3>1, <1>3 DEF Match
    <2>2. status' \in [Requests -> {"none", "PROCESS", "FINISH", "deleted"}] /\ waiting' \in {0, 1}
      BY <1>3 DEF Match
    <2> QED
      BY <2>1, <2>2, <1>3 DEF Match
  <1>4. ASSUME NEW r \in Requests, NEW v \in Vendors, VendorAnswers(r, v) PROVE TypeOK'
    BY <1>4 DEF VendorAnswers
  <1>5. ASSUME NEW e \in cq, AbortOnEvent(e) PROVE TypeOK'
    BY <1>5 DEF AbortOnEvent
  <1>6. ASSUME NEW e \in cq, AddJob(e) PROVE TypeOK'
    BY <1>6 DEF AddJob
  <1>7. ASSUME NEW e \in cq, Delete(e) PROVE TypeOK'
    BY <1>7 DEF Delete
  <1>8. CASE Notify
    BY <1>8 DEF Notify
  <1>9. ASSUME NEW w \in Pool, TakeJob(w) PROVE TypeOK'
    BY <1>9 DEF TakeJob
  <1>10. ASSUME NEW w \in Pool, Sleep(w) PROVE TypeOK'
    BY <1>10 DEF Sleep
  <1>11. ASSUME NEW w \in Pool, SpuriousWakeup(w) PROVE TypeOK'
    BY <1>11 DEF SpuriousWakeup
  <1>12. ASSUME NEW w \in Pool, Spawn(w) PROVE TypeOK'
    <2>1. waiting = 0
      BY <1>12, TokenIn DEF Spawn, Spawners
    <2> QED
      BY <2>1, <1>12 DEF Spawn
  <1>13. ASSUME NEW w \in Pool, Ask(w) PROVE TypeOK'
    BY <1>13 DEF Ask
  <1>14. ASSUME NEW w \in Pool, Collect(w) PROVE TypeOK'
    <2>1. job[w] \in Requests
      BY <1>14, JobOf DEF Collect
    <2>2. PICK v \in Vendors : /\ read' = [read EXCEPT ![job[w]] = @ \cup {v}]
                               /\ bids' = IF rpc[job[w]][v] = "ok"
                                            THEN [bids EXCEPT ![job[w]] = Append(@, v)] ELSE bids
      BY <1>14 DEF Collect
    <2>3. read' \in [Requests -> SUBSET Vendors]
      BY <2>1, <2>2
    <2>4. Append(bids[job[w]], v) \in Seq(Vendors)
      BY <2>1, AppendProperties
    <2>5. bids' \in [Requests -> Seq(Vendors)]
      BY <2>1, <2>2, <2>4
    <2> QED
      BY <2>3, <2>5, <1>14 DEF Collect
  <1>15. ASSUME NEW w \in Pool, MarkFinish(w) PROVE TypeOK'
    BY <1>15 DEF MarkFinish
  <1>16. ASSUME NEW w \in Pool, Finish(w) PROVE TypeOK'
    <2>1. job[w] \in Requests
      BY <1>16, JobOf DEF Finish
    <2>2. cq' \in SUBSET (Requests \X BOOLEAN)
      BY <2>1, <1>16 DEF Finish
    <2>3. client' \in [Requests -> {"idle", "sent", "answered", "cancelled"}]
      BY <2>1, <1>16 DEF Finish
    <2>4. pool' \in [Pool -> {"test", "asleep", "spawn", "ask", "collect", "finish"}]
      BY <1>16 DEF Finish
    <2>5. job' \in [Pool -> Requests \cup {None}]
      BY <1>16 DEF Finish
    <2> QED
      BY <2>2, <2>3, <2>4, <2>5, <1>16 DEF Finish
  <1>17. CASE UNCHANGED vars
    BY <1>17 DEF vars
  <1> QED
    BY <1>1, <1>2, <1>3, <1>4, <1>5, <1>6, <1>7, <1>8, <1>9,
       <1>10, <1>11, <1>12, <1>13, <1>14, <1>15, <1>16, <1>17
    DEF Next, HandleRpcs, ThreadLoop, Quiet

\* A thread takes a job that is its own and gives it up with the reply.
LEMMA JobsStep == ASSUME Inv, [Next]_vars PROVE Jobs'
  <1> USE StoreAssumption DEF Inv, TypeOK, Jobs,
          servervars, bidvars
  <1>1. ASSUME NEW r \in Requests, Query(r) PROVE Jobs'
    BY <1>1 DEF Query
  <1>2. ASSUME NEW r \in Requests, Cancel(r) PROVE Jobs'
    BY <1>2 DEF Cancel
  <1>3. ASSUME NEW r \in Requests, Match(r) PROVE Jobs'
    BY <1>3 DEF Match
  <1>4. ASSUME NEW r \in Requests, NEW v \in Vendors, VendorAnswers(r, v) PROVE Jobs'
    BY <1>4 DEF VendorAnswers
  <1>5. ASSUME NEW e \in cq, AbortOnEvent(e) PROVE Jobs'
    BY <1>5 DEF AbortOnEvent
  <1>6. ASSUME NEW e \in cq, AddJob(e) PROVE Jobs'
    BY <1>6 DEF AddJob
  <1>7. ASSUME NEW e \in cq, Delete(e) PROVE Jobs'
    BY <1>7 DEF Delete, Events
  <1>8. CASE Notify
    BY <1>8 DEF Notify
  <1>9. ASSUME NEW w \in Pool, TakeJob(w) PROVE Jobs'
    <2>1. Head(event_queue) \in Requests /\ status[Head(event_queue)] = "PROCESS"
            /\ \A u \in Pool : job[u] # Head(event_queue)
      BY <1>9, Front DEF TakeJob, Queued
    <2> QED
      BY <2>1, <1>9 DEF TakeJob
  <1>10. ASSUME NEW w \in Pool, Sleep(w) PROVE Jobs'
    BY <1>10 DEF Sleep
  <1>11. ASSUME NEW w \in Pool, SpuriousWakeup(w) PROVE Jobs'
    BY <1>11 DEF SpuriousWakeup
  <1>12. ASSUME NEW w \in Pool, Spawn(w) PROVE Jobs'
    BY <1>12 DEF Spawn
  <1>13. ASSUME NEW w \in Pool, Ask(w) PROVE Jobs'
    BY <1>13 DEF Ask
  <1>14. ASSUME NEW w \in Pool, Collect(w) PROVE Jobs'
    BY <1>14 DEF Collect
  <1>15. ASSUME NEW w \in Pool, MarkFinish(w) PROVE Jobs'
    BY <1>15 DEF MarkFinish
  <1>16. ASSUME NEW w \in Pool, Finish(w) PROVE Jobs'
    BY <1>16 DEF Finish
  <1>17. CASE UNCHANGED vars
    BY <1>17 DEF vars
  <1> QED
    BY <1>1, <1>2, <1>3, <1>4, <1>5, <1>6, <1>7, <1>8, <1>9,
       <1>10, <1>11, <1>12, <1>13, <1>14, <1>15, <1>16, <1>17
    DEF Next, HandleRpcs, ThreadLoop, Quiet

\* A queued job is of a new request that no thread has.
LEMMA QueuedStep == ASSUME Inv, [Next]_vars PROVE Queued'
  <1> USE StoreAssumption DEF Inv, TypeOK, Queued,
          servervars, bidvars
  <1>1. ASSUME NEW r \in Requests, Query(r) PROVE Queued'
    BY <1>1 DEF Query
  <1>2. ASSUME NEW r \in Requests, Cancel(r) PROVE Queued'
    BY <1>2 DEF Cancel
  <1>3. ASSUME NEW r \in Requests, Match(r) PROVE Queued'
    BY <1>3 DEF Match, Events
  <1>4. ASSUME NEW r \in Requests, NEW v \in Vendors, VendorAnswers(r, v) PROVE Queued'
    BY <1>4 DEF VendorAnswers
  <1>5. ASSUME NEW e \in cq, AbortOnEvent(e) PROVE Queued'
    BY <1>5 DEF AbortOnEvent
  <1>6. ASSUME NEW e \in cq, AddJob(e) PROVE Queued'
    BY <1>6 DEF AddJob, Events
  <1>7. ASSUME NEW e \in cq, Delete(e) PROVE Queued'
    BY <1>7 DEF Delete, Events
  <1>8. CASE Notify
    BY <1>8 DEF Notify
  <1>9. ASSUME NEW w \in Pool, TakeJob(w) PROVE Queued'
    <2>1. event_queue' = <<>>
      BY <1>9, Front DEF TakeJob
    <2> QED
      BY <2>1
  <1>10. ASSUME NEW w \in Pool, Sleep(w) PROVE Queued'
    BY <1>10 DEF Sleep
  <1>11. ASSUME NEW w \in Pool, SpuriousWakeup(w) PROVE Queued'
    BY <1>11 DEF SpuriousWakeup
  <1>12. ASSUME NEW w \in Pool, Spawn(w) PROVE Queued'
    BY <1>12 DEF Spawn
  <1>13. ASSUME NEW w \in Pool, Ask(w) PROVE Queued'
    BY <1>13 DEF Ask
  <1>14. ASSUME NEW w \in Pool, Collect(w) PROVE Queued'
    BY <1>14 DEF Collect
  <1>15. ASSUME NEW w \in Pool, MarkFinish(w) PROVE Queued'
    BY <1>15 DEF MarkFinish, Jobs
  <1>16. ASSUME NEW w \in Pool, Finish(w) PROVE Queued'
    BY <1>16 DEF Finish
  <1>17. CASE UNCHANGED vars
    BY <1>17 DEF vars
  <1> QED
    BY <1>1, <1>2, <1>3, <1>4, <1>5, <1>6, <1>7, <1>8, <1>9,
       <1>10, <1>11, <1>12, <1>13, <1>14, <1>15, <1>16, <1>17
    DEF Next, HandleRpcs, ThreadLoop, Quiet

\* An event is put in the queue when no other use of the CallData is left.
LEMMA EventsStep == ASSUME Inv, [Next]_vars PROVE Events'
  <1> USE StoreAssumption DEF Inv, TypeOK, Events,
          servervars, bidvars
  <1>1. ASSUME NEW r \in Requests, Query(r) PROVE Events'
    BY <1>1 DEF Query
  <1>2. ASSUME NEW r \in Requests, Cancel(r) PROVE Events'
    BY <1>2 DEF Cancel
  <1>3. ASSUME NEW r \in Requests, Match(r) PROVE Events'
    <2> DEFINE n == <<r, TRUE>>
    <2>1. n[1] = r /\ n[2] /\ cq' = cq \cup {n} /\ status'[r] = "PROCESS"
      BY <1>3 DEF Match
    <2>2. \A f \in cq : f[1] # r
      BY <1>3 DEF Match
    <2>5. \A k \in 1 .. Len(event_queue) : event_queue[k] # r
      BY <1>3 DEF Match, Queued
    <2>6. ASSUME NEW u \in Pool, job[u] = r PROVE FALSE
      <3>1. status[job[u]] \in {"FINISH", "PROCESS"}
        BY <2>6, ZenonT(60) DEF Jobs
      <3> QED
        BY <3>1, <2>6, <1>3 DEF Match
    <2>3. \A f \in cq : status'[f[1]] = status[f[1]]
      BY <1>3, <2>2 DEF Match
    <2>4. UNCHANGED <<event_queue, job>>
      BY <1>3 DEF Match
    <2> HIDE DEF n
    <2> QED
      BY <2>1, <2>2, <2>3, <2>4, <2>5, <2>6
  <1>4. ASSUME NEW r \in Requests, NEW v \in Vendors, VendorAnswers(r, v) PROVE Events'
    BY <1>4 DEF VendorAnswers
  <1>5. ASSUME NEW e \in cq, AbortOnEvent(e) PROVE Events'
    BY <1>5 DEF AbortOnEvent
  <1>6. ASSUME NEW e \in cq, AddJob(e) PROVE Events'
    BY <1>6 DEF AddJob, Queued
  <1>7. ASSUME NEW e \in cq, Delete(e) PROVE Events'
    BY <1>7 DEF Delete
  <1>8. CASE Notify
    BY <1>8 DEF Notify
  <1>9. ASSUME NEW w \in Pool, TakeJob(w) PROVE Events'
    <2>1. event_queue' = <<>>
      BY <1>9, Front DEF TakeJob
    <2>2. \A f \in cq : f[1] # Head(event_queue)
      BY <1>9, Front DEF TakeJob
    <2> QED
      BY <2>1, <2>2, <1>9 DEF TakeJob
  <1>10. ASSUME NEW w \in Pool, Sleep(w) PROVE Events'
    BY <1>10 DEF Sleep
  <1>11. ASSUME NEW w \in Pool, SpuriousWakeup(w) PROVE Events'
    BY <1>11 DEF SpuriousWakeup
  <1>12. ASSUME NEW w \in Pool, Spawn(w) PROVE Events'
    BY <1>12 DEF Spawn
  <1>13. ASSUME NEW w \in Pool, Ask(w) PROVE Events'
    BY <1>13 DEF Ask
  <1>14. ASSUME NEW w \in Pool, Collect(w) PROVE Events'
    BY <1>14 DEF Collect
  <1>15. ASSUME NEW w \in Pool, MarkFinish(w) PROVE Events'
    BY <1>15 DEF MarkFinish, Jobs
  <1>16. ASSUME NEW w \in Pool, Finish(w) PROVE Events'
    <2>1. PICK ok \in BOOLEAN : cq' = cq \cup {<<job[w], ok>>}
      BY <1>16 DEF Finish
    <2> DEFINE n == <<job[w], ok>>
    <2>2. job[w] \in Requests /\ job[w] # None
      BY <1>16, JobOf DEF Finish
    <2>3. n[1] = job[w] /\ cq' = cq \cup {n} /\ status[job[w]] = "FINISH"
      BY <1>16, <2>1, <2>2 DEF Finish, Jobs
    <2>4. /\ \A f \in cq : f[1] # job[w]
          /\ \A k \in 1 .. Len(event_queue) : event_queue[k] # job[w]
      BY <2>2 DEF Queued
    <2>5. \A u \in Pool : job'[u] # job[w] /\ (job'[u] = job[u] \/ job'[u] = None)
      BY <1>16, <2>2 DEF Finish, Jobs
    <2>6. UNCHANGED <<event_queue, status>> /\ \A f \in cq : f[1] # None
      BY <1>16 DEF Finish
    <2> HIDE DEF n
    <2> QED
      BY <2>3, <2>4, <2>5, <2>6
  <1>17. CASE UNCHANGED vars
    BY <1>17 DEF vars
  <1> QED
    BY <1>1, <1>2, <1>3, <1>4, <1>5, <1>6, <1>7, <1>8, <1>9,
       <1>10, <1>11, <1>12, <1>13, <1>14, <1>15, <1>16, <1>17
    DEF Next, HandleRpcs, ThreadLoop, Quiet

\* The client is answered by Finish alone.
LEMMA AnswersStep == ASSUME Inv, [Next]_vars PROVE Answers'
  <1> USE StoreAssumption DEF Inv, TypeOK, Answers, Jobs,
          servervars, bidvars
  <1>1. ASSUME NEW r \in Requests, Query(r) PROVE Answers'
    BY <1>1 DEF Query
  <1>2. ASSUME NEW r \in Requests, Cancel(r) PROVE Answers'
    BY <1>2 DEF Cancel
  <1>3. ASSUME NEW r \in Requests, Match(r) PROVE Answers'
    BY <1>3 DEF Match
  <1>4. ASSUME NEW r \in Requests, NEW v \in Vendors, VendorAnswers(r, v) PROVE Answers'
    BY <1>4 DEF VendorAnswers
  <1>5. ASSUME NEW e \in cq, AbortOnEvent(e) PROVE Answers'
    BY <1>5 DEF AbortOnEvent
  <1>6. ASSUME NEW e \in cq, AddJob(e) PROVE Answers'
    BY <1>6 DEF AddJob
  <1>7. ASSUME NEW e \in cq, Delete(e) PROVE Answers'
    BY <1>7 DEF Delete
  <1>8. CASE Notify
    BY <1>8 DEF Notify
  <1>9. ASSUME NEW w \in Pool, TakeJob(w) PROVE Answers'
    <2>1. status[Head(event_queue)] = "PROCESS"
      BY <1>9, Front DEF TakeJob, Queued
    <2> QED
      BY <2>1, <1>9 DEF TakeJob
  <1>10. ASSUME NEW w \in Pool, Sleep(w) PROVE Answers'
    BY <1>10 DEF Sleep
  <1>11. ASSUME NEW w \in Pool, SpuriousWakeup(w) PROVE Answers'
    BY <1>11 DEF SpuriousWakeup
  <1>12. ASSUME NEW w \in Pool, Spawn(w) PROVE Answers'
    BY <1>12 DEF Spawn
  <1>13. ASSUME NEW w \in Pool, Ask(w) PROVE Answers'
    BY <1>13 DEF Ask
  <1>14. ASSUME NEW w \in Pool, Collect(w) PROVE Answers'
    BY <1>14 DEF Collect
  <1>15. ASSUME NEW w \in Pool, MarkFinish(w) PROVE Answers'
    BY <1>15 DEF MarkFinish
  <1>16. ASSUME NEW w \in Pool, Finish(w) PROVE Answers'
    BY <1>16 DEF Finish
  <1>17. CASE UNCHANGED vars
    BY <1>17 DEF vars
  <1> QED
    BY <1>1, <1>2, <1>3, <1>4, <1>5, <1>6, <1>7, <1>8, <1>9,
       <1>10, <1>11, <1>12, <1>13, <1>14, <1>15, <1>16, <1>17
    DEF Next, HandleRpcs, ThreadLoop, Quiet

\* The calls of a request are asked for once and read to the end.
LEMMA ReadingStep == ASSUME Inv, [Next]_vars PROVE Reading'
  <1> USE StoreAssumption DEF Inv, TypeOK, Reading, Jobs,
          servervars, bidvars
  <1>1. ASSUME NEW r \in Requests, Query(r) PROVE Reading'
    BY <1>1 DEF Query
  <1>2. ASSUME NEW r \in Requests, Cancel(r) PROVE Reading'
    BY <1>2 DEF Cancel
  <1>3. ASSUME NEW r \in Requests, Match(r) PROVE Reading'
    <2>1. \A f \in cq : f[1] # r
      BY <1>3 DEF Match, Events
    <2>2. ASSUME NEW f \in cq', status'[f[1]] = "PROCESS" PROVE read'[f[1]] = {}
      <3>1. CASE f \in cq
        BY <2>1, <2>2, <3>1, <1>3 DEF Match
      <3>2. CASE f = <<r, TRUE>>
        BY <3>2, <1>3 DEF Match
      <3> QED
        BY <3>1, <3>2, <1>3 DEF Match
    <2> QED
      BY <2>2, <1>3 DEF Match
  <1>4. ASSUME NEW r \in Requests, NEW v \in Vendors, VendorAnswers(r, v) PROVE Reading'
    BY <1>4 DEF VendorAnswers
  <1>5. ASSUME NEW e \in cq, AbortOnEvent(e) PROVE Reading'
    BY <1>5 DEF AbortOnEvent
  <1>6. ASSUME NEW e \in cq, AddJob(e) PROVE Reading'
    BY <1>6 DEF AddJob, Events
  <1>7. ASSUME NEW e \in cq, Delete(e) PROVE Reading'
    BY <1>7 DEF Delete, Events
  <1>8. CASE Notify
    BY <1>8 DEF Notify
  <1>9. ASSUME NEW w \in Pool, TakeJob(w) PROVE Reading'
    BY <1>9, Front DEF TakeJob
  <1>10. ASSUME NEW w \in Pool, Sleep(w) PROVE Reading'
    BY <1>10 DEF Sleep
  <1>11. ASSUME NEW w \in Pool, SpuriousWakeup(w) PROVE Reading'
    BY <1>11 DEF SpuriousWakeup
  <1>12. ASSUME NEW w \in Pool, Spawn(w) PROVE Reading'
    BY <1>12 DEF Spawn
  <1>13. ASSUME NEW w \in Pool, Ask(w) PROVE Reading'
    BY <1>13 DEF Ask
  <1>14. ASSUME NEW w \in Pool, Collect(w) PROVE Reading'
    <2>1. job[w] \in Requests /\ job[w] # None /\ status[job[w]] = "PROCESS"
      BY <1>14, JobOf DEF Collect
    <2>2. \A q \in Requests : q # job[w] => read'[q] = read[q]
      BY <1>14 DEF Collect
    <2>3. /\ \A f \in cq : f[1] # job[w]
          /\ \A k \in 1 .. Len(event_queue) : event_queue[k] # job[w]
      BY <2>1 DEF Events, Queued
    <2>4. \A u \in Pool : pool[u] \in {"spawn", "ask"} => job[u] \in Requests /\ job[u] # job[w]
      BY <2>1, <1>14, JobOf, ZenonT(60) DEF Collect
    <2>5. UNCHANGED <<cq, status, event_queue, pool, job>>
      BY <1>14 DEF Collect
    <2>6. \A k \in 1 .. Len(event_queue) : event_queue[k] \in Requests
      OBVIOUS
    <2>7. /\ \A q \in Requests : status[q] = "none" => read'[q] = {}
          /\ \A q \in Requests : status[q] \in {"FINISH", "deleted"} => read'[q] = Vendors
      BY <2>1, <2>2
    <2>8. \A f \in cq : status[f[1]] = "PROCESS" => read'[f[1]] = {}
      BY <2>2, <2>3
    <2>9. \A k \in 1 .. Len(event_queue) : read'[event_queue[k]] = {}
      BY <2>2, <2>3, <2>6
    <2>10. \A u \in Pool : pool[u] \in {"spawn", "ask"} => read'[job[u]] = {}
      BY <2>2, <2>4
    <2> HIDE DEF TypeOK, Jobs
    <2> QED
      BY <2>5, <2>7, <2>8, <2>9, <2>10
  <1>15. ASSUME NEW w \in Pool, MarkFinish(w) PROVE Reading'
    BY <1>15 DEF MarkFinish, Events, Queued
  <1>16. ASSUME NEW w \in Pool, Finish(w) PROVE Reading'
    BY <1>16 DEF Finish
  <1>17. CASE UNCHANGED vars
    BY <1>17 DEF vars
  <1> QED
    BY <1>1, <1>2, <1>3, <1>4, <1>5, <1>6, <1>7, <1>8, <1>9,
       <1>10, <1>11, <1>12, <1>13, <1>14, <1>15, <1>16, <1>17
    DEF Next, HandleRpcs, ThreadLoop, Quiet

\* Every step passes the right to accept on, or leaves it where it is.
LEMMA TokenStep == ASSUME Inv, [Next]_vars PROVE Token'
  <1> USE StoreAssumption DEF Inv, TypeOK,
          servervars, bidvars
  <1>1. ASSUME NEW r \in Requests, Query(r) PROVE Token'
    <2>1. NewEvents' = NewEvents
      BY <1>1 DEF Query, NewEvents
    <2>2. Spawners' = Spawners
      BY <1>1 DEF Query, Spawners
    <2> QED
      BY <2>1, <2>2, <1>1, TokenStable DEF Query
  <1>2. ASSUME NEW r \in Requests, Cancel(r) PROVE Token'
    <2>1. NewEvents' = NewEvents
      BY <1>2 DEF Cancel, NewEvents
    <2>2. Spawners' = Spawners
      BY <1>2 DEF Cancel, Spawners
    <2> QED
      BY <2>1, <2>2, <1>2, TokenStable DEF Cancel
  <1>3. ASSUME NEW r \in Requests, Match(r) PROVE Token'
    <2>1. NewEvents = {} /\ event_queue = <<>> /\ Spawners = {} /\ waiting' = 0
      BY <1>3, TokenIn DEF Match
    <2>2. (\A f \in cq : f[1] # r) /\ <<r, TRUE>>[1] = r /\ <<r, TRUE>> \in cq'
      BY <1>3 DEF Match, Events
    <2>3. NewEvents' = {<<r, TRUE>>}
      <3>1. cq' = cq \cup {<<r, TRUE>>} /\ status' = [status EXCEPT ![r] = "PROCESS"]
        BY <1>3 DEF Match
      <3>2. \A f \in cq : status'[f[1]] = status[f[1]] /\ status[f[1]] # "PROCESS"
        BY <2>1, <2>2, <3>1 DEF NewEvents
      <3>3. status'[<<r, TRUE>>[1]] = "PROCESS"
        BY <2>2, <3>1
      <3> QED
        BY <3>1, <3>2, <3>3 DEF NewEvents
    <2>4. Spawners' = {} /\ event_queue' = <<>>
      BY <2>1, <1>3 DEF Match, Spawners
    <2> QED
      BY <2>1, <2>2, <2>3, <2>4 DEF Token
  <1>4. ASSUME NEW r \in Requests, NEW v \in Vendors, VendorAnswers(r, v) PROVE Token'
    <2>1. NewEvents' = NewEvents
      BY <1>4 DEF VendorAnswers, NewEvents
    <2>2. Spawners' = Spawners
      BY <1>4 DEF VendorAnswers, Spawners
    <2> QED
      BY <2>1, <2>2, <1>4, TokenStable DEF VendorAnswers
  <1>5. ASSUME NEW e \in cq, AbortOnEvent(e) PROVE Token'
    <2>1. NewEvents' = NewEvents
      BY <1>5 DEF AbortOnEvent, NewEvents, Events
    <2>2. Spawners' = Spawners
      BY <1>5 DEF AbortOnEvent, Spawners
    <2> QED
      BY <2>1, <2>2, <1>5, TokenStable DEF AbortOnEvent
  <1>6. ASSUME NEW e \in cq, AddJob(e) PROVE Token'
    <2>1. waiting = 0 /\ event_queue = <<>> /\ Spawners = {} /\ NewEvents = {e}
      BY <1>6, TokenIn DEF AddJob, NewEvents
    <2>2. NewEvents' = {}
      BY <2>1, <1>6 DEF AddJob, NewEvents
    <2>3. Len(event_queue') = 1
      BY <2>1, <1>6, AppendProperties DEF AddJob
    <2>4. Spawners' = {} /\ waiting' = 0
      BY <2>1, <1>6 DEF AddJob, Spawners
    <2> QED
      BY <2>2, <2>3, <2>4 DEF Token
  <1>7. ASSUME NEW e \in cq, Delete(e) PROVE Token'
    <2>1. NewEvents' = NewEvents
      BY <1>7 DEF Delete, NewEvents, Events
    <2>2. Spawners' = Spawners
      BY <1>7 DEF Delete, Spawners
    <2> QED
      BY <2>1, <2>2, <1>7, TokenStable DEF Delete
  <1>8. CASE Notify
    <2>1. NewEvents' = NewEvents
      BY <1>8 DEF Notify, NewEvents
    <2>2. Spawners' = Spawners
      BY <1>8 DEF Notify, Spawners
    <2> QED
      BY <2>1, <2>2, <1>8, TokenStable DEF Notify
  <1>9. ASSUME NEW w \in Pool, TakeJob(w) PROVE Token'
    <2>1. waiting = 0 /\ NewEvents = {} /\ Spawners = {}
      BY <1>9, TokenIn DEF TakeJob
    <2>2. event_queue' = <<>>
      BY <1>9, Front DEF TakeJob
    <2>3. NewEvents' = {} /\ waiting' = 0
      BY <2>1, <1>9 DEF TakeJob, NewEvents
    <2>4. Spawners' = {w}
      BY <2>1, <1>9 DEF TakeJob, Spawners
    <2> QED
      BY <2>2, <2>3, <2>4 DEF Token
  <1>10. ASSUME NEW w \in Pool, Sleep(w) PROVE Token'
    <2>1. NewEvents' = NewEvents
      BY <1>10 DEF Sleep, NewEvents
    <2>2. Spawners' = Spawners
      BY <1>10 DEF Sleep, Spawners
    <2> QED
      BY <2>1, <2>2, <1>10, TokenStable DEF Sleep
  <1>11. ASSUME NEW w \in Pool, SpuriousWakeup(w) PROVE Token'
    <2>1. NewEvents' = NewEvents
      BY <1>11 DEF SpuriousWakeup, NewEvents
    <2>2. Spawners' = Spawners
      BY <1>11 DEF SpuriousWakeup, Spawners
    <2> QED
      BY <2>1, <2>2, <1>11, TokenStable DEF SpuriousWakeup
  <1>12. ASSUME NEW w \in Pool, Spawn(w) PROVE Token'
    <2>1. waiting = 0 /\ NewEvents = {} /\ event_queue = <<>> /\ Spawners = {w}
      BY <1>12, TokenIn DEF Spawn, Spawners
    <2>2. NewEvents' = {} /\ event_queue' = <<>> /\ waiting' = 1
      BY <2>1, <1>12 DEF Spawn, NewEvents
    <2>3. Spawners' = {}
      BY <2>1, <1>12 DEF Spawn, Spawners
    <2> QED
      BY <2>2, <2>3 DEF Token
  <1>13. ASSUME NEW w \in Pool, Ask(w) PROVE Token'
    <2>1. NewEvents' = NewEvents
      BY <1>13 DEF Ask, NewEvents
    <2>2. Spawners' = Spawners
      BY <1>13 DEF Ask, Spawners
    <2> QED
      BY <2>1, <2>2, <1>13, TokenStable DEF Ask
  <1>14. ASSUME NEW w \in Pool, Collect(w) PROVE Token'
    <2>1. NewEvents' = NewEvents
      BY <1>14 DEF Collect, NewEvents
    <2>2. Spawners' = Spawners
      BY <1>14 DEF Collect, Spawners
    <2> QED
      BY <2>1, <2>2, <1>14, TokenStable DEF Collect
  <1>15. ASSUME NEW w \in Pool, MarkFinish(w) PROVE Token'
    <2>1. NewEvents' = NewEvents
      BY <1>15, JobOf DEF MarkFinish, NewEvents, Events
    <2>2. Spawners' = Spawners
      BY <1>15 DEF MarkFinish, Spawners
    <2> QED
      BY <2>1, <2>2, <1>15, TokenStable DEF MarkFinish
  <1>16. ASSUME NEW w \in Pool, Finish(w) PROVE Token'
    <2>1. NewEvents' = NewEvents
      <3>1. PICK ok \in BOOLEAN : cq' = cq \cup {<<job[w], ok>>}
        BY <1>16 DEF Finish
      <3>2. <<job[w], ok>>[1] = job[w] /\ status[job[w]] = "FINISH" /\ status' = status
        BY <1>16, JobOf DEF Finish, Jobs
      <3> QED
        BY <3>1, <3>2 DEF NewEvents
    <2>2. Spawners' = Spawners
      BY <1>16 DEF Finish, Spawners
    <2> QED
      BY <2>1, <2>2, <1>16, TokenStable DEF Finish
  <1>17. CASE UNCHANGED vars
    BY <1>17, ZenonT(60) DEF vars, Token, NewEvents, Spawners
  <1> QED
    BY <1>1, <1>2, <1>3, <1>4, <1>5, <1>6, <1>7, <1>8, <1>9,
       <1>10, <1>11, <1>12, <1>13, <1>14, <1>15, <1>16, <1>17
    DEF Next, HandleRpcs, ThreadLoop, Quiet

\* Append adds one element to those of a sequence.
LEMMA AppendedTo ==
    ASSUME NEW S, NEW s \in Seq(S), NEW v \in S, NEW t, t = Append(s, v)
    PROVE  {t[k] : k \in 1 .. Len(t)} = {s[k] : k \in 1 .. Len(s)} \cup {v}
  <1>1. /\ Len(t) = Len(s) + 1 /\ Len(s) \in Nat /\ t[Len(s) + 1] = v
        /\ \A k \in 1 .. Len(s) : t[k] = s[k]
    BY AppendProperties, LenProperties
  <1>2. 1 .. Len(t) = (1 .. Len(s)) \cup {Len(s) + 1}
    BY <1>1
  <1> QED
    BY <1>1, <1>2

\* What was collected depends on nothing but the calls and the answers read.
LEMMA CollectedStable == ASSUME Collected, UNCHANGED bidvars PROVE Collected'
  <1>1. \A r : Offers(r)' = Offers(r) /\ Bids(r)' = Bids(r)
    BY DEF Offers, Bids, bidvars
  <1> QED
    BY <1>1 DEF Collected, bidvars

\* An answer comes: it is of a call whose result has not been read.
LEMMA VendorCollected ==
    ASSUME Inv, NEW r \in Requests, NEW v \in Vendors, VendorAnswers(r, v)
    PROVE  Collected'
  <1> USE DEF Inv, TypeOK, VendorAnswers
  <1>1. v \notin read[r]
    BY DEF Collected
  <1>2. \A q \in Requests, u \in Vendors : rpc'[q][u] # rpc[q][u] => q = r /\ u = v
    OBVIOUS
  <1>3. ASSUME NEW q \in Requests
        PROVE  /\ \A u \in read[q] : rpc'[q][u] = rpc[q][u]
               /\ Offers(q)' = Offers(q) /\ Bids(q)' = Bids(q)
    BY <1>1, <1>2 DEF Offers, Bids
  <1> QED
    BY <1>3 DEF Collected

\* The calls are made when nothing has been read.
LEMMA AskCollected == ASSUME Inv, NEW w \in Pool, Ask(w) PROVE Collected'
  <1> USE DEF Inv, TypeOK, Ask
  <1>1. job[w] \in Requests /\ read[job[w]] = {}
    BY JobOf DEF Reading
  <1>2. ASSUME NEW q \in Requests
        PROVE  /\ \A u \in read[q] : rpc'[q][u] = rpc[q][u]
               /\ Offers(q)' = Offers(q) /\ Bids(q)' = Bids(q)
    BY <1>1 DEF Offers, Bids
  <1> QED
    BY <1>2 DEF Collected

\* One more answer is read, and a bid appended if it is one.
LEMMA CollectCollected == ASSUME Inv, NEW w \in Pool, Collect(w) PROVE Collected'
  <1> USE DEF Inv, TypeOK
  <1>1. PICK r \in Requests : r = job[w]
    BY JobOf DEF Collect
  <1>2. PICK v \in Vendors \ read[r] :
          /\ rpc[r][v] \in {"ok", "error"}
          /\ read' = [read EXCEPT ![r] = @ \cup {v}]
          /\ bids' = IF rpc[r][v] = "ok" THEN [bids EXCEPT ![r] = Append(@, v)] ELSE bids
    BY <1>1 DEF Collect
  <1>3. rpc' = rpc /\ read'[r] = read[r] \cup {v}
    BY <1>1, <1>2 DEF Collect
  <1>4. ASSUME NEW q \in Requests, q # r
        PROVE  /\ read'[q] = read[q] /\ bids'[q] = bids[q]
               /\ Offers(q)' = Offers(q) /\ Bids(q)' = Bids(q)
    BY <1>2, <1>3, <1>4 DEF Offers, Bids
  <1>5. \A u \in read'[r] : rpc'[r][u] \in {"ok", "error"}
    BY <1>1, <1>2, <1>3 DEF Collected
  <1>6. Bids(r)' = Offers(r)' /\ Len(bids'[r]) = Cardinality(Offers(r)')
    <2>1. CASE rpc[r][v] = "ok"
      <3>1. Offers(r)' = Offers(r) \cup {v} /\ v \notin Offers(r)
        BY <1>2, <1>3, <2>1 DEF Offers
      <3>2. bids'[r] = Append(bids[r], v) /\ bids[r] \in Seq(Vendors)
        BY <1>1, <1>2, <2>1
      <3>3. Len(bids'[r]) = Len(bids[r]) + 1 /\ Len(bids[r]) \in Nat
        BY <3>2, AppendProperties, LenProperties
      <3>4. Bids(r)' = Bids(r) \cup {v}
        <4>1. v \in Vendors
          BY <1>2
        <4> HIDE DEF Inv, TypeOK
        <4>2. {bids'[r][k] : k \in 1 .. Len(bids'[r])}
                = {bids[r][k] : k \in 1 .. Len(bids[r])} \cup {v}
          BY <3>2, <4>1, AppendedTo
        <4> QED
          BY <4>2 DEF Bids
      <3>5. IsFiniteSet(Offers(r))
        <4>1. Offers(r) \in SUBSET Vendors
          BY <1>1 DEF Offers
        <4> QED
          BY <4>1, FS_Subset, StoreAssumption
      <3>6. Cardinality(Offers(r) \cup {v}) = Cardinality(Offers(r)) + 1
        BY <3>1, <3>5, FS_AddElement
      <3> QED
        BY <1>1, <3>1, <3>3, <3>4, <3>6 DEF Collected
    <2>2. CASE rpc[r][v] = "error"
      <3>1. Offers(r)' = Offers(r)
        BY <1>2, <1>3, <2>2 DEF Offers
      <3>2. bids' = bids /\ Bids(r)' = Bids(r)
        BY <1>2, <2>2 DEF Bids
      <3> QED
        BY <1>1, <3>1, <3>2 DEF Collected
    <2> QED
      BY <1>2, <2>1, <2>2
  <1>7. ASSUME NEW q \in Requests
        PROVE  /\ \A u \in read'[q] : rpc'[q][u] \in {"ok", "error"}
               /\ Bids(q)' = Offers(q)' /\ Len(bids'[q]) = Cardinality(Offers(q)')
    <2>1. CASE q = r
      BY <2>1, <1>5, <1>6
    <2>2. CASE q # r
      BY <2>2, <1>3, <1>4 DEF Collected
    <2> QED
      BY <2>1, <2>2
  <1> QED
    BY <1>7 DEF Collected

\* getProductBid reads what has come and keeps what succeeded.
LEMMA CollectedStep == ASSUME Inv, [Next]_vars PROVE Collected'
  <1>1. ASSUME NEW r \in Requests, Query(r) PROVE Collected'
    BY <1>1, CollectedStable DEF Inv, Query
  <1>2. ASSUME NEW r \in Requests, Cancel(r) PROVE Collected'
    BY <1>2, CollectedStable DEF Inv, Cancel
  <1>3. ASSUME NEW r \in Requests, Match(r) PROVE Collected'
    BY <1>3, CollectedStable DEF Inv, Match
  <1>4. ASSUME NEW r \in Requests, NEW v \in Vendors, VendorAnswers(r, v) PROVE Collected'
    BY <1>4, VendorCollected
  <1>5. ASSUME NEW e \in cq, AbortOnEvent(e) PROVE Collected'
    BY <1>5, CollectedStable DEF Inv, AbortOnEvent
  <1>6. ASSUME NEW e \in cq, AddJob(e) PROVE Collected'
    BY <1>6, CollectedStable DEF Inv, AddJob
  <1>7. ASSUME NEW e \in cq, Delete(e) PROVE Collected'
    BY <1>7, CollectedStable DEF Inv, Delete
  <1>8. CASE Notify
    BY <1>8, CollectedStable DEF Inv, Notify
  <1>9. ASSUME NEW w \in Pool, TakeJob(w) PROVE Collected'
    BY <1>9, CollectedStable DEF Inv, TakeJob
  <1>10. ASSUME NEW w \in Pool, Sleep(w) PROVE Collected'
    BY <1>10, CollectedStable DEF Inv, Sleep
  <1>11. ASSUME NEW w \in Pool, SpuriousWakeup(w) PROVE Collected'
    BY <1>11, CollectedStable DEF Inv, SpuriousWakeup
  <1>12. ASSUME NEW w \in Pool, Spawn(w) PROVE Collected'
    BY <1>12, CollectedStable DEF Inv, Spawn
  <1>13. ASSUME NEW w \in Pool, Ask(w) PROVE Collected'
    BY <1>13, AskCollected
  <1>14. ASSUME NEW w \in Pool, Collect(w) PROVE Collected'
    BY <1>14, CollectCollected
  <1>15. ASSUME NEW w \in Pool, MarkFinish(w) PROVE Collected'
    BY <1>15, CollectedStable DEF Inv, MarkFinish
  <1>16. ASSUME NEW w \in Pool, Finish(w) PROVE Collected'
    BY <1>16, CollectedStable DEF Inv, Finish
  <1>17. CASE UNCHANGED vars
    BY <1>17, CollectedStable DEF Inv, vars, bidvars
  <1> QED
    BY <1>1, <1>2, <1>3, <1>4, <1>5, <1>6, <1>7, <1>8, <1>9,
       <1>10, <1>11, <1>12, <1>13, <1>14, <1>15, <1>16, <1>17
    DEF Next, HandleRpcs, ThreadLoop, Quiet

\* Initially one CallData waits and no thread has a job.
LEMMA InitInv == Init => Inv
  <1> SUFFICES ASSUME Init PROVE Inv
    OBVIOUS
  <1> USE StoreAssumption DEF Init
  <1>1. TypeOK
    BY DEF TypeOK
  <1>2. Token
    BY DEF Token, NewEvents, Spawners
  <1>3. Jobs /\ Queued /\ Events /\ Answers /\ Reading
    BY DEF Jobs, Queued, Events, Answers, Reading
  <1>4. Collected
    <2>1. \A r \in Requests : Offers(r) = {} /\ Bids(r) = {}
      BY DEF Offers, Bids
    <2> QED
      BY <2>1, FS_EmptySet DEF Collected
  <1> QED
    BY <1>1, <1>2, <1>3, <1>4 DEF Inv

\* The inductive invariant holds in every reachable state.
THEOREM Invariance == Spec => []Inv
  <1>1. Inv /\ [Next]_vars => Inv'
    BY TypeStep, TokenStep, JobsStep, QueuedStep, EventsStep, AnswersStep, ReadingStep,
       CollectedStep DEF Inv
  <1> QED
    BY <1>1, InitInv, PTL DEF Spec

\* Every variable of the store keeps its type; in particular at most one
\* CallData waits for a request.
THEOREM TypeCorrect == Spec => []TypeOK
  <1>1. Inv => TypeOK
    BY DEF Inv
  <1> QED
    BY <1>1, Invariance, PTL

\* The store never stops accepting requests and never accepts two at once.
THEOREM AcceptsOne == Spec => []OneAcceptor
  <1>1. Inv => OneAcceptor
    <2> SUFFICES ASSUME Inv PROVE OneAcceptor
      OBVIOUS
    <2>1. waiting + Cardinality(NewEvents) + Len(event_queue) + Cardinality(Spawners) = 1
      <3>1. Cardinality({}) = 0 /\ Len(<<>>) = 0
        BY FS_EmptySet
      <3>2. CASE waiting = 1 /\ NewEvents = {} /\ event_queue = <<>> /\ Spawners = {}
        BY <3>1, <3>2
      <3>3. CASE /\ waiting = 0 /\ event_queue = <<>> /\ Spawners = {}
                 /\ \E e \in cq : NewEvents = {e}
        <4>1. Cardinality(NewEvents) = 1
          BY <3>3, FS_Singleton
        <4> QED
          BY <3>1, <3>3, <4>1
      <3>4. CASE waiting = 0 /\ NewEvents = {} /\ Len(event_queue) = 1 /\ Spawners = {}
        BY <3>1, <3>4
      <3>5. CASE /\ waiting = 0 /\ NewEvents = {} /\ event_queue = <<>>
                 /\ \E w \in Pool : Spawners = {w}
        <4>1. Cardinality(Spawners) = 1
          BY <3>5, FS_Singleton
        <4> QED
          BY <3>1, <3>5, <4>1
      <3> QED
        BY <3>2, <3>3, <3>4, <3>5 DEF Inv, Token
    <2> QED
      BY <2>1 DEF OneAcceptor, NewEvents, Spawners
  <1> QED
    BY <1>1, Invariance, PTL

\* A CallData is used by one job at most and lives as long as the job.
THEOREM OwnedCallData == Spec => []CallDataOwned
  <1>1. Inv => CallDataOwned
    <2> SUFFICES ASSUME Inv, NEW r \in Requests
        PROVE  LET running == {w \in Pool : job[w] = r}
                   queued == {k \in 1 .. Len(event_queue) : event_queue[k] = r}
               IN  /\ Cardinality(running) + Cardinality(queued) <= 1
                   /\ running \cup queued # {} => status[r] # "deleted"
                   /\ client[r] = "answered" => running = {} /\ queued = {}
      BY DEF CallDataOwned
    <2> DEFINE running == {w \in Pool : job[w] = r}
    <2> DEFINE queued == {k \in 1 .. Len(event_queue) : event_queue[k] = r}
    <2> USE StoreAssumption DEF Inv
    <2>1. \A S : (\A a, b \in S : a = b) =>
                 Cardinality(S) \in {0, 1} /\ (S = {} => Cardinality(S) = 0)
      <3>1. ASSUME NEW S, \A a, b \in S : a = b, S # {} PROVE Cardinality(S) = 1
        <4>1. PICK a : S = {a}
          BY <3>1
        <4> QED
          BY <4>1, FS_Singleton
      <3> QED
        BY <3>1, FS_EmptySet
    <2>2. \A w, u \in running : w = u
      BY DEF Jobs
    <2>3. \A k, l \in queued : k = l
      <3>1. Len(event_queue) \in {0, 1}
        <4>1. CASE event_queue = <<>>
          BY <4>1
        <4>2. CASE event_queue # <<>>
          BY <4>2, TokenIn
        <4> QED
          BY <4>1, <4>2
      <3> QED
        BY <3>1
    <2>4. running = {} \/ queued = {}
      BY DEF Queued
    <2>5. running # {} => status[r] \in {"PROCESS", "FINISH"}
      BY DEF Jobs
    <2>6. queued # {} => status[r] = "PROCESS"
      BY DEF Queued
    <2>7. client[r] = "answered" => running = {} /\ queued = {}
      BY <2>6 DEF Answers
    <2>8. Cardinality(running) + Cardinality(queued) <= 1
      <3> HIDE DEF running, queued
      <3>1. Cardinality(running) \in {0, 1} /\ (running = {} => Cardinality(running) = 0)
        BY <2>1, <2>2
      <3>2. Cardinality(queued) \in {0, 1} /\ (queued = {} => Cardinality(queued) = 0)
        BY <2>1, <2>3
      <3> QED
        BY <3>1, <3>2, <2>4
    <2> QED
      BY <2>5, <2>6, <2>7, <2>8
  <1> QED
    BY <1>1, Invariance, PTL

\* The reply holds the bid of every vendor whose call succeeded, each once.
THEOREM CompleteBids == Spec => []BidsComplete
  <1>1. Inv => BidsComplete
    <2> SUFFICES ASSUME Inv, NEW r \in Requests, client[r] = "answered"
        PROVE  LET offers == {v \in Vendors : rpc[r][v] = "ok"}
               IN  /\ \A v \in Vendors : rpc[r][v] \in {"ok", "error"}
                   /\ {bids[r][k] : k \in 1 .. Len(bids[r])} = offers
                   /\ Len(bids[r]) = Cardinality(offers)
      BY DEF BidsComplete
    <2>1. read[r] = Vendors
      BY DEF Inv, Answers, Reading
    <2> QED
      BY <2>1 DEF Inv, Collected, Offers, Bids
  <1> QED
    BY <1>1, Invariance, PTL

=============================================================================
