------------------------------ MODULE QueueBench ------------------------------
(***************************************************************************)
(* The queue benchmark (queue_bench/main.cpp): as many consumers as        *)
(* producers around one bounded lock-free queue.  main joins the           *)
(* producers, sets done, and joins the consumers, who then drain what is   *)
(* left.  The queue is boost's: a push or a pop takes effect at one        *)
(* instant, a push fails on a full queue and a pop on an empty one.  A     *)
(* failed push is tried again and changes nothing.                         *)
(***************************************************************************)
EXTENDS Integers, Sequences

CONSTANTS
  NbItems,    \* iterations as given on the command line
  NbThreads,  \* nb_threads: producers, and consumers
  Capacity    \* of the queue

ASSUME QueueAssumption ==
  NbItems \in Nat /\ NbThreads \in Nat \ {0} /\ Capacity \in Nat \ {0}

Thread == 1 .. NbThreads

\* iterations /= producer_thread_count: nobody produces the remainder.
Iterations == NbItems \div NbThreads

\* A value, with the producer that pushes it.
Item == Thread \X (1 .. Iterations)

VARIABLES
  queue,     \* queue_test
  done,
  producer,  \* where each producer is
  produced,  \* producer_counts
  consumer,  \* where each consumer is
  consumed,  \* consumer_counts
  main,      \* where main is
  taken      \* how often each item was popped (history)

queueVars == <<queue, done, producer, produced, consumer, consumed, main, taken>>

QueueInit ==
  /\ queue = << >>
  /\ done = FALSE
  /\ producer = [p \in Thread |-> "loop"]
  /\ produced = [p \in Thread |-> 0]
  /\ consumer = [c \in Thread |-> "loop"]
  /\ consumed = [c \in Thread |-> 0]
  /\ main = "producing"
  /\ taken = [i \in Item |-> 0]
-----------------------------------------------------------------------------
Count(p) ==
  /\ producer[p] = "loop"
  /\ produced[p] # Iterations
  /\ produced' = [produced EXCEPT ![p] = @ + 1]
  /\ producer' = [producer EXCEPT ![p] = "push"]
  /\ UNCHANGED <<queue, done, consumer, consumed, main, taken>>

\* Seeded fault: a push that fails is not tried again.
BugPushOnce(p) ==
  /\ producer[p] = "push"
  /\ queue' = IF Len(queue) < Capacity THEN Append(queue, <<p, produced[p]>>) ELSE queue
  /\ producer' = [producer EXCEPT ![p] = "loop"]
  /\ UNCHANGED <<done, produced, consumer, consumed, main, taken>>

Push(p) ==
  /\ producer[p] = "push"
  /\ Len(queue) < Capacity
  /\ queue' = Append(queue, <<p, produced[p]>>)
  /\ producer' = [producer EXCEPT ![p] = "loop"]
  /\ UNCHANGED <<done, produced, consumer, consumed, main, taken>>

ProducerEnds(p) ==
  /\ producer[p] = "loop"
  /\ produced[p] = Iterations
  /\ producer' = [producer EXCEPT ![p] = "ended"]
  /\ UNCHANGED <<queue, done, produced, consumer, consumed, main, taken>>

\* Seeded fault: who sees done leaves.
BugLoadDone(c) ==
  /\ consumer[c] = "loop"
  /\ consumer' = [consumer EXCEPT ![c] = IF done THEN "ended" ELSE "pop"]
  /\ UNCHANGED <<queue, done, producer, produced, consumed, main, taken>>

LoadDone(c) ==
  /\ consumer[c] = "loop"
  /\ consumer' = [consumer EXCEPT ![c] = IF done THEN "drain" ELSE "pop"]
  /\ UNCHANGED <<queue, done, producer, produced, consumed, main, taken>>

Pop(c) ==
  /\ consumer[c] \in {"pop", "drain"}
  /\ queue # << >>
  /\ queue' = Tail(queue)
  /\ consumed' = [consumed EXCEPT ![c] = @ + 1]
  /\ taken' = [taken EXCEPT ![Head(queue)] = @ + 1]
  /\ UNCHANGED <<done, producer, produced, consumer, main>>

PopFails(c) ==
  /\ consumer[c] \in {"pop", "drain"}
  /\ queue = << >>
  /\ consumer' = [consumer EXCEPT ![c] = IF @ = "pop" THEN "loop" ELSE "ended"]
  /\ UNCHANGED <<queue, done, producer, produced, consumed, main, taken>>

JoinProducers ==
  /\ main = "producing"
  /\ \A p \in Thread : producer[p] = "ended"
  /\ main' = "joined"
  /\ UNCHANGED <<queue, done, producer, produced, consumer, consumed, taken>>

SetDone ==
  /\ main = "joined"
  /\ done' = TRUE
  /\ main' = "draining"
  /\ UNCHANGED <<queue, producer, produced, consumer, consumed, taken>>

JoinConsumers ==
  /\ main = "draining"
  /\ \A c \in Thread : consumer[c] = "ended"
  /\ main' = "ended"
  /\ UNCHANGED <<queue, done, producer, produced, consumer, consumed, taken>>

Producer(p) == Count(p) \/ Push(p) \/ ProducerEnds(p)
Consumer(c) == LoadDone(c) \/ Pop(c) \/ PopFails(c)
Main == JoinProducers \/ SetDone \/ JoinConsumers

Ended == main = "ended" /\ UNCHANGED queueVars

QueueNext ==
  \/ \E t \in Thread : Producer(t) \/ Consumer(t)
  \/ Main
  \/ Ended

QueueSpec == QueueInit /\ [][QueueNext]_queueVars
-----------------------------------------------------------------------------
TypeOK ==
  /\ queue \in Seq(Item) /\ Len(queue) <= Capacity
  /\ done \in BOOLEAN
  /\ producer \in [Thread -> {"loop", "push", "ended"}]
  /\ produced \in [Thread -> 0 .. Iterations]
  /\ consumer \in [Thread -> {"loop", "pop", "drain", "ended"}]
  /\ consumed \in [Thread -> Nat]
  /\ main \in {"producing", "joined", "draining", "ended"}
  /\ taken \in [Item -> Nat]

Queued(i) == \E k \in DOMAIN queue : queue[k] = i

\* The items that a producer is through with.
Pushed(i) ==
  \/ i[2] < produced[i[1]]
  \/ i[2] = produced[i[1]] /\ producer[i[1]] # "push"

\* An item is in the queue once or was popped once from the moment it is
\* pushed, and neither before: full queues and racing pops lose and repeat none.
NothingLost ==
  /\ \A j, k \in DOMAIN queue : queue[j] = queue[k] => j = k
  /\ \A i \in Item :
       /\ Queued(i) => Pushed(i)
       /\ taken[i] = IF Pushed(i) /\ ~Queued(i) THEN 1 ELSE 0

\* A consumer leaves only when no item is left and none will come, although it
\* looks at done and at the queue at different times: at the end each item
\* that main reports was popped exactly once.
Complete ==
  /\ (\E c \in Thread : consumer[c] = "ended") =>
       queue = << >> /\ \A p \in Thread : producer[p] = "ended"
  /\ main = "ended" => \A i \in Item : taken[i] = 1

\* The inductive invariant of the proofs: what the stages of the threads and
\* of main know of each other.
StageInv ==
  /\ \A p \in Thread :
       /\ producer[p] = "ended" => produced[p] = Iterations
       /\ producer[p] = "push" => produced[p] # 0
  /\ main # "producing" => \A p \in Thread : producer[p] = "ended"
  /\ done => main # "producing"
  /\ \A c \in Thread :
       /\ consumer[c] = "drain" => done
       /\ consumer[c] = "ended" => done /\ queue = << >>
  /\ main = "ended" => \A c \in Thread : consumer[c] = "ended"

IInv == TypeOK /\ NothingLost /\ StageInv
=============================================================================
