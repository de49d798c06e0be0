---------------------------- MODULE RequestQueue ----------------------------
(***************************************************************************)
(* The thread pool of DataService (DataService/src/epolice_auto_check.cpp):*)
(* main() accepts connections and enqueues their sockets in the ring       *)
(* buffer queue[MAX_QUEUE]; MAX_THR threads run process_queue(), which     *)
(* dequeues a socket and serves it.  queue_cs protects the ring, and       *)
(* queue_cv is signalled by every enqueue().                               *)
(*                                                                         *)
(* A critical section of queue_cs is one step.  pthread_cond_wait releases *)
(* the mutex and blocks; a thread that is woken goes back to compete for   *)
(* the mutex and tests head == tail again.                                 *)
(***************************************************************************)
EXTENDS Naturals, FiniteSets, Sequences

CONSTANTS MAX_THR,    \* the size of the thread pool
          MAX_QUEUE,  \* the number of slots of the ring
          Conn,       \* the connections clients open
          Pill,       \* SOAP_INVALID_SOCKET, the order to terminate
          None        \* no socket: a zeroed slot, a context without socket

ASSUME ThreadsAssumption == MAX_THR \in Nat \ {0}
ASSUME QueueAssumption == MAX_QUEUE \in Nat /\ MAX_QUEUE > 1
ASSUME ConnAssumption == Pill \notin Conn /\ None \notin Conn /\ Pill # None

VARIABLES queue,     \* the ring: queue[i].sock_queue (and its ip)
          head,      \* next slot to dequeue
          tail,      \* next slot to enqueue
          apc,       \* where main() is
          pending,   \* the socket main() is handing over, Pill at shutdown
          pills,     \* how many pills main() has enqueued
          joined,    \* how many threads main() has joined
          wpc,       \* where each pool thread is
          sock,      \* soap->socket of each pool thread
          accepted,  \* the connections accepted so far
          served     \* the connections served so far

ring == <<queue, head, tail>>
acceptor == <<apc, pending, pills, joined, accepted>>
pool == <<wpc, sock, served>>
vars == <<queue, head, tail, apc, pending, pills, joined, wpc, sock,
          accepted, served>>

Worker == 0 .. MAX_THR - 1
Slot == 0 .. MAX_QUEUE - 1
Job == Conn \cup {Pill}

\* (Wrong: the wrap comes one slot late.)
WrapLate(i) == IF i > MAX_QUEUE THEN i - MAX_QUEUE ELSE i

\* The wrap of head and tail: past the last slot comes slot 0.
Wrap(i) == IF i >= MAX_QUEUE THEN i - MAX_QUEUE ELSE i

\* The number of queued jobs, and the jobs themselves, oldest first.
Count == IF head <= tail THEN tail - head ELSE tail + MAX_QUEUE - head
Contents == [i \in 1 .. Count |-> queue[Wrap(head + i - 1)]]

Waiting == {w \in Worker : wpc[w] = "waiting"}
Competing == {w \in Worker : wpc[w] = "dequeue"}
Exited == {w \in Worker : wpc[w] = "exited"}

Init ==
  /\ queue = [i \in Slot |-> None]
  /\ head = 0
  /\ tail = 0
  /\ apc = "accept"
  /\ pending = None
  /\ pills = 0
  /\ joined = 0
  /\ wpc = [w \in Worker |-> "dequeue"]
  /\ sock = [w \in Worker |-> None]
  /\ accepted = {}
  /\ served = {}

-----------------------------------------------------------------------------
(* The accept loop, main().                                                *)

\* soap_accept() returns a connection.  (An accept error with errnum set is
\* retried and changes nothing.)
Accept(c) ==
  /\ apc = "accept"
  /\ c \notin accepted
  /\ pending' = c
  /\ accepted' = accepted \cup {c}
  /\ apc' = "enqueue"
  /\ UNCHANGED <<ring, pills, joined, pool>>

\* soap_accept() fails without errnum: the loop ends and the pills follow.
TimedOut ==
  /\ apc = "accept"
  /\ pending' = Pill
  /\ apc' = "enqueue"
  /\ UNCHANGED <<ring, pills, joined, accepted, pool>>

\* (Wrong: signal only when the ring was empty.)
SignalFirstOnly ==
  IF head = tail /\ Waiting # {}
  THEN \E w \in Waiting : wpc' = [wpc EXCEPT ![w] = "dequeue"]
  ELSE UNCHANGED wpc

\* (Wrong: no signal at all.)
SignalNobody == UNCHANGED wpc

\* pthread_cond_signal(): one waiting thread, if there is one, wakes up.
Signal ==
  \/ /\ Waiting = {}
     /\ UNCHANGED wpc
  \/ \E w \in Waiting : wpc' = [wpc EXCEPT ![w] = "dequeue"]

\* (Wrong: the full test forgets that the next slot wraps.)
FullNoWrap == tail + 1 = head

Full == Wrap(tail + 1) = head

\* (Wrong: advance tail, then store in the slot it now names.)
StoreAfterAdvance(x) ==
  /\ ~Full
  /\ queue' = [queue EXCEPT ![Wrap(tail + 1)] = x]
  /\ tail' = Wrap(tail + 1)
  /\ Signal
  /\ UNCHANGED head

\* enqueue() with room: store, advance tail, signal.
Store(x) ==
  /\ ~Full
  /\ queue' = [queue EXCEPT ![tail] = x]
  /\ tail' = Wrap(tail + 1)
  /\ Signal
  /\ UNCHANGED head

\* enqueue(s, soap.ip) succeeds: back to accept.
EnqueueRequest ==
  /\ apc = "enqueue"
  /\ pending \in Conn
  /\ Store(pending)
  /\ pending' = None
  /\ apc' = "accept"
  /\ UNCHANGED <<pills, joined, accepted, sock, served>>

\* enqueue(SOAP_INVALID_SOCKET, 0) succeeds: one pill for every thread.
EnqueuePill ==
  /\ apc = "enqueue"
  /\ pending = Pill
  /\ Store(Pill)
  /\ pills' = pills + 1
  /\ apc' = IF pills + 1 = MAX_THR THEN "join" ELSE "enqueue"
  /\ UNCHANGED <<pending, joined, accepted, sock, served>>

\* (Wrong: a pill that does not fit is counted as enqueued.)
EnqueueFullDropsPill ==
  /\ apc = "enqueue"
  /\ Full
  /\ Signal
  /\ pills' = IF pending = Pill THEN pills + 1 ELSE pills
  /\ apc' = IF pills' = MAX_THR THEN "join" ELSE "sleep"
  /\ UNCHANGED <<ring, pending, joined, accepted, sock, served>>

\* enqueue() returns SOAP_EOM, having signalled all the same; main() sleeps.
EnqueueFull ==
  /\ apc = "enqueue"
  /\ Full
  /\ Signal
  /\ apc' = "sleep"
  /\ UNCHANGED <<ring, pending, pills, joined, accepted, sock, served>>

\* Sleep(1000) is over: enqueue() again.
WakeUp ==
  /\ apc = "sleep"
  /\ apc' = "enqueue"
  /\ UNCHANGED <<ring, pending, pills, joined, accepted, pool>>

\* pthread_join(tid[joined]); after the last one the mutex, the condition
\* and the plugins are destroyed.
Join ==
  /\ apc = "join"
  /\ wpc[joined] = "exited"
  /\ joined' = joined + 1
  /\ apc' = IF joined + 1 = MAX_THR THEN "closed" ELSE "join"
  /\ UNCHANGED <<ring, pending, pills, accepted, pool>>

-----------------------------------------------------------------------------
(* A pool thread, process_queue().                                         *)

\* dequeue() finds head == tail and waits for the condition.
Wait(w) ==
  /\ wpc[w] = "dequeue"
  /\ head = tail
  /\ wpc' = [wpc EXCEPT ![w] = "waiting"]
  /\ UNCHANGED <<ring, acceptor, sock, served>>

\* pthread_cond_wait may return without a signal.
SpuriousWakeUp(w) ==
  /\ wpc[w] = "waiting"
  /\ wpc' = [wpc EXCEPT ![w] = "dequeue"]
  /\ UNCHANGED <<ring, acceptor, sock, served>>

\* dequeue() copies the oldest job; a valid socket is served, an invalid
\* one ends the thread.
Dequeue(w) ==
  /\ wpc[w] = "dequeue"
  /\ head # tail
  /\ sock' = [sock EXCEPT ![w] = queue[head]]
  /\ head' = Wrap(head + 1)
  /\ wpc' = [wpc EXCEPT ![w] = IF queue[head] = Pill THEN "exited"
                               ELSE "serving"]
  /\ UNCHANGED <<queue, tail, acceptor, served>>

\* soap_serve() answers and closes the socket; soap_destroy, soap_end.
Serve(w) ==
  /\ wpc[w] = "serving"
  /\ served' = served \cup {sock[w]}
  /\ sock' = [sock EXCEPT ![w] = None]
  /\ wpc' = [wpc EXCEPT ![w] = "dequeue"]
  /\ UNCHANGED <<ring, acceptor>>

\* "Server close!": nothing happens any more.
Closed ==
  /\ apc = "closed"
  /\ UNCHANGED vars

Main ==
  \/ \E c \in Conn : Accept(c)
  \/ TimedOut
  \/ EnqueueRequest
  \/ EnqueuePill
  \/ EnqueueFull
  \/ WakeUp
  \/ Join

Thread(w) ==
  \/ Wait(w)
  \/ SpuriousWakeUp(w)
  \/ Dequeue(w)
  \/ Serve(w)

Next ==
  \/ Main
  \/ \E w \in Worker : Thread(w)
  \/ Closed

Spec == Init /\ [][Next]_vars

\* The threads are scheduled by the operating system: each goes on when it
\* can.  Not Serve: soap_serve() reads from a client and writes to it without
\* a timeout (soap_init leaves recv_timeout and send_timeout 0) and a plugin
\* repeats its statements until the database answers, so a thread that serves
\* may never come back.  Nor is anything assumed of when accept times out.
Fairness ==
  /\ WF_vars(EnqueueRequest \/ EnqueuePill \/ EnqueueFull)
  /\ WF_vars(WakeUp)
  /\ WF_vars(Join)
  /\ \A w \in Worker : WF_vars(Dequeue(w))

FairSpec == Spec /\ Fairness

-----------------------------------------------------------------------------
(* Properties.                                                             *)

\* Every variable stays in its range: head and tail are indexes of slots
\* (epolice_auto_check.cpp:292-294), the counters count threads.
TypeOK ==
  /\ queue \in [Slot -> Job \cup {None}]
  /\ head \in Slot
  /\ tail \in Slot
  /\ apc \in {"accept", "enqueue", "sleep", "join", "closed"}
  /\ pending \in Job \cup {None}
  /\ pills \in 0 .. MAX_THR
  /\ joined \in 0 .. MAX_THR
  /\ wpc \in [Worker -> {"dequeue", "waiting", "serving", "exited"}]
  /\ sock \in [Worker -> Job \cup {None}]
  /\ accepted \in SUBSET Conn
  /\ served \in SUBSET Conn

\* The slots between head and tail.
Occupied ==
  {i \in Slot : IF head <= tail THEN head <= i /\ i < tail
                                ELSE head <= i \/ i < tail}

\* What the ranges rest on: main() counts pills and joins no further than the
\* pool, the slots between head and tail hold jobs and never a stale or zeroed
\* socket, and a thread serves only a valid one (lines 383-395, 408-424).
InPhase ==
  /\ apc \in {"accept", "enqueue", "sleep"} => pills < MAX_THR /\ joined = 0
  /\ apc = "join" => joined < MAX_THR
  /\ apc \in {"enqueue", "sleep"} => pending \in Job
  /\ \A i \in Occupied : queue[i] \in Job
  /\ \A w \in Worker : wpc[w] = "serving" => sock[w] \in Conn
  /\ \A w \in Worker : wpc[w] \in {"dequeue", "waiting"} => sock[w] = None

\* No wakeup is lost: while some thread sleeps on queue_cv, the threads that
\* are awake and on their way into dequeue() are at least as many as the
\* queued jobs, so no job waits for a thread nobody will wake.  It is why
\* enqueue() may signal once per call and never broadcast.
NoLostWakeup ==
  Waiting # {} => Count <= Cardinality(Competing)

\* The places where a connection can be: in main()'s hand, in the ring, with
\* a thread, served.
QueuedAt(c) == {i \in 1 .. Count : Contents[i] = c}
HeldBy(c) == {w \in Worker : sock[w] = c}
PlacesOf(c) ==
  (IF pending = c THEN 1 ELSE 0) + Cardinality(QueuedAt(c))
    + Cardinality(HeldBy(c)) + (IF c \in served THEN 1 ELSE 0)

\* A connection that was accepted is in exactly one place, and one that was
\* not is nowhere: none is lost, and none is handed to two threads.
ExactlyOnePlace ==
  \A c \in Conn : PlacesOf(c) = IF c \in accepted THEN 1 ELSE 0

\* Shutdown drains: a thread that has exited took its pill after every
\* request was taken, and each thread still running has a pill that is
\* queued or still to come, so none is left waiting when main() joins it.
\* When main() destroys the mutex, the condition and the plugins, no thread
\* uses them, and every accepted connection was served.
ShutdownDrains ==
  /\ pills = Cardinality(Exited) + Cardinality(QueuedAt(Pill))
  /\ Exited # {} => \A i \in 1 .. Count : Contents[i] = Pill
  /\ apc = "closed" => Exited = Worker /\ Count = 0 /\ served = accepted

\* The ring with its two indexes is a bounded FIFO of MAX_QUEUE - 1 jobs.
\* The holder of a job is the thread whose context has its socket.
Fifo == INSTANCE BoundedFifo
          WITH Item <- Job, Taker <- Worker, NoItem <- None,
               Capacity <- MAX_QUEUE - 1, buf <- Contents, got <- sock

FifoSpec == Fifo!Spec

\* As long as one thread of the pool comes back from soap_serve() again and
\* again, every connection that main() has accepted is taken by a thread,
\* though all the others are held for good by clients that say nothing, and
\* even if the server is asked to stop.  It is served unless it holds its
\* thread itself.  With every thread held nothing is taken any more.
SomeThreadReturns == \E w \in Worker : []<>(wpc[w] # "serving")
EveryRequestTaken ==
  SomeThreadReturns =>
    \A c \in Conn : (c \in accepted) ~> (c \in served \/ HeldBy(c) # {})

\* Once accept times out main() passes its joins and the server closes,
\* unless soap_serve() holds a thread for good.
EveryThreadReturns == \A w \in Worker : []<>(wpc[w] # "serving")
ShutdownCompletes ==
  EveryThreadReturns => ((pending = Pill) ~> (apc = "closed"))
=============================================================================
