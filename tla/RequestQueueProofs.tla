------------------------ MODULE RequestQueueProofs ------------------------
(***************************************************************************)
(* Proofs about RequestQueue, for every size of the pool and of the ring.  *)
(*                                                                         *)
(* IInv, the type invariant with the phases of main() and the content of   *)
(* the occupied slots, is inductive.  On it rest the absence of lost       *)
(* wakeups (a count of the threads on their way into dequeue()) and the    *)
(* refinement of BoundedFifo (what Store and Dequeue do to Contents).      *)
(* Then every accepted connection is counted in one place, step by step,   *)
(* and the pills that main() enqueues are shown to lie behind every        *)
(* request: a thread that takes one leaves no request behind.              *)
(***************************************************************************)
EXTENDS RequestQueue, FiniteSetTheorems, SequenceTheorems, TLAPS

IInv == TypeOK /\ InPhase

USE ThreadsAssumption, QueueAssumption, ConnAssumption

\* Waking a thread leaves the others where they are.
LEMMA SignalType ==
  ASSUME TypeOK, Signal
  PROVE  /\ wpc' \in [Worker -> {"dequeue", "waiting", "serving", "exited"}]
         /\ \A w \in Worker : wpc'[w] = wpc[w]
                              \/ (wpc[w] = "waiting" /\ wpc'[w] = "dequeue")
  BY DEF TypeOK, Signal, Waiting

\* Advancing an index stays in the ring.
LEMMA WrapType ==
  ASSUME NEW i \in Slot
  PROVE  Wrap(i + 1) \in Slot
  BY DEF Wrap, Slot

\* Initially the ranges and the phases hold.
LEMMA InitIInv == Init => IInv
  BY DEF Init, IInv, TypeOK, InPhase, Occupied, Slot, Job

\* A stored job is the only change to the occupied slots.
LEMMA StoreOccupied ==
  ASSUME IInv, NEW x \in Job, Store(x)
  PROVE  /\ queue' \in [Slot -> Job \cup {None}]
         /\ head' \in Slot
         /\ tail' \in Slot
         /\ \A i \in Occupied' : queue'[i] \in Job
  <1>1. tail' \in Slot
    BY WrapType DEF IInv, TypeOK, Store
  <1>2. queue' \in [Slot -> Job \cup {None}] /\ head' \in Slot
    BY DEF IInv, TypeOK, Store
  <1>3. ASSUME NEW i \in Occupied'
        PROVE  i \in Occupied \/ i = tail
    BY <1>3 DEF Occupied, Store, Full, Wrap, IInv, TypeOK, Slot
  <1>4. ASSUME NEW i \in Occupied'
        PROVE  queue'[i] \in Job
    BY <1>3, <1>4 DEF Store, IInv, InPhase, TypeOK, Occupied
  <1>5. QED
    BY <1>1, <1>2, <1>4

\* Every step of main() and of a thread preserves the ranges and the phases.
LEMMA NextIInv ==
  ASSUME IInv, [Next]_vars
  PROVE  IInv'
  <1>1. ASSUME NEW c \in Conn, Accept(c)
        PROVE  IInv'
    BY <1>1 DEF IInv, TypeOK, InPhase, Accept, ring, pool, Occupied, Job
  <1>2. CASE TimedOut
    BY <1>2 DEF IInv, TypeOK, InPhase, TimedOut, ring, pool, Occupied, Job
  <1>3. CASE EnqueueRequest
    <2>1. pending \in Job /\ Store(pending) /\ Signal
      BY <1>3 DEF EnqueueRequest, Store, Job
    <2>2. TypeOK'
      BY <1>3, <2>1, StoreOccupied, SignalType
      DEF IInv, TypeOK, EnqueueRequest
    <2>3. InPhase'
      BY <1>3, <2>1, StoreOccupied, SignalType
      DEF IInv, InPhase, TypeOK, EnqueueRequest
    <2>4. QED
      BY <2>2, <2>3 DEF IInv
  <1>4. CASE EnqueuePill
    <2>1. pending = Pill /\ Pill \in Job /\ Store(Pill) /\ Signal
      BY <1>4 DEF EnqueuePill, Store, Job
    <2>2. pills < MAX_THR /\ joined = 0 /\ pills' = pills + 1
      BY <1>4 DEF IInv, InPhase, EnqueuePill
    <2>3. TypeOK'
      BY <1>4, <2>1, <2>2, StoreOccupied, SignalType
      DEF IInv, TypeOK, EnqueuePill
    <2>4. InPhase'
      BY <1>4, <2>1, <2>2, StoreOccupied, SignalType
      DEF IInv, InPhase, TypeOK, EnqueuePill
    <2>5. QED
      BY <2>3, <2>4 DEF IInv
  <1>5. CASE EnqueueFull
    <2>1. TypeOK'
      BY <1>5, SignalType DEF IInv, TypeOK, EnqueueFull, ring
    <2>2. InPhase'
      BY <1>5, SignalType DEF IInv, InPhase, TypeOK, EnqueueFull, ring, Occupied
    <2>3. QED
      BY <2>1, <2>2 DEF IInv
  <1>6. CASE WakeUp
    BY <1>6 DEF IInv, TypeOK, InPhase, WakeUp, ring, pool, Occupied
  <1>7. CASE Join
    BY <1>7 DEF IInv, TypeOK, InPhase, Join, ring, pool, Occupied
  <1>8. ASSUME NEW w \in Worker, Wait(w)
        PROVE  IInv'
    BY <1>8 DEF IInv, TypeOK, InPhase, Wait, ring, acceptor, Occupied
  <1>9. ASSUME NEW w \in Worker, SpuriousWakeUp(w)
        PROVE  IInv'
    BY <1>9 DEF IInv, TypeOK, InPhase, SpuriousWakeUp, ring, acceptor, Occupied
  <1>10. ASSUME NEW w \in Worker, Dequeue(w)
         PROVE  IInv'
    <2>1. head \in Occupied /\ queue[head] \in Job
      BY <1>10 DEF IInv, TypeOK, InPhase, Dequeue, Occupied, Slot
    <2>2. head' \in Slot
      BY <1>10, WrapType DEF IInv, TypeOK, Dequeue
    <2>3. Occupied' \subseteq Occupied
      BY <1>10 DEF IInv, TypeOK, Dequeue, Occupied, Slot, Wrap
    <2>4. TypeOK'
      BY <1>10, <2>1, <2>2 DEF IInv, TypeOK, Dequeue, acceptor
    <2>5. InPhase'
      BY <1>10, <2>1, <2>3
      DEF IInv, TypeOK, InPhase, Dequeue, acceptor, Job
    <2>6. QED
      BY <2>4, <2>5 DEF IInv
  <1>11. ASSUME NEW w \in Worker, Serve(w)
         PROVE  IInv'
    <2>1. sock[w] \in Conn
      BY <1>11 DEF IInv, InPhase, Serve
    <2>2. TypeOK'
      BY <1>11, <2>1 DEF IInv, TypeOK, Serve, ring, acceptor
    <2>3. InPhase'
      BY <1>11 DEF IInv, TypeOK, InPhase, Serve, ring, acceptor, Occupied
    <2>4. QED
      BY <2>2, <2>3 DEF IInv
  <1>12. CASE UNCHANGED vars
    BY <1>12 DEF IInv, TypeOK, InPhase, vars, Occupied
  <1>13. QED
    BY <1>1, <1>2, <1>3, <1>4, <1>5, <1>6, <1>7, <1>8, <1>9, <1>10, <1>11,
       <1>12 DEF Next, Main, Thread, Closed

\* The variables stay in their ranges: head and tail never leave the ring, and
\* main() counts no more pills or joins than there are threads.
THEOREM TypeCorrect == Spec => []TypeOK
  <1>1. Spec => []IInv
    BY InitIInv, NextIInv, PTL DEF Spec
  <1>2. QED
    BY <1>1, PTL DEF IInv

-----------------------------------------------------------------------------
(* No lost wakeup: the awake threads are counted.                          *)

\* The jobs between head and tail are fewer than the slots, in any wrap.
LEMMA CountType ==
  ASSUME IInv
  PROVE  /\ Count \in 0 .. MAX_QUEUE - 1
         /\ head = tail <=> Count = 0
         /\ Full <=> Count = MAX_QUEUE - 1
  BY DEF IInv, TypeOK, Count, Full, Wrap, Slot

\* enqueue() adds one job.
LEMMA StoreCount ==
  ASSUME IInv, NEW x, Store(x)
  PROVE  Count' = Count + 1
  BY DEF IInv, TypeOK, Count, Store, Full, Wrap, Slot

\* dequeue() takes one.
LEMMA DequeueCount ==
  ASSUME IInv, NEW w \in Worker, Dequeue(w)
  PROVE  Count' = Count - 1
  BY DEF IInv, TypeOK, Count, Dequeue, Wrap, Slot

\* The pool is finite, so its threads can be counted.
LEMMA CompetingFinite == IsFiniteSet(Competing) /\ IsFiniteSet(Competing')
  <1>1. IsFiniteSet(Worker)
    BY FS_Interval DEF Worker
  <1>2. QED
    BY <1>1, FS_Subset DEF Competing

\* A woken thread joins those on their way into dequeue().
LEMMA SignalCompeting ==
  ASSUME TypeOK, Signal, Waiting # {}
  PROVE  Cardinality(Competing') = Cardinality(Competing) + 1
  <1>1. PICK w \in Waiting : wpc' = [wpc EXCEPT ![w] = "dequeue"]
    BY DEF Signal
  <1>2. Competing' = Competing \cup {w} /\ w \notin Competing
    BY <1>1 DEF TypeOK, Waiting, Competing
  <1>3. QED
    BY <1>2, CompetingFinite, FS_AddElement

\* A thread that is awakened or done goes back to dequeue().
LEMMA CompetingGrows ==
  ASSUME TypeOK, NEW w \in Worker, wpc[w] # "dequeue",
         wpc' = [wpc EXCEPT ![w] = "dequeue"]
  PROVE  Cardinality(Competing') = Cardinality(Competing) + 1
  <1>1. Competing' = Competing \cup {w} /\ w \notin Competing
    BY DEF TypeOK, Competing
  <1>2. QED
    BY <1>1, CompetingFinite, FS_AddElement

\* All threads start on their way into dequeue().
LEMMA InitNoLostWakeup == Init => NoLostWakeup
  BY DEF Init, NoLostWakeup, Waiting

\* Each stored job comes with one signal; a thread goes to sleep only when the
\* ring is empty.
LEMMA NextNoLostWakeup ==
  ASSUME IInv, NoLostWakeup, [Next]_vars
  PROVE  NoLostWakeup'
  <1>. Count \in Nat /\ Cardinality(Competing) \in Nat
    BY CountType, CompetingFinite, FS_CardinalityType
  <1>. SUFFICES ASSUME Waiting' # {}
                PROVE  Count' <= Cardinality(Competing')
    BY DEF NoLostWakeup
  <1>. TypeOK
    BY DEF IInv
  <1>1. ASSUME UNCHANGED ring, UNCHANGED wpc
        PROVE  Count' <= Cardinality(Competing')
    BY <1>1 DEF NoLostWakeup, Waiting, Competing, Count, ring
  <1>2. ASSUME Signal
        PROVE  /\ Waiting # {}
               /\ Count <= Cardinality(Competing)
               /\ Cardinality(Competing') = Cardinality(Competing) + 1
    <2>1. Waiting # {}
      BY <1>2 DEF Signal, Waiting
    <2>2. QED
      BY <1>2, <2>1, SignalCompeting DEF NoLostWakeup
  <1>3. ASSUME NEW x, Store(x)
        PROVE  Count' <= Cardinality(Competing')
    <2>1. Signal
      BY <1>3 DEF Store
    <2>2. Count' = Count + 1
      BY <1>3, StoreCount
    <2>3. QED
      BY <1>2, <2>1, <2>2
  <1>4. ASSUME NEW c \in Conn, Accept(c)
        PROVE  Count' <= Cardinality(Competing')
    BY <1>1, <1>4 DEF Accept, pool
  <1>5. CASE TimedOut
    BY <1>1, <1>5 DEF TimedOut, pool
  <1>6. CASE EnqueueRequest
    BY <1>3, <1>6 DEF EnqueueRequest
  <1>7. CASE EnqueuePill
    BY <1>3, <1>7 DEF EnqueuePill
  <1>8. CASE EnqueueFull
    BY <1>2, <1>8 DEF EnqueueFull, ring, Count
  <1>9. CASE WakeUp
    BY <1>1, <1>9 DEF WakeUp, pool
  <1>10. CASE Join
    BY <1>1, <1>10 DEF Join, pool
  <1>11. ASSUME NEW w \in Worker, Wait(w)
         PROVE  Count' <= Cardinality(Competing')
    <2>1. Count' = 0
      BY <1>11, CountType DEF Wait, ring, Count
    <2>2. QED
      BY <2>1, CompetingFinite, FS_CardinalityType
  <1>12. ASSUME NEW w \in Worker, SpuriousWakeUp(w)
         PROVE  Count' <= Cardinality(Competing')
    <2>1. Count <= Cardinality(Competing) /\ Count' = Count
      BY <1>12 DEF SpuriousWakeUp, NoLostWakeup, Waiting, ring, Count
    <2>2. wpc[w] # "dequeue" /\ wpc' = [wpc EXCEPT ![w] = "dequeue"]
      BY <1>12 DEF SpuriousWakeUp
    <2>3. Cardinality(Competing') = Cardinality(Competing) + 1
      BY <2>2, CompetingGrows
    <2>4. QED
      BY <2>1, <2>3
  <1>13. ASSUME NEW w \in Worker, Dequeue(w)
         PROVE  Count' <= Cardinality(Competing')
    <2>1. Waiting # {} /\ Competing' = Competing \ {w} /\ w \in Competing
      BY <1>13 DEF Dequeue, Waiting, Competing, TypeOK
    <2>2. Cardinality(Competing') = Cardinality(Competing) - 1
      BY <2>1, CompetingFinite, FS_RemoveElement
    <2>3. QED
      BY <1>13, <2>1, <2>2, DequeueCount DEF NoLostWakeup
  <1>14. ASSUME NEW w \in Worker, Serve(w)
         PROVE  Count' <= Cardinality(Competing')
    <2>1. Count <= Cardinality(Competing) /\ Count' = Count
      BY <1>14 DEF Serve, NoLostWakeup, Waiting, ring, Count, TypeOK
    <2>2. wpc[w] # "dequeue" /\ wpc' = [wpc EXCEPT ![w] = "dequeue"]
      BY <1>14 DEF Serve
    <2>3. Cardinality(Competing') = Cardinality(Competing) + 1
      BY <2>2, CompetingGrows
    <2>4. QED
      BY <2>1, <2>3
  <1>15. CASE UNCHANGED vars
    BY <1>1, <1>15 DEF vars, ring
  <1>16. QED
    BY <1>4, <1>5, <1>6, <1>7, <1>8, <1>9, <1>10, <1>11, <1>12, <1>13, <1>14,
       <1>15 DEF Next, Main, Thread, Closed

\* One pthread_cond_signal per enqueue() is enough, for every size of the pool
\* and of the ring: while a thread sleeps on queue_cv there is an awake thread
\* on its way into dequeue() for each queued job.
THEOREM NoWakeupIsLost == Spec => []NoLostWakeup
  <1>1. Spec => [](IInv /\ NoLostWakeup)
    BY InitIInv, NextIInv, InitNoLostWakeup, NextNoLostWakeup, PTL DEF Spec
  <1>2. QED
    BY <1>1, PTL

-----------------------------------------------------------------------------
(* The ring is a bounded FIFO.                                             *)

\* A sequence is the function from its indexes to its elements.
LEMMA SeqIsFunction ==
  ASSUME NEW S, NEW s \in Seq(S), NEW n, Len(s) = n
  PROVE  s = [i \in 1 .. n |-> s[i]]
  <1>1. s \in [1 .. n -> S]
    BY LenProperties
  <1>2. QED
    BY <1>1

\* The jobs from head to tail are a sequence of jobs.
LEMMA ContentsType ==
  ASSUME IInv
  PROVE  Contents \in Seq(Job) /\ Len(Contents) = Count
  <1>1. ASSUME NEW i \in 1 .. Count
        PROVE  queue[Wrap(head + i - 1)] \in Job
    <2>1. Wrap(head + i - 1) \in Occupied
      BY <1>1 DEF IInv, TypeOK, Count, Occupied, Wrap, Slot
    <2>2. QED
      BY <2>1 DEF IInv, InPhase
  <1>2. QED
    BY <1>1, CountType DEF Contents

\* enqueue() puts the job behind the others.
LEMMA StoreContents ==
  ASSUME IInv, NEW x \in Job, Store(x)
  PROVE  Contents' = Append(Contents, x)
  <1>1. Count' = Count + 1 /\ Count \in Nat
    BY StoreCount, CountType
  <1>2. ASSUME NEW i \in 1 .. Count
        PROVE  queue'[Wrap(head' + i - 1)] = queue[Wrap(head + i - 1)]
    <2>1. Wrap(head + i - 1) \in Slot /\ Wrap(head + i - 1) # tail
      BY <1>2 DEF IInv, TypeOK, Count, Wrap, Slot
    <2>2. QED
      BY <2>1 DEF Store, IInv, TypeOK
  <1>3. queue'[Wrap(head' + Count)] = x
    <2>1. Wrap(head + Count) = tail
      BY DEF IInv, TypeOK, Count, Wrap, Slot
    <2>2. QED
      BY <2>1 DEF Store, IInv, TypeOK
  <1>4. Contents' = [i \in 1 .. Count + 1 |-> queue'[Wrap(head' + i - 1)]]
    BY <1>1 DEF Contents
  <1>5. \A i \in 1 .. Count + 1 : Contents'[i] = Append(Contents, x)[i]
    <2>. TAKE i \in 1 .. Count + 1
    <2>1. CASE i = Count + 1
      <3>1. head' + i - 1 = head' + Count
        BY <1>1, <2>1 DEF IInv, TypeOK, Store, Slot
      <3>2. QED
        BY <1>3, <1>4, <2>1, <3>1, <1>1, ContentsType
    <2>2. CASE i # Count + 1
      <3>1. i \in 1 .. Count
        BY <1>1, <2>2
      <3>2. Contents'[i] = Contents[i]
        BY <1>2, <1>4, <3>1 DEF Contents
      <3>3. QED
        BY <3>1, <3>2, ContentsType
    <2>3. QED
      BY <2>1, <2>2
  <1>6. /\ Append(Contents, x) \in Seq(Job)
        /\ Len(Append(Contents, x)) = Count + 1
    BY <1>1, ContentsType
  <1>7. Append(Contents, x)
          = [i \in 1 .. Count + 1 |-> Append(Contents, x)[i]]
    BY <1>6, SeqIsFunction
  <1>8. Contents' = [i \in 1 .. Count + 1 |-> Contents'[i]]
    BY <1>4
  <1>9. QED
    BY <1>5, <1>7, <1>8

\* dequeue() takes the oldest job.
LEMMA DequeueContents ==
  ASSUME IInv, NEW w \in Worker, Dequeue(w)
  PROVE  /\ Contents # << >>
         /\ Head(Contents) = queue[head]
         /\ Contents' = Tail(Contents)
  <1>1. Count \in Nat /\ Count > 0 /\ Count' = Count - 1
    <2>1. head # tail
      BY DEF Dequeue
    <2>2. QED
      BY <2>1, DequeueCount, CountType
  <1>2. Contents[1] = queue[head]
    BY <1>1 DEF Contents, Wrap, IInv, TypeOK, Slot
  <1>3. ASSUME NEW i \in 1 .. Count - 1
        PROVE  queue'[Wrap(head' + i - 1)] = Contents[i + 1]
    <2>1. Wrap(head' + i - 1) = Wrap(head + (i + 1) - 1)
      BY <1>1 DEF Dequeue, IInv, TypeOK, Count, Wrap, Slot
    <2>2. i + 1 \in 1 .. Count
      BY <1>1
    <2>3. QED
      BY <2>1, <2>2 DEF Contents, Dequeue
  <1>4. Contents' = [i \in 1 .. Count - 1 |-> Contents[i + 1]]
    BY <1>1, <1>3 DEF Contents
  <1>5. Contents # << >> /\ Head(Contents) = Contents[1]
    BY <1>1, ContentsType
  <1>6. Tail(Contents) = [i \in 1 .. Count - 1 |-> Contents[i + 1]]
    <2>1. /\ Tail(Contents) \in Seq(Job)
          /\ Len(Tail(Contents)) = Count - 1
          /\ \A i \in 1 .. Len(Tail(Contents)) : Tail(Contents)[i] = Contents[i + 1]
      BY <1>5, ContentsType, HeadTailProperties
    <2>2. Tail(Contents) = [i \in 1 .. Count - 1 |-> Tail(Contents)[i]]
      BY <2>1, SeqIsFunction
    <2>3. QED
      BY <2>1, <2>2
  <1>7. QED
    BY <1>2, <1>4, <1>5, <1>6

\* Initially the ring is empty and no thread has a socket.
LEMMA InitFifo == Init => Fifo!Init
  <1>. SUFFICES ASSUME Init
                PROVE  Fifo!Init
    OBVIOUS
  <1>1. Count = 0
    BY DEF Init, Count
  <1>2. Contents = << >>
    BY <1>1 DEF Contents
  <1>3. QED
    BY <1>2 DEF Init, Fifo!Init

\* Every step of the pool is a step of the FIFO or leaves it alone.
LEMMA NextFifo ==
  ASSUME IInv, [Next]_vars
  PROVE  [Fifo!Next]_(Fifo!fvars)
  <1>1. ASSUME UNCHANGED ring, UNCHANGED sock
        PROVE  UNCHANGED Fifo!fvars
    BY <1>1 DEF Fifo!fvars, Contents, Count, ring
  <1>2. ASSUME NEW x \in Job, Store(x), UNCHANGED sock
        PROVE  Fifo!Put(x)
    <2>1. Len(Contents) < MAX_QUEUE - 1
      <3>1. ~Full
        BY <1>2 DEF Store
      <3>2. QED
        BY <3>1, CountType, ContentsType
    <2>2. Contents' = Append(Contents, x)
      BY <1>2, StoreContents
    <2>3. QED
      BY <1>2, <2>1, <2>2 DEF Fifo!Put
  <1>3. ASSUME NEW w \in Worker, Dequeue(w)
        PROVE  Fifo!Take(w)
    <2>1. sock[w] = None /\ sock' = [sock EXCEPT ![w] = queue[head]]
      BY <1>3 DEF Dequeue, IInv, InPhase
    <2>2. /\ Contents # << >>
          /\ Head(Contents) = queue[head]
          /\ Contents' = Tail(Contents)
      BY <1>3, DequeueContents
    <2>3. QED
      BY <2>1, <2>2 DEF Fifo!Take
  <1>4. ASSUME NEW w \in Worker, Serve(w)
        PROVE  Fifo!Release(w)
    <2>1. sock[w] \in Conn
      BY <1>4 DEF Serve, IInv, InPhase
    <2>2. Contents' = Contents
      BY <1>4 DEF Serve, ring, Contents, Count
    <2>3. sock' = [sock EXCEPT ![w] = None]
      BY <1>4 DEF Serve
    <2>4. QED
      BY <2>1, <2>2, <2>3 DEF Fifo!Release
  <1>5. ASSUME NEW c \in Conn, Accept(c)
        PROVE  UNCHANGED Fifo!fvars
    BY <1>1, <1>5 DEF Accept, pool
  <1>6. CASE TimedOut
    BY <1>1, <1>6 DEF TimedOut, pool
  <1>7. ASSUME EnqueueRequest
        PROVE  Fifo!Next
    <2>1. pending \in Job /\ Store(pending) /\ UNCHANGED sock
      BY <1>7 DEF EnqueueRequest, Job
    <2>2. QED
      BY <1>2, <2>1 DEF Fifo!Next
  <1>8. ASSUME EnqueuePill
        PROVE  Fifo!Next
    <2>1. Pill \in Job /\ Store(Pill) /\ UNCHANGED sock
      BY <1>8 DEF EnqueuePill, Job
    <2>2. QED
      BY <1>2, <2>1 DEF Fifo!Next
  <1>9. CASE EnqueueFull
    BY <1>1, <1>9 DEF EnqueueFull
  <1>10. CASE WakeUp
    BY <1>1, <1>10 DEF WakeUp, pool
  <1>11. CASE Join
    BY <1>1, <1>11 DEF Join, pool
  <1>12. ASSUME NEW w \in Worker, Wait(w) \/ SpuriousWakeUp(w)
         PROVE  UNCHANGED Fifo!fvars
    BY <1>1, <1>12 DEF Wait, SpuriousWakeUp
  <1>13. CASE UNCHANGED vars
    BY <1>1, <1>13 DEF vars, ring
  <1>14. ASSUME NEW w \in Worker, Dequeue(w) \/ Serve(w)
         PROVE  Fifo!Next
    BY <1>3, <1>4, <1>14 DEF Fifo!Next
  <1>15. QED
    BY <1>5, <1>6, <1>7, <1>8, <1>9, <1>10, <1>11, <1>12, <1>13, <1>14
    DEF Next, Main, Thread, Closed

\* The ring implements a FIFO of MAX_QUEUE - 1 jobs for every MAX_QUEUE: the
\* oldest job goes to the next thread, and none is lost or handed out twice.
THEOREM RingIsFifo == Spec => FifoSpec
  <1>1. Spec => []IInv
    BY InitIInv, NextIInv, PTL DEF Spec
  <1>2. QED
    BY <1>1, InitFifo, NextFifo, PTL DEF Spec, FifoSpec, Fifo!Spec
-----------------------------------------------------------------------------
(* Every connection is in one place: the queued, held and served jobs are  *)
(* counted.                                                                *)

\* Indexes moved down by one are as many as they were.
LEMMA ShiftCardinality ==
  ASSUME NEW n \in Nat, NEW S \in SUBSET (2 .. n + 1)
  PROVE  Cardinality({i \in 1 .. n : i + 1 \in S}) = Cardinality(S)
  <1>. DEFINE T == {i \in 1 .. n : i + 1 \in S}
              f == [k \in S |-> k - 1]
  <1>1. IsFiniteSet(S)
    <2>1. IsFiniteSet(2 .. n + 1)
      BY FS_Interval
    <2>2. QED
      BY <2>1, FS_Subset
  <1>2. f \in [S -> T]
    BY SMT
  <1>3. \A a, b \in S : f[a] = f[b] => a = b
    BY SMT
  <1>4. \A t \in T : \E s \in S : f[s] = t
    <2>. TAKE t \in T
    <2>. WITNESS t + 1 \in S
    <2>. QED
      BY SMT
  <1>5. f \in Bijection(S, T)
    <2>. HIDE DEF f, T
    <2>1. f \in Injection(S, T) /\ f \in Surjection(S, T)
      BY <1>2, <1>3, <1>4 DEF Injection, Surjection, IsInjective
    <2>2. QED
      BY <2>1 DEF Bijection
  <1>6. ExistsBijection(S, T)
    BY <1>5 DEF ExistsBijection
  <1>7. QED
    BY <1>1, <1>6, FS_Bijection

\* The jobs in the ring and the threads of the pool can be counted.
LEMMA PlacesFinite ==
  ASSUME IInv, NEW c
  PROVE  /\ IsFiniteSet(QueuedAt(c))
         /\ Cardinality(QueuedAt(c)) \in Nat
         /\ IsFiniteSet(HeldBy(c))
         /\ Cardinality(HeldBy(c)) \in Nat
  <1>1. IsFiniteSet(1 .. Count) /\ IsFiniteSet(Worker)
    BY CountType, FS_Interval DEF Worker
  <1>2. IsFiniteSet(QueuedAt(c)) /\ IsFiniteSet(HeldBy(c))
    BY <1>1, FS_Subset DEF QueuedAt, HeldBy
  <1>3. QED
    BY <1>2, FS_CardinalityType

\* enqueue() puts its job in the ring once more, and no other job.
LEMMA StoreQueuedAt ==
  ASSUME IInv, NEW x \in Job, Store(x), NEW c
  PROVE  Cardinality(QueuedAt(c)')
           = Cardinality(QueuedAt(c)) + (IF x = c THEN 1 ELSE 0)
  <1>1. Count \in Nat /\ Count' = Count + 1
    BY CountType, StoreCount
  <1>2. Contents \in Seq(Job) /\ Len(Contents) = Count
    BY ContentsType
  <1>3. /\ Contents'[Count + 1] = x
        /\ \A k \in 1 .. Count : Contents'[k] = Contents[k]
    BY <1>1, <1>2, StoreContents
  <1>4. QueuedAt(c)'
          = IF x = c THEN QueuedAt(c) \cup {Count + 1} ELSE QueuedAt(c)
    BY <1>1, <1>3 DEF QueuedAt
  <1>5. Count + 1 \notin QueuedAt(c)
    BY <1>1 DEF QueuedAt
  <1>6. CASE x = c
    <2>1. Cardinality(QueuedAt(c) \cup {Count + 1})
            = Cardinality(QueuedAt(c)) + 1
      BY <1>5, PlacesFinite, FS_AddElement
    <2>2. QED
      BY <1>4, <1>6, <2>1
  <1>7. CASE x # c
    BY <1>4, <1>7, PlacesFinite
  <1>8. QED
    BY <1>6, <1>7

\* dequeue() takes the oldest job out once, and no other job.
LEMMA DequeueQueuedAt ==
  ASSUME IInv, NEW w \in Worker, Dequeue(w), NEW c
  PROVE  Cardinality(QueuedAt(c)')
           = Cardinality(QueuedAt(c)) - (IF queue[head] = c THEN 1 ELSE 0)
  <1>. DEFINE Later == QueuedAt(c) \ {1}
  <1>1. Count \in Nat /\ Count > 0 /\ Count' = Count - 1
    <2>1. head # tail
      BY DEF Dequeue
    <2>2. QED
      BY <2>1, DequeueCount, CountType
  <1>2. Contents[1] = queue[head]
    BY <1>1, DequeueContents, ContentsType
  <1>3. \A k \in 1 .. Count - 1 : Contents'[k] = Contents[k + 1]
    BY <1>1, DequeueContents, ContentsType
  <1>4. Later \in SUBSET (2 .. (Count - 1) + 1)
    BY <1>1 DEF QueuedAt
  <1>5. QueuedAt(c)' = {k \in 1 .. Count - 1 : k + 1 \in Later}
    BY <1>1, <1>3 DEF QueuedAt
  <1>6. Cardinality(QueuedAt(c)') = Cardinality(Later)
    <2>. HIDE DEF Later
    <2>. QED
      BY <1>1, <1>4, <1>5, ShiftCardinality
  <1>7. 1 \in QueuedAt(c) <=> queue[head] = c
    BY <1>1, <1>2 DEF QueuedAt
  <1>8. Cardinality(Later)
          = IF 1 \in QueuedAt(c) THEN Cardinality(QueuedAt(c)) - 1
            ELSE Cardinality(QueuedAt(c))
    BY PlacesFinite, FS_RemoveElement
  <1>9. QED
    BY <1>6, <1>7, <1>8, PlacesFinite

\* A ring that did not change holds what it held.
LEMMA SameRing ==
  ASSUME UNCHANGED ring
  PROVE  /\ Contents' = Contents /\ Count' = Count
         /\ \A c : QueuedAt(c)' = QueuedAt(c)
  BY DEF ring, Contents, Count, QueuedAt

\* main() has a socket in its hand only while it is handing it over.
HandInHand == apc = "accept" => pending = None

\* Initially no connection was accepted and none is anywhere.
LEMMA InitOnePlace == Init => HandInHand /\ ExactlyOnePlace
  <1>. SUFFICES ASSUME Init, NEW c \in Conn
                PROVE  /\ HandInHand
                       /\ PlacesOf(c) = IF c \in accepted THEN 1 ELSE 0
    BY DEF ExactlyOnePlace, Init, HandInHand
  <1>1. QueuedAt(c) = {} /\ HeldBy(c) = {}
    BY DEF Init, QueuedAt, HeldBy, Count
  <1>2. QED
    BY <1>1, FS_EmptySet DEF Init, PlacesOf, HandInHand

\* A thread takes a socket.
LEMMA TakesSocket ==
  ASSUME IInv, NEW w \in Worker, NEW s, sock' = [sock EXCEPT ![w] = s],
         NEW c, sock[w] # c
  PROVE  Cardinality(HeldBy(c)')
           = Cardinality(HeldBy(c)) + (IF s = c THEN 1 ELSE 0)
  <1>. sock \in [Worker -> Job \cup {None}]
    BY DEF IInv, TypeOK
  <1>1. IsFiniteSet(HeldBy(c)) /\ Cardinality(HeldBy(c)) \in Nat
    BY PlacesFinite
  <1>2. CASE s = c
    <2>1. HeldBy(c)' = HeldBy(c) \cup {w} /\ w \notin HeldBy(c)
      BY <1>2 DEF HeldBy
    <2>2. Cardinality(HeldBy(c)') = Cardinality(HeldBy(c)) + 1
      BY <1>1, <2>1, FS_AddElement
    <2>3. QED
      BY <1>2, <2>2
  <1>3. CASE s # c
    <2>1. HeldBy(c)' = HeldBy(c)
      BY <1>3 DEF HeldBy
    <2>2. QED
      BY <1>1, <1>3, <2>1
  <1>4. QED
    BY <1>2, <1>3

\* A thread gives up the socket it has.
LEMMA GivesUpSocket ==
  ASSUME IInv, NEW w \in Worker, sock' = [sock EXCEPT ![w] = None],
         NEW c, c # None
  PROVE  Cardinality(HeldBy(c)')
           = Cardinality(HeldBy(c)) - (IF sock[w] = c THEN 1 ELSE 0)
  <1>. sock \in [Worker -> Job \cup {None}]
    BY DEF IInv, TypeOK
  <1>1. IsFiniteSet(HeldBy(c)) /\ Cardinality(HeldBy(c)) \in Nat
    BY PlacesFinite
  <1>2. HeldBy(c)' = HeldBy(c) \ {w}
    BY DEF HeldBy
  <1>3. Cardinality(HeldBy(c) \ {w})
          = IF w \in HeldBy(c) THEN Cardinality(HeldBy(c)) - 1
            ELSE Cardinality(HeldBy(c))
    BY <1>1, FS_RemoveElement
  <1>4. w \in HeldBy(c) <=> sock[w] = c
    BY DEF HeldBy
  <1>5. QED
    BY <1>1, <1>2, <1>3, <1>4

\* A thread that holds a socket keeps it while no thread changes its own.
LEMMA HeldBySame ==
  ASSUME UNCHANGED sock
  PROVE  \A c : HeldBy(c)' = HeldBy(c)
  BY DEF HeldBy

\* main() goes back to accept() only after it has handed the socket over.
LEMMA NextHandInHand ==
  ASSUME HandInHand, [Next]_vars
  PROVE  HandInHand'
  BY DEF HandInHand, Next, Main, Accept, TimedOut, EnqueueRequest, EnqueuePill,
         EnqueueFull, WakeUp, Join, Thread, Wait, SpuriousWakeUp, Dequeue, Serve,
         Closed, acceptor, vars

\* A step moves a connection from one place to the next: from the client into
\* main()'s hand, into the ring, to a thread, to those served.
LEMMA NextOnePlace ==
  ASSUME IInv, HandInHand, ExactlyOnePlace, [Next]_vars
  PROVE  ExactlyOnePlace'
  <1>. SUFFICES ASSUME NEW c \in Conn
                PROVE  PlacesOf(c)' = IF c \in accepted' THEN 1 ELSE 0
    BY DEF ExactlyOnePlace
  <1>. DEFINE Goal == PlacesOf(c)' = IF c \in accepted' THEN 1 ELSE 0
              q == Cardinality(QueuedAt(c))
              h == Cardinality(HeldBy(c))
  <1>0. /\ q \in Nat /\ h \in Nat
        /\ (IF pending = c THEN 1 ELSE 0) + q + h
             + (IF c \in served THEN 1 ELSE 0) = IF c \in accepted THEN 1 ELSE 0
    BY PlacesFinite DEF ExactlyOnePlace, PlacesOf
  <1>1. ASSUME UNCHANGED <<ring, pool>>
        PROVE  q' = q /\ h' = h /\ served' = served
    BY <1>1, SameRing, HeldBySame DEF pool
  <1>2. ASSUME NEW d \in Conn, Accept(d)
        PROVE  Goal
    <2>1. /\ pending = None /\ pending' = d /\ d \notin accepted
          /\ accepted' = accepted \cup {d}
      BY <1>2 DEF Accept, HandInHand
    <2>2. q' = q /\ h' = h /\ served' = served
      BY <1>1, <1>2 DEF Accept
    <2>3. QED
      BY <1>0, <2>1, <2>2 DEF PlacesOf
  <1>3. CASE TimedOut
    <2>1. pending = None /\ pending' = Pill /\ accepted' = accepted
      BY <1>3 DEF TimedOut, HandInHand
    <2>2. q' = q /\ h' = h /\ served' = served
      BY <1>1, <1>3 DEF TimedOut
    <2>3. QED
      BY <1>0, <2>1, <2>2 DEF PlacesOf
  <1>4. CASE EnqueueRequest
    <2>1. /\ pending \in Job /\ Store(pending)
          /\ pending' = None /\ accepted' = accepted /\ served' = served
      BY <1>4 DEF EnqueueRequest, Job
    <2>2. q' = q + (IF pending = c THEN 1 ELSE 0)
      BY <2>1, StoreQueuedAt
    <2>3. h' = h
      BY <1>4, HeldBySame DEF EnqueueRequest
    <2>4. QED
      BY <1>0, <2>1, <2>2, <2>3 DEF PlacesOf
  <1>5. CASE EnqueuePill
    <2>1. /\ Pill \in Job /\ Store(Pill) /\ pending = Pill
          /\ pending' = pending /\ accepted' = accepted /\ served' = served
      BY <1>5 DEF EnqueuePill, Job
    <2>2. q' = q
      BY <1>0, <2>1, StoreQueuedAt
    <2>3. h' = h
      BY <1>5, HeldBySame DEF EnqueuePill
    <2>4. QED
      BY <1>0, <2>1, <2>2, <2>3 DEF PlacesOf
  <1>6. CASE EnqueueFull
    <2>1. q' = q /\ h' = h
      BY <1>6, SameRing, HeldBySame DEF EnqueueFull
    <2>2. QED
      BY <1>0, <1>6, <2>1 DEF EnqueueFull, PlacesOf
  <1>7. CASE WakeUp \/ Join
    <2>1. q' = q /\ h' = h /\ served' = served
      BY <1>1, <1>7 DEF WakeUp, Join
    <2>2. pending' = pending /\ accepted' = accepted
      BY <1>7 DEF WakeUp, Join
    <2>3. QED
      BY <1>0, <2>1, <2>2 DEF PlacesOf
  <1>8. ASSUME NEW w \in Worker, Wait(w) \/ SpuriousWakeUp(w)
        PROVE  Goal
    <2>1. q' = q /\ h' = h
      BY <1>8, SameRing, HeldBySame DEF Wait, SpuriousWakeUp
    <2>2. QED
      BY <1>0, <1>8, <2>1
      DEF Wait, SpuriousWakeUp, acceptor, PlacesOf
  <1>9. ASSUME NEW w \in Worker, Dequeue(w)
        PROVE  Goal
    <2>1. sock[w] = None /\ sock' = [sock EXCEPT ![w] = queue[head]]
      BY <1>9 DEF Dequeue, IInv, InPhase
    <2>2. q' = q - (IF queue[head] = c THEN 1 ELSE 0)
      BY <1>9, DequeueQueuedAt
    <2>3. h' = h + (IF queue[head] = c THEN 1 ELSE 0)
      <3>1. sock[w] # c
        BY <2>1
      <3>2. ASSUME NEW s, sock' = [sock EXCEPT ![w] = s]
            PROVE  h' = h + (IF s = c THEN 1 ELSE 0)
        BY <3>1, <3>2, TakesSocket
      <3>3. QED
        BY <2>1, <3>2
    <2>4. QED
      BY <1>0, <1>9, <2>2, <2>3 DEF Dequeue, acceptor, PlacesOf
  <1>10. ASSUME NEW w \in Worker, Serve(w)
         PROVE  Goal
    <2>1. sock[w] \in Conn /\ sock' = [sock EXCEPT ![w] = None]
      BY <1>10 DEF Serve, IInv, InPhase
    <2>2. q' = q
      BY <1>10, SameRing DEF Serve
    <2>3. h' = h - (IF sock[w] = c THEN 1 ELSE 0)
      <3>1. c # None
        OBVIOUS
      <3>2. QED
        BY <2>1, <3>1, GivesUpSocket
    <2>4. sock[w] = c => h > 0
      <3>1. w \in HeldBy(sock[w])
        BY DEF HeldBy
      <3>2. QED
        BY <1>0, <3>1, PlacesFinite, FS_EmptySet
    <2>5. QED
      BY <1>0, <1>10, <2>2, <2>3, <2>4
      DEF Serve, acceptor, PlacesOf
  <1>11. CASE UNCHANGED vars
    <2>1. q' = q /\ h' = h /\ served' = served
      BY <1>1, <1>11 DEF vars, ring, pool
    <2>2. QED
      BY <1>0, <1>11, <2>1 DEF vars, PlacesOf
  <1>12. QED
    BY <1>2, <1>3, <1>4, <1>5, <1>6, <1>7, <1>8, <1>9, <1>10, <1>11
    DEF Next, Main, Thread, Closed

\* No connection is lost between accept() and closesocket, and none is given
\* to two threads, for every number of threads, slots and connections.
THEOREM NoneLostNoneTwice == Spec => []ExactlyOnePlace
  <1>1. Spec => [](IInv /\ HandInHand /\ ExactlyOnePlace)
    BY InitIInv, NextIInv, InitOnePlace, NextHandInHand,
       NextOnePlace, PTL DEF Spec
  <1>2. QED
    BY <1>1, PTL

-----------------------------------------------------------------------------
(* The shutdown.                                                           *)

\* What main() knows when it enqueues pills and joins: once the first pill is
\* out it has only pills to hand over, it joins after the last of them, and
\* the threads it has joined ended on a pill.
Shutdown ==
  /\ pills > 0 => pending = Pill
  /\ apc \in {"join", "closed"} => pills = MAX_THR
  /\ apc = "closed" => joined = MAX_THR
  /\ \A w \in Worker : w < joined => wpc[w] = "exited"
  /\ \A w \in Worker : wpc[w] = "exited" => sock[w] = Pill

\* Each pill is in the ring or has ended a thread.
PillsCounted == pills = Cardinality(Exited) + Cardinality(QueuedAt(Pill))

\* Behind a pill there are only pills, in the ring and after a thread has
\* ended.
PillsLast ==
  /\ \A i, j \in 1 .. Count :
       i < j /\ Contents[i] = Pill => Contents[j] = Pill
  /\ Exited # {} => \A i \in 1 .. Count : Contents[i] = Pill

SInv ==
  /\ IInv /\ HandInHand /\ ExactlyOnePlace
  /\ Shutdown /\ PillsCounted /\ PillsLast

\* The ended threads can be counted.
LEMMA ExitedFinite == IsFiniteSet(Exited) /\ Cardinality(Exited) \in Nat
  <1>1. IsFiniteSet(Worker)
    BY FS_Interval DEF Worker
  <1>2. IsFiniteSet(Exited)
    BY <1>1, FS_Subset DEF Exited
  <1>3. QED
    BY <1>2, FS_CardinalityType

\* A thread ends by taking a pill, and only so.
LEMMA ExitedChanges ==
  ASSUME IInv, [Next]_vars
  PROVE  /\ head' = head => Exited' = Exited
         /\ \A w \in Worker : Dequeue(w) =>
              IF queue[head] = Pill
              THEN w \notin Exited /\ Exited' = Exited \cup {w}
              ELSE Exited' = Exited
  <1>. wpc \in [Worker -> {"dequeue", "waiting", "serving", "exited"}]
    BY DEF IInv, TypeOK
  <1>1. ASSUME NEW w \in Worker, Dequeue(w), queue[head] = Pill
        PROVE  w \notin Exited /\ Exited' = Exited \cup {w}
    BY <1>1 DEF Dequeue, Exited
  <1>2. ASSUME NEW w \in Worker, Dequeue(w), queue[head] # Pill
        PROVE  Exited' = Exited
    BY <1>2 DEF Dequeue, Exited
  <1>3. ASSUME Signal
        PROVE  Exited' = Exited
    BY <1>3 DEF Signal, Waiting, Exited
  <1>4. ASSUME NEW w \in Worker, wpc[w] # "exited",
               \E x \in {"dequeue", "waiting"} : wpc' = [wpc EXCEPT ![w] = x]
        PROVE  Exited' = Exited
    BY <1>4 DEF Exited
  <1>5. ASSUME UNCHANGED wpc
        PROVE  Exited' = Exited
    BY <1>5 DEF Exited
  <1>6. ASSUME Main \/ UNCHANGED vars
        PROVE  head' = head /\ Exited' = Exited
    BY <1>3, <1>5, <1>6
    DEF Main, Accept, TimedOut, EnqueueRequest, EnqueuePill, EnqueueFull, Store,
        WakeUp, Join, ring, pool, vars
  <1>7. ASSUME NEW w \in Worker, Wait(w) \/ SpuriousWakeUp(w) \/ Serve(w)
        PROVE  head' = head /\ Exited' = Exited
    BY <1>4, <1>7 DEF Wait, SpuriousWakeUp, Serve, ring
  <1>8. ASSUME NEW w \in Worker, Dequeue(w)
        PROVE  head' # head
    BY <1>8 DEF Dequeue, Wrap, IInv, TypeOK, Slot
  <1>9. head' = head => Exited' = Exited
    BY <1>6, <1>7, <1>8 DEF Next, Thread, Closed
  <1>10. QED
    BY <1>1, <1>2, <1>9

\* While main() hands over a connection no pill is in the ring and no thread
\* has ended.
LEMMA BeforePills ==
  ASSUME IInv, Shutdown, PillsCounted, pending \in Conn
  PROVE  Exited = {} /\ QueuedAt(Pill) = {}
  <1>1. pills = 0
    BY DEF Shutdown, IInv, TypeOK
  <1>2. Cardinality(Exited) = 0 /\ Cardinality(QueuedAt(Pill)) = 0
    BY <1>1, ExitedFinite, PlacesFinite DEF PillsCounted
  <1>3. QED
    BY <1>2, ExitedFinite, PlacesFinite, FS_EmptySet

\* Initially no pill is out.
LEMMA InitShutdown == Init => Shutdown /\ PillsCounted /\ PillsLast
  <1>. SUFFICES ASSUME Init
                PROVE  Shutdown /\ PillsCounted /\ PillsLast
    OBVIOUS
  <1>1. Count = 0 /\ Exited = {} /\ QueuedAt(Pill) = {}
    BY DEF Init, Count, Exited, QueuedAt
  <1>2. Shutdown
    BY DEF Init, Shutdown, Worker
  <1>3. PillsCounted
    BY <1>1, FS_EmptySet DEF PillsCounted, Init
  <1>4. PillsLast
    BY <1>1 DEF PillsLast
  <1>5. QED
    BY <1>2, <1>3, <1>4

\* main() and the threads keep to the order of the shutdown.
LEMMA NextShutdown ==
  ASSUME IInv, HandInHand, Shutdown, [Next]_vars
  PROVE  Shutdown'
  <1>. USE DEF Shutdown
  <1>. /\ wpc \in [Worker -> {"dequeue", "waiting", "serving", "exited"}]
       /\ sock \in [Worker -> Job \cup {None}]
       /\ pills \in Nat /\ joined \in Nat
    BY DEF IInv, TypeOK
  <1>1. ASSUME NEW c \in Conn, Accept(c)
        PROVE  Shutdown'
    BY <1>1 DEF Accept, HandInHand, pool
  <1>2. CASE TimedOut
    BY <1>2 DEF TimedOut, pool
  <1>3. ASSUME Signal, UNCHANGED <<sock, joined>>
        PROVE  /\ \A w \in Worker : w < joined' => wpc'[w] = "exited"
               /\ \A w \in Worker : wpc'[w] = "exited" => sock'[w] = Pill
    BY <1>3 DEF Signal, Waiting
  <1>4. CASE EnqueueRequest
    BY <1>3, <1>4 DEF EnqueueRequest, Store
  <1>5. CASE EnqueuePill
    BY <1>3, <1>5 DEF EnqueuePill, Store
  <1>6. CASE EnqueueFull
    BY <1>3, <1>6 DEF EnqueueFull
  <1>7. CASE WakeUp
    BY <1>7 DEF WakeUp, pool
  <1>8. CASE Join
    <2>1. \A w \in Worker : w < joined + 1 => w < joined \/ w = joined
      BY DEF Worker
    <2>2. QED
      BY <1>8, <2>1 DEF Join, pool
  <1>9. ASSUME NEW w \in Worker, Wait(w) \/ SpuriousWakeUp(w)
        PROVE  Shutdown'
    BY <1>9 DEF Wait, SpuriousWakeUp, acceptor
  <1>10. ASSUME NEW w \in Worker, Dequeue(w)
         PROVE  Shutdown'
    BY <1>10 DEF Dequeue, acceptor
  <1>11. ASSUME NEW w \in Worker, Serve(w)
         PROVE  Shutdown'
    BY <1>11 DEF Serve, acceptor
  <1>12. CASE UNCHANGED vars
    BY <1>12 DEF vars
  <1>13. QED
    BY <1>1, <1>2, <1>4, <1>5, <1>6, <1>7, <1>8, <1>9, <1>10, <1>11, <1>12
    DEF Next, Main, Thread, Closed

\* A pill that is stored is counted, and one that is taken ends its thread.
LEMMA NextPillsCounted ==
  ASSUME IInv, PillsCounted, [Next]_vars
  PROVE  PillsCounted'
  <1>. DEFINE e == Cardinality(Exited)
              q == Cardinality(QueuedAt(Pill))
  <1>. USE DEF PillsCounted
  <1>0. e \in Nat /\ q \in Nat /\ pills = e + q
    BY ExitedFinite, PlacesFinite
  <1>1. ASSUME UNCHANGED <<ring, pills>>
        PROVE  PillsCounted'
    <2>1. Exited' = Exited /\ QueuedAt(Pill)' = QueuedAt(Pill)
      BY <1>1, ExitedChanges, SameRing DEF ring
    <2>2. QED
      BY <1>1, <2>1
  <1>2. CASE EnqueueRequest
    <2>1. Exited' = Exited
      BY <1>2, ExitedChanges DEF EnqueueRequest, Store
    <2>2. q' = q
      <3>1. pending \in Job /\ Store(pending) /\ pending # Pill
        BY <1>2 DEF EnqueueRequest, Job
      <3>2. QED
        BY <1>0, <3>1, StoreQueuedAt
    <2>3. QED
      BY <1>0, <1>2, <2>1, <2>2 DEF EnqueueRequest
  <1>3. CASE EnqueuePill
    <2>1. Exited' = Exited
      BY <1>3, ExitedChanges DEF EnqueuePill, Store
    <2>2. q' = q + 1
      <3>1. Pill \in Job /\ Store(Pill)
        BY <1>3 DEF EnqueuePill, Job
      <3>2. QED
        BY <1>0, <3>1, StoreQueuedAt
    <2>3. QED
      BY <1>0, <1>3, <2>1, <2>2 DEF EnqueuePill
  <1>4. ASSUME NEW w \in Worker, Dequeue(w)
        PROVE  PillsCounted'
    <2>1. pills' = pills
      BY <1>4 DEF Dequeue, acceptor
    <2>2. CASE queue[head] = Pill
      <3>1. e' = e + 1
        BY <1>4, <2>2, ExitedChanges, ExitedFinite, FS_AddElement
      <3>2. q' = q - 1
        BY <1>4, <2>2, DequeueQueuedAt
      <3>3. QED
        BY <1>0, <2>1, <3>1, <3>2
    <2>3. CASE queue[head] # Pill
      <3>1. e' = e
        BY <1>4, <2>3, ExitedChanges
      <3>2. q' = q
        BY <1>0, <1>4, <2>3, DequeueQueuedAt
      <3>3. QED
        BY <1>0, <2>1, <3>1, <3>2
    <2>4. QED
      BY <2>2, <2>3
  <1>5. ASSUME NEW c \in Conn, Accept(c)
        PROVE  PillsCounted'
    BY <1>1, <1>5 DEF Accept
  <1>6. CASE TimedOut \/ EnqueueFull \/ WakeUp \/ Join
    BY <1>1, <1>6 DEF TimedOut, EnqueueFull, WakeUp, Join
  <1>7. ASSUME NEW w \in Worker, Wait(w) \/ SpuriousWakeUp(w) \/ Serve(w)
        PROVE  PillsCounted'
    BY <1>1, <1>7 DEF Wait, SpuriousWakeUp, Serve, acceptor
  <1>8. CASE UNCHANGED vars
    BY <1>1, <1>8 DEF vars, ring
  <1>9. QED
    BY <1>2, <1>3, <1>4, <1>5, <1>6, <1>7, <1>8 DEF Next, Main, Thread, Closed

\* Pills go in behind the requests, and the ring keeps the order.
LEMMA NextPillsLast ==
  ASSUME IInv, Shutdown, PillsCounted, PillsLast, [Next]_vars
  PROVE  PillsLast'
  <1>. USE DEF PillsLast
  <1>0. /\ Count \in Nat
        /\ Contents \in Seq(Job) /\ Len(Contents) = Count
    BY CountType, ContentsType
  <1>1. ASSUME UNCHANGED ring
        PROVE  PillsLast'
    <2>1. Exited' = Exited /\ Contents' = Contents /\ Count' = Count
      BY <1>1, ExitedChanges, SameRing DEF ring
    <2>2. QED
      BY <2>1
  <1>2. ASSUME NEW x \in Job, Store(x),
               x = Pill \/ (Exited = {} /\ QueuedAt(Pill) = {})
        PROVE  PillsLast'
    <2>1. Exited' = Exited
      BY <1>2, ExitedChanges DEF Store
    <2>2. /\ Count' = Count + 1
          /\ Contents'[Count + 1] = x
          /\ \A i \in 1 .. Count : Contents'[i] = Contents[i]
      BY <1>0, <1>2, StoreCount, StoreContents
    <2>3. CASE x = Pill
      BY <1>0, <2>1, <2>2, <2>3
    <2>4. CASE x # Pill
      <3>1. \A i \in 1 .. Count + 1 : Contents'[i] # Pill
        BY <1>0, <1>2, <2>2, <2>4 DEF QueuedAt
      <3>2. QED
        BY <1>2, <2>1, <2>2, <2>4, <3>1
    <2>5. QED
      BY <2>3, <2>4
  <1>3. CASE EnqueueRequest
    <2>1. pending \in Job /\ pending \in Conn /\ Store(pending)
      BY <1>3 DEF EnqueueRequest, Job
    <2>2. QED
      BY <1>2, <2>1, BeforePills
  <1>4. CASE EnqueuePill
    BY <1>2, <1>4 DEF EnqueuePill, Job
  <1>5. ASSUME NEW w \in Worker, Dequeue(w)
        PROVE  PillsLast'
    <2>1. Count > 0 /\ Count' = Count - 1 /\ Contents[1] = queue[head]
      <3>1. head # tail
        BY <1>5 DEF Dequeue
      <3>2. Count > 0
        BY <3>1, CountType
      <3>3. QED
        BY <1>0, <1>5, <3>2, DequeueCount, DequeueContents
    <2>2. \A i \in 1 .. Count - 1 : Contents'[i] = Contents[i + 1]
      BY <1>0, <1>5, <2>1, DequeueContents
    <2>3. \A i, j \in 1 .. Count' :
            i < j /\ Contents'[i] = Pill => Contents'[j] = Pill
      BY <1>0, <2>1, <2>2
    <2>4. ASSUME Exited' # {}
          PROVE  \A i \in 1 .. Count' : Contents'[i] = Pill
      <3>1. Exited # {} \/ Contents[1] = Pill
        BY <1>5, <2>1, <2>4, ExitedChanges
      <3>2. \A i \in 2 .. Count : Contents[i] = Pill
        BY <1>0, <3>1
      <3>3. QED
        BY <1>0, <2>1, <2>2, <3>2
    <2>5. QED
      BY <2>3, <2>4
  <1>6. ASSUME NEW c \in Conn, Accept(c)
        PROVE  PillsLast'
    BY <1>1, <1>6 DEF Accept
  <1>7. CASE TimedOut \/ EnqueueFull \/ WakeUp \/ Join
    BY <1>1, <1>7 DEF TimedOut, EnqueueFull, WakeUp, Join
  <1>8. ASSUME NEW w \in Worker, Wait(w) \/ SpuriousWakeUp(w) \/ Serve(w)
        PROVE  PillsLast'
    BY <1>1, <1>8 DEF Wait, SpuriousWakeUp, Serve
  <1>9. CASE UNCHANGED vars
    BY <1>1, <1>9 DEF vars, ring
  <1>10. QED
    BY <1>3, <1>4, <1>5, <1>6, <1>7, <1>8, <1>9 DEF Next, Main, Thread, Closed

\* When main() has joined every thread, the pills are all taken, nothing is
\* behind them, and the connections can only be among those served.
LEMMA Drained ==
  ASSUME SInv
  PROVE  ShutdownDrains
  <1>. USE DEF SInv
  <1>1. pills = Cardinality(Exited) + Cardinality(QueuedAt(Pill))
    BY DEF PillsCounted
  <1>2. Exited # {} => \A i \in 1 .. Count : Contents[i] = Pill
    BY DEF PillsLast
  <1>3. ASSUME apc = "closed"
        PROVE  Exited = Worker /\ Count = 0 /\ served = accepted
    <2>1. /\ joined = MAX_THR /\ pills = MAX_THR /\ pending = Pill
          /\ \A w \in Worker : wpc[w] = "exited" /\ sock[w] = Pill
      BY <1>3 DEF Shutdown, Worker
    <2>2. Exited = Worker /\ Worker # {}
      BY <2>1 DEF Exited, Worker
    <2>3. Cardinality(Exited) = MAX_THR
      BY <2>2, FS_Interval DEF Worker
    <2>4. QueuedAt(Pill) = {}
      <3>1. Cardinality(QueuedAt(Pill)) = 0
        BY <1>1, <2>1, <2>3, PlacesFinite
      <3>2. QED
        BY <3>1, PlacesFinite, FS_EmptySet
    <2>5. Count = 0
      <3>1. 1 \notin 1 .. Count
        BY <1>2, <2>2, <2>4 DEF QueuedAt
      <3>2. QED
        BY <3>1, CountType
    <2>6. ASSUME NEW c \in Conn
          PROVE  c \in served <=> c \in accepted
      <3>1. pending # c
        BY <2>1
      <3>2. QueuedAt(c) = {} /\ HeldBy(c) = {}
        BY <2>1, <2>5 DEF QueuedAt, HeldBy
      <3>3. (IF c \in served THEN 1 ELSE 0) = IF c \in accepted THEN 1 ELSE 0
        <4>1. PlacesOf(c) = IF c \in accepted THEN 1 ELSE 0
          BY DEF ExactlyOnePlace
        <4>2. PlacesOf(c) = IF c \in served THEN 1 ELSE 0
          BY <3>1, <3>2, FS_EmptySet DEF PlacesOf
        <4>3. QED
          BY <4>1, <4>2
      <3>4. QED
        BY <3>3
    <2>7. served \in SUBSET Conn /\ accepted \in SUBSET Conn
      BY DEF IInv, TypeOK
    <2>8. QED
      BY <2>2, <2>5, <2>6, <2>7
  <1>4. QED
    BY <1>1, <1>2, <1>3 DEF ShutdownDrains

\* The pool shuts down in order, for every number of threads and slots: a
\* thread ends only after every request was taken, and when main() destroys
\* the mutex no thread runs and every accepted connection was served.
THEOREM ShutdownIsClean == Spec => []ShutdownDrains
  <1>1. Spec => []SInv
    BY InitIInv, NextIInv, InitOnePlace, NextHandInHand, NextOnePlace,
       InitShutdown, NextShutdown, NextPillsCounted, NextPillsLast, PTL
    DEF Spec, SInv
  <1>2. QED
    BY <1>1, Drained, PTL

=============================================================================
