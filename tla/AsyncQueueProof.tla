--------------------------- MODULE AsyncQueueProof ---------------------------
(***************************************************************************)
(* Proofs about AsyncQueue for every set of producers and number of calls: *)
(* no task is left in the queue without a wake-up on its way, and tasks    *)
(* run once each in the order they were pushed.                            *)
(***************************************************************************)
EXTENDS AsyncQueue, FiniteSetTheorems, SequenceTheorems, TLAPS

\* Type correctness is inductive, with the task of on_event present exactly
\* while it runs and the calls of each producer being what was accepted.
Counted ==
  /\ loop = "run" <=> task # NoTask
  /\ \A p \in Producers, n \in 1 .. MaxCalls : <<p, n>> \in accepted <=> n <= calls[p]

TypeInv == TypeOK /\ Counted

\* The next task of a producer is a task, and a new one.
LEMMA NextTask ==
  ASSUME TypeInv, NEW p \in Producers, calls[p] < MaxCalls
  PROVE  /\ <<p, calls[p] + 1>> \in Tasks
         /\ <<p, calls[p] + 1>> \notin accepted
BY QueueAssumption DEF TypeInv, TypeOK, Counted, Tasks

LEMMA TypeInductive ==
  /\ Init => TypeInv
  /\ TypeInv /\ [Next]_vars => TypeInv'
<1> USE QueueAssumption DEF TypeInv
<1>1. Init => TypeInv
  <2>1. Init => TypeOK
    <3>1. <<>> \in Seq(Tasks)
      OBVIOUS
    <3>2. Init => calls \in [Producers -> 0 .. MaxCalls]
      BY DEF Init
    <3> QED BY <3>1, <3>2 DEF Init, TypeOK
  <2>2. Init => Counted
    BY DEF Init, Counted
  <2> QED BY <2>1, <2>2
<1>2. ASSUME TypeInv, [Next]_vars
      PROVE  TypeInv'
  <2> USE <1>2 DEF TypeOK, Counted
  <2>1. ASSUME NEW p \in Producers, Push(p)
        PROVE  TypeInv'
    <3>1. <<p, calls[p] + 1>> \in Tasks
      BY <2>1, NextTask DEF Push
    <3>2. TypeOK'
      <4>1. queue' \in Seq(Tasks)
        BY <2>1, <3>1, AppendProperties DEF Push
      <4>2. calls' \in [Producers -> 0 .. MaxCalls]
        BY <2>1 DEF Push
      <4> QED BY <2>1, <3>1, <4>1, <4>2 DEF Push
    <3>3. ASSUME NEW q \in Producers, NEW n \in 1 .. MaxCalls
          PROVE  (<<q, n>> \in accepted <=> n <= calls[q])'
      BY <2>1, <3>3 DEF Push
    <3> QED BY <2>1, <3>2, <3>3 DEF Push
  <2>2. ASSUME NEW p \in Producers, AsyncSend(p)
        PROVE  TypeInv'
    BY <2>2 DEF AsyncSend
  <2>3. CASE Wake
    BY <2>3 DEF Wake
  <2>4. CASE Take
    <3>1. Head(queue) \in Tasks /\ Tail(queue) \in Seq(Tasks)
      BY <2>4, HeadTailProperties DEF Take
    <3>2. Head(queue) # NoTask
      BY <3>1
    <3> QED BY <2>4, <3>1, <3>2 DEF Take
  <2>5. CASE Run
    <3>1. task \in Tasks
      BY <2>5 DEF Run
    <3> QED BY <2>5, <3>1 DEF Run
  <2>6. CASE Drained
    BY <2>6 DEF Drained
  <2>7. CASE UNCHANGED vars
    BY <2>7 DEF vars
  <2> QED BY <2>1, <2>2, <2>3, <2>4, <2>5, <2>6, <2>7 DEF Next, LoopStep
<1> QED BY <1>1, <1>2

\* The types of AsyncQueue's variables: TypeOK of every behaviour.
THEOREM TypeCorrect == Spec => []TypeOK
<1>1. Spec => []TypeInv
  BY TypeInductive, PTL DEF Spec
<1>2. TypeInv => TypeOK
  BY DEF TypeInv
<1> QED BY <1>1, <1>2, PTL

-----------------------------------------------------------------------------

\* async_call's send after its push, and on_event's loop until the queue is
\* empty, leave no task behind without a wake-up.
THEOREM NoLostWakeupHolds == Spec => []NoLostWakeup
<1>1. Init => NoLostWakeup
  BY DEF Init, NoLostWakeup
<1>2. ASSUME TypeInv, NoLostWakeup, [Next]_vars
      PROVE  NoLostWakeup'
  <2> USE <1>2 DEF NoLostWakeup, TypeInv, TypeOK
  <2>1. ASSUME NEW p \in Producers, Push(p)
        PROVE  NoLostWakeup'
    BY <2>1 DEF Push
  <2>2. ASSUME NEW p \in Producers, AsyncSend(p)
        PROVE  NoLostWakeup'
    BY <2>2 DEF AsyncSend
  <2>3. CASE LoopStep
    BY <2>3 DEF LoopStep, Wake, Take, Run, Drained
  <2>4. CASE UNCHANGED vars
    BY <2>4 DEF vars
  <2> QED BY <2>1, <2>2, <2>3, <2>4 DEF Next
<1> QED BY <1>1, <1>2, TypeInductive, PTL DEF Spec

-----------------------------------------------------------------------------

\* The queue as BoundedFifo sees it: with the task that on_event runs.
Waiting == IF loop = "run" THEN <<task>> \o queue ELSE queue

\* What was accepted waits or has run.  It bounds the queue by the tasks.
NoneMissing ==
  /\ IsFiniteSet(accepted)
  /\ Cardinality(accepted) = Len(Waiting) + Len(ran)

FifoInv == TypeInv /\ NoneMissing

LEMMA TasksFinite == IsFiniteSet(Tasks)
<1>1. IsFiniteSet(1 .. MaxCalls)
  BY QueueAssumption, FS_Interval
<1> QED BY <1>1, QueueAssumption, FS_Product DEF Tasks

\* A task waits in sequence, whether on_event runs one or not.
LEMMA WaitingType ==
  ASSUME TypeInv
  PROVE  Waiting \in Seq(Tasks)
BY DEF TypeInv, TypeOK, Counted, Waiting

\* Each step of the queue is a step of BoundedFifo, or hidden from it.
LEMMA PushPuts ==
  ASSUME FifoInv, NEW p \in Producers, Push(p)
  PROVE  /\ Fifo!Put(<<p, calls[p] + 1>>)
         /\ NoneMissing'
<1> DEFINE t == <<p, calls[p] + 1>>
<1>1. t \in Tasks /\ t \notin accepted
  BY NextTask DEF FifoInv, Push
<1>2. Waiting \in Seq(Tasks) /\ Waiting' = Append(Waiting, t)
  BY <1>1, WaitingType DEF FifoInv, TypeInv, TypeOK, Counted, Waiting, Push
<1>3. accepted' = accepted \cup {t}
  BY DEF Push
<1>4. /\ IsFiniteSet(accepted')
      /\ Cardinality(accepted') = Cardinality(accepted) + 1
  BY <1>1, <1>3, FS_AddElement DEF FifoInv, NoneMissing
<1>5. Cardinality(accepted') <= Cardinality(Tasks)
  <2>1. accepted' \subseteq Tasks
    BY <1>1, <1>3 DEF FifoInv, TypeInv, TypeOK
  <2> QED BY <2>1, TasksFinite, FS_Subset
<1>6. Len(Waiting) \in Nat /\ Len(ran) \in Nat /\ Len(Waiting') = Len(Waiting) + 1
  BY <1>1, <1>2 DEF FifoInv, TypeInv, TypeOK
<1>7. ran' = ran
  BY DEF Push
<1>8. Cardinality(Tasks) \in Nat
  BY TasksFinite, FS_CardinalityType
<1>9. Len(Waiting) < Cardinality(Tasks)
  BY <1>4, <1>5, <1>6, <1>8 DEF FifoInv, NoneMissing
<1>10. Fifo!Put(t)
  BY <1>1, <1>2, <1>3, <1>7, <1>9 DEF Fifo!Put, Waiting
<1>11. NoneMissing'
  BY <1>4, <1>6, <1>7 DEF FifoInv, NoneMissing
<1> QED BY <1>10, <1>11

LEMMA RunGets ==
  ASSUME FifoInv, Run
  PROVE  /\ Fifo!Get
         /\ NoneMissing'
<1> USE DEF FifoInv, TypeInv, TypeOK, Counted, Run
<1>1. task \in Tasks /\ Waiting = <<task>> \o queue /\ Waiting' = queue
  BY DEF Waiting
<1>2. Waiting # <<>> /\ Head(Waiting) = task /\ Tail(Waiting) = queue
  BY <1>1
<1>3. Len(Waiting) = Len(queue) + 1 /\ Len(ran') = Len(ran) + 1
  BY <1>1
<1>4. NoneMissing'
  BY <1>1, <1>3 DEF NoneMissing
<1> QED BY <1>1, <1>2, <1>4 DEF Fifo!Get, Waiting

LEMMA TakeHides ==
  ASSUME TypeInv, Take
  PROVE  Waiting' = Waiting
<1> USE DEF TypeInv, TypeOK, Counted, Take
<1>1. queue = <<Head(queue)>> \o Tail(queue)
  OBVIOUS
<1> QED BY <1>1 DEF Waiting

\* The queue runs its tasks once each and in the order of their pushes, for
\* every set of producers: AsyncQueue implements BoundedFifo.
THEOREM ImplementsFifo == Spec => FifoSpec
<1>1. Init => Fifo!Init /\ FifoInv
  <2>1. Init => TypeInv
    BY TypeInductive
  <2>2. Init => Fifo!Init
    BY DEF Init, Fifo!Init
  <2>3. Init => NoneMissing
    BY FS_EmptySet DEF Init, NoneMissing, Waiting
  <2> QED BY <2>1, <2>2, <2>3 DEF FifoInv
<1>2. ASSUME FifoInv, [Next]_vars
      PROVE  /\ [Fifo!Next]_<<Waiting, accepted, ran>>
             /\ FifoInv'
  <2>0. TypeInv'
    BY <1>2, TypeInductive DEF FifoInv
  <2>1. ASSUME NEW p \in Producers, Push(p)
        PROVE  Fifo!Next /\ NoneMissing'
    <3>1. <<p, calls[p] + 1>> \in Tasks
      BY <1>2, <2>1, NextTask DEF FifoInv, Push
    <3> QED BY <1>2, <2>1, <3>1, PushPuts DEF Fifo!Next
  <2>2. CASE Run
    BY <1>2, <2>0, <2>2, RunGets DEF Fifo!Next, FifoInv
  <2>3. CASE Take
    <3>1. accepted' = accepted /\ ran' = ran
      BY <2>3 DEF Take
    <3> QED BY <1>2, <2>0, <2>3, <3>1, TakeHides DEF FifoInv, NoneMissing
  <2>4. CASE Wake \/ Drained \/ (\E p \in Producers : AsyncSend(p)) \/ UNCHANGED vars
    <3>1. Waiting' = Waiting /\ accepted' = accepted /\ ran' = ran
      BY <1>2, <2>4 DEF FifoInv, TypeInv, TypeOK, Counted, Waiting, Wake, Drained,
                       AsyncSend, vars
    <3> QED BY <1>2, <2>0, <3>1 DEF FifoInv, NoneMissing
  <2> QED BY <1>2, <2>0, <2>1, <2>2, <2>3, <2>4 DEF Next, LoopStep, FifoInv
<1> QED BY <1>1, <1>2, PTL DEF Spec, FifoSpec, Fifo!Spec, Waiting

=============================================================================
