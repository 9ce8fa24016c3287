----------------------------- MODULE AsyncQueue -----------------------------
(***************************************************************************)
(* How native threads get work done on the JavaScript thread:              *)
(* agora_node_ext/node_async_queue.h.  async_call pushes a task under the  *)
(* queue's mutex and then calls uv_async_send; the event loop calls        *)
(* on_event, which takes one task at a time and runs it with the mutex     *)
(* released.  Events of the engine and flushed frames all go this way.     *)
(*                                                                         *)
(* libuv promises little: sends before the callback starts are merged into *)
(* one callback.  A task pushed while on_event is about to end has only    *)
(* its own send to rely on.                                                *)
(*                                                                         *)
(* The only queue is that of node_async_call, which is never closed,       *)
(* cleared or given a capacity.                                            *)
(***************************************************************************)
EXTENDS Naturals, Sequences, FiniteSets, Functions

CONSTANTS
  Producers,  \* the threads that call async_call
  MaxCalls,   \* bound: how often each of them does
  NoTask      \* stands for no task

Tasks == Producers \X (1 .. MaxCalls)

ASSUME QueueAssumption ==
  IsFiniteSet(Producers) /\ MaxCalls \in Nat /\ NoTask \notin Tasks

VARIABLES
  queue,     \* q_
  pending,   \* the uv_async_t has a send its callback has not begun for
  pc,        \* each producer: "idle", or "send" between push and uv_async_send
  calls,     \* how often each producer called async_call
  loop,      \* the event loop: "poll", "drain" (on_event will look at q_), "run"
  task,      \* the task on_event runs
  accepted,  \* history: the tasks pushed
  ran        \* history: the tasks run, in order

vars == <<queue, pending, pc, calls, loop, task, accepted, ran>>

Init ==
  /\ queue = <<>>
  /\ pending = FALSE
  /\ pc = [p \in Producers |-> "idle"]
  /\ calls = [p \in Producers |-> 0]
  /\ loop = "poll"
  /\ task = NoTask
  /\ accepted = {}
  /\ ran = <<>>

\* Mutant of Push: the new task goes first.
PushFront(p) ==
  /\ pc[p] = "idle" /\ calls[p] < MaxCalls
  /\ calls' = [calls EXCEPT ![p] = @ + 1]
  /\ queue' = <<<<p, calls[p] + 1>>>> \o queue
  /\ accepted' = accepted \cup {<<p, calls[p] + 1>>}
  /\ pc' = [pc EXCEPT ![p] = "send"]
  /\ UNCHANGED <<pending, loop, task, ran>>

\* async_call pushes the task ...
Push(p) ==
  /\ pc[p] = "idle" /\ calls[p] < MaxCalls
  /\ calls' = [calls EXCEPT ![p] = @ + 1]
  /\ queue' = Append(queue, <<p, calls[p] + 1>>)
  /\ accepted' = accepted \cup {<<p, calls[p] + 1>>}
  /\ pc' = [pc EXCEPT ![p] = "send"]
  /\ UNCHANGED <<pending, loop, task, ran>>

\* Mutant of AsyncSend: only the first task of the queue wakes the loop.
AsyncSendIfFirst(p) ==
  /\ pc[p] = "send"
  /\ pending' = (pending \/ Len(queue) <= 1)
  /\ pc' = [pc EXCEPT ![p] = "idle"]
  /\ UNCHANGED <<queue, calls, loop, task, accepted, ran>>

\* ... and then wakes the event loop.
AsyncSend(p) ==
  /\ pc[p] = "send"
  /\ pending' = TRUE
  /\ pc' = [pc EXCEPT ![p] = "idle"]
  /\ UNCHANGED <<queue, calls, loop, task, accepted, ran>>

\* libuv forgets the sends so far and calls on_event.
Wake ==
  /\ loop = "poll"
  /\ pending
  /\ pending' = FALSE
  /\ loop' = "drain"
  /\ UNCHANGED <<queue, pc, calls, task, accepted, ran>>

\* on_event takes the first task and releases lock_ ...
Take ==
  /\ loop = "drain"
  /\ queue # <<>>
  /\ task' = Head(queue)
  /\ queue' = Tail(queue)
  /\ loop' = "run"
  /\ UNCHANGED <<pending, pc, calls, accepted, ran>>

\* Mutant of Run: on_event takes one task each time libuv calls it.
RunOnlyOne ==
  /\ loop = "run"
  /\ ran' = Append(ran, task)
  /\ task' = NoTask
  /\ loop' = "poll"
  /\ UNCHANGED <<queue, pending, pc, calls, accepted>>

\* ... runs it, and locks again.
Run ==
  /\ loop = "run"
  /\ ran' = Append(ran, task)
  /\ task' = NoTask
  /\ loop' = "drain"
  /\ UNCHANGED <<queue, pending, pc, calls, accepted>>

Drained ==
  /\ loop = "drain"
  /\ queue = <<>>
  /\ loop' = "poll"
  /\ UNCHANGED <<queue, pending, pc, calls, task, accepted, ran>>

LoopStep == Wake \/ Take \/ Run \/ Drained

Next == LoopStep \/ \E p \in Producers : Push(p) \/ AsyncSend(p)

\* The event loop runs, and a call of async_call ends.  Nobody has to call it.
Fairness ==
  /\ WF_vars(LoopStep)
  /\ \A p \in Producers : WF_vars(AsyncSend(p))

Spec == Init /\ [][Next]_vars

FairSpec == Spec /\ Fairness

----------------------------------------------------------------------------
(* Properties *)

TypeOK ==
  /\ queue \in Seq(Tasks)
  /\ pending \in BOOLEAN
  /\ pc \in [Producers -> {"idle", "send"}]
  /\ calls \in [Producers -> 0 .. MaxCalls]
  /\ loop \in {"poll", "drain", "run"}
  /\ task \in Tasks \cup {NoTask}
  /\ accepted \subseteq Tasks
  /\ ran \in Seq(Tasks)

\* A task in the queue is never forgotten: on_event is under way, or libuv will
\* call it again, or the task's producer has still to call uv_async_send.
NoLostWakeup ==
  queue # <<>> => loop # "poll" \/ pending \/ \E p \in Producers : pc[p] = "send"

\* Tasks run once each, in the order of their pushes: the order the engine
\* reports its events in is the order JavaScript sees.  on_event's own task is
\* the first of the queue until it has run.
Fifo ==
  INSTANCE BoundedFifo WITH
    Msgs <- Tasks, Capacity <- Cardinality(Tasks), received <- ran,
    queue <- IF loop = "run" THEN <<task>> \o queue ELSE queue

FifoSpec == Fifo!Spec

\* Every task that is pushed runs.
EveryTaskRuns == \A t \in Tasks : t \in accepted ~> t \in Range(ran)

=============================================================================
