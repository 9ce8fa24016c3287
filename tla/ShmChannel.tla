----------------------------- MODULE ShmChannel -----------------------------
(***************************************************************************)
(* One channel of the shared-memory transport that the Electron main       *)
(* process (the sink) and the VideoSource process talk through:            *)
(* common/ipc_shm.h.  A channel is a ring of BlockNum blocks, each with a  *)
(* test-and-set lock and a data_available flag.  A write draws a ticket,   *)
(* takes the lock of the ticket's block and waits there for the block to   *)
(* be empty; a read does the same and waits for it to be full.             *)
(*                                                                         *)
(* One action is one access to the shared words `used', `read_opened',     *)
(* `write_opened', `writen_count', `read_count' and `lock', which the two  *)
(* processes touch without any other synchronisation.  What is done under  *)
(* a block's lock is split so that two threads inside it would be seen:    *)
(* a half-written block holds Torn.                                        *)
(*                                                                         *)
(* The callers are those of common/video_source_ipc.cpp: threads that call *)
(* write once per message and ignore its result, and one thread that calls *)
(* read until it fails.  Every read passes a buffer of a whole block, so a *)
(* read always takes all of `amount'.                                      *)
(***************************************************************************)
EXTENDS Integers, Sequences, FiniteSets, Functions

CONSTANTS
  Writers,         \* the threads that write to the channel
  Reader,          \* the thread that reads it
  BlockNum,        \* BLOCK_NUM: 10 for messages, 1 for video frames
  MaxMsgs,         \* bound: how often each writer calls write
  SelfClosing,     \* ends closed by the thread that uses them, between calls
  AllowForceStop,  \* whether force_stop_channel may be called
  Torn             \* the content of a block while memcpy runs

Threads == Writers \cup {Reader}
Blocks == 0 .. BlockNum - 1
Ends == {"read", "write"}
Msgs == Writers \X (1 .. MaxMsgs)

ASSUME ChannelAssumption ==
  /\ BlockNum \in Nat \ {0}
  /\ MaxMsgs \in Nat
  /\ Writers # {} /\ IsFiniteSet(Writers)
  /\ Reader \notin Writers
  /\ SelfClosing \subseteq Ends
  /\ AllowForceStop \in BOOLEAN
  /\ Torn \notin Msgs

VARIABLES
  used,         \* channel->used
  opened,       \* channel->read_opened and channel->write_opened
  writenCount,  \* channel->writen_count
  readCount,    \* channel->read_count
  lock,         \* block->lock
  data,         \* block->data_available
  buf,          \* block->buf: a message, or Torn
  pc,           \* where each thread is in write or read
  idx,          \* each thread's block: its ticket modulo BLOCK_NUM
  sent,         \* how many times each writer has called write
  got,          \* the reader's buffer
  endPc,        \* progress of open_channel and close_channel at each end
  stopPc,       \* progress of force_stop_channel
  accepted,     \* history: messages whose write stored them
  received      \* history: messages returned by read, in order

channelVars == <<used, opened, writenCount, readCount>>
blockVars == <<lock, data, buf>>
endVars == <<endPc, stopPc>>
histVars == <<accepted, received>>
vars == <<used, opened, writenCount, readCount, lock, data, buf, pc, idx,
          sent, got, endPc, stopPc, accepted, received>>

PcNames == {"idle", "ticket", "lock", "recheck", "checkOpen",
            "checkState", "copy", "publish", "unlock", "fail", "done"}

\* A thread that has test-and-set its block's lock from 0 to 1 and has
\* neither released it nor returned.
Holding == {"recheck", "checkOpen", "checkState", "copy", "publish", "unlock"}

EndPcNames == {"fresh", "opening", "open", "cleared", "retiring", "closed"}

EndOf(t) == IF t = Reader THEN "read" ELSE "write"

\* The value of data_available a thread waits for.
Wanted(t) == IF t = Reader THEN 1 ELSE 0

\* The message a writer is writing: write is called once per message.
MsgOf(w) == <<w, sent[w]>>

\* Both callers use an end only after opening it.
Usable(e) == endPc[e] \notin {"fresh", "opening"}

Init ==
  /\ used = 0
  /\ opened = [e \in Ends |-> 0]
  /\ writenCount = 0
  /\ readCount = 0
  /\ lock = [b \in Blocks |-> 0]
  /\ data = [b \in Blocks |-> 0]
  /\ buf = [b \in Blocks |-> Torn]
  /\ pc = [t \in Threads |-> "idle"]
  /\ idx = [t \in Threads |-> 0]
  /\ sent = [w \in Writers |-> 0]
  /\ got = Torn
  /\ endPc = [e \in Ends |-> "fresh"]
  /\ stopPc = "idle"
  /\ accepted = {}
  /\ received = <<>>

----------------------------------------------------------------------------
(***************************************************************************)
(* Opening and closing.  Each end is opened once, by the process that owns *)
(* it, and closed at most once, by any thread of that process.             *)
(***************************************************************************)

\* open_channel up to the flag of its mode ...
OpenFlag(e) ==
  /\ endPc[e] = "fresh"
  /\ opened[e] = 0
  /\ opened' = [opened EXCEPT ![e] = 1]
  /\ endPc' = [endPc EXCEPT ![e] = "opening"]
  /\ UNCHANGED <<used, writenCount, readCount, blockVars, pc, idx, sent, got,
                 stopPc, histVars>>

\* ... and then `used'.
OpenUsed(e) ==
  /\ endPc[e] = "opening"
  /\ used' = 1
  /\ endPc' = [endPc EXCEPT ![e] = "open"]
  /\ UNCHANGED <<opened, writenCount, readCount, blockVars, pc, idx, sent, got,
                 stopPc, histVars>>

\* The threads of an end that closes itself are between two calls.
MayClose(e) ==
  e \in SelfClosing => \A t \in Threads : EndOf(t) = e => pc[t] \in {"idle", "done"}

\* close_channel clears the flag of its mode ...
CloseFlag(e) ==
  /\ endPc[e] = "open"
  /\ MayClose(e)
  /\ opened' = [opened EXCEPT ![e] = 0]
  /\ endPc' = [endPc EXCEPT ![e] = IF opened[e] = 0 THEN "closed" ELSE "cleared"]
  /\ UNCHANGED <<used, writenCount, readCount, blockVars, pc, idx, sent, got,
                 stopPc, histVars>>

\* Mutant of CloseTest: one clear flag is enough.
CloseTestEither(e) ==
  /\ endPc[e] = "cleared"
  /\ endPc' = [endPc EXCEPT ![e] =
                 IF \E f \in Ends : opened[f] = 0 THEN "retiring" ELSE "closed"]
  /\ UNCHANGED <<channelVars, blockVars, pc, idx, sent, got, stopPc, histVars>>

\* ... looks at both flags ...
CloseTest(e) ==
  /\ endPc[e] = "cleared"
  /\ endPc' = [endPc EXCEPT ![e] =
                 IF \A f \in Ends : opened[f] = 0 THEN "retiring" ELSE "closed"]
  /\ UNCHANGED <<channelVars, blockVars, pc, idx, sent, got, stopPc, histVars>>

\* ... and, when both are clear, clears `used'.
CloseUsed(e) ==
  /\ endPc[e] = "retiring"
  /\ used' = 0
  /\ endPc' = [endPc EXCEPT ![e] = "closed"]
  /\ UNCHANGED <<opened, writenCount, readCount, blockVars, pc, idx, sent, got,
                 stopPc, histVars>>

\* force_stop_channel clears read_opened, write_opened and used in turn.
ForceStop ==
  /\ AllowForceStop
  /\ \/ /\ stopPc = "idle" /\ Usable("read") /\ Usable("write")
        /\ opened' = [opened EXCEPT !["read"] = 0]
        /\ stopPc' = "write"
        /\ UNCHANGED used
     \/ /\ stopPc = "write"
        /\ opened' = [opened EXCEPT !["write"] = 0]
        /\ stopPc' = "used"
        /\ UNCHANGED used
     \/ /\ stopPc = "used"
        /\ used' = 0
        /\ stopPc' = "done"
        /\ UNCHANGED opened
  /\ UNCHANGED <<writenCount, readCount, blockVars, pc, idx, sent, got, endPc,
                 histVars>>

----------------------------------------------------------------------------
(***************************************************************************)
(* write and read.  They share shm_block_lock and                          *)
(* shm_block_wait_for_data_state.                                          *)
(***************************************************************************)

Goto(t, label) == pc' = [pc EXCEPT ![t] = label]

\* The first lines of write: -1 when the channel is not open for writing.
\* The caller drops the message then.
WriteCall(w) ==
  /\ pc[w] = "idle"
  /\ Usable("write")
  /\ sent[w] < MaxMsgs
  /\ sent' = [sent EXCEPT ![w] = @ + 1]
  /\ Goto(w, IF used = 1 /\ opened["write"] = 1 THEN "ticket" ELSE "idle")
  /\ UNCHANGED <<channelVars, blockVars, idx, got, endVars, histVars>>

\* The first lines of read.  The reader's loop ends with the first -1.
ReadCall ==
  /\ pc[Reader] = "idle"
  /\ Usable("read")
  /\ Goto(Reader, IF used = 1 /\ opened["read"] = 1 THEN "ticket" ELSE "done")
  /\ UNCHANGED <<channelVars, blockVars, idx, sent, got, endVars, histVars>>

\* Mutants of WriteTicket: the ticket is not taken modulo BLOCK_NUM, or it is
\* the counter after the addition.
WriteTicketUnwrapped(w) ==
  /\ pc[w] = "ticket"
  /\ idx' = [idx EXCEPT ![w] = writenCount]
  /\ writenCount' = writenCount + 1
  /\ Goto(w, "lock")
  /\ UNCHANGED <<used, opened, readCount, blockVars, sent, got, endVars, histVars>>

WriteTicketAddFirst(w) ==
  /\ pc[w] = "ticket"
  /\ idx' = [idx EXCEPT ![w] = (writenCount + 1) % BlockNum]
  /\ writenCount' = writenCount + 1
  /\ Goto(w, "lock")
  /\ UNCHANGED <<used, opened, readCount, blockVars, sent, got, endVars, histVars>>

\* AtomicFetchAndAdd on the counter, and the block of the ticket.
WriteTicket(w) ==
  /\ pc[w] = "ticket"
  /\ idx' = [idx EXCEPT ![w] = writenCount % BlockNum]
  /\ writenCount' = writenCount + 1
  /\ Goto(w, "lock")
  /\ UNCHANGED <<used, opened, readCount, blockVars, sent, got, endVars, histVars>>

ReadTicket ==
  /\ pc[Reader] = "ticket"
  /\ idx' = [idx EXCEPT ![Reader] = readCount % BlockNum]
  /\ readCount' = readCount + 1
  /\ Goto(Reader, "lock")
  /\ UNCHANGED <<used, opened, writenCount, blockVars, sent, got, endVars, histVars>>

\* Mutant of Acquire: the lock is set without the test.
AcquireUntested(t) ==
  /\ pc[t] = "lock"
  /\ lock' = [lock EXCEPT ![idx[t]] = 1]
  /\ Goto(t, "recheck")
  /\ UNCHANGED <<channelVars, data, buf, idx, sent, got, endVars, histVars>>

\* shm_block_lock's test-and-set finds the lock free ...
Acquire(t) ==
  /\ pc[t] = "lock"
  /\ lock[idx[t]] = 0
  /\ lock' = [lock EXCEPT ![idx[t]] = 1]
  /\ Goto(t, "recheck")
  /\ UNCHANGED <<channelVars, data, buf, idx, sent, got, endVars, histVars>>

\* ... or taken, and returns -1 if `used' is clear.  A try that finds the lock
\* taken and the channel in use changes nothing.
Contend(t) ==
  /\ pc[t] = "lock"
  /\ lock[idx[t]] = 1
  /\ used = 0
  /\ Goto(t, "fail")
  /\ UNCHANGED <<channelVars, blockVars, idx, sent, got, endVars, histVars>>

Release(t) == lock' = [lock EXCEPT ![idx[t]] = 0]

\* shm_block_lock looks at `used' again with the lock, and gives the lock
\* back when the channel is gone.
Recheck(t) ==
  /\ pc[t] = "recheck"
  /\ IF used = 0 THEN Release(t) /\ Goto(t, "fail")
                 ELSE Goto(t, "checkOpen") /\ UNCHANGED lock
  /\ UNCHANGED <<channelVars, data, buf, idx, sent, got, endVars, histVars>>

\* Mutants of CheckOpen: the flags are swapped, or a closed end counts as
\* success.
CheckOpenSwapped(t) ==
  /\ pc[t] = "checkOpen"
  /\ Goto(t, IF \E e \in Ends \ {EndOf(t)} : opened[e] = 0
             THEN "fail" ELSE "checkState")
  /\ UNCHANGED <<channelVars, blockVars, idx, sent, got, endVars, histVars>>

CheckOpenSucceeds(t) ==
  /\ pc[t] = "checkOpen"
  /\ Goto(t, IF opened[EndOf(t)] = 0 THEN "copy" ELSE "checkState")
  /\ UNCHANGED <<channelVars, blockVars, idx, sent, got, endVars, histVars>>

\* shm_block_wait_for_data_state returns -1 when the thread's own end is
\* closed.  It does not give the lock back.
CheckOpen(t) ==
  /\ pc[t] = "checkOpen"
  /\ Goto(t, IF opened[EndOf(t)] = 0 THEN "fail" ELSE "checkState")
  /\ UNCHANGED <<channelVars, blockVars, idx, sent, got, endVars, histVars>>

\* Mutant of CheckState: the lock is given back on success too.
CheckStateUnlocked(t) ==
  /\ pc[t] = "checkState"
  /\ Release(t)
  /\ Goto(t, IF data[idx[t]] = Wanted(t) THEN "copy" ELSE "lock")
  /\ UNCHANGED <<channelVars, data, buf, idx, sent, got, endVars, histVars>>

\* The block is in the state the thread waits for, or the lock is given back
\* and taken again.
CheckState(t) ==
  /\ pc[t] = "checkState"
  /\ IF data[idx[t]] = Wanted(t)
     THEN Goto(t, "copy") /\ UNCHANGED lock
     ELSE Release(t) /\ Goto(t, "lock")
  /\ UNCHANGED <<channelVars, data, buf, idx, sent, got, endVars, histVars>>

WriteCopy(w) ==
  /\ pc[w] = "copy"
  /\ buf' = [buf EXCEPT ![idx[w]] = Torn]
  /\ Goto(w, "publish")
  /\ UNCHANGED <<channelVars, lock, data, idx, sent, got, endVars, histVars>>

\* The end of memcpy, amount and data_available = 1.
WritePublish(w) ==
  /\ pc[w] = "publish"
  /\ buf' = [buf EXCEPT ![idx[w]] = MsgOf(w)]
  /\ data' = [data EXCEPT ![idx[w]] = 1]
  /\ accepted' = accepted \cup {MsgOf(w)}
  /\ Goto(w, "unlock")
  /\ UNCHANGED <<channelVars, lock, idx, sent, got, endVars, received>>

ReadCopy ==
  /\ pc[Reader] = "copy"
  /\ got' = buf[idx[Reader]]
  /\ Goto(Reader, "publish")
  /\ UNCHANGED <<channelVars, blockVars, idx, sent, endVars, histVars>>

\* The block is empty again: data_available = 0.
ReadPublish ==
  /\ pc[Reader] = "publish"
  /\ data' = [data EXCEPT ![idx[Reader]] = 0]
  /\ received' = Append(received, got)
  /\ Goto(Reader, "unlock")
  /\ UNCHANGED <<channelVars, lock, buf, idx, sent, got, endVars, accepted>>

Unlock(t) ==
  /\ pc[t] = "unlock"
  /\ Release(t)
  /\ Goto(t, "idle")
  /\ UNCHANGED <<channelVars, data, buf, idx, sent, got, endVars, histVars>>

\* Mutant of WriteFail: the ticket is not given back.
WriteFailKeepsTicket(w) ==
  /\ pc[w] = "fail"
  /\ Goto(w, "idle")
  /\ UNCHANGED <<channelVars, blockVars, idx, sent, got, endVars, histVars>>

\* write gives its ticket back and returns -1; the message is dropped.
WriteFail(w) ==
  /\ pc[w] = "fail"
  /\ writenCount' = writenCount - 1
  /\ Goto(w, "idle")
  /\ UNCHANGED <<used, opened, readCount, blockVars, idx, sent, got, endVars, histVars>>

\* read gives its ticket back and returns -1, which ends the reader's loop.
ReadFail ==
  /\ pc[Reader] = "fail"
  /\ readCount' = readCount - 1
  /\ Goto(Reader, "done")
  /\ UNCHANGED <<used, opened, writenCount, blockVars, idx, sent, got, endVars, histVars>>

----------------------------------------------------------------------------
EndStep(e) == OpenFlag(e) \/ OpenUsed(e) \/ CloseFlag(e) \/ CloseTest(e) \/ CloseUsed(e)

\* The steps of shm_block_lock and shm_block_wait_for_data_state, and the
\* unlock that ends write and read.
BlockStep(t) ==
  Acquire(t) \/ Contend(t) \/ Recheck(t) \/ CheckOpen(t)
    \/ CheckState(t) \/ Unlock(t)

WriteStep(w) ==
  WriteTicket(w) \/ WriteCopy(w) \/ WritePublish(w) \/ WriteFail(w) \/ BlockStep(w)

ReadStep ==
  ReadCall \/ ReadTicket \/ ReadCopy \/ ReadPublish \/ ReadFail \/ BlockStep(Reader)

Next ==
  \/ \E e \in Ends : EndStep(e)
  \/ ForceStop
  \/ \E w \in Writers : WriteCall(w) \/ WriteStep(w)
  \/ ReadStep

(***************************************************************************)
(* A thread inside a call keeps running, the reader's loop calls read      *)
(* again, and an open_channel or close_channel that began ends.  Nobody    *)
(* has to call write, close or force_stop.  Acquire is strongly fair: the  *)
(* two ends poll with a sleep between tries, so a lock that is free again  *)
(* and again is taken in the end, which is what the comment in             *)
(* shm_block_lock counts on ("we assume the lock test fails quite little").*)
(***************************************************************************)
Fairness ==
  /\ \A w \in Writers : WF_vars(WriteStep(w)) /\ SF_vars(Acquire(w))
  /\ WF_vars(ReadStep) /\ SF_vars(Acquire(Reader))
  /\ \A e \in Ends : WF_vars(OpenUsed(e) \/ CloseTest(e) \/ CloseUsed(e))

Spec == Init /\ [][Next]_vars

FairSpec == Spec /\ Fairness

----------------------------------------------------------------------------
(* Properties *)

TypeOK ==
  /\ used \in {0, 1}
  /\ opened \in [Ends -> {0, 1}]
  /\ writenCount \in Int
  /\ readCount \in Int
  /\ lock \in [Blocks -> {0, 1}]
  /\ data \in [Blocks -> {0, 1}]
  /\ buf \in [Blocks -> Msgs \cup {Torn}]
  /\ pc \in [Threads -> PcNames]
  /\ idx \in [Threads -> Blocks]
  /\ sent \in [Writers -> 0 .. MaxMsgs]
  /\ got \in Msgs \cup {Torn}
  /\ endPc \in [Ends -> EndPcNames]
  /\ stopPc \in {"idle", "write", "used", "done"}
  /\ accepted \subseteq Msgs
  /\ received \in Seq(Msgs \cup {Torn})

Full == {b \in Blocks : data[b] = 1}

\* A block is worked on by one thread at a time, and never without its lock:
\* what read and write count on after shm_block_wait_for_data_state ("we hold
\* the block lock after this function returns success").
BlockExclusion ==
  /\ \A t \in Threads : pc[t] \in Holding => lock[idx[t]] = 1
  /\ \A t, u \in Threads :
       pc[t] \in Holding /\ pc[u] \in Holding /\ idx[t] = idx[u] => t = u

\* No read returns a block that a write has only half filled, and no such
\* block is marked as available.
NoTornRead ==
  /\ \A i \in DOMAIN received : received[i] # Torn
  /\ \A b \in Full : buf[b] # Torn

\* Whatever the interleaving of writers that overtake each other, and of
\* closing ends: a message whose write stored it is in exactly one block, or
\* was returned by exactly one read.
Conservation ==
  /\ accepted = Range(received) \cup {buf[b] : b \in Full}
  /\ Cardinality(accepted) = Len(received) + Cardinality(Full)

HasTicket(t) == pc[t] \in {"lock", "recheck", "checkOpen", "checkState", "copy",
                           "publish", "fail"}

TicketWriters == {w \in Writers : HasTicket(w)}

\* The counters that writers draw tickets from, and failing calls give
\* tickets back to, are the completed calls plus the calls under way: no
\* ticket is lost or drawn twice.
TicketAccounting ==
  /\ writenCount = Cardinality(accepted) + Cardinality(TicketWriters)
  /\ readCount = Len(received) + (IF HasTicket(Reader) THEN 1 ELSE 0)

\* With one writer and one reader the ring is a bounded FIFO.  The queue is
\* the full blocks, read round from the block of the next completed read.
Queue == [i \in 1 .. Cardinality(Full) |->
            buf[(Len(received) + i - 1) % BlockNum]]

Fifo == INSTANCE BoundedFifo WITH Capacity <- BlockNum, queue <- Queue

FifoSpec == Fifo!Spec

\* A message stored while both ends are open is read in the end, unless the
\* reading end is closed.  Closing the writing end is no excuse when the
\* writing thread does it itself, between two calls: this is how DISCONNECT,
\* sent just before close_channel, arrives.
Drains ==
  \A b \in Blocks :
    data[b] = 1 /\ endPc = [e \in Ends |-> "open"]
      ~> \/ data[b] = 0
         \/ opened["read"] = 0
         \/ "write" \notin SelfClosing /\ opened["write"] = 0

\* A read or write under way when its own end is closed returns ("close
\* channel CHANNEL_READ mode will make this return -1 immediately").
CallsReturn ==
  \A t \in Threads :
    (endPc[EndOf(t)] = "closed" /\ opened[EndOf(t)] = 0) ~> pc[t] \in {"idle", "done"}

\* A write that finds its block empty has nothing to wait for and returns,
\* whether or not the reading end is open ("this function will wait until
\* reader pop up some data, no matter read end opened or not").
EmptyBlockWrites ==
  \A w \in Writers : pc[w] = "lock" /\ data[idx[w]] = 0 ~> pc[w] = "idle"

=============================================================================
