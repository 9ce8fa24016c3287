---------------------- MODULE VideoSourceSessionProof ----------------------
(***************************************************************************)
(* Proofs about VideoSourceSession for rings of any size and any number of *)
(* calls, previews and events: the types, whatever dies and whatever       *)
(* JavaScript does; and, when neither process crashes and JavaScript waits *)
(* for its preview calls, that clear runs once, that there is at most one  *)
(* receiver thread, and that release leaves nothing behind.                *)
(***************************************************************************)
EXTENDS VideoSourceSession, SequenceTheorems, FiniteSetTheorems, TLAPS

----------------------------------------------------------------------------
(* Counting messages in a queue *)

Eq(a, b) == IF a = b THEN 1 ELSE 0

Count(q, m) == Cardinality({i \in DOMAIN q : q[i] = m})

LEMMA CountType ==
  ASSUME NEW S, NEW q \in Seq(S), NEW m
  PROVE  /\ IsFiniteSet({i \in DOMAIN q : q[i] = m})
         /\ Count(q, m) \in Nat
         /\ (Count(q, m) = 0) <=> \A i \in DOMAIN q : q[i] # m
<1>1. IsFiniteSet(DOMAIN q)
  BY FS_Interval
<1>2. IsFiniteSet({i \in DOMAIN q : q[i] = m})
  BY <1>1, FS_Subset
<1> QED BY <1>2, FS_CardinalityType, FS_EmptySet DEF Count

LEMMA CountEmpty ==
  ASSUME NEW m
  PROVE  Count(<<>>, m) = 0
BY FS_EmptySet DEF Count

LEMMA CountAppend ==
  ASSUME NEW S, NEW q \in Seq(S), NEW e \in S, NEW m
  PROVE  Count(Append(q, e), m) = Count(q, m) + Eq(e, m)
<1> DEFINE here == {i \in DOMAIN q : q[i] = m}
           there == {i \in DOMAIN Append(q, e) : Append(q, e)[i] = m}
<1>1. IsFiniteSet(here) /\ Cardinality(here) \in Nat
  BY CountType DEF Count
<1>2. Len(q) + 1 \notin here
  OBVIOUS
<1>3. there = here \cup (IF e = m THEN {Len(q) + 1} ELSE {})
  BY AppendProperties
<1>4. Cardinality(there) = Cardinality(here) + Eq(e, m)
  <2> HIDE DEF here, there
  <2>1. CASE e = m
    BY <1>1, <1>2, <1>3, <2>1, FS_AddElement DEF Eq
  <2>2. CASE e # m
    BY <1>1, <1>3, <2>2 DEF Eq
  <2> QED BY <2>1, <2>2
<1> QED BY <1>4 DEF Count

LEMMA CountTail ==
  ASSUME NEW S, NEW q \in Seq(S), q # <<>>, NEW m
  PROVE  Count(q, m) = Count(Tail(q), m) + Eq(Head(q), m)
<1> DEFINE all == {i \in DOMAIN q : q[i] = m}
           rest == {i \in DOMAIN Tail(q) : Tail(q)[i] = m}
           shifted == {i \in all : i # 1}
           shift == [i \in rest |-> i + 1]
<1>1. /\ Tail(q) \in Seq(S) /\ Len(Tail(q)) = Len(q) - 1 /\ Head(q) = q[1]
      /\ \A i \in 1 .. Len(Tail(q)) : Tail(q)[i] = q[i + 1]
  BY HeadTailProperties
<1>2. IsFiniteSet(all) /\ IsFiniteSet(rest)
  BY <1>1, CountType
<1>3. shift \in Bijection(rest, shifted)
  <2>1. shift \in [rest -> shifted]
    BY <1>1
  <2>2. ASSUME NEW i \in rest, NEW k \in rest, shift[i] = shift[k]
        PROVE  i = k
    BY <2>2
  <2>3. ASSUME NEW k \in shifted
        PROVE  \E i \in rest : shift[i] = k
    <3>1. k - 1 \in rest /\ (k - 1) + 1 = k
      BY <1>1, <2>3
    <3> QED BY <3>1
  <2> HIDE DEF shift, rest, shifted
  <2> QED BY <2>1, <2>2, <2>3 DEF Bijection, Injection, IsInjective, Surjection
<1>4. Cardinality(shifted) = Cardinality(rest)
  <2> HIDE DEF shift, rest, shifted
  <2>1. ExistsBijection(rest, shifted)
    BY <1>3 DEF ExistsBijection
  <2>2. IsFiniteSet(shifted)
    BY <1>2, <2>1, FS_Bijection
  <2> QED BY <1>2, <2>1, <2>2, FS_Bijection
<1>5. all = shifted \cup (IF Head(q) = m THEN {1} ELSE {})
  BY <1>1
<1>6. IsFiniteSet(shifted) /\ 1 \notin shifted
  BY <1>2, FS_Subset
<1>7. Cardinality(rest) \in Nat
  BY <1>2, FS_CardinalityType
<1>8. Cardinality(all) = Cardinality(shifted) + Eq(Head(q), m)
  <2> HIDE DEF all, shifted, rest, shift
  <2>1. CASE Head(q) = m
    BY <1>5, <1>6, <2>1, FS_AddElement DEF Eq
  <2>2. CASE Head(q) # m
    BY <1>4, <1>5, <1>7, <2>2 DEF Eq
  <2> QED BY <2>1, <2>2
<1> QED BY <1>4, <1>8 DEF Count

----------------------------------------------------------------------------
(* The type invariant, strengthened *)

Locks == {"free", "lost"} \cup Senders

RingRecords == [q : Seq(Messages), w : BOOLEAN, r : BOOLEAN, lock : Locks]

RingType ==
  /\ ring \in [Rings -> RingRecords]
  /\ \A c \in Rings : Len(ring[c].q) <= RingSize

FrameChannels == [Previews -> [full : BOOLEAN, w : BOOLEAN, r : BOOLEAN, lost : BOOLEAN]]

FrameType == frame \in FrameChannels

SinkType ==
  /\ sinkUp \in BOOLEAN /\ initialized \in BOOLEAN /\ event \in BOOLEAN /\ armed \in BOOLEAN
  /\ receiver \in PreviewRefs
  /\ recv \in [Previews -> [st : {"none", "new", "reading", "done"}, preview : PreviewRefs]]
  /\ made \in PreviewRefs
  /\ old \in [SinkThreads -> PreviewRefs]
  /\ calls \in 0 .. MaxCalls /\ starts \in PreviewRefs

SourceType ==
  /\ src \in {"up", "gone", "crashed"}
  /\ srcInit \in BOOLEAN /\ canvas \in BOOLEAN /\ mutex \in BOOLEAN
  /\ shmName \in PreviewRefs
  /\ sender \in PreviewRefs /\ writing \in PreviewRefs /\ previews \in PreviewRefs
  /\ events \in 0 .. MaxEvents

\* Where each thread can be.
ThreadPc ==
  /\ pc \in [Threads -> PcNames]
  /\ pc["js"] \in {"waiting", "arming", "idle", "unset", "reset", "joinRecv", "send",
                   "closeEvt", "closeCmd", "joinMsg", "released"}
  /\ pc["mon"] \in {"idle", "unset", "reset", "joinRecv", "send", "closeEvt", "closeCmd",
                    "joinMsg", "done"}
  /\ pc["msg"] \in {"read", "renew", "open", "reset", "joinRecv", "done"}
  /\ pc["main"] \in {"connect", "engine", "read", "create", "stopLock", "send"}
  /\ pc["eng"] \in {"idle", "send"}
  /\ pc["ren"] \in {"idle", "write"}

\* What each thread sends.
ThreadOut ==
  /\ out \in [Senders -> Messages]
  /\ pc["mon"] = "send" => out["mon"] = "DISCONNECT"
  /\ pc["eng"] = "send" => out["eng"] = "EVENT"
  /\ pc["js"] = "send" =>
       out["js"] \in {"CMD", "START_PREVIEW", "STOP_PREVIEW", "DISCONNECT"}
  /\ pc["main"] = "send" => out["main"] \in {"SOURCE_READY", "START_COMPLETE", "STOP_COMPLETE"}

\* Messages in a ring or on their way into it.
Sending(t, m) == IF pc[t] = "send" /\ out[t] = m THEN 1 ELSE 0
OnCmd(m) == Count(ring["cmd"].q, m) + Sending("js", m)
OnEvt(m) == Count(ring["evt"].q, m) + Sending("main", m)

Requests == OnCmd("START_PREVIEW") + Eq(pc["main"], "create")
Replies == OnEvt("START_COMPLETE") + Eq(pc["msg"], "renew")

\* Every frame channel and every receiver answers a startPreview of its own.
PreviewCount ==
  /\ previews + Requests <= starts
  /\ made + Requests + Replies <= starts

TypeInv ==
  RingType /\ FrameType /\ SinkType /\ SourceType /\ ThreadPc /\ ThreadOut /\ PreviewCount

LEMMA TypeInvTypes == TypeInv => TypeOK
BY DEF TypeInv, RingType, RingRecords, FrameType, FrameChannels, SinkType, SourceType, ThreadPc,
       ThreadOut, TypeOK, RingOK, Locks, Rings

LEMMA TypeInit == Init => TypeInv
<1> SUFFICES ASSUME Init PROVE TypeInv
  OBVIOUS
<1>1. RingType
  <2>1. <<>> \in Seq(Messages) /\ Len(<<>>) = 0
    BY EmptySeq
  <2> QED BY <2>1, SessionAssumption DEF Init, RingType, RingRecords, Rings, Locks
<1>2. FrameType /\ SinkType /\ SourceType
  <2>1. FrameType
    BY DEF Init, FrameType, FrameChannels
  <2>2. SinkType
    <3>1. 0 \in PreviewRefs /\ 0 \in 0 .. MaxCalls
      BY SessionAssumption DEF PreviewRefs
    <3> QED BY <3>1 DEF Init, SinkType
  <2>3. SourceType
    <3>1. 0 \in PreviewRefs /\ 0 \in 0 .. MaxEvents
      BY SessionAssumption DEF PreviewRefs
    <3> QED BY <3>1 DEF Init, SourceType
  <2> QED BY <2>1, <2>2, <2>3
<1>3. ThreadPc /\ ThreadOut
  BY DEF Init, ThreadPc, ThreadOut, Threads, SinkThreads, SourceThreads, PcNames, Messages,
         Senders
<1>4. PreviewCount
  <2>1. \A c \in Rings, m \in Messages : Count(ring[c].q, m) = 0
    BY CountEmpty DEF Init, Rings
  <2>2. OnCmd("START_PREVIEW") = 0 /\ OnEvt("START_COMPLETE") = 0
    BY <2>1, <1>3 DEF OnCmd, OnEvt, Sending, Eq, Rings, Messages, Init, Threads, SinkThreads,
                      SourceThreads
  <2> QED BY <2>2 DEF PreviewCount, Requests, Replies, Eq, Init, Threads, SinkThreads,
                      SourceThreads
<1> QED BY <1>1, <1>2, <1>3, <1>4 DEF TypeInv

\* The counts are numbers, and one is positive when the thing counted is there.
LEMMA CountFacts ==
  ASSUME RingType
  PROVE  /\ \A m : /\ Count(ring["cmd"].q, m) \in Nat /\ Count(ring["evt"].q, m) \in Nat
                   /\ Sending("js", m) \in {0, 1} /\ Sending("main", m) \in {0, 1}
                   /\ OnCmd(m) \in Nat /\ OnEvt(m) \in Nat
         /\ Requests \in Nat /\ Replies \in Nat
         /\ pc["main"] = "create" => Requests >= 1
         /\ pc["msg"] = "renew" => Replies >= 1
<1>1. ring["cmd"].q \in Seq(Messages) /\ ring["evt"].q \in Seq(Messages)
  BY DEF RingType, RingRecords, Rings
<1>2. \A m : Count(ring["cmd"].q, m) \in Nat /\ Count(ring["evt"].q, m) \in Nat
  BY <1>1, CountType
<1>3. \A m : Sending("js", m) \in {0, 1} /\ Sending("main", m) \in {0, 1}
  BY DEF Sending, Eq
<1>4. \A m : OnCmd(m) \in Nat /\ OnEvt(m) \in Nat
  BY <1>2, <1>3 DEF OnCmd, OnEvt
<1> QED BY <1>2, <1>3, <1>4 DEF Requests, Replies, Eq

\* The message a ring gives its reader is counted.
LEMMA HeadCounted ==
  ASSUME RingType, NEW c \in Rings, ring[c].q # <<>>
  PROVE  Count(ring[c].q, Head(ring[c].q)) >= 1
<1>1. /\ ring[c].q \in Seq(Messages)
      /\ Len(ring[c].q) \in Nat /\ Len(ring[c].q) # 0
      /\ Head(ring[c].q) = ring[c].q[1]
  BY EmptySeq DEF RingType, RingRecords
<1>2. 1 \in DOMAIN ring[c].q
  BY <1>1
<1> DEFINE q == ring[c].q
           m == Head(ring[c].q)
<1>3. q \in Seq(Messages) /\ q[1] = m /\ 1 \in DOMAIN q
  BY <1>1, <1>2
<1> HIDE DEF q, m
<1>4. Count(q, m) \in Nat /\ (Count(q, m) = 0 <=> \A i \in DOMAIN q : q[i] # m)
  BY <1>3, CountType
<1>5. Count(q, m) >= 1
  BY <1>3, <1>4
<1> QED BY <1>5 DEF q, m

----------------------------------------------------------------------------
(* Which steps change what *)

Sends == \E t \in Senders : Deliver(t) \/ DrawLostBlock(t) \/ Drop(t)
Clears ==
  \E t \in Clearers : ClearUnset(t) \/ ClearCloseEvt(t) \/ ClearCloseCmd(t) \/ ClearJoin(t)
Resets == \E t \in SinkThreads : ResetReceiver(t) \/ JoinReceiver(t)
JsCalls ==
  InitReady \/ InitDone \/ InitTimeout \/ Command \/ StartPreview \/ StopPreview \/ ReleaseCall
Listens == MsgRead \/ MsgEnd \/ RenewReceiver \/ OpenReceiver
Receives == \E i \in Previews : TakeFrame(i) \/ ReceiverEnds(i)
MainReads == MainCommand \/ MainStartPreview \/ MainStopPreview \/ MainDisconnect
MainWorks == Connect \/ StartEngine \/ CreateSender \/ FreeSender \/ MainEnd
Renders == EngineEvent \/ BeginFrame \/ EndFrame
SourceDeath == SourceCrash \/ SenderFault
SinkDeath == SinkCrash \/ ReceiverFault

LEMMA NextSteps ==
  ASSUME Next
  PROVE  \/ Sends \/ Clears \/ Resets \/ JsCalls \/ MonitorFires \/ Listens \/ Receives
         \/ MainReads \/ MainWorks \/ Renders \/ SinkMonitorFires
         \/ SourceDeath \/ SinkDeath
BY DEF Next, JsStep, MonStep, MsgStep, RecvStep, MainStep, RenStep, ClearStep, SendStep,
       Sends, Clears, Resets, JsCalls, Listens, Receives, MainReads, MainWorks, Renders,
       SourceDeath, SinkDeath, Senders, Clearers, SinkThreads

LEMMA RingChanges ==
  ASSUME Next
  PROVE  \/ UNCHANGED ring
         \/ \E t \in Senders : Deliver(t) \/ DrawLostBlock(t)
         \/ \E t \in Clearers : ClearCloseEvt(t) \/ ClearCloseCmd(t)
         \/ MsgRead \/ MsgEnd \/ MainReads \/ Connect \/ SinkMonitorFires
         \/ SourceDies \/ SinkDies
BY NextSteps DEF Sends, Clears, Resets, JsCalls, Listens, Receives, MainReads, MainWorks,
  Renders, SourceDeath, SinkDeath,
  Drop, ClearUnset, ClearJoin, ResetReceiver, JoinReceiver, InitReady, InitDone, InitTimeout,
  Command, StartPreview, StopPreview, Call, ReleaseCall, MonitorFires, RenewReceiver, OpenReceiver,
  TakeFrame, ReceiverEnds, StartEngine, CreateSender, FreeSender, MainEnd, EngineEvent,
  BeginFrame, EndFrame, SourceCrash, SenderFault, SinkCrash, ReceiverFault

LEMMA QueueReplaced ==
  ASSUME RingType, NEW c \in Rings, NEW q \in Seq(Messages), Len(q) <= Len(ring[c].q)
  PROVE  LET rg == [ring EXCEPT ![c].q = q] IN
         /\ rg \in [Rings -> RingRecords]
         /\ \A d \in Rings : Len(rg[d].q) <= RingSize
<1>1. Len(q) \in Nat /\ \A d \in Rings : Len(ring[d].q) \in Nat
  BY DEF RingType, RingRecords
<1> QED BY <1>1, SessionAssumption DEF RingType, RingRecords

LEMMA RingTypeStep ==
  ASSUME TypeInv, Next
  PROVE  RingType'
<1> USE DEF TypeInv, RingType, RingRecords, Rings
<1>1. CASE UNCHANGED ring
  BY <1>1
<1>2. ASSUME NEW t \in Senders, Deliver(t)
      PROVE  RingType'
  <2>1. out[t] \in Messages /\ RingOf(t) \in Rings
    BY DEF ThreadOut, RingOf
  <2>2. /\ Append(ring[RingOf(t)].q, out[t]) \in Seq(Messages)
        /\ Len(Append(ring[RingOf(t)].q, out[t])) = Len(ring[RingOf(t)].q) + 1
    BY <2>1, AppendProperties
  <2>3. Len(ring[RingOf(t)].q) + 1 <= RingSize
    BY <1>2, <2>1, SessionAssumption DEF Deliver
  <2> QED BY <1>2, <2>1, <2>2, <2>3 DEF Deliver
<1>3. ASSUME NEW t \in Senders, DrawLostBlock(t)
      PROVE  RingType'
  BY <1>3 DEF DrawLostBlock, RingOf, Locks
<1>4. ASSUME NEW t \in Clearers, ClearCloseEvt(t) \/ ClearCloseCmd(t)
      PROVE  RingType'
  <2>1. CASE ClearCloseEvt(t)
    <3>1. ring' = [ring EXCEPT !["evt"].r = FALSE]
      BY <2>1 DEF ClearCloseEvt, CloseRing
    <3> QED BY <3>1
  <2>2. CASE ClearCloseCmd(t)
    <3>1. ring' = [ring EXCEPT !["cmd"].w = FALSE]
      BY <2>2 DEF ClearCloseCmd, CloseRing
    <3> QED BY <3>1
  <2> QED BY <1>4, <2>1, <2>2
<1>5. CASE MsgRead
  <2>1. /\ Tail(ring["evt"].q) \in Seq(Messages)
        /\ Len(Tail(ring["evt"].q)) = Len(ring["evt"].q) - 1
    BY <1>5, HeadTailProperties DEF MsgRead
  <2>2. Len(Tail(ring["evt"].q)) <= Len(ring["evt"].q)
    BY <2>1
  <2> QED BY <1>5, <2>1, <2>2, QueueReplaced DEF MsgRead
<1>6. CASE MsgEnd
  BY <1>6 DEF MsgEnd, MayLoseLock, Locks
<1>7. CASE MainReads
  <2>1. ring["cmd"].q # <<>>
    BY <1>7 DEF MainReads, MainCommand, MainStartPreview, MainStopPreview, MainDisconnect,
                MainRead
  <2>2. /\ Tail(ring["cmd"].q) \in Seq(Messages)
        /\ Len(Tail(ring["cmd"].q)) = Len(ring["cmd"].q) - 1
    BY <2>1, HeadTailProperties
  <2>3. /\ TakeCmd \in [Rings -> RingRecords]
        /\ \A c \in Rings : Len(TakeCmd[c].q) <= RingSize
    <3>1. Len(Tail(ring["cmd"].q)) <= Len(ring["cmd"].q)
      BY <2>2
    <3> QED BY <2>2, <3>1, QueueReplaced DEF TakeCmd
  <2>4. ring' = TakeCmd \/ ring' = ExitEnds(TakeCmd)
    BY <1>7 DEF MainReads, MainCommand, MainStartPreview, MainStopPreview, MainDisconnect
  <2>5. ASSUME NEW rg \in [Rings -> RingRecords]
        PROVE  /\ ExitEnds(rg) \in [Rings -> RingRecords]
               /\ \A c \in Rings : ExitEnds(rg)[c].q = rg[c].q
    BY DEF ExitEnds
  <2>6. /\ ring' \in [Rings -> RingRecords]
        /\ \A c \in Rings : ring'[c].q = TakeCmd[c].q
    <3> HIDE DEF TakeCmd, Rings, RingRecords, TypeInv, RingType
    <3> QED BY <2>3, <2>4, <2>5
  <2> HIDE DEF TakeCmd, Rings
  <2> QED BY <2>3, <2>6
<1>8. CASE Connect
  BY <1>8 DEF Connect
<1>9. CASE SinkMonitorFires
  BY <1>9 DEF SinkMonitorFires, ExitEnds
<1>10. CASE SourceDies \/ SinkDies
  <2>1. PICK l \in [Rings -> BOOLEAN] :
          ring' = [ring EXCEPT !["cmd"].lock = IF l["cmd"] /\ @ = "free" THEN "lost" ELSE @,
                               !["evt"].lock = IF l["evt"] /\ @ = "free" THEN "lost" ELSE @]
    BY <1>10 DEF SourceDies, SinkDies, LoseLocks
  <2>2. ASSUME NEW c \in Rings
        PROVE  ring'[c].q = ring[c].q /\ ring'[c] \in RingRecords
    BY <2>1 DEF Locks
  <2> QED BY <2>1, <2>2
<1> QED BY <1>1, <1>2, <1>3, <1>4, <1>5, <1>6, <1>7, <1>8, <1>9, <1>10, RingChanges

\* What is written into a frame channel keeps its shape.
LEMMA FrameWrites ==
  ASSUME FrameType, NEW c, NEW x \in BOOLEAN
  PROVE  /\ [frame EXCEPT ![c].full = x] \in FrameChannels
         /\ [frame EXCEPT ![c].w = x] \in FrameChannels
         /\ [frame EXCEPT ![c].r = x] \in FrameChannels
         /\ [frame EXCEPT ![c].lost = x] \in FrameChannels
         /\ [frame EXCEPT ![c].lost = @ \/ x] \in FrameChannels
<1> USE DEF FrameType, FrameChannels
<1>1. [frame EXCEPT ![c].full = x] \in FrameChannels
  OBVIOUS
<1>2. [frame EXCEPT ![c].w = x] \in FrameChannels
  OBVIOUS
<1>3. [frame EXCEPT ![c].r = x] \in FrameChannels
  OBVIOUS
<1>4. [frame EXCEPT ![c].lost = x] \in FrameChannels
  OBVIOUS
<1>5. [frame EXCEPT ![c].lost = @ \/ x] \in FrameChannels
  <2>1. CASE c \in Previews
    <3>1. (frame[c].lost \/ x) \in BOOLEAN
      OBVIOUS
    <3> QED BY <2>1, <3>1
  <2>2. CASE c \notin Previews
    BY <2>2
  <2> QED BY <2>1, <2>2
<1> QED BY <1>1, <1>2, <1>3, <1>4, <1>5

LEMMA FrameTypeStep ==
  ASSUME TypeInv, Next
  PROVE  FrameType'
<1>0. FrameType
  BY DEF TypeInv
<1> SUFFICES frame' \in FrameChannels
  BY DEF FrameType
<1>1. CASE frame' = frame
  BY <1>0, <1>1 DEF FrameType
<1>2. CASE frame' = SenderGone
  BY <1>0, <1>2, FrameWrites DEF SenderGone, FrameType
<1>3. CASE Resets \/ RenewReceiver
  <2>1. frame' = frame \/ frame' = [frame EXCEPT ![recv[receiver].preview].r = FALSE]
    BY <1>3 DEF Resets, ResetReceiver, JoinReceiver, RenewReceiver
  <2> QED BY <1>0, <2>1, FrameWrites DEF FrameType
<1>4. CASE OpenReceiver
  <2>1. frame' = frame \/ \E c : frame' = [frame EXCEPT ![c].r = TRUE]
    BY <1>4 DEF OpenReceiver
  <2> QED BY <1>0, <2>1, FrameWrites DEF FrameType
<1>5. CASE Receives
  <2>1. ASSUME NEW i \in Previews, TakeFrame(i)
        PROVE  frame' = [frame EXCEPT ![recv[i].preview].full = FALSE]
    BY <2>1 DEF TakeFrame
  <2>2. ASSUME NEW i \in Previews, ReceiverEnds(i)
        PROVE  \E loses \in BOOLEAN :
                  frame' = [frame EXCEPT ![recv[i].preview].lost = @ \/ loses]
    BY <2>2 DEF ReceiverEnds
  <2>3. \/ \E c : frame' = [frame EXCEPT ![c].full = FALSE]
        \/ \E c : \E loses \in BOOLEAN : frame' = [frame EXCEPT ![c].lost = @ \/ loses]
    BY <1>5, <2>1, <2>2 DEF Receives
  <2> QED BY <1>0, <2>3, FrameWrites
<1>6. CASE CreateSender
  <2>1. frame' = [frame EXCEPT ![previews + 1].w = TRUE]
    BY <1>6 DEF CreateSender
  <2> QED BY <1>0, <2>1, FrameWrites
<1>7. CASE EndFrame
  <2>1. frame' = frame \/ frame' = [frame EXCEPT ![writing].full = TRUE]
    BY <1>7 DEF EndFrame
  <2> QED BY <1>0, <2>1, FrameWrites DEF FrameType
<1>8. CASE SourceDies
  <2>1. frame' = frame \/ frame' = [frame EXCEPT ![writing].lost = TRUE]
    BY <1>8 DEF SourceDies
  <2> QED BY <1>0, <2>1, FrameWrites DEF FrameType
<1>9. CASE SinkDies
  <2>1. frame' = frame \/ \E c : frame' = [frame EXCEPT ![c].lost = TRUE]
    BY <1>9 DEF SinkDies
  <2> QED BY <1>0, <2>1, FrameWrites DEF FrameType
<1>10. \/ frame' = frame \/ frame' = SenderGone
      \/ Resets \/ RenewReceiver \/ OpenReceiver \/ Receives
      \/ CreateSender \/ EndFrame \/ SourceDies \/ SinkDies
  BY NextSteps DEF Sends, Clears, JsCalls, Listens, MainReads, MainWorks, Renders,
       SourceDeath, SinkDeath, SourceCrash, SenderFault, SinkCrash, ReceiverFault,
       Deliver, DrawLostBlock, Drop, ClearUnset, ClearCloseEvt, ClearCloseCmd, ClearJoin,
       InitReady, InitDone, InitTimeout, Command, StartPreview, StopPreview, Call, ReleaseCall,
       MonitorFires, MsgRead, MsgEnd, MainCommand, MainStartPreview, MainStopPreview,
       MainDisconnect, Connect, StartEngine, FreeSender, MainEnd, EngineEvent, BeginFrame,
       SinkMonitorFires
<1> QED BY <1>1, <1>2, <1>3, <1>4, <1>5, <1>6, <1>7, <1>8, <1>9, <1>10

LEMMA SinkTypeStep ==
  ASSUME TypeInv, Next
  PROVE  SinkType'
<1> USE DEF TypeInv, SinkType
<1>1. CASE UNCHANGED <<sinkUp, sinkVars>>
  BY <1>1 DEF sinkVars
<1>2. CASE Clears \/ Resets
  <2>1. ASSUME NEW t \in Clearers, ClearUnset(t)
        PROVE  SinkType'
    BY <2>1 DEF ClearUnset
  <2>2. ASSUME NEW t \in SinkThreads, ResetReceiver(t)
        PROVE  SinkType'
    <3>1. old' = old \/ old' = [old EXCEPT ![t] = receiver]
      BY <2>2 DEF ResetReceiver
    <3>2. old' \in [SinkThreads -> PreviewRefs]
      BY <3>1
    <3>3. 0 \in PreviewRefs
      BY SessionAssumption DEF PreviewRefs
    <3> QED BY <2>2, <3>2, <3>3 DEF ResetReceiver
  <2>3. UNCHANGED <<sinkUp, sinkVars>> \/ (\E t \in Clearers : ClearUnset(t))
          \/ (\E t \in SinkThreads : ResetReceiver(t))
    BY <1>2 DEF Clears, Resets, ClearCloseEvt, ClearCloseCmd, ClearJoin, JoinReceiver
  <2> QED BY <1>1, <2>1, <2>2, <2>3
<1>3. CASE JsCalls
  <2>1. CASE InitReady \/ InitDone
    BY <2>1 DEF InitReady, InitDone
  <2>2. CASE InitTimeout \/ ReleaseCall
    BY <1>1, <2>2 DEF InitTimeout, ReleaseCall
  <2>3. ASSUME NEW m, Call(m), starts' = starts \/ (starts < MaxPreviews /\ starts' = starts + 1)
        PROVE  SinkType'
    <3>1. calls' \in 0 .. MaxCalls
      BY <2>3, SessionAssumption DEF Call
    <3>2. starts' \in PreviewRefs
      BY <2>3, SessionAssumption DEF PreviewRefs
    <3> QED BY <2>3, <3>1, <3>2 DEF Call
  <2> QED BY <1>3, <2>1, <2>2, <2>3 DEF JsCalls, Command, StartPreview, StopPreview
<1>4. CASE MsgRead
  <2>1. event' \in BOOLEAN
    BY <1>4 DEF MsgRead
  <2> QED BY <1>4, <2>1 DEF MsgRead
<1>5. CASE RenewReceiver
  <2>1. made + 1 \in PreviewRefs
    <3>1. Requests \in Nat /\ Replies \in Nat /\ Replies >= 1
      BY <1>5, CountFacts DEF RenewReceiver, At
    <3> QED BY <3>1, SessionAssumption DEF PreviewCount, PreviewRefs
  <2>2. recv' \in [Previews -> [st : {"none", "new", "reading", "done"}, preview : PreviewRefs]]
    BY <1>5 DEF RenewReceiver
  <2>3. old' \in [SinkThreads -> PreviewRefs]
    BY <1>5 DEF RenewReceiver
  <2> QED BY <1>5, <2>1, <2>2, <2>3 DEF RenewReceiver
<1>6. CASE OpenReceiver
  <2>1. recv' \in [Previews -> [st : {"none", "new", "reading", "done"}, preview : PreviewRefs]]
    BY <1>6 DEF OpenReceiver, SourceType
  <2>2. 0 \in PreviewRefs
    BY SessionAssumption DEF PreviewRefs
  <2> QED BY <1>6, <2>1, <2>2 DEF OpenReceiver
<1>7. ASSUME NEW i \in Previews, ReceiverEnds(i)
      PROVE  SinkType'
  BY <1>7 DEF ReceiverEnds
<1>8. CASE SinkDies
  BY <1>8 DEF SinkDies, sinkVars
<1>9. UNCHANGED <<sinkUp, sinkVars>> \/ Clears \/ Resets \/ JsCalls \/ MsgRead
        \/ RenewReceiver \/ OpenReceiver \/ (\E i \in Previews : ReceiverEnds(i)) \/ SinkDies
  BY NextSteps DEF Sends, Listens, Receives, MainReads, MainWorks, Renders, SourceDeath, SinkDeath,
       Deliver, DrawLostBlock, Drop, MonitorFires, MsgEnd, TakeFrame, MainRead,
       MainCommand, MainStartPreview, MainStopPreview, MainDisconnect, Connect, StartEngine,
       CreateSender, FreeSender, MainEnd, EngineEvent, BeginFrame, EndFrame, SinkMonitorFires,
       SourceCrash, SenderFault, SourceDies, SinkCrash, ReceiverFault
<1> QED BY <1>1, <1>2, <1>3, <1>4, <1>5, <1>6, <1>7, <1>8, <1>9

LEMMA SourceTypeStep ==
  ASSUME TypeInv, Next
  PROVE  SourceType'
<1> USE DEF TypeInv, SourceType
<1>1. CASE UNCHANGED <<src, srcVars, shmName>>
  BY <1>1 DEF srcVars
<1>2. previews + Requests <= MaxPreviews /\ Requests \in Nat
  BY CountFacts, SessionAssumption DEF PreviewCount, SinkType, PreviewRefs
<1>3. 0 \in PreviewRefs
  BY SessionAssumption DEF PreviewRefs
<1>4. CASE MainReads
  <2>1. CASE MainStartPreview
    <3>1. previews + 1 \in PreviewRefs
      <4>1. ring["cmd"].q # <<>> /\ Head(ring["cmd"].q) = "START_PREVIEW"
        BY <2>1 DEF MainStartPreview, MainRead
      <4>2. Count(ring["cmd"].q, "START_PREVIEW") >= 1
        BY <4>1, HeadCounted DEF Rings
      <4>3. Requests >= 1
        BY <4>2, CountFacts DEF Requests, OnCmd, Eq
      <4> QED BY <1>2, <4>3, SessionAssumption DEF PreviewRefs
    <3> QED BY <2>1, <3>1, <1>3 DEF MainStartPreview, MainRead
  <2>2. CASE MainDisconnect
    BY <1>3, <2>2 DEF MainDisconnect, MainRead
  <2>3. CASE MainCommand \/ MainStopPreview
    BY <2>3 DEF MainCommand, MainStopPreview, MainRead
  <2> QED BY <1>4, <2>1, <2>2, <2>3 DEF MainReads
<1>5. CASE CreateSender
  <2>1. previews + 1 \in PreviewRefs
    <3>1. Requests >= 1
      BY <1>5, CountFacts DEF CreateSender, At
    <3> QED BY <1>2, <3>1, SessionAssumption DEF PreviewRefs
  <2> QED BY <1>5, <2>1 DEF CreateSender
<1>6. CASE StartEngine \/ FreeSender \/ MainEnd
  BY <1>3, <1>6 DEF StartEngine, FreeSender, MainEnd, srcVars
<1>7. CASE EngineEvent
  <2>1. events' \in 0 .. MaxEvents
    BY <1>7, SessionAssumption DEF EngineEvent
  <2> QED BY <1>7, <2>1 DEF EngineEvent
<1>8. CASE BeginFrame \/ EndFrame \/ SinkMonitorFires \/ SourceDies
  BY <1>3, <1>8 DEF BeginFrame, EndFrame, SinkMonitorFires, SourceDies, srcVars
<1>9. UNCHANGED <<src, srcVars, shmName>> \/ MainReads \/ CreateSender \/ StartEngine \/ FreeSender
        \/ MainEnd \/ EngineEvent \/ BeginFrame \/ EndFrame \/ SinkMonitorFires \/ SourceDies
  BY NextSteps DEF Sends, Clears, Resets, JsCalls, Listens, Receives, MainWorks, Renders,
       SourceDeath, SinkDeath, Deliver, DrawLostBlock, Drop, ClearUnset, ClearCloseEvt,
       ClearCloseCmd, ClearJoin, ResetReceiver, JoinReceiver, InitReady, InitDone, InitTimeout,
       Command, StartPreview, StopPreview, Call, ReleaseCall, MonitorFires, MsgRead, MsgEnd,
       RenewReceiver, OpenReceiver, TakeFrame, ReceiverEnds, Connect, SourceCrash, SenderFault,
       SinkCrash, ReceiverFault, SinkDies
<1> QED BY <1>1, <1>4, <1>5, <1>6, <1>7, <1>8, <1>9

LEMMA ThreadStep ==
  ASSUME TypeInv, Next
  PROVE  ThreadPc' /\ ThreadOut'
<1> USE DEF TypeInv
<1>1. CASE UNCHANGED <<pc, out>>
  BY <1>1 DEF ThreadPc, ThreadOut
<1>2. CASE Sends
  <2>1. ASSUME NEW t \in Senders, Deliver(t) \/ Drop(t)
        PROVE  ThreadPc' /\ ThreadOut'
    <3>1. pc[t] = "send" /\ pc' = [pc EXCEPT ![t] = AfterSend(t)] /\ out' = out
      BY <2>1 DEF Deliver, Drop, At, Goto
    <3>2. AfterSend(t) \in PcNames
      BY DEF AfterSend, PcNames
    <3> QED BY <3>1, <3>2 DEF ThreadPc, ThreadOut, AfterSend, Senders, Threads, SinkThreads,
                              SourceThreads
  <2> QED BY <1>1, <1>2, <2>1 DEF Sends, DrawLostBlock
<1>3. CASE Clears
  <2>1. PICK t \in Clearers :
          /\ out' = out
          /\ \/ pc' = [pc EXCEPT ![t] = "reset"] \/ pc' = [pc EXCEPT ![t] = "closeCmd"]
             \/ pc' = [pc EXCEPT ![t] = "joinMsg"]
             \/ pc' = [pc EXCEPT ![t] = IF t = "js" THEN "released" ELSE "done"]
    BY <1>3 DEF Clears, ClearUnset, ClearCloseEvt, ClearCloseCmd, ClearJoin, Goto
  <2> QED BY <2>1 DEF ThreadPc, ThreadOut, Clearers, Threads, SinkThreads, SourceThreads,
                      PcNames
<1>4. CASE Resets
  <2>1. PICK t \in SinkThreads :
          \/ pc' = [pc EXCEPT ![t] = "joinRecv"] /\ out' = out
          \/ /\ t \in Clearers
             /\ pc' = [pc EXCEPT ![t] = "send"] /\ out' = [out EXCEPT ![t] = "DISCONNECT"]
          \/ /\ t = "msg" /\ out' = out
             /\ pc' = [pc EXCEPT ![t] = "read"] \/ pc' = [pc EXCEPT ![t] = "open"]
    BY <1>4 DEF Resets, ResetReceiver, JoinReceiver, Goto, Send, SinkThreads, Clearers
  <2> QED BY <2>1 DEF ThreadPc, ThreadOut, Clearers, Threads, SinkThreads, SourceThreads,
                      PcNames, Senders, Messages
<1>5. CASE JsCalls
  <2>1. \/ /\ out' = out
           /\ \/ pc' = [pc EXCEPT !["js"] = "arming"] \/ pc' = [pc EXCEPT !["js"] = "idle"]
              \/ pc' = [pc EXCEPT !["js"] = "unset"] \/ pc' = [pc EXCEPT !["js"] = "released"]
        \/ \E m \in {"CMD", "START_PREVIEW", "STOP_PREVIEW"} :
             pc' = [pc EXCEPT !["js"] = "send"] /\ out' = [out EXCEPT !["js"] = m]
    BY <1>5 DEF JsCalls, InitReady, InitDone, InitTimeout, Command, StartPreview, StopPreview,
                Call, Send, ReleaseCall, Goto
  <2> QED BY <2>1 DEF ThreadPc, ThreadOut, Threads, SinkThreads, SourceThreads,
                      PcNames, Senders, Messages
<1>6. CASE MonitorFires
  BY <1>6 DEF MonitorFires, Goto, ThreadPc, ThreadOut, Threads, SinkThreads, SourceThreads,
              PcNames
<1>7. CASE Listens
  <2>1. /\ out' = out
        /\ \E l \in {"renew", "reset", "read", "done", "joinRecv", "open"} :
             pc' = [pc EXCEPT !["msg"] = l]
    BY <1>7 DEF Listens, MsgRead, MsgEnd, RenewReceiver, OpenReceiver, Goto
  <2> QED BY <2>1 DEF ThreadPc, ThreadOut, Threads, SinkThreads, SourceThreads, PcNames
<1>8. CASE MainReads \/ MainWorks
  <2>1. \/ UNCHANGED <<pc, out>>
        \/ /\ out' = out
           /\ \E l \in {"engine", "read", "create", "stopLock"} : pc' = [pc EXCEPT !["main"] = l]
        \/ \E m \in {"SOURCE_READY", "START_COMPLETE", "STOP_COMPLETE"} :
             pc' = [pc EXCEPT !["main"] = "send"] /\ out' = [out EXCEPT !["main"] = m]
    BY <1>8 DEF MainReads, MainWorks, MainCommand, MainStartPreview, MainStopPreview,
                MainDisconnect, MainRead, Connect, StartEngine, CreateSender, FreeSender, MainEnd,
                Goto, Send
  <2> QED BY <1>1, <2>1 DEF ThreadPc, ThreadOut, Threads, SinkThreads, SourceThreads,
                            PcNames, Senders, Messages
<1>9. CASE Renders
  BY <1>9 DEF Renders, EngineEvent, BeginFrame, EndFrame, Goto, Send, ThreadPc, ThreadOut,
              Threads, SinkThreads, SourceThreads, PcNames, Senders, Messages
<1>10. CASE Receives \/ SinkMonitorFires \/ SourceDies \/ SinkDies
  BY <1>1, <1>10 DEF Receives, TakeFrame, ReceiverEnds, SinkMonitorFires, SourceDies, SinkDies
<1> QED BY <1>2, <1>3, <1>4, <1>5, <1>6, <1>7, <1>8, <1>9, <1>10, NextSteps
        DEF SourceDeath, SinkDeath, SourceCrash, SinkCrash, SenderFault, ReceiverFault

----------------------------------------------------------------------------
(* How steps move the messages of a preview *)

Tracked == {"START_PREVIEW", "STOP_PREVIEW", "START_COMPLETE", "STOP_COMPLETE", "SOURCE_READY"}

SameCounts == \A m \in Tracked : OnCmd(m)' = OnCmd(m) /\ OnEvt(m)' = OnEvt(m)

\* A tracked message is sent by js or main only, and delivering it keeps it
\* counted.
LEMMA DeliverCounts ==
  ASSUME TypeInv, NEW t \in Senders, Deliver(t)
  PROVE  SameCounts
<1> SUFFICES ASSUME NEW m \in Tracked
             PROVE  OnCmd(m)' = OnCmd(m) /\ OnEvt(m)' = OnEvt(m)
  BY DEF SameCounts
<1>1. /\ pc[t] = "send" /\ out' = out
      /\ pc' = [pc EXCEPT ![t] = AfterSend(t)]
      /\ ring' = [ring EXCEPT ![RingOf(t)].q = Append(@, out[t])]
  BY DEF Deliver, At, Goto
<1>2. /\ ring["cmd"].q \in Seq(Messages) /\ ring["evt"].q \in Seq(Messages)
      /\ out[t] \in Messages
  BY DEF TypeInv, RingType, RingRecords, Rings, ThreadOut
<1>3. \A k \in Threads : k # t => pc'[k] = pc[k]
  BY <1>1 DEF TypeInv, ThreadPc
<1>4. pc'[t] # "send"
  BY <1>1 DEF TypeInv, ThreadPc, AfterSend, Senders, Threads, SinkThreads, SourceThreads
<1>5. CASE t \in {"js", "mon"}
  <2>1. ring'["cmd"].q = Append(ring["cmd"].q, out[t]) /\ ring'["evt"].q = ring["evt"].q
    BY <1>1, <1>5 DEF RingOf, TypeInv, RingType, RingRecords, Rings
  <2>2. Count(ring["cmd"].q, m)' = Count(ring["cmd"].q, m) + Eq(out[t], m)
    BY <1>2, <2>1, CountAppend
  <2>3. pc'["main"] = pc["main"] /\ (t # "js" => pc'["js"] = pc["js"] /\ out[t] = "DISCONNECT")
    BY <1>1, <1>3, <1>5 DEF Threads, SinkThreads, SourceThreads, TypeInv, ThreadOut
  <2>4. Sending("js", m)' + Eq(out[t], m) = Sending("js", m)
    BY <1>1, <1>4, <1>5, <2>3 DEF Sending, Eq, Tracked
  <2>5. Sending("main", m)' = Sending("main", m)
    BY <1>1, <2>3 DEF Sending
  <2>6. Count(ring["cmd"].q, m) \in Nat /\ Eq(out[t], m) \in Nat /\ Sending("js", m)' \in Nat
    BY <1>2, CountType DEF Eq, Sending
  <2>7. Count(ring["evt"].q, m)' = Count(ring["evt"].q, m)
    BY <2>1 DEF Count
  <2> QED BY <2>2, <2>4, <2>5, <2>6, <2>7 DEF OnCmd, OnEvt
<1>6. CASE t \in {"main", "eng"}
  <2>1. ring'["evt"].q = Append(ring["evt"].q, out[t]) /\ ring'["cmd"].q = ring["cmd"].q
    BY <1>1, <1>6 DEF RingOf, TypeInv, RingType, RingRecords, Rings
  <2>2. Count(ring["evt"].q, m)' = Count(ring["evt"].q, m) + Eq(out[t], m)
    BY <1>2, <2>1, CountAppend
  <2>3. pc'["js"] = pc["js"] /\ (t # "main" => pc'["main"] = pc["main"] /\ out[t] = "EVENT")
    BY <1>1, <1>3, <1>6 DEF Threads, SinkThreads, SourceThreads, TypeInv, ThreadOut
  <2>4. Sending("main", m)' + Eq(out[t], m) = Sending("main", m)
    BY <1>1, <1>4, <1>6, <2>3 DEF Sending, Eq, Tracked
  <2>5. Sending("js", m)' = Sending("js", m)
    BY <1>1, <2>3 DEF Sending
  <2>6. Count(ring["evt"].q, m) \in Nat /\ Eq(out[t], m) \in Nat /\ Sending("main", m)' \in Nat
    BY <1>2, CountType DEF Eq, Sending
  <2>7. Count(ring["cmd"].q, m)' = Count(ring["cmd"].q, m)
    BY <2>1 DEF Count
  <2> QED BY <2>2, <2>4, <2>5, <2>6, <2>7 DEF OnCmd, OnEvt
<1> QED BY <1>5, <1>6 DEF Senders

\* Steps that leave the queues alone, and after which js and main send nothing
\* tracked that they did not send before.
LEMMA QuietCounts ==
  ASSUME TypeInv,
         ring'["cmd"].q = ring["cmd"].q, ring'["evt"].q = ring["evt"].q,
         \A t \in {"js", "main"} :
           \/ pc'[t] = pc[t] /\ out'[t] = out[t]
           \/ /\ ~(pc[t] = "send" /\ out[t] \in Tracked)
              /\ ~(pc'[t] = "send" /\ out'[t] \in Tracked)
  PROVE  SameCounts
BY DEF SameCounts, OnCmd, OnEvt, Sending, Eq, Count

LEMMA DropCounts ==
  ASSUME TypeInv, NEW t \in Senders, Drop(t)
  PROVE  /\ \A m \in Tracked : OnCmd(m)' <= OnCmd(m) /\ OnEvt(m)' <= OnEvt(m)
         /\ t \notin {"js", "main"} => SameCounts
<1>1. ring' = ring /\ out' = out /\ pc' = [pc EXCEPT ![t] = AfterSend(t)] /\ pc[t] = "send"
  BY DEF Drop, At, Goto
<1>2. pc'[t] # "send" /\ \A k \in Threads : k # t => pc'[k] = pc[k]
  BY <1>1 DEF TypeInv, ThreadPc, AfterSend, Senders, Threads, SinkThreads, SourceThreads
<1>3. \A m \in Tracked : /\ Sending("js", m)' <= Sending("js", m)
                         /\ Sending("main", m)' <= Sending("main", m)
  BY <1>1, <1>2 DEF Sending, Eq, Threads, SinkThreads, SourceThreads
<1>4. \A m : Count(ring["cmd"].q, m)' = Count(ring["cmd"].q, m)
             /\ Count(ring["evt"].q, m)' = Count(ring["evt"].q, m)
  BY <1>1 DEF Count
<1>5. \A m : /\ Count(ring["cmd"].q, m) \in Nat /\ Count(ring["evt"].q, m) \in Nat
             /\ Sending("js", m) \in {0, 1} /\ Sending("main", m) \in {0, 1}
             /\ Sending("js", m)' \in {0, 1} /\ Sending("main", m)' \in {0, 1}
  BY CountFacts DEF TypeInv, Sending, Eq
<1>6. t \notin {"js", "main"} => SameCounts
  BY <1>1, <1>2, QuietCounts DEF Threads, SinkThreads, SourceThreads
<1> QED BY <1>3, <1>4, <1>5, <1>6 DEF OnCmd, OnEvt

\* A read takes its message from the count.
LEMMA MsgReadCounts ==
  ASSUME TypeInv, MsgRead
  PROVE  \A m : /\ OnEvt(m) = OnEvt(m)' + Eq(Head(ring["evt"].q), m)
                /\ OnCmd(m)' = OnCmd(m)
<1>1. /\ ring["evt"].q # <<>> /\ out' = out
      /\ ring'["evt"].q = Tail(ring["evt"].q) /\ ring'["cmd"].q = ring["cmd"].q
      /\ pc'["js"] = pc["js"] /\ pc'["main"] = pc["main"]
  BY DEF MsgRead, Goto, TypeInv, RingType, RingRecords, Rings, ThreadPc, Threads, SinkThreads,
         SourceThreads
<1>2. ring["evt"].q \in Seq(Messages) /\ Tail(ring["evt"].q) \in Seq(Messages)
  BY <1>1, HeadTailProperties DEF TypeInv, RingType, RingRecords, Rings
<1>3. \A m : Count(ring["evt"].q, m) = Count(Tail(ring["evt"].q), m) + Eq(Head(ring["evt"].q), m)
  BY <1>1, <1>2, CountTail
<1>4. \A m : /\ Count(Tail(ring["evt"].q), m) \in Nat
             /\ Eq(Head(ring["evt"].q), m) \in {0, 1}
             /\ Sending("main", m) \in {0, 1}
  BY <1>2, CountType DEF Eq, Sending
<1>5. \A m : /\ Count(ring["evt"].q, m)' = Count(Tail(ring["evt"].q), m)
             /\ Count(ring["cmd"].q, m)' = Count(ring["cmd"].q, m)
             /\ Sending("js", m)' = Sending("js", m) /\ Sending("main", m)' = Sending("main", m)
  BY <1>1 DEF Count, Sending
<1> QED BY <1>3, <1>4, <1>5 DEF OnCmd, OnEvt

LEMMA MainReadCounts ==
  ASSUME TypeInv, MainReads
  PROVE  \A m : /\ OnCmd(m) = OnCmd(m)' + Eq(Head(ring["cmd"].q), m)
                /\ OnEvt(m)' = OnEvt(m)
<1>1. /\ ring["cmd"].q # <<>> /\ out' = out /\ pc["main"] = "read"
      /\ ring' = TakeCmd \/ ring' = ExitEnds(TakeCmd)
      /\ \E l \in {"read", "create", "stopLock"} : pc' = [pc EXCEPT !["main"] = l]
  <2>1. pc = [pc EXCEPT !["main"] = pc["main"]]
    BY DEF TypeInv, ThreadPc
  <2> QED BY <2>1 DEF MainReads, MainCommand, MainStartPreview, MainStopPreview,
                      MainDisconnect, MainRead, At, Goto
<1>2. /\ ring'["cmd"].q = Tail(ring["cmd"].q) /\ ring'["evt"].q = ring["evt"].q
  <2>1. ASSUME ring' = ExitEnds(TakeCmd)
        PROVE  /\ ring'["cmd"].q = TakeCmd["cmd"].q
               /\ ring'["evt"].q = TakeCmd["evt"].q
    BY <2>1 DEF ExitEnds, TakeCmd, TypeInv, RingType, RingRecords, Rings
  <2>2. TakeCmd["cmd"].q = Tail(ring["cmd"].q) /\ TakeCmd["evt"].q = ring["evt"].q
    BY DEF TakeCmd, TypeInv, RingType, RingRecords, Rings
  <2> QED BY <1>1, <2>1, <2>2
<1>3. pc'["js"] = pc["js"] /\ pc'["main"] # "send"
  BY <1>1 DEF TypeInv, ThreadPc, Threads, SinkThreads, SourceThreads
<1>4. ring["cmd"].q \in Seq(Messages) /\ Tail(ring["cmd"].q) \in Seq(Messages)
  BY <1>1, HeadTailProperties DEF TypeInv, RingType, RingRecords, Rings
<1>5. \A m : Count(ring["cmd"].q, m) = Count(Tail(ring["cmd"].q), m) + Eq(Head(ring["cmd"].q), m)
  BY <1>1, <1>4, CountTail
<1>6. \A m : /\ Count(Tail(ring["cmd"].q), m) \in Nat
             /\ Eq(Head(ring["cmd"].q), m) \in {0, 1}
             /\ Sending("js", m) \in {0, 1}
  BY <1>4, CountType DEF Eq, Sending
<1>7. \A m : /\ Count(ring["cmd"].q, m)' = Count(Tail(ring["cmd"].q), m)
             /\ Count(ring["evt"].q, m)' = Count(ring["evt"].q, m)
             /\ Sending("js", m)' = Sending("js", m) /\ Sending("main", m)' = Sending("main", m)
  BY <1>1, <1>2, <1>3 DEF Count, Sending
<1> QED BY <1>5, <1>6, <1>7 DEF OnCmd, OnEvt

\* A call of JavaScript adds its message.
LEMMA CallCounts ==
  ASSUME TypeInv, NEW m \in Messages, Call(m)
  PROVE  \A k : OnCmd(k)' = OnCmd(k) + Eq(k, m) /\ OnEvt(k)' = OnEvt(k)
<1>1. /\ ring' = ring /\ pc["js"] = "idle"
      /\ pc'["js"] = "send" /\ out'["js"] = m
      /\ pc'["main"] = pc["main"] /\ out'["main"] = out["main"]
  BY DEF Call, At, Send, TypeInv, ThreadPc, ThreadOut, Threads, SinkThreads, SourceThreads,
         Senders
<1>2. \A k : /\ Count(ring["cmd"].q, k)' = Count(ring["cmd"].q, k)
             /\ Count(ring["evt"].q, k)' = Count(ring["evt"].q, k)
             /\ Count(ring["cmd"].q, k) \in Nat
  BY <1>1, CountFacts DEF Count, TypeInv
<1>3. \A k : /\ Sending("js", k) = 0 /\ Sending("js", k)' = Eq(k, m)
             /\ Sending("main", k)' = Sending("main", k)
  BY <1>1 DEF Sending, Eq
<1>4. \A k : Eq(k, m) \in Nat
  BY DEF Eq
<1> QED BY <1>2, <1>3, <1>4 DEF OnCmd, OnEvt

\* So does a reply of the source's main thread.
LEMMA ReplyCounts ==
  ASSUME TypeInv, NEW m \in Messages, Send("main", m), pc["main"] # "send", ring' = ring
  PROVE  \A k : OnEvt(k)' = OnEvt(k) + Eq(k, m) /\ OnCmd(k)' = OnCmd(k)
<1>1. /\ pc'["main"] = "send" /\ out'["main"] = m
      /\ pc'["js"] = pc["js"] /\ out'["js"] = out["js"]
  BY DEF Send, TypeInv, ThreadPc, ThreadOut, Threads, SinkThreads, SourceThreads, Senders
<1>2. \A k : /\ Count(ring["cmd"].q, k)' = Count(ring["cmd"].q, k)
             /\ Count(ring["evt"].q, k)' = Count(ring["evt"].q, k)
             /\ Count(ring["evt"].q, k) \in Nat
  BY CountFacts DEF Count, TypeInv
<1>3. \A k : /\ Sending("main", k) = 0 /\ Sending("main", k)' = Eq(k, m)
             /\ Sending("js", k)' = Sending("js", k)
  BY <1>1 DEF Sending, Eq
<1>4. \A k : Eq(k, m) \in Nat
  BY DEF Eq
<1> QED BY <1>2, <1>3, <1>4 DEF OnCmd, OnEvt

\* The steps of the sink's threads that keep every count.
LEMMA SinkCounts ==
  ASSUME TypeInv,
         Clears \/ Resets \/ InitReady \/ InitDone \/ InitTimeout \/ ReleaseCall \/ MonitorFires
           \/ MsgEnd \/ RenewReceiver \/ OpenReceiver \/ Receives
  PROVE  SameCounts
<1>1. /\ ring'["cmd"].q = ring["cmd"].q /\ ring'["evt"].q = ring["evt"].q
  <2>1. CASE Clears
    BY <2>1 DEF Clears, ClearUnset, ClearCloseEvt, ClearCloseCmd, ClearJoin, CloseRing,
                TypeInv, RingType, RingRecords, Rings
  <2>2. CASE MsgEnd
    BY <2>2 DEF MsgEnd, MayLoseLock, TypeInv, RingType, RingRecords, Rings
  <2>3. CASE ~Clears /\ ~MsgEnd
    BY <2>3 DEF Resets, ResetReceiver, JoinReceiver, InitReady, InitDone, InitTimeout,
                ReleaseCall, MonitorFires, RenewReceiver, OpenReceiver, Receives, TakeFrame,
                ReceiverEnds
  <2> QED BY <2>1, <2>2, <2>3
<1>2. \/ UNCHANGED <<pc, out>>
      \/ \E t \in SinkThreads, l \in PcNames \ {"send"} :
           pc[t] # "send" /\ pc' = [pc EXCEPT ![t] = l] /\ out' = out
      \/ \E t \in Clearers :
           /\ pc[t] # "send"
           /\ pc' = [pc EXCEPT ![t] = "send"] /\ out' = [out EXCEPT ![t] = "DISCONNECT"]
  <2>1. CASE Clears
    BY <2>1 DEF Clears, ClearUnset, ClearCloseEvt, ClearCloseCmd, ClearJoin, Goto, At,
                Clearers, SinkThreads, PcNames
  <2>2. CASE Resets
    BY <2>2 DEF Resets, ResetReceiver, JoinReceiver, Goto, Send, At, Clearers, SinkThreads,
                PcNames
  <2>3. CASE InitReady \/ InitDone \/ InitTimeout \/ ReleaseCall \/ MonitorFires
    BY <2>3 DEF InitReady, InitDone, InitTimeout, ReleaseCall, MonitorFires, Goto, At,
                SinkThreads, PcNames
  <2>4. CASE MsgEnd \/ RenewReceiver \/ OpenReceiver
    BY <2>4 DEF MsgEnd, RenewReceiver, OpenReceiver, Goto, At, SinkThreads, PcNames
  <2>5. CASE Receives
    BY <2>5 DEF Receives, TakeFrame, ReceiverEnds
  <2> QED BY <2>1, <2>2, <2>3, <2>4, <2>5
<1>3. /\ pc'["main"] = pc["main"] /\ out'["main"] = out["main"]
      /\ \/ pc'["js"] = pc["js"] /\ out'["js"] = out["js"]
         \/ /\ pc["js"] # "send"
            /\ pc'["js"] = "send" => out'["js"] = "DISCONNECT"
  BY <1>2 DEF Clearers, TypeInv, ThreadPc, ThreadOut, Threads, SinkThreads, SourceThreads,
              Senders, PcNames
<1> QED BY <1>1, <1>2, <1>3, QuietCounts DEF Tracked

\* The steps of the source and the deaths that keep every count.
LEMMA SourceCounts ==
  ASSUME TypeInv,
         \/ Connect \/ (StartEngine /\ pc'["main"] = "read") \/ MainEnd \/ Renders
         \/ SinkMonitorFires \/ SourceDies \/ SinkDies
  PROVE  SameCounts
<1>1. /\ ring'["cmd"].q = ring["cmd"].q /\ ring'["evt"].q = ring["evt"].q
  <2>1. CASE Connect
    BY <2>1 DEF Connect, TypeInv, RingType, RingRecords, Rings
  <2>2. CASE SinkMonitorFires
    BY <2>2 DEF SinkMonitorFires, ExitEnds, TypeInv, RingType, RingRecords, Rings
  <2>3. CASE SourceDies \/ SinkDies
    BY <2>3 DEF SourceDies, SinkDies, LoseLocks, TypeInv, RingType, RingRecords, Rings
  <2>4. CASE StartEngine \/ MainEnd \/ Renders
    BY <2>4 DEF StartEngine, MainEnd, Renders, EngineEvent, BeginFrame, EndFrame
  <2> QED BY <2>1, <2>2, <2>3, <2>4
<1>2. /\ pc'["js"] = pc["js"] /\ out'["js"] = out["js"]
      /\ \/ pc'["main"] = pc["main"] /\ out'["main"] = out["main"]
         \/ pc["main"] # "send" /\ pc'["main"] # "send"
  BY DEF Connect, StartEngine, MainEnd, Renders, EngineEvent, BeginFrame, EndFrame,
         SinkMonitorFires, SourceDies, SinkDies, Goto, Send, At, TypeInv, ThreadPc, ThreadOut,
         Threads, SinkThreads, SourceThreads, Senders
<1> QED BY <1>1, <1>2, QuietCounts

LEMMA DrawCounts ==
  ASSUME TypeInv, NEW t \in Senders, DrawLostBlock(t)
  PROVE  SameCounts
<1>1. ring'["cmd"].q = ring["cmd"].q /\ ring'["evt"].q = ring["evt"].q /\ UNCHANGED <<pc, out>>
  BY DEF DrawLostBlock, TypeInv, RingType, RingRecords, Rings
<1> QED BY <1>1, QuietCounts

LEMMA PreviewCountStep ==
  ASSUME TypeInv, Next
  PROVE  PreviewCount'
<1> DEFINE C == "START_PREVIEW"
           E == "START_COMPLETE"
<1>1. /\ previews + Requests <= starts /\ made + Requests + Replies <= starts
      /\ starts \in Nat /\ made \in Nat /\ previews \in Nat
  BY SessionAssumption DEF TypeInv, PreviewCount, SinkType, SourceType, PreviewRefs
<1>2. /\ Requests = OnCmd(C) + Eq(pc["main"], "create")
      /\ Replies = OnEvt(E) + Eq(pc["msg"], "renew")
      /\ Requests' = OnCmd(C)' + Eq(pc'["main"], "create")
      /\ Replies' = OnEvt(E)' + Eq(pc'["msg"], "renew")
  BY DEF Requests, Replies
<1>3. /\ OnCmd(C) \in Nat /\ OnEvt(E) \in Nat
  BY CountFacts DEF TypeInv
<1>4. OnCmd(C)' \in Nat /\ OnEvt(E)' \in Nat
  <2>1. RingType'
    BY RingTypeStep
  <2>2. \A m : /\ Count(ring["cmd"].q, m)' \in Nat /\ Count(ring["evt"].q, m)' \in Nat
               /\ Sending("js", m)' \in {0, 1} /\ Sending("main", m)' \in {0, 1}
    <3>1. ring'["cmd"].q \in Seq(Messages) /\ ring'["evt"].q \in Seq(Messages)
      BY <2>1 DEF RingType, RingRecords, Rings
    <3>2. \A m : Count(ring'["cmd"].q, m) \in Nat /\ Count(ring'["evt"].q, m) \in Nat
      BY <3>1, CountType
    <3> QED BY <3>2 DEF Count, Sending, Eq
  <2> QED BY <2>2 DEF OnCmd, OnEvt
<1>5. C \in Tracked /\ E \in Tracked
  BY DEF Tracked
<1> SUFFICES /\ previews' + Requests' <= starts'
             /\ made' + Requests' + Replies' <= starts'
  BY DEF PreviewCount
<1>6. ASSUME UNCHANGED <<previews, made, starts>>,
             OnCmd(C)' <= OnCmd(C), OnEvt(E)' <= OnEvt(E),
             pc'["main"] # "create", pc'["msg"] = "renew" => pc["msg"] = "renew"
      PROVE  previews' + Requests' <= starts' /\ made' + Requests' + Replies' <= starts'
  BY <1>1, <1>2, <1>3, <1>4, <1>6 DEF Eq
<1>7. ASSUME UNCHANGED <<previews, made, starts>>,
             OnCmd(C)' <= OnCmd(C), OnEvt(E)' <= OnEvt(E),
             pc'["main"] = pc["main"], pc'["msg"] = "renew" => pc["msg"] = "renew"
      PROVE  previews' + Requests' <= starts' /\ made' + Requests' + Replies' <= starts'
  BY <1>1, <1>2, <1>3, <1>4, <1>7 DEF Eq
<1>8. ASSUME SameCounts
      PROVE  OnCmd(C)' <= OnCmd(C) /\ OnEvt(E)' <= OnEvt(E)
  BY <1>3, <1>4, <1>5, <1>8 DEF SameCounts
<1> HIDE DEF C, E
<1>10. CASE Sends
  <2>1. PICK t \in Senders : Deliver(t) \/ DrawLostBlock(t) \/ Drop(t)
    BY <1>10 DEF Sends
  <2>2. OnCmd(C)' <= OnCmd(C) /\ OnEvt(E)' <= OnEvt(E)
    BY <1>5, <1>8, <2>1, DeliverCounts, DrawCounts, DropCounts
  <2>3. UNCHANGED <<previews, made, starts>>
    BY <2>1 DEF Deliver, DrawLostBlock, Drop, sinkVars, srcVars
  <2>4. /\ pc'["msg"] = pc["msg"]
        /\ pc'["main"] = pc["main"] \/ pc'["main"] = "read"
    BY <2>1 DEF Deliver, DrawLostBlock, Drop, Goto, AfterSend, TypeInv, ThreadPc, Threads,
                SinkThreads, SourceThreads, Senders
  <2> QED BY <1>6, <1>7, <2>2, <2>3, <2>4
<1>11. CASE Clears \/ Resets \/ InitReady \/ InitDone \/ InitTimeout \/ ReleaseCall
              \/ MonitorFires \/ MsgEnd \/ OpenReceiver \/ Receives
  <2>1. UNCHANGED <<previews, made, starts>>
    BY <1>11 DEF Clears, ClearUnset, ClearCloseEvt, ClearCloseCmd, ClearJoin, Resets,
         ResetReceiver, JoinReceiver, InitReady, InitDone, InitTimeout, ReleaseCall,
         MonitorFires, MsgEnd, OpenReceiver, Receives, TakeFrame, ReceiverEnds, sinkVars, srcVars
  <2>2. \/ UNCHANGED pc
        \/ \E t \in SinkThreads, l \in PcNames \ {"renew"} : pc' = [pc EXCEPT ![t] = l]
    <3>1. CASE Clears
      BY <3>1 DEF Clears, ClearUnset, ClearCloseEvt, ClearCloseCmd, ClearJoin, Goto,
                  Clearers, SinkThreads, PcNames
    <3>2. CASE Resets
      BY <3>2 DEF Resets, ResetReceiver, JoinReceiver, Goto, Send, SinkThreads, PcNames
    <3>3. CASE ~Clears /\ ~Resets
      BY <1>11, <3>3 DEF InitReady, InitDone, InitTimeout, ReleaseCall, MonitorFires, MsgEnd,
           OpenReceiver, Receives, TakeFrame, ReceiverEnds, Goto, SinkThreads, PcNames
    <3> QED BY <3>1, <3>2, <3>3
  <2>3. pc'["main"] = pc["main"] /\ (pc'["msg"] = "renew" => pc["msg"] = "renew")
    BY <2>2 DEF TypeInv, ThreadPc, Threads, SinkThreads, SourceThreads
  <2> QED BY <1>7, <1>8, <1>11, <2>1, <2>3, SinkCounts
<1>12. CASE RenewReceiver
  <2>1. /\ pc["msg"] = "renew" /\ pc'["msg"] # "renew" /\ pc'["main"] = pc["main"]
        /\ made' = made + 1 /\ UNCHANGED <<previews, starts>>
    BY <1>12 DEF RenewReceiver, At, Goto, srcVars, TypeInv, ThreadPc, Threads, SinkThreads,
                 SourceThreads
  <2>2. OnCmd(C)' = OnCmd(C) /\ OnEvt(E)' = OnEvt(E)
    BY <1>5, <1>12, SinkCounts DEF SameCounts
  <2> QED BY <1>1, <1>2, <1>3, <2>1, <2>2 DEF Eq
<1>13. CASE Command \/ StartPreview \/ StopPreview
  <2>1. PICK m \in {"CMD", "START_PREVIEW", "STOP_PREVIEW"} :
          /\ Call(m) /\ UNCHANGED <<previews, made>>
          /\ starts' = IF m = "START_PREVIEW" THEN starts + 1 ELSE starts
    BY <1>13 DEF Command, StartPreview, StopPreview, Call, srcVars
  <2>2. pc'["main"] = pc["main"] /\ pc'["msg"] = pc["msg"]
    BY <2>1 DEF Call, Send, TypeInv, ThreadPc, Threads, SinkThreads, SourceThreads
  <2>3. OnCmd(C)' = OnCmd(C) + Eq(C, m) /\ OnEvt(E)' = OnEvt(E)
    BY <2>1, CallCounts DEF Messages
  <2> QED BY <1>1, <1>2, <1>3, <2>1, <2>2, <2>3 DEF Eq, C
<1>14. CASE MsgRead
  <2>1. /\ OnEvt(E) = OnEvt(E)' + Eq(Head(ring["evt"].q), E) /\ OnCmd(C)' = OnCmd(C)
    BY <1>14, MsgReadCounts
  <2>2. /\ pc'["main"] = pc["main"] /\ UNCHANGED <<previews, made, starts>>
        /\ pc["msg"] = "read"
        /\ pc'["msg"] = "renew" => Head(ring["evt"].q) = E
    BY <1>14 DEF MsgRead, At, Goto, srcVars, TypeInv, ThreadPc, Threads, SinkThreads,
                 SourceThreads, E
  <2> QED BY <1>1, <1>2, <1>3, <1>4, <2>1, <2>2 DEF Eq
<1>15. CASE MainReads
  <2>1. OnCmd(C) = OnCmd(C)' + Eq(Head(ring["cmd"].q), C) /\ OnEvt(E)' = OnEvt(E)
    BY <1>15, MainReadCounts
  <2>2. /\ pc'["msg"] = pc["msg"] /\ UNCHANGED <<previews, made, starts>>
        /\ pc["main"] = "read"
        /\ pc'["main"] = "create" => Head(ring["cmd"].q) = C
    BY <1>15 DEF MainReads, MainCommand, MainStartPreview, MainStopPreview, MainDisconnect,
                 MainRead, At, Goto, sinkVars, TypeInv, ThreadPc, Threads, SinkThreads,
                 SourceThreads, C
  <2> QED BY <1>1, <1>2, <1>3, <1>4, <2>1, <2>2 DEF Eq
<1>16. CASE CreateSender
  <2>1. /\ pc["main"] = "create" /\ pc'["main"] = "send" /\ pc'["msg"] = pc["msg"]
        /\ previews' = previews + 1 /\ UNCHANGED <<made, starts>>
    BY <1>16 DEF CreateSender, At, Send, sinkVars, TypeInv, ThreadPc, Threads, SinkThreads,
                 SourceThreads
  <2>2. OnEvt(E)' = OnEvt(E) + 1 /\ OnCmd(C)' = OnCmd(C)
    BY <1>16, <2>1, ReplyCounts DEF CreateSender, Messages, Eq, E
  <2> QED BY <1>1, <1>2, <1>3, <2>1, <2>2 DEF Eq
<1>17. CASE StartEngine \/ FreeSender
  <2>1. UNCHANGED <<previews, made, starts>>
    BY <1>17 DEF StartEngine, FreeSender, sinkVars
  <2>2. /\ pc'["msg"] = pc["msg"] /\ pc'["main"] \in {"send", "read"} /\ pc["main"] # "send"
    BY <1>17 DEF StartEngine, FreeSender, At, Goto, Send, TypeInv, ThreadPc, Threads,
                 SinkThreads, SourceThreads
  <2>3. OnCmd(C)' <= OnCmd(C) /\ OnEvt(E)' <= OnEvt(E)
    <3>1. CASE pc'["main"] = "read" /\ StartEngine
      BY <1>8, <3>1, SourceCounts
    <3>2. CASE Send("main", "SOURCE_READY") \/ Send("main", "STOP_COMPLETE")
      <4>1. ring' = ring
        BY <1>17 DEF StartEngine, FreeSender
      <4>2. \/ OnEvt(E)' = OnEvt(E) + Eq(E, "SOURCE_READY")
            \/ OnEvt(E)' = OnEvt(E) + Eq(E, "STOP_COMPLETE")
        BY <2>2, <3>2, <4>1, ReplyCounts DEF Messages
      <4>3. OnCmd(C)' = OnCmd(C)
        BY <2>2, <3>2, <4>1, ReplyCounts DEF Messages
      <4> QED BY <1>3, <4>2, <4>3 DEF Eq, E
    <3>3. pc'["main"] = "read" => StartEngine
      BY <1>17 DEF FreeSender, Send, TypeInv, ThreadPc, Threads, SourceThreads
    <3>4. pc'["main"] = "send" => Send("main", "SOURCE_READY") \/ Send("main", "STOP_COMPLETE")
      BY <1>17 DEF StartEngine, FreeSender, Goto, TypeInv, ThreadPc, Threads, SourceThreads
    <3> QED BY <2>2, <3>1, <3>2, <3>3, <3>4
  <2> QED BY <1>6, <2>1, <2>2, <2>3
<1>18. CASE Connect \/ MainEnd \/ Renders \/ SinkMonitorFires \/ SourceDies \/ SinkDies
  <2>1. UNCHANGED <<previews, made, starts>>
    BY <1>18 DEF Connect, MainEnd, Renders, EngineEvent, BeginFrame, EndFrame,
                 SinkMonitorFires, SourceDies, SinkDies, sinkVars, srcVars
  <2>2. /\ pc'["msg"] = pc["msg"]
        /\ pc'["main"] = pc["main"] \/ pc'["main"] # "create"
    BY <1>18 DEF Connect, MainEnd, Renders, EngineEvent, BeginFrame, EndFrame, Goto, Send,
         SinkMonitorFires, SourceDies, SinkDies, TypeInv, ThreadPc, Threads, SinkThreads,
         SourceThreads
  <2> QED BY <1>6, <1>7, <1>8, <1>18, <2>1, <2>2, SourceCounts
<1> QED BY <1>10, <1>11, <1>12, <1>13, <1>14, <1>15, <1>16, <1>17, <1>18, NextSteps
        DEF JsCalls, Listens, MainWorks, SourceDeath, SinkDeath, SourceCrash, SinkCrash,
            SenderFault, ReceiverFault

LEMMA TypeStep == TypeInv /\ [Next]_vars => TypeInv'
<1> SUFFICES ASSUME TypeInv, [Next]_vars
             PROVE  TypeInv'
  OBVIOUS
<1>1. CASE Next
  BY <1>1, RingTypeStep, FrameTypeStep, SinkTypeStep, SourceTypeStep, ThreadStep,
     PreviewCountStep DEF TypeInv
<1>2. CASE UNCHANGED vars
  BY <1>2 DEF vars, sinkVars, srcVars, TypeInv, RingType, RingRecords, FrameType, FrameChannels,
              SinkType, SourceType, ThreadPc, ThreadOut, PreviewCount, Requests,
              Replies, OnCmd, OnEvt, Sending, Eq, Count
<1> QED BY <1>1, <1>2

LEMMA TypeInvAlways == Spec => []TypeInv
BY TypeInit, TypeStep, PTL DEF Spec

\* Whatever dies, and whatever JavaScript and the engine do, every variable of
\* the session keeps its type: in particular no ring holds more messages than it
\* has blocks, and neither side makes more frame channels or receivers than
\* startPreview was called.
THEOREM TypeCorrect == Spec => []TypeOK
BY TypeInvAlways, TypeInvTypes, PTL

=============================================================================
