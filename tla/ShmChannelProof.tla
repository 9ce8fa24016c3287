-------------------------- MODULE ShmChannelProof --------------------------
(***************************************************************************)
(* Proofs about ShmChannel for every number of writers, blocks and         *)
(* messages: type correctness, mutual exclusion on a block, that no read   *)
(* returns a torn message, and that no stored message is lost or doubled.  *)
(***************************************************************************)
EXTENDS ShmChannel, FiniteSetTheorems, TLAPS

\* A ticket modulo BLOCK_NUM is the index of a block.
LEMMA TicketBlock ==
  ASSUME NEW i \in Int
  PROVE  i % BlockNum \in Blocks
BY ChannelAssumption DEF Blocks

\* A writer's message is one of Msgs once it has called write.
LEMMA MsgType ==
  ASSUME TypeOK, NEW w \in Writers, sent[w] # 0
  PROVE  MsgOf(w) \in Msgs
BY ChannelAssumption DEF TypeOK, MsgOf, Msgs

\* Writers are in a call only after the first increment of sent.
CallCounted == \A w \in Writers : pc[w] # "idle" => sent[w] # 0

TypeInv == TypeOK /\ CallCounted

\* Type correctness is inductive: every action of the channel keeps it.
LEMMA TypeInductive ==
  /\ Init => TypeInv
  /\ TypeInv /\ [Next]_vars => TypeInv'
<1> USE DEF TypeInv, Threads, Ends, PcNames, EndPcNames, EndOf
<1>1. Init => TypeOK /\ CallCounted
  BY ChannelAssumption DEF Init, TypeOK, CallCounted, Blocks
<1>2. ASSUME TypeOK, CallCounted, [Next]_vars
      PROVE  (TypeOK /\ CallCounted)'
  <2> USE <1>2 DEF TypeOK, CallCounted, channelVars, blockVars, endVars, histVars, Goto
  <2>1. ASSUME NEW e \in Ends, EndStep(e) PROVE (TypeOK /\ CallCounted)'
    BY <2>1 DEF EndStep, OpenFlag, OpenUsed, CloseFlag, CloseTest, CloseUsed
  <2>2. CASE ForceStop
    BY <2>2 DEF ForceStop
  <2>3. ASSUME NEW t \in Threads, BlockStep(t) PROVE (TypeOK /\ CallCounted)'
    <3>1. CASE Acquire(t)
      BY <3>1 DEF Acquire
    <3>2. CASE Contend(t)
      BY <3>2 DEF Contend
    <3>3. CASE Recheck(t)
      BY <3>3 DEF Recheck, Release
    <3>4. CASE CheckOpen(t)
      BY <3>4 DEF CheckOpen
    <3>5. CASE CheckState(t)
      BY <3>5 DEF CheckState, Release
    <3>6. CASE Unlock(t)
      BY <3>6 DEF Unlock, Release
    <3> QED BY <2>3, <3>1, <3>2, <3>3, <3>4, <3>5, <3>6 DEF BlockStep
  <2>4. ASSUME NEW w \in Writers, WriteCall(w) \/ WriteStep(w)
        PROVE  (TypeOK /\ CallCounted)'
    <3>1. CASE WriteCall(w)
      BY <3>1, ChannelAssumption DEF WriteCall
    <3>2. CASE WriteTicket(w)
      BY <3>2, TicketBlock DEF WriteTicket
    <3>3. CASE WriteCopy(w)
      BY <3>3 DEF WriteCopy
    <3>4. CASE WritePublish(w)
      BY <3>4, MsgType DEF WritePublish
    <3>5. CASE WriteFail(w)
      BY <3>5 DEF WriteFail
    <3> QED BY <2>3, <2>4, <3>1, <3>2, <3>3, <3>4, <3>5 DEF WriteStep
  <2>5. CASE ReadStep
    <3>1. CASE ReadCall
      BY <3>1, ChannelAssumption DEF ReadCall
    <3>2. CASE ReadTicket
      <4>1. readCount % BlockNum \in Blocks
        BY TicketBlock
      <4> QED BY <3>2, <4>1, ChannelAssumption DEF ReadTicket
    <3>3. CASE ReadCopy
      BY <3>3, ChannelAssumption DEF ReadCopy
    <3>4. CASE ReadPublish
      BY <3>4, ChannelAssumption DEF ReadPublish
    <3>5. CASE ReadFail
      BY <3>5, ChannelAssumption DEF ReadFail
    <3> QED BY <2>3, <2>5, <3>1, <3>2, <3>3, <3>4, <3>5 DEF ReadStep
  <2>6. CASE UNCHANGED vars
    BY <2>6 DEF vars
  <2> QED BY <1>2, <2>1, <2>2, <2>4, <2>5, <2>6 DEF Next
<1>3. QED
  BY <1>1, <1>2

\* Every variable stays within the words the code declares for it: blocks and
\* flags hold 0 or 1, an index is that of a block, a block holds a message or
\* the remains of one.
THEOREM TypeCorrect == Spec => []TypeOK
<1>1. TypeInv => TypeOK
  BY DEF TypeInv
<1> QED
  BY <1>1, TypeInductive, PTL DEF Spec

----------------------------------------------------------------------------
(***************************************************************************)
(* Mutual exclusion.  BlockExclusion is inductive by itself: a lock is     *)
(* taken only when it is 0, when no thread is inside, and only the thread  *)
(* inside sets it back to 0.  A lock that close_channel made a thread leave *)
(* behind stays 1, which excludes more, not less.                          *)
(***************************************************************************)

LEMMA ExclusionInductive ==
  /\ Init => BlockExclusion
  /\ TypeInv /\ BlockExclusion /\ [Next]_vars => BlockExclusion'
<1> USE DEF BlockExclusion, Holding
<1>1. Init => BlockExclusion
  BY DEF Init
<1>2. ASSUME TypeInv, BlockExclusion, [Next]_vars
      PROVE  BlockExclusion'
  <2> USE <1>2 DEF TypeInv, TypeOK, Threads, channelVars, blockVars, endVars, histVars, Goto
  <2>1. ASSUME NEW e \in Ends, EndStep(e) PROVE BlockExclusion'
    BY <2>1 DEF EndStep, OpenFlag, OpenUsed, CloseFlag, CloseTest, CloseUsed
  <2>2. CASE ForceStop
    BY <2>2 DEF ForceStop
  <2>3. ASSUME NEW t \in Threads, BlockStep(t) PROVE BlockExclusion'
    <3>1. CASE Acquire(t)
      BY <3>1 DEF Acquire
    <3>2. CASE Contend(t)
      BY <3>2 DEF Contend
    <3>3. CASE Recheck(t)
      <4>1. CASE used = 0
        BY <3>3, <4>1 DEF Recheck, Release
      <4>2. CASE used # 0
        BY <3>3, <4>2 DEF Recheck
      <4> QED BY <4>1, <4>2
    <3>4. CASE CheckOpen(t)
      BY <3>4 DEF CheckOpen
    <3>5. CASE CheckState(t)
      <4>1. CASE data[idx[t]] = Wanted(t)
        BY <3>5, <4>1 DEF CheckState
      <4>2. CASE data[idx[t]] # Wanted(t)
        <5>1. /\ pc[t] = "checkState"
              /\ lock' = [lock EXCEPT ![idx[t]] = 0]
              /\ pc' = [pc EXCEPT ![t] = "lock"]
              /\ idx' = idx
          BY <3>5, <4>2 DEF CheckState, Release
        <5> QED BY <5>1
      <4> QED BY <4>1, <4>2
    <3>6. CASE Unlock(t)
      BY <3>6 DEF Unlock, Release
    <3> QED BY <2>3, <3>1, <3>2, <3>3, <3>4, <3>5, <3>6 DEF BlockStep
  <2>4. ASSUME NEW w \in Writers, WriteCall(w) \/ WriteStep(w)
        PROVE  BlockExclusion'
    <3>1. CASE WriteCall(w)
      BY <3>1 DEF WriteCall
    <3>2. CASE WriteTicket(w)
      BY <3>2 DEF WriteTicket
    <3>3. CASE WriteCopy(w)
      BY <3>3 DEF WriteCopy
    <3>4. CASE WritePublish(w)
      BY <3>4 DEF WritePublish
    <3>5. CASE WriteFail(w)
      BY <3>5 DEF WriteFail
    <3> QED BY <2>3, <2>4, <3>1, <3>2, <3>3, <3>4, <3>5 DEF WriteStep
  <2>5. CASE ReadStep
    <3>1. CASE ReadCall
      BY <3>1 DEF ReadCall
    <3>2. CASE ReadTicket
      BY <3>2 DEF ReadTicket
    <3>3. CASE ReadCopy
      BY <3>3 DEF ReadCopy
    <3>4. CASE ReadPublish
      BY <3>4 DEF ReadPublish
    <3>5. CASE ReadFail
      BY <3>5 DEF ReadFail
    <3> QED BY <2>3, <2>5, <3>1, <3>2, <3>3, <3>4, <3>5 DEF ReadStep
  <2>6. CASE UNCHANGED vars
    BY <2>6 DEF vars
  <2> QED BY <1>2, <2>1, <2>2, <2>4, <2>5, <2>6 DEF Next
<1> QED
  BY <1>1, <1>2

\* At most one thread works on a block, and never without the block's lock,
\* with any number of writers and whatever ends close in the meantime.
THEOREM ExclusionHolds == Spec => []BlockExclusion
BY TypeInductive, ExclusionInductive, PTL DEF Spec

----------------------------------------------------------------------------
(***************************************************************************)
(* What is inside a block.  NoTornRead needs to know the state of the      *)
(* block each thread inside is working on: a writer copies into an empty   *)
(* block, the reader copies out of a full one, and what it copied is still *)
(* there when it marks the block as empty.                                 *)
(***************************************************************************)

DataInv ==
  /\ \A w \in Writers : pc[w] \in {"copy", "publish"} => data[idx[w]] = 0
  /\ pc[Reader] \in {"copy", "publish"} => data[idx[Reader]] = 1
  /\ pc[Reader] = "publish" => got = buf[idx[Reader]]
  /\ NoTornRead

\* DataInv is inductive relative to type correctness and mutual exclusion.
LEMMA DataInductive ==
  /\ Init => DataInv
  /\ TypeInv /\ BlockExclusion /\ DataInv /\ [Next]_vars => DataInv'
<1> USE DEF DataInv, NoTornRead, Full
<1>1. Init => DataInv
  BY ChannelAssumption DEF Init, Threads
<1>2. ASSUME TypeInv, BlockExclusion, DataInv, [Next]_vars
      PROVE  DataInv'
  <2> USE <1>2, ChannelAssumption
      DEF TypeInv, TypeOK, Threads, channelVars, blockVars, endVars, histVars, Goto
  <2>1. ASSUME NEW e \in Ends, EndStep(e) PROVE DataInv'
    BY <2>1 DEF EndStep, OpenFlag, OpenUsed, CloseFlag, CloseTest, CloseUsed
  <2>2. CASE ForceStop
    BY <2>2 DEF ForceStop
  <2>3. ASSUME NEW t \in Threads, BlockStep(t) PROVE DataInv'
    <3>1. CASE Acquire(t)
      BY <3>1 DEF Acquire
    <3>2. CASE Contend(t)
      BY <3>2 DEF Contend
    <3>3. CASE Recheck(t)
      BY <3>3 DEF Recheck
    <3>4. CASE CheckOpen(t)
      BY <3>4 DEF CheckOpen
    <3>5. CASE CheckState(t)
      BY <3>5 DEF CheckState, Wanted
    <3>6. CASE Unlock(t)
      BY <3>6 DEF Unlock
    <3> QED BY <2>3, <3>1, <3>2, <3>3, <3>4, <3>5, <3>6 DEF BlockStep
  <2>4. ASSUME NEW w \in Writers, WriteCall(w) \/ WriteStep(w)
        PROVE  DataInv'
    <3>1. CASE WriteCall(w)
      BY <3>1 DEF WriteCall
    <3>2. CASE WriteTicket(w)
      BY <3>2 DEF WriteTicket
    <3>3. CASE WriteCopy(w)
      BY <3>3 DEF WriteCopy, BlockExclusion, Holding
    <3>4. CASE WritePublish(w)
      <4>1. MsgOf(w) # Torn
        BY <3>4, MsgType DEF CallCounted, WritePublish
      <4> QED BY <3>4, <4>1 DEF WritePublish, BlockExclusion, Holding
    <3>5. CASE WriteFail(w)
      BY <3>5 DEF WriteFail
    <3> QED BY <2>3, <2>4, <3>1, <3>2, <3>3, <3>4, <3>5 DEF WriteStep
  <2>5. CASE ReadStep
    <3>1. CASE ReadCall
      BY <3>1 DEF ReadCall
    <3>2. CASE ReadTicket
      BY <3>2 DEF ReadTicket
    <3>3. CASE ReadCopy
      BY <3>3 DEF ReadCopy
    <3>4. CASE ReadPublish
      BY <3>4 DEF ReadPublish, BlockExclusion, Holding
    <3>5. CASE ReadFail
      BY <3>5 DEF ReadFail
    <3> QED BY <2>3, <2>5, <3>1, <3>2, <3>3, <3>4, <3>5 DEF ReadStep
  <2>6. CASE UNCHANGED vars
    BY <2>6 DEF vars
  <2> QED BY <1>2, <2>1, <2>2, <2>4, <2>5, <2>6 DEF Next
<1> QED
  BY <1>1, <1>2

\* No read returns a half-written block, with any number of writers.
THEOREM NoTornReadHolds == Spec => []NoTornRead
<1>1. DataInv => NoTornRead
  BY DEF DataInv
<1> QED
  BY <1>1, TypeInductive, ExclusionInductive, DataInductive, PTL DEF Spec

----------------------------------------------------------------------------
(***************************************************************************)
(* Conservation.  The message a writer is writing is new: MsgOf(w) is not  *)
(* accepted before its WritePublish, and no message with a larger number   *)
(* is.  So WritePublish adds one message and fills one empty block, and    *)
(* ReadPublish moves one message from a full block to the end of received. *)
(***************************************************************************)

FreshInv ==
  /\ \A w \in Writers : MsgOf(w) \in accepted => pc[w] \in {"idle", "unlock"}
  /\ \A m \in accepted : m[2] <= sent[m[1]]

ConservationInv == IsFiniteSet(accepted) /\ FreshInv /\ Conservation

\* A step that moves no message and begins no call keeps the conservation,
\* when it takes no writer back into a call that has ended.
LEMMA QuietStep ==
  ASSUME TypeInv, ConservationInv,
         UNCHANGED <<data, buf, accepted, received, sent>>,
         \A w \in Writers : pc[w] \in {"idle", "unlock"} => pc'[w] \in {"idle", "unlock"}
  PROVE  ConservationInv'
<1>1. FreshInv'
  BY DEF ConservationInv, FreshInv, MsgOf
<1>2. Full' = Full
  BY DEF Full
<1>3. Conservation'
  BY <1>2 DEF ConservationInv, Conservation
<1> QED
  BY <1>1, <1>3 DEF ConservationInv

\* The set of full blocks is finite.
LEMMA FullFinite ==
  IsFiniteSet(Full)
<1>1. IsFiniteSet(Blocks)
  BY FS_Interval, ChannelAssumption DEF Blocks
<1> QED
  BY <1>1, FS_Subset DEF Full

\* WritePublish: one message more is accepted, one block more is full.
LEMMA WritePublishConserves ==
  ASSUME TypeInv, DataInv, ConservationInv, NEW w \in Writers, WritePublish(w)
  PROVE  ConservationInv'
<1> DEFINE b == idx[w]
           m == MsgOf(w)
<1> USE DEF TypeInv, TypeOK, Threads, Goto
<1>1. /\ b \in Blocks \ Full
      /\ m \notin accepted
      /\ m' = m
  BY DEF WritePublish, DataInv, Full, ConservationInv, FreshInv, MsgOf
<1>2. Full' = Full \cup {b}
  BY <1>1 DEF WritePublish, Full
<1>3. /\ accepted' = accepted \cup {m}
      /\ IsFiniteSet(accepted')
      /\ Cardinality(accepted') = Cardinality(accepted) + 1
  BY <1>1, FS_AddElement DEF WritePublish, ConservationInv
<1>4. Cardinality(Full') = Cardinality(Full) + 1
  BY <1>1, <1>2, FullFinite, FS_AddElement
<1>5. {buf'[c] : c \in Full'} = {buf[c] : c \in Full} \cup {m}
  BY <1>1, <1>2 DEF WritePublish, Full
<1>6. Conservation'
  <2>1. received' = received
    BY DEF WritePublish
  <2>2. Cardinality(Full) \in Nat /\ Cardinality(accepted) \in Nat /\ Len(received) \in Nat
    BY FullFinite, FS_CardinalityType DEF ConservationInv
  <2>3. /\ accepted = Range(received) \cup {buf[c] : c \in Full}
        /\ Cardinality(accepted) = Len(received) + Cardinality(Full)
    BY DEF ConservationInv, Conservation
  <2>4. Cardinality(accepted') = Len(received') + Cardinality(Full')
    BY <1>3, <1>4, <2>1, <2>2, <2>3
  <2>5. accepted' = Range(received') \cup {buf'[c] : c \in Full'}
    <3>1. accepted' = Range(received) \cup ({buf[c] : c \in Full} \cup {m})
      BY <1>3, <2>3, Zenon
    <3> QED BY <3>1, <1>5, <2>1
  <2> QED BY <2>4, <2>5 DEF Conservation
<1>7. FreshInv'
  <2>1. /\ sent' = sent
        /\ pc'[w] = "unlock"
        /\ \A u \in Writers \ {w} : pc'[u] = pc[u]
    BY DEF WritePublish
  <2>2. \A u \in Writers : m = MsgOf(u) => u = w
    BY DEF MsgOf
  <2>3. m[2] <= sent[m[1]]
    BY DEF MsgOf
  <2> QED BY <1>3, <2>1, <2>2, <2>3 DEF ConservationInv, FreshInv, MsgOf
<1> QED
  BY <1>3, <1>6, <1>7 DEF ConservationInv

\* WriteCopy spoils only a block that is not full.
LEMMA WriteCopyConserves ==
  ASSUME TypeInv, DataInv, ConservationInv, NEW w \in Writers, WriteCopy(w)
  PROVE  ConservationInv'
<1> USE DEF TypeInv, TypeOK, Threads, Goto
<1>1. /\ Full' = Full
      /\ \A b \in Full : buf'[b] = buf[b]
      /\ UNCHANGED <<accepted, received, sent>>
  BY DEF WriteCopy, DataInv, Full, histVars
<1>2. FreshInv'
  BY <1>1 DEF WriteCopy, ConservationInv, FreshInv, MsgOf
<1>3. {buf'[b] : b \in Full'} = {buf[b] : b \in Full}
  BY <1>1
<1>4. Conservation'
  BY <1>1, <1>3 DEF ConservationInv, Conservation
<1> QED
  BY <1>1, <1>2, <1>4 DEF ConservationInv

\* What a sequence holds after an append.
LEMMA RangeAppend ==
  ASSUME NEW S, NEW s \in Seq(S), NEW e \in S
  PROVE  Range(Append(s, e)) = Range(s) \cup {e}
<1> DEFINE t == Append(s, e)
<1>1. /\ DOMAIN t = 1 .. Len(s) + 1
      /\ t[Len(s) + 1] = e
      /\ \A i \in 1 .. Len(s) : t[i] = s[i]
      /\ Len(s) \in Nat
      /\ DOMAIN s = 1 .. Len(s)
  OBVIOUS
<1> HIDE DEF t
<1>2. ASSUME NEW x \in Range(t) PROVE x \in Range(s) \cup {e}
  <2>1. PICK i \in DOMAIN t : t[i] = x
    BY DEF Range
  <2>2. i = Len(s) + 1 \/ i \in 1 .. Len(s)
    BY <1>1
  <2> QED BY <1>1, <2>1, <2>2 DEF Range
<1>3. ASSUME NEW x \in Range(s) \cup {e} PROVE x \in Range(t)
  <2>1. PICK i \in DOMAIN t : t[i] = x
    <3>1. CASE x = e
      BY <1>1, <3>1
    <3>2. CASE x \in Range(s)
      BY <1>1, <3>2 DEF Range
    <3> QED BY <3>1, <3>2
  <2> QED BY <2>1 DEF Range
<1> QED
  BY <1>2, <1>3 DEF t

\* ReadPublish: one message moves from its block to received.
LEMMA ReadPublishConserves ==
  ASSUME TypeInv, DataInv, ConservationInv, ReadPublish
  PROVE  ConservationInv'
<1> DEFINE b == idx[Reader]
<1> USE DEF TypeInv, TypeOK, Threads, Goto
<1>1. b \in Full /\ got = buf[b]
  BY DEF ReadPublish, DataInv, Full
<1>2. Full' = Full \ {b}
  BY <1>1 DEF ReadPublish, Full
<1>3. Cardinality(Full') = Cardinality(Full) - 1
  BY <1>1, <1>2, FullFinite, FS_RemoveElement
<1>4. /\ received' = Append(received, got)
      /\ buf' = buf /\ accepted' = accepted /\ sent' = sent
      /\ \A w \in Writers : pc'[w] = pc[w]
  BY ChannelAssumption DEF ReadPublish
<1>5. Range(received') = Range(received) \cup {got}
  <2>1. received \in Seq(Msgs \cup {Torn}) /\ got \in Msgs \cup {Torn}
    BY <1>1
  <2> HIDE DEF TypeInv, TypeOK
  <2> QED BY <1>4, <2>1, RangeAppend
<1>6. Len(received') = Len(received) + 1
  BY <1>4
<1>7. {buf'[c] : c \in Full'} \cup {got} = {buf[c] : c \in Full}
  BY <1>1, <1>2, <1>4
<1>8. Conservation'
  <2>1. Cardinality(Full) \in Nat /\ Len(received) \in Nat
    BY FullFinite, FS_CardinalityType
  <2>2. /\ accepted = Range(received) \cup {buf[c] : c \in Full}
        /\ Cardinality(accepted) = Len(received) + Cardinality(Full)
    BY DEF ConservationInv, Conservation
  <2>3. Cardinality(accepted') = Len(received') + Cardinality(Full')
    BY <1>3, <1>4, <1>6, <2>1, <2>2
  <2>4. accepted' = Range(received') \cup {buf'[c] : c \in Full'}
    <3>1. accepted' = Range(received) \cup ({buf'[c] : c \in Full'} \cup {got})
      BY <1>4, <1>7, <2>2
    <3> QED BY <3>1, <1>5, Zenon
  <2> QED BY <2>3, <2>4 DEF Conservation
<1> QED
  BY <1>4, <1>8 DEF ConservationInv, FreshInv, MsgOf

\* WriteCall begins a call with a number no accepted message has.
LEMMA WriteCallConserves ==
  ASSUME TypeInv, ConservationInv, NEW w \in Writers, WriteCall(w)
  PROVE  ConservationInv'
<1> USE DEF TypeInv, TypeOK, Threads, Goto
<1>1. /\ sent' = [sent EXCEPT ![w] = sent[w] + 1]
      /\ \A u \in Writers \ {w} : pc'[u] = pc[u]
      /\ UNCHANGED <<data, buf, accepted, received>>
  BY DEF WriteCall, blockVars, histVars
<1>2. \A m \in accepted : m \in Msgs /\ m[2] <= sent[m[1]]
  BY DEF ConservationInv, FreshInv
<1>3. MsgOf(w)' \notin accepted
  BY <1>1, <1>2 DEF MsgOf
<1>4. FreshInv'
  <2>1. \A m \in accepted : m[2] <= sent'[m[1]]
    BY <1>1, <1>2 DEF Msgs
  <2>2. \A u \in Writers \ {w} : MsgOf(u)' = MsgOf(u)
    BY <1>1 DEF MsgOf
  <2> QED BY <1>1, <1>3, <2>1, <2>2 DEF ConservationInv, FreshInv
<1>5. Full' = Full
  BY <1>1 DEF Full
<1> QED
  BY <1>1, <1>4, <1>5 DEF ConservationInv, Conservation

\* Conservation is inductive with FreshInv, relative to the facts above.
LEMMA ConservationInductive ==
  /\ Init => ConservationInv
  /\ TypeInv /\ DataInv /\ ConservationInv /\ [Next]_vars => ConservationInv'
<1>1. Init => ConservationInv
  <2> SUFFICES ASSUME Init PROVE ConservationInv
    OBVIOUS
  <2>1. Full = {} /\ received = <<>> /\ accepted = {}
    BY DEF Init, Full
  <2>2. Range(received) = {} /\ Len(received) = 0
    BY <2>1 DEF Range
  <2> QED BY <2>1, <2>2, FS_EmptySet DEF ConservationInv, FreshInv, Conservation
<1>2. ASSUME TypeInv, DataInv, ConservationInv, [Next]_vars
      PROVE  ConservationInv'
  <2> USE <1>2
  <2> USE DEF TypeInv, TypeOK, Threads, channelVars, blockVars, endVars, histVars, Goto
  <2>1. ASSUME NEW e \in Ends, EndStep(e) PROVE ConservationInv'
    BY <2>1, QuietStep DEF EndStep, OpenFlag, OpenUsed, CloseFlag, CloseTest, CloseUsed
  <2>2. CASE ForceStop
    BY <2>2, QuietStep DEF ForceStop
  <2>3. ASSUME NEW t \in Threads, BlockStep(t) PROVE ConservationInv'
    <3>1. CASE Acquire(t)
      BY <3>1, QuietStep DEF Acquire
    <3>2. CASE Contend(t)
      BY <3>2, QuietStep DEF Contend
    <3>3. CASE Recheck(t)
      BY <3>3, QuietStep DEF Recheck
    <3>4. CASE CheckOpen(t)
      BY <3>4, QuietStep DEF CheckOpen
    <3>5. CASE CheckState(t)
      BY <3>5, QuietStep DEF CheckState
    <3>6. CASE Unlock(t)
      BY <3>6, QuietStep DEF Unlock
    <3> QED BY <2>3, <3>1, <3>2, <3>3, <3>4, <3>5, <3>6 DEF BlockStep
  <2>4. ASSUME NEW w \in Writers, WriteCall(w) \/ WriteStep(w)
        PROVE  ConservationInv'
    <3>1. CASE WriteCall(w)
      BY <3>1, WriteCallConserves
    <3>2. CASE WriteTicket(w)
      BY <3>2, QuietStep DEF WriteTicket
    <3>3. CASE WriteCopy(w)
      BY <3>3, WriteCopyConserves
    <3>4. CASE WritePublish(w)
      BY <3>4, WritePublishConserves
    <3>5. CASE WriteFail(w)
      BY <3>5, QuietStep DEF WriteFail
    <3> QED BY <2>3, <2>4, <3>1, <3>2, <3>3, <3>4, <3>5 DEF WriteStep
  <2>5. CASE ReadStep
    <3>1. CASE ReadCall
      BY <3>1, QuietStep, ChannelAssumption DEF ReadCall
    <3>2. CASE ReadTicket
      BY <3>2, QuietStep, ChannelAssumption DEF ReadTicket
    <3>3. CASE ReadCopy
      BY <3>3, QuietStep, ChannelAssumption DEF ReadCopy
    <3>4. CASE ReadPublish
      BY <3>4, ReadPublishConserves
    <3>5. CASE ReadFail
      BY <3>5, QuietStep, ChannelAssumption DEF ReadFail
    <3> QED BY <2>3, <2>5, <3>1, <3>2, <3>3, <3>4, <3>5 DEF ReadStep
  <2>6. CASE UNCHANGED vars
    BY <2>6, QuietStep DEF vars
  <2> QED BY <1>2, <2>1, <2>2, <2>4, <2>5, <2>6 DEF Next
<1> QED
  BY <1>1, <1>2

\* A message that a write stored is in exactly one block or was returned by
\* exactly one read, for any number of writers, however they overtake each
\* other and whichever ends are closed or stopped.
THEOREM ConservationHolds == Spec => []Conservation
<1>1. ConservationInv => Conservation
  BY DEF ConservationInv
<1> QED
  BY <1>1, TypeInductive, ExclusionInductive, DataInductive, ConservationInductive,
     PTL DEF Spec

----------------------------------------------------------------------------
(***************************************************************************)
(* The ticket counters.  Each step that changes writen_count changes the   *)
(* set of writers with a ticket, or the set of accepted messages, by one.  *)
(***************************************************************************)

\* Removing or adding a writer with a ticket changes their number by one.
LEMMA TicketWritersCount ==
  /\ IsFiniteSet(TicketWriters)
  /\ Cardinality(TicketWriters) \in Nat
  /\ \A w \in Writers :
       /\ w \notin TicketWriters =>
            Cardinality(TicketWriters \cup {w}) = Cardinality(TicketWriters) + 1
       /\ w \in TicketWriters =>
            Cardinality(TicketWriters \ {w}) = Cardinality(TicketWriters) - 1
<1>1. IsFiniteSet(TicketWriters)
  BY FS_Subset, ChannelAssumption DEF TicketWriters
<1> QED
  BY <1>1, FS_CardinalityType, FS_AddElement, FS_RemoveElement

\* A step that neither draws nor gives back a ticket, and completes no call,
\* keeps the accounts.
LEMMA AccountsKept ==
  ASSUME TypeInv, TicketAccounting,
         UNCHANGED <<writenCount, readCount, accepted, received>>,
         \A t \in Threads : HasTicket(t)' <=> HasTicket(t)
  PROVE  TicketAccounting'
<1>1. TicketWriters' = TicketWriters
  BY DEF TicketWriters, Threads
<1>2. Reader \in Threads
  BY DEF Threads
<1> QED
  BY <1>1, <1>2 DEF TicketAccounting

\* TicketAccounting is inductive relative to the invariants above.
LEMMA TicketInductive ==
  /\ Init => TicketAccounting
  /\ /\ TypeInv /\ DataInv /\ ConservationInv /\ TicketAccounting
     /\ [Next]_vars
     => TicketAccounting'
<1>1. Init => TicketAccounting
  <2> SUFFICES ASSUME Init PROVE TicketAccounting
    OBVIOUS
  <2>1. TicketWriters = {} /\ ~HasTicket(Reader)
    BY DEF Init, TicketWriters, HasTicket, Threads
  <2>2. Len(received) = 0 /\ Cardinality(accepted) = 0 /\ Cardinality(TicketWriters) = 0
    BY <2>1, FS_EmptySet DEF Init
  <2> QED BY <2>1, <2>2 DEF TicketAccounting, Init
<1>2. ASSUME TypeInv, DataInv, ConservationInv, TicketAccounting, [Next]_vars
      PROVE  TicketAccounting'
  <2> USE <1>2
  <2> USE DEF TypeInv, TypeOK, Threads, channelVars, blockVars, endVars, histVars, Goto
  <2>1. ASSUME NEW e \in Ends, EndStep(e) PROVE TicketAccounting'
    BY <2>1, AccountsKept
    DEF EndStep, OpenFlag, OpenUsed, CloseFlag, CloseTest, CloseUsed, HasTicket
  <2>2. CASE ForceStop
    BY <2>2, AccountsKept DEF ForceStop, HasTicket
  <2>3. ASSUME NEW t \in Threads, BlockStep(t) PROVE TicketAccounting'
    <3>1. CASE Acquire(t)
      BY <3>1, AccountsKept DEF Acquire, HasTicket
    <3>2. CASE Contend(t)
      BY <3>2, AccountsKept DEF Contend, HasTicket
    <3>3. CASE Recheck(t)
      BY <3>3, AccountsKept DEF Recheck, HasTicket
    <3>4. CASE CheckOpen(t)
      BY <3>4, AccountsKept DEF CheckOpen, HasTicket
    <3>5. CASE CheckState(t)
      BY <3>5, AccountsKept DEF CheckState, HasTicket
    <3>6. CASE Unlock(t)
      BY <3>6, AccountsKept DEF Unlock, HasTicket
    <3> QED BY <2>3, <3>1, <3>2, <3>3, <3>4, <3>5, <3>6 DEF BlockStep
  <2>4. ASSUME NEW w \in Writers, WriteCall(w) \/ WriteStep(w)
        PROVE  TicketAccounting'
    <3>1. CASE WriteCall(w)
      BY <3>1, AccountsKept DEF WriteCall, HasTicket
    <3>2. CASE WriteTicket(w)
      <4>1. w \notin TicketWriters /\ TicketWriters' = TicketWriters \cup {w}
        BY <3>2 DEF WriteTicket, TicketWriters, HasTicket
      <4>2. /\ writenCount' = writenCount + 1
            /\ UNCHANGED <<readCount, accepted, received>>
            /\ pc'[Reader] = pc[Reader]
        BY <3>2, ChannelAssumption DEF WriteTicket
      <4>3. Cardinality(accepted) \in Nat
        BY FS_CardinalityType DEF ConservationInv
      <4>4. /\ Cardinality(TicketWriters) \in Nat
            /\ Cardinality(TicketWriters') = Cardinality(TicketWriters) + 1
        BY <4>1, TicketWritersCount
      <4> QED BY <4>2, <4>3, <4>4 DEF TicketAccounting, HasTicket
    <3>3. CASE WriteCopy(w)
      BY <3>3, AccountsKept DEF WriteCopy, HasTicket
    <3>4. CASE WritePublish(w)
      <4>1. w \in TicketWriters /\ TicketWriters' = TicketWriters \ {w}
        BY <3>4 DEF WritePublish, TicketWriters, HasTicket
      <4>2. /\ UNCHANGED <<writenCount, readCount, received>>
            /\ accepted' = accepted \cup {MsgOf(w)}
            /\ MsgOf(w) \notin accepted
            /\ pc'[Reader] = pc[Reader]
        BY <3>4, ChannelAssumption DEF WritePublish, ConservationInv, FreshInv
      <4>3. /\ Cardinality(accepted) \in Nat
            /\ Cardinality(accepted') = Cardinality(accepted) + 1
        BY <4>2, FS_CardinalityType, FS_AddElement DEF ConservationInv
      <4>4. /\ Cardinality(TicketWriters) \in Nat
            /\ Cardinality(TicketWriters') = Cardinality(TicketWriters) - 1
        BY <4>1, TicketWritersCount
      <4> QED BY <4>2, <4>3, <4>4 DEF TicketAccounting, HasTicket
    <3>5. CASE WriteFail(w)
      <4>1. w \in TicketWriters /\ TicketWriters' = TicketWriters \ {w}
        BY <3>5 DEF WriteFail, TicketWriters, HasTicket
      <4>2. /\ writenCount' = writenCount - 1
            /\ UNCHANGED <<readCount, accepted, received>>
            /\ pc'[Reader] = pc[Reader]
        BY <3>5, ChannelAssumption DEF WriteFail
      <4>3. Cardinality(accepted) \in Nat
        BY FS_CardinalityType DEF ConservationInv
      <4>4. /\ Cardinality(TicketWriters) \in Nat
            /\ Cardinality(TicketWriters') = Cardinality(TicketWriters) - 1
        BY <4>1, TicketWritersCount
      <4> QED BY <4>2, <4>3, <4>4 DEF TicketAccounting, HasTicket
    <3> QED BY <2>3, <2>4, <3>1, <3>2, <3>3, <3>4, <3>5 DEF WriteStep
  <2>5. CASE ReadStep
    <3>1. CASE ReadCall
      BY <3>1, AccountsKept DEF ReadCall, HasTicket
    <3>2. CASE ReadTicket
      <4>1. TicketWriters' = TicketWriters
        BY <3>2, ChannelAssumption DEF ReadTicket, TicketWriters, HasTicket
      <4> QED BY <3>2, <4>1 DEF ReadTicket, TicketAccounting, HasTicket
    <3>3. CASE ReadCopy
      BY <3>3, AccountsKept DEF ReadCopy, HasTicket
    <3>4. CASE ReadPublish
      <4>1. TicketWriters' = TicketWriters
        BY <3>4, ChannelAssumption DEF ReadPublish, TicketWriters, HasTicket
      <4>2. Len(received') = Len(received) + 1
        BY <3>4 DEF ReadPublish
      <4> QED BY <3>4, <4>1, <4>2 DEF ReadPublish, TicketAccounting, HasTicket
    <3>5. CASE ReadFail
      <4>1. TicketWriters' = TicketWriters
        BY <3>5, ChannelAssumption DEF ReadFail, TicketWriters, HasTicket
      <4> QED BY <3>5, <4>1 DEF ReadFail, TicketAccounting, HasTicket
    <3> QED BY <2>3, <2>5, <3>1, <3>2, <3>3, <3>4, <3>5 DEF ReadStep
  <2>6. CASE UNCHANGED vars
    BY <2>6, AccountsKept DEF vars, HasTicket
  <2> QED BY <1>2, <2>1, <2>2, <2>4, <2>5, <2>6 DEF Next
<1> QED
  BY <1>1, <1>2

\* The ticket counters are the completed calls plus the calls under way: a
\* call that fails gives back its ticket, and no ticket is lost, even when
\* many writers fail and draw at the same time.
THEOREM TicketAccountingHolds == Spec => []TicketAccounting
BY TypeInductive, ExclusionInductive, DataInductive, ConservationInductive,
   TicketInductive, PTL DEF Spec

=============================================================================
