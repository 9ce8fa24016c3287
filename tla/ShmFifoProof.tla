--------------------------- MODULE ShmFifoProof ---------------------------
(***************************************************************************)
(* With one writing and one reading thread a channel implements            *)
(* BoundedFifo, for every number of blocks and messages, whatever ends are *)
(* closed or stopped and wherever the two threads are in their calls.      *)
(*                                                                         *)
(* Tickets are what orders the blocks.  One writer draws a ticket only     *)
(* when it holds none, so its ticket is the number of messages accepted;   *)
(* the reader's is the number of messages received.  The full blocks are   *)
(* those of the tickets in between.                                        *)
(***************************************************************************)
EXTENDS ShmChannelProof, SequenceTheorems

OneWriter == \A v, w \in Writers : v = w

----------------------------------------------------------------------------
(* The blocks of consecutive tickets. *)

\* Two tickets less than BLOCK_NUM apart are of different blocks.
LEMMA TicketsApart ==
  ASSUME NEW j \in Nat, NEW k \in Nat, j < k, k - j < BlockNum
  PROVE  j % BlockNum # k % BlockNum
<1> DEFINE N == BlockNum
           p == j \div N
           q == k \div N
<1>1. N \in Nat \ {0}
  BY ChannelAssumption
<1>2. /\ p \in Int /\ q \in Int
      /\ j = (N * p) + (j % N)
      /\ k = (N * q) + (k % N)
  BY <1>1
<1> SUFFICES ASSUME j % N = k % N PROVE FALSE
  OBVIOUS
<1>3. k - j = N * (q - p)
  BY <1>1, <1>2
<1>4. q - p \in Int
  BY <1>2
<1> HIDE DEF N, p, q
<1>5. ASSUME NEW d \in Int, k - j = N * d PROVE FALSE
  <2>1. CASE d <= 0
    <3>1. N * d <= 0
      BY <1>1, <2>1
    <3> QED BY <1>5, <3>1
  <2>2. CASE d >= 1
    <3>1. N * d >= N
      BY <1>1, <2>2
    <3> QED BY <1>1, <1>5, <3>1 DEF N
  <2> QED BY <2>1, <2>2
<1> QED
  BY <1>3, <1>4, <1>5

\* The blocks of the tickets from j up to, but not including, k.
Between(j, k) == {i % BlockNum : i \in j .. k - 1}

\* One ticket more at the end is one block more.
LEMMA BetweenGrows ==
  ASSUME NEW j \in Nat, NEW k \in Nat, j <= k
  PROVE  Between(j, k + 1) = Between(j, k) \cup {k % BlockNum}
<1>1. j .. (k + 1) - 1 = (j .. k - 1) \cup {k}
  OBVIOUS
<1> QED
  BY <1>1 DEF Between

\* At most BLOCK_NUM tickets are of distinct blocks, so one ticket less at the
\* start is one block less.
LEMMA BetweenShrinks ==
  ASSUME NEW j \in Nat, NEW k \in Nat, j < k, k - j <= BlockNum
  PROVE  Between(j + 1, k) = Between(j, k) \ {j % BlockNum}
<1>1. j .. k - 1 = ((j + 1) .. k - 1) \cup {j}
  OBVIOUS
<1>2. \A i \in (j + 1) .. k - 1 : i % BlockNum # j % BlockNum
  <2> TAKE i \in (j + 1) .. k - 1
  <2>1. i \in Nat /\ j < i /\ i - j < BlockNum
    BY ChannelAssumption
  <2> QED BY <2>1, TicketsApart
<1> QED
  BY <1>1, <1>2 DEF Between

----------------------------------------------------------------------------
(***************************************************************************)
(* The order of the blocks.                                                *)
(***************************************************************************)

OrderInv ==
  /\ \A w \in Writers : HasTicket(w) => idx[w] = Cardinality(accepted) % BlockNum
  /\ HasTicket(Reader) => idx[Reader] = Len(received) % BlockNum
  /\ Full = Between(Len(received), Cardinality(accepted))

\* What the invariants of ShmChannelProof say of the numbers of messages.
LEMMA MessageNumbers ==
  ASSUME TypeInv, ConservationInv
  PROVE  /\ Len(received) \in Nat
         /\ Cardinality(accepted) \in Nat
         /\ Cardinality(Full) \in Nat
         /\ Cardinality(accepted) = Len(received) + Cardinality(Full)
         /\ Cardinality(Full) <= BlockNum
         /\ \A b \in Blocks \ Full : Cardinality(Full) < BlockNum
<1> DEFINE n == Cardinality(Full)
<1>1. received \in Seq(Msgs \cup {Torn})
  BY DEF TypeInv, TypeOK
<1>2. Cardinality(accepted) \in Nat /\ n \in Nat
  BY FullFinite, FS_CardinalityType DEF ConservationInv
<1>3. Cardinality(accepted) = Len(received) + n
  BY DEF ConservationInv, Conservation
<1>4. IsFiniteSet(Blocks) /\ Cardinality(Blocks) = BlockNum
  <2>1. BlockNum \in Nat \ {0}
    BY ChannelAssumption
  <2>2. /\ IsFiniteSet(0 .. BlockNum - 1)
        /\ Cardinality(0 .. BlockNum - 1) = BlockNum
    BY <2>1, FS_Interval
  <2> QED BY <2>2 DEF Blocks
<1>5. n <= BlockNum
  BY <1>4, FS_Subset DEF Full
<1>6. ASSUME NEW b \in Blocks \ Full PROVE n < BlockNum
  <2>1. Full \cup {b} \subseteq Blocks
    BY DEF Full
  <2>2. Cardinality(Full \cup {b}) <= BlockNum
    BY <1>4, <2>1, FS_Subset
  <2>3. Cardinality(Full \cup {b}) = n + 1
    BY FullFinite, FS_AddElement
  <2>4. BlockNum \in Nat
    BY ChannelAssumption
  <2> QED BY <1>2, <2>2, <2>3, <2>4
<1> QED
  BY <1>1, <1>2, <1>3, <1>5, <1>6

\* A step that moves no message and draws no ticket keeps the order.
LEMMA OrderKept ==
  ASSUME OrderInv, UNCHANGED <<data, accepted, received>>,
         \A t \in Threads : HasTicket(t)' => HasTicket(t) /\ idx'[t] = idx[t]
  PROVE  OrderInv'
<1>1. Full' = Full
  BY DEF Full
<1> QED
  BY <1>1 DEF OrderInv, Between, Threads

\* The only writer draws a ticket when it holds none: writen_count is then the
\* number of messages accepted.
LEMMA WriteTicketOrder ==
  ASSUME OneWriter, TypeInv, ConservationInv, TicketAccounting, OrderInv,
         NEW w \in Writers, WriteTicket(w)
  PROVE  OrderInv'
<1> USE DEF TypeInv, TypeOK, Threads, Goto, blockVars, histVars
<1>1. TicketWriters = {}
  BY DEF TicketWriters, HasTicket, WriteTicket, OneWriter
<1>2. writenCount = Cardinality(accepted)
  BY <1>1, FS_EmptySet, MessageNumbers DEF TicketAccounting
<1>3. /\ idx' = [idx EXCEPT ![w] = Cardinality(accepted) % BlockNum]
      /\ pc' = [pc EXCEPT ![w] = "lock"]
      /\ UNCHANGED <<data, accepted, received>>
  BY <1>2 DEF WriteTicket
<1>4. Full' = Full
  BY <1>3 DEF Full
<1>5. w # Reader
  BY ChannelAssumption
<1> QED
  BY <1>3, <1>4, <1>5 DEF OrderInv, OneWriter, HasTicket, Between

\* The reader draws a ticket when it holds none: read_count is then the number
\* of messages received.
LEMMA ReadTicketOrder ==
  ASSUME TypeInv, ConservationInv, TicketAccounting, OrderInv, ReadTicket
  PROVE  OrderInv'
<1> USE DEF TypeInv, TypeOK, Threads, Goto, blockVars, histVars
<1>1. ~HasTicket(Reader)
  BY DEF HasTicket, ReadTicket
<1>2. readCount = Len(received)
  BY <1>1, MessageNumbers DEF TicketAccounting
<1>3. /\ idx' = [idx EXCEPT ![Reader] = Len(received) % BlockNum]
      /\ pc' = [pc EXCEPT ![Reader] = "lock"]
      /\ UNCHANGED <<data, accepted, received>>
  BY <1>2 DEF ReadTicket
<1>4. Full' = Full
  BY <1>3 DEF Full
<1> QED
  BY <1>3, <1>4, ChannelAssumption DEF OrderInv, HasTicket, Between

\* What WritePublish does to the blocks and the numbers of messages.
LEMMA WritePublishNumbers ==
  ASSUME TypeInv, DataInv, ConservationInv, NEW w \in Writers, WritePublish(w)
  PROVE  /\ idx[w] \in Blocks \ Full
         /\ Full' = Full \cup {idx[w]}
         /\ MsgOf(w) \in Msgs \ accepted
         /\ accepted' = accepted \cup {MsgOf(w)}
         /\ received' = received
         /\ buf' = [buf EXCEPT ![idx[w]] = MsgOf(w)]
         /\ pc' = [pc EXCEPT ![w] = "unlock"]
         /\ idx' = idx
         /\ Cardinality(accepted') = Cardinality(accepted) + 1
         /\ Cardinality(Full') = Cardinality(Full) + 1
<1> USE DEF TypeInv, TypeOK, Threads, Goto
<1>1. idx[w] \in Blocks \ Full
  BY DEF WritePublish, DataInv, Full
<1>2. Full' = Full \cup {idx[w]}
  BY <1>1 DEF WritePublish, Full
<1>3. MsgOf(w) \in Msgs
  BY MsgType DEF CallCounted, WritePublish
<1>4. MsgOf(w) \notin accepted
  BY DEF WritePublish, ConservationInv, FreshInv
<1>5. /\ accepted' = accepted \cup {MsgOf(w)}
      /\ received' = received
      /\ buf' = [buf EXCEPT ![idx[w]] = MsgOf(w)]
      /\ pc' = [pc EXCEPT ![w] = "unlock"]
      /\ idx' = idx
  BY DEF WritePublish
<1>6. Cardinality(accepted') = Cardinality(accepted) + 1
  BY <1>4, <1>5, FS_AddElement DEF ConservationInv
<1>7. Cardinality(Full') = Cardinality(Full) + 1
  BY <1>1, <1>2, FullFinite, FS_AddElement
<1> QED
  BY <1>1, <1>2, <1>3, <1>4, <1>5, <1>6, <1>7

\* The block a writer fills is the one after the newest full block.
LEMMA WritePublishOrder ==
  ASSUME OneWriter, TypeInv, DataInv, ConservationInv, OrderInv,
         NEW w \in Writers, WritePublish(w)
  PROVE  OrderInv'
<1> DEFINE r == Len(received)
           a == Cardinality(accepted)
<1>1. idx[w] = a % BlockNum
  BY DEF OrderInv, HasTicket, WritePublish
<1>2. r \in Nat /\ a \in Nat /\ r <= a
  BY MessageNumbers
<1>3. Full' = Between(r, a) \cup {a % BlockNum}
  BY <1>1, WritePublishNumbers DEF OrderInv
<1>4. Full' = Between(r, a + 1)
  BY <1>2, <1>3, BetweenGrows
<1>5. received' = received /\ Cardinality(accepted') = a + 1
  BY WritePublishNumbers
<1>6. Full' = Between(Len(received'), Cardinality(accepted'))
  BY <1>4, <1>5
<1>7. pc' = [pc EXCEPT ![w] = "unlock"] /\ idx' = idx
  BY WritePublishNumbers
<1>8. \A v \in Writers : ~HasTicket(v)'
  BY <1>7 DEF OneWriter, HasTicket, TypeInv, TypeOK, Threads
<1>9. HasTicket(Reader)' => idx'[Reader] = Len(received') % BlockNum
  BY <1>5, <1>7, ChannelAssumption DEF OrderInv, HasTicket, TypeInv, TypeOK, Threads
<1> QED
  BY <1>6, <1>8, <1>9 DEF OrderInv, Between

\* What ReadPublish does to the blocks and the numbers of messages.
LEMMA ReadPublishNumbers ==
  ASSUME TypeInv, DataInv, ConservationInv, ReadPublish
  PROVE  /\ idx[Reader] \in Full
         /\ Full' = Full \ {idx[Reader]}
         /\ got = buf[idx[Reader]]
         /\ received' = Append(received, got)
         /\ Len(received') = Len(received) + 1
         /\ accepted' = accepted
         /\ buf' = buf
         /\ pc' = [pc EXCEPT ![Reader] = "unlock"]
         /\ idx' = idx
         /\ Cardinality(Full') = Cardinality(Full) - 1
<1> USE DEF TypeInv, TypeOK, Threads, Goto
<1>1. idx[Reader] \in Full /\ got = buf[idx[Reader]]
  BY DEF ReadPublish, DataInv, Full
<1>2. Full' = Full \ {idx[Reader]}
  BY <1>1 DEF ReadPublish, Full
<1>3. Cardinality(Full') = Cardinality(Full) - 1
  BY <1>1, <1>2, FullFinite, FS_RemoveElement
<1>4. /\ received' = Append(received, got)
      /\ Len(received') = Len(received) + 1
      /\ accepted' = accepted
      /\ buf' = buf
      /\ pc' = [pc EXCEPT ![Reader] = "unlock"]
      /\ idx' = idx
  BY DEF ReadPublish
<1> QED
  BY <1>1, <1>2, <1>3, <1>4

\* The block the reader empties is the oldest full block.
LEMMA ReadPublishOrder ==
  ASSUME TypeInv, DataInv, ConservationInv, OrderInv, ReadPublish
  PROVE  OrderInv'
<1> DEFINE r == Len(received)
           a == Cardinality(accepted)
<1>1. idx[Reader] = r % BlockNum
  BY DEF OrderInv, HasTicket, ReadPublish
<1>2. r \in Nat /\ a \in Nat /\ a = r + Cardinality(Full)
  BY MessageNumbers
<1>3. Cardinality(Full) \in 1 .. BlockNum
  <2>1. Full # {}
    BY ReadPublishNumbers
  <2>2. Cardinality(Full) # 0
    BY <2>1, FullFinite, FS_EmptySet
  <2> QED BY <2>2, MessageNumbers, ChannelAssumption
<1>4. r < a /\ a - r <= BlockNum
  BY <1>2, <1>3, ChannelAssumption
<1>5. Full' = Between(r, a) \ {r % BlockNum}
  BY <1>1, ReadPublishNumbers DEF OrderInv
<1>6. Full' = Between(r + 1, a)
  BY <1>2, <1>4, <1>5, BetweenShrinks
<1>7. Len(received') = r + 1 /\ accepted' = accepted
  BY ReadPublishNumbers
<1>8. Full' = Between(Len(received'), Cardinality(accepted'))
  BY <1>6, <1>7
<1>9. pc' = [pc EXCEPT ![Reader] = "unlock"] /\ idx' = idx
  BY ReadPublishNumbers
<1>10. ~HasTicket(Reader)'
  BY <1>9 DEF HasTicket, TypeInv, TypeOK, Threads
<1>11. \A w \in Writers : HasTicket(w)' => idx'[w] = Cardinality(accepted') % BlockNum
  BY <1>7, <1>9, ChannelAssumption DEF OrderInv, HasTicket, TypeInv, TypeOK, Threads
<1> QED
  BY <1>8, <1>10, <1>11 DEF OrderInv, Between

\* OrderInv is inductive relative to the invariants of ShmChannelProof, when
\* there is one writer.
LEMMA OrderInductive ==
  ASSUME OneWriter
  PROVE  /\ Init => OrderInv
         /\ /\ TypeInv /\ DataInv /\ ConservationInv /\ TicketAccounting /\ OrderInv
            /\ [Next]_vars
            => OrderInv'
<1>1. Init => OrderInv
  <2> SUFFICES ASSUME Init PROVE OrderInv
    OBVIOUS
  <2>1. Full = {} /\ \A t \in Threads : ~HasTicket(t)
    BY DEF Init, Full, HasTicket
  <2>2. Len(received) = 0 /\ Cardinality(accepted) = 0
    BY FS_EmptySet DEF Init
  <2>3. Between(0, 0) = {}
    BY DEF Between
  <2> QED BY <2>1, <2>2, <2>3 DEF OrderInv, Threads
<1>2. ASSUME TypeInv, DataInv, ConservationInv, TicketAccounting, OrderInv, [Next]_vars
      PROVE  OrderInv'
  <2> USE <1>2
  <2> USE DEF TypeInv, TypeOK, Threads, channelVars, blockVars, endVars, histVars, Goto
  <2>1. ASSUME NEW e \in Ends, EndStep(e) PROVE OrderInv'
    BY <2>1, OrderKept
    DEF EndStep, OpenFlag, OpenUsed, CloseFlag, CloseTest, CloseUsed, HasTicket
  <2>2. CASE ForceStop
    BY <2>2, OrderKept DEF ForceStop, HasTicket
  <2>3. ASSUME NEW t \in Threads, BlockStep(t) PROVE OrderInv'
    <3>1. CASE Acquire(t)
      BY <3>1, OrderKept DEF Acquire, HasTicket
    <3>2. CASE Contend(t)
      BY <3>2, OrderKept DEF Contend, HasTicket
    <3>3. CASE Recheck(t)
      BY <3>3, OrderKept DEF Recheck, HasTicket
    <3>4. CASE CheckOpen(t)
      BY <3>4, OrderKept DEF CheckOpen, HasTicket
    <3>5. CASE CheckState(t)
      BY <3>5, OrderKept DEF CheckState, HasTicket
    <3>6. CASE Unlock(t)
      BY <3>6, OrderKept DEF Unlock, HasTicket
    <3> QED BY <2>3, <3>1, <3>2, <3>3, <3>4, <3>5, <3>6 DEF BlockStep
  <2>4. ASSUME NEW w \in Writers, WriteCall(w) \/ WriteStep(w)
        PROVE  OrderInv'
    <3>1. CASE WriteCall(w)
      BY <3>1, OrderKept DEF WriteCall, HasTicket
    <3>2. CASE WriteTicket(w)
      BY <3>2, WriteTicketOrder
    <3>3. CASE WriteCopy(w)
      BY <3>3, OrderKept DEF WriteCopy, HasTicket
    <3>4. CASE WritePublish(w)
      BY <3>4, WritePublishOrder
    <3>5. CASE WriteFail(w)
      BY <3>5, OrderKept DEF WriteFail, HasTicket
    <3> QED BY <2>3, <2>4, <3>1, <3>2, <3>3, <3>4, <3>5 DEF WriteStep
  <2>5. CASE ReadStep
    <3>1. CASE ReadCall
      BY <3>1, OrderKept DEF ReadCall, HasTicket
    <3>2. CASE ReadTicket
      BY <3>2, ReadTicketOrder
    <3>3. CASE ReadCopy
      BY <3>3, OrderKept DEF ReadCopy, HasTicket
    <3>4. CASE ReadPublish
      BY <3>4, ReadPublishOrder
    <3>5. CASE ReadFail
      BY <3>5, OrderKept DEF ReadFail, HasTicket
    <3> QED BY <2>3, <2>5, <3>1, <3>2, <3>3, <3>4, <3>5 DEF ReadStep
  <2>6. CASE UNCHANGED vars
    BY <2>6, OrderKept DEF vars, HasTicket
  <2> QED BY <1>2, <2>1, <2>2, <2>4, <2>5, <2>6 DEF Next
<1> QED
  BY <1>1, <1>2

----------------------------------------------------------------------------
(***************************************************************************)
(* The refinement.  WritePublish is Put, ReadPublish is Get, and no other  *)
(* step changes the queue of full blocks.                                  *)
(***************************************************************************)

\* The queue is a sequence of blocks' contents, and its blocks are full.
LEMMA QueueType ==
  ASSUME TypeInv, ConservationInv, OrderInv
  PROVE  /\ Queue \in Seq(Msgs \cup {Torn})
         /\ Len(Queue) = Cardinality(Full)
         /\ \A i \in 1 .. Cardinality(Full) :
              (Len(received) + i - 1) % BlockNum \in Full
<1> DEFINE r == Len(received)
           n == Cardinality(Full)
<1>1. r \in Nat /\ n \in Nat /\ Cardinality(accepted) = r + n
  BY MessageNumbers
<1> HIDE DEF r, n
<1>2. \A i \in 1 .. n : (r + i - 1) % BlockNum \in Full
  <2> TAKE i \in 1 .. n
  <2>1. r + i - 1 \in r .. (r + n) - 1
    BY <1>1
  <2> QED BY <1>1, <2>1 DEF OrderInv, Between, r
<1>3. \A i \in 1 .. n : buf[(r + i - 1) % BlockNum] \in Msgs \cup {Torn}
  BY <1>2 DEF Full, TypeInv, TypeOK
<1>4. Queue = [i \in 1 .. n |-> buf[(r + i - 1) % BlockNum]]
  BY DEF Queue, r, n
<1>5. Queue \in Seq(Msgs \cup {Torn}) /\ Len(Queue) = n
  BY <1>1, <1>3, <1>4
<1> QED
  BY <1>2, <1>5 DEF r, n

\* A step that changes neither the messages nor the contents of a full block
\* changes nothing of the queue.
LEMMA QueueKept ==
  ASSUME TypeInv, ConservationInv, OrderInv,
         UNCHANGED <<data, accepted, received>>,
         \A b \in Full : buf'[b] = buf[b]
  PROVE  UNCHANGED <<Queue, accepted, received>>
<1>1. Full' = Full
  BY DEF Full
<1>2. \A i \in 1 .. Cardinality(Full) :
        buf'[(Len(received) + i - 1) % BlockNum] = buf[(Len(received) + i - 1) % BlockNum]
  BY QueueType
<1> QED
  BY <1>1, <1>2 DEF Queue

\* Append and Tail, index by index.
LEMMA AppendTail ==
  ASSUME NEW S, NEW s \in Seq(S), NEW e \in S
  PROVE  /\ Append(s, e) = [i \in 1 .. Len(s) + 1 |-> IF i = Len(s) + 1 THEN e ELSE s[i]]
         /\ s # <<>> => Tail(s) = [i \in 1 .. Len(s) - 1 |-> s[i + 1]]
<1> DEFINE n == Len(s)
           t == Append(s, e)
           u == Tail(s)
<1>1. /\ t \in [1 .. Len(t) -> S] /\ n \in Nat /\ Len(t) = n + 1
      /\ \A i \in 1 .. n : t[i] = s[i]
      /\ t[n + 1] = e
  <2>1. /\ t \in Seq(S) /\ Len(t) = n + 1
        /\ \A i \in 1 .. n : t[i] = s[i]
        /\ t[n + 1] = e
    BY AppendProperties
  <2>2. n \in Nat
    BY LenProperties
  <2> HIDE DEF t, n
  <2>3. t \in [1 .. Len(t) -> S]
    BY <2>1, LenProperties
  <2> QED BY <2>1, <2>2, <2>3
<1>2. ASSUME s # <<>>
      PROVE  /\ u \in [1 .. Len(u) -> S] /\ Len(u) = n - 1
             /\ \A i \in 1 .. n - 1 : u[i] = s[i + 1]
  <2>1. u \in Seq(S) /\ Len(u) = n - 1 /\ \A i \in 1 .. Len(u) : u[i] = s[i + 1]
    BY <1>2, HeadTailProperties
  <2> QED BY <2>1, LenProperties
<1> HIDE DEF t, u, n
<1>3. t = [i \in 1 .. n + 1 |-> IF i = n + 1 THEN e ELSE s[i]]
  <2>1. \A i \in 1 .. n + 1 : i = n + 1 \/ i \in 1 .. n
    BY <1>1
  <2> QED BY <1>1, <2>1
<1>4. s # <<>> => u = [i \in 1 .. n - 1 |-> s[i + 1]]
  BY <1>2
<1> QED
  BY <1>3, <1>4 DEF t, u, n

\* WritePublish appends the writer's message.
LEMMA WritePublishPuts ==
  ASSUME TypeInv, DataInv, ConservationInv, OrderInv,
         NEW w \in Writers, WritePublish(w)
  PROVE  Fifo!Put(MsgOf(w))
<1> DEFINE r == Len(received)
           n == Cardinality(Full)
           b == idx[w]
           m == MsgOf(w)
           q == Queue
<1>1. /\ r \in Nat /\ n \in Nat /\ n < BlockNum
      /\ Cardinality(accepted) = r + n
  BY MessageNumbers, WritePublishNumbers
<1>2. /\ b \notin Full
      /\ b = (r + n) % BlockNum
  BY <1>1, WritePublishNumbers DEF OrderInv, HasTicket, WritePublish
<1>3. /\ Cardinality(Full') = n + 1
      /\ received' = received
      /\ buf' = [buf EXCEPT ![b] = m]
      /\ m \in Msgs \ accepted
      /\ accepted' = accepted \cup {m}
      /\ b \in Blocks
  BY WritePublishNumbers
<1>4. Len(received') = r
  BY <1>3
<1>5. Queue' = [i \in 1 .. n + 1 |-> buf'[(r + i - 1) % BlockNum]]
  BY <1>3, <1>4 DEF Queue
<1>6. /\ q \in Seq(Msgs \cup {Torn})
      /\ Len(q) = n
      /\ \A i \in 1 .. n : (r + i - 1) % BlockNum \in Full
  BY QueueType
<1>7. \A i \in 1 .. n : q[i] = buf[(r + i - 1) % BlockNum]
  BY DEF Queue
<1>8. \A i \in 1 .. n : buf'[(r + i - 1) % BlockNum] = q[i]
  BY <1>2, <1>3, <1>6, <1>7 DEF TypeInv, TypeOK
<1>9. buf'[(r + (n + 1) - 1) % BlockNum] = m
  <2>1. r + (n + 1) - 1 = r + n
    BY <1>1
  <2> QED BY <1>2, <1>3, <2>1 DEF TypeInv, TypeOK
<1> HIDE DEF q, r, n, b, m
<1>10. Append(q, m) = [i \in 1 .. n + 1 |-> IF i = n + 1 THEN m ELSE q[i]]
  BY <1>3, <1>6, AppendTail
<1>11. Queue' = Append(q, m)
  <2>1. \A i \in 1 .. n + 1 :
          buf'[(r + i - 1) % BlockNum] = IF i = n + 1 THEN m ELSE q[i]
    BY <1>1, <1>8, <1>9
  <2> QED BY <1>5, <1>10, <2>1
<1> QED
  BY <1>1, <1>3, <1>6, <1>11 DEF Fifo!Put, q, m

\* ReadPublish moves the head of the queue to the end of received.
LEMMA ReadPublishGets ==
  ASSUME TypeInv, DataInv, ConservationInv, OrderInv, ReadPublish
  PROVE  Fifo!Get
<1> DEFINE r == Len(received)
           n == Cardinality(Full)
           q == Queue
<1>1. r \in Nat /\ n \in Nat \ {0}
  <2>1. Full # {}
    BY ReadPublishNumbers
  <2>2. Cardinality(Full) # 0
    BY <2>1, FullFinite, FS_EmptySet
  <2> QED BY <2>2, MessageNumbers
<1>2. /\ Cardinality(Full') = n - 1
      /\ received' = Append(received, got)
      /\ Len(received') = r + 1
      /\ accepted' = accepted
      /\ buf' = buf
      /\ got = buf[idx[Reader]]
  BY ReadPublishNumbers
<1>3. idx[Reader] = r % BlockNum
  BY DEF OrderInv, HasTicket, ReadPublish
<1>4. /\ q \in Seq(Msgs \cup {Torn})
      /\ Len(q) = n
  BY QueueType
<1>5. \A i \in 1 .. n : q[i] = buf[(r + i - 1) % BlockNum]
  BY DEF Queue
<1>6. Queue' = [i \in 1 .. n - 1 |-> buf[((r + 1) + i - 1) % BlockNum]]
  BY <1>2 DEF Queue
<1> HIDE DEF q, r, n
<1>7. q # <<>> /\ Head(q) = got
  <2>1. r + 1 - 1 = r
    BY <1>1
  <2>2. q[1] = buf[r % BlockNum]
    BY <1>1, <1>5, <2>1
  <2>3. q # <<>> /\ Head(q) = q[1]
    BY <1>1, <1>4
  <2> QED BY <1>2, <1>3, <2>2, <2>3
<1>8. Tail(q) = [i \in 1 .. n - 1 |-> q[i + 1]]
  BY <1>4, <1>7, AppendTail
<1>9. \A i \in 1 .. n - 1 : q[i + 1] = buf[((r + 1) + i - 1) % BlockNum]
  <2> TAKE i \in 1 .. n - 1
  <2>1. /\ i + 1 \in 1 .. n
        /\ r + (i + 1) - 1 = (r + 1) + i - 1
    BY <1>1
  <2> QED BY <1>5, <2>1
<1>10. Queue' = Tail(q)
  BY <1>6, <1>8, <1>9
<1> QED
  BY <1>2, <1>7, <1>10 DEF Fifo!Get, q

\* Every step of the channel is a step of the FIFO or leaves it alone.
LEMMA StepRefines ==
  TypeInv /\ DataInv /\ ConservationInv /\ OrderInv /\ [Next]_vars
    => [Fifo!Next]_<<Queue, accepted, received>>
<1> DEFINE Stutter == UNCHANGED <<Queue, accepted, received>>
<1> SUFFICES ASSUME TypeInv, DataInv, ConservationInv, OrderInv, [Next]_vars
             PROVE  Fifo!Next \/ Stutter
  OBVIOUS
<1> USE DEF TypeInv, TypeOK, Threads, channelVars, blockVars, endVars, histVars, Goto
<1>1. ASSUME UNCHANGED <<data, buf, accepted, received>> PROVE Stutter
  BY <1>1, QueueKept
<1> HIDE DEF Stutter
<1>2. ASSUME NEW e \in Ends, EndStep(e) PROVE Stutter
  BY <1>1, <1>2 DEF EndStep, OpenFlag, OpenUsed, CloseFlag, CloseTest, CloseUsed
<1>3. CASE ForceStop
  BY <1>1, <1>3 DEF ForceStop
<1>4. ASSUME NEW t \in Threads, BlockStep(t) PROVE Stutter
  BY <1>1, <1>4 DEF BlockStep, Acquire, Contend, Recheck, CheckOpen, CheckState, Unlock
<1>5. ASSUME NEW w \in Writers, WriteCall(w) \/ WriteStep(w)
      PROVE  Fifo!Next \/ Stutter
  <2>1. CASE WriteCall(w)
    BY <1>1, <2>1 DEF WriteCall
  <2>2. CASE WriteTicket(w)
    BY <1>1, <2>2 DEF WriteTicket
  <2>3. CASE WriteCopy(w)
    <3>1. UNCHANGED <<data, accepted, received>> /\ \A b \in Full : buf'[b] = buf[b]
      BY <2>3 DEF WriteCopy, DataInv, Full
    <3> QED BY <3>1, QueueKept DEF Stutter
  <2>4. CASE WritePublish(w)
    <3>1. MsgOf(w) \in Msgs
      BY <2>4, WritePublishNumbers
    <3>2. Fifo!Put(MsgOf(w))
      BY <2>4, WritePublishPuts
    <3> QED BY <3>1, <3>2 DEF Fifo!Next
  <2>5. CASE WriteFail(w)
    BY <1>1, <2>5 DEF WriteFail
  <2> QED BY <1>4, <1>5, <2>1, <2>2, <2>3, <2>4, <2>5 DEF WriteStep
<1>6. CASE ReadStep
  <2>1. CASE ReadPublish
    <3>1. Fifo!Get
      BY <2>1, ReadPublishGets
    <3> QED BY <3>1 DEF Fifo!Next
  <2>2. CASE ReadCall \/ ReadTicket \/ ReadCopy \/ ReadFail
    BY <1>1, <2>2 DEF ReadCall, ReadTicket, ReadCopy, ReadFail
  <2> QED BY <1>4, <1>6, <2>1, <2>2 DEF ReadStep
<1>7. CASE UNCHANGED vars
  BY <1>1, <1>7 DEF vars
<1> QED
  BY <1>2, <1>3, <1>5, <1>6, <1>7 DEF Next

\* With one writer the channel is a bounded FIFO of BLOCK_NUM messages: a
\* stored message is read once, whole and in the order of writing, at most
\* BLOCK_NUM are in transit, and closing or stopping an end loses none of them.
THEOREM ImplementsFifo ==
  ASSUME OneWriter
  PROVE  Spec => FifoSpec
<1>1. Init => Fifo!Init
  <2> SUFFICES ASSUME Init PROVE Fifo!Init
    OBVIOUS
  <2>1. Full = {}
    BY DEF Init, Full
  <2>2. Cardinality(Full) = 0
    BY <2>1, FS_EmptySet
  <2>3. Queue = <<>>
    BY <2>2 DEF Queue
  <2> QED BY <2>3 DEF Init, Fifo!Init
<1>2. /\ Init => OrderInv
      /\ TypeInv /\ DataInv /\ ConservationInv /\ TicketAccounting /\ OrderInv
           /\ [Next]_vars => OrderInv'
  BY OrderInductive
<1> QED
  BY <1>1, <1>2, TypeInductive, ExclusionInductive, DataInductive,
     ConservationInductive, TicketInductive, StepRefines, PTL
  DEF Spec, FifoSpec, Fifo!Spec

=============================================================================
