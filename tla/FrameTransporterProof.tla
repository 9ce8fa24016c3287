------------------------ MODULE FrameTransporterProof ------------------------
(***************************************************************************)
(* Proofs about FrameTransporter for every set of users and every bound:   *)
(* JavaScript draws whole frames out of buffers that exist, each newer     *)
(* than what it has drawn of the stream.                                   *)
(***************************************************************************)
EXTENDS FrameTransporter, TLAPS

\* m_lock is held by the thread that scales a frame, or by JavaScript while it
\* draws.
LockInv ==
  /\ js = "draw" => lock = "js"
  /\ drawing # {} => js = "draw"
  /\ \A s \in Streams : deliver[s] = "scale" => lock = s

\* A stream has one entry, whose frame is one that was sent, new ones are unseen
\* and not missed, and none is half written unless its thread holds the lock.
Sound(s, e) ==
  /\ e.frame <= sent[s]
  /\ e.fresh => e.frame > shown[s] /\ e.miss = 0
  /\ e.whole \/ lock = s

MapInv ==
  /\ DOMAIN low \cap DOMAIN high = {}
  /\ \A s \in DOMAIN low : Sound(s, low[s])
  /\ \A s \in DOMAIN high : Sound(s, high[s])
  /\ \A s \in Streams : shown[s] <= sent[s]

\* What JavaScript draws is there, was collected, and is newer than what it drew.
DrawInv ==
  \A s \in drawing :
    /\ s \in DOMAIN low \cup DOMAIN high
    /\ ~Info(s).fresh
    /\ Info(s).frame > shown[s]

IInv == TypeOK /\ LockInv /\ MapInv /\ DrawInv

\* The maps' part of TypeOK.
MapType ==
  /\ DOMAIN low \subseteq Uids \cup LowOnly
  /\ low \in [DOMAIN low -> Entry]
  /\ DOMAIN high \subseteq Uids \cup {"videoSource"}
  /\ high \in [DOMAIN high -> Entry]

-----------------------------------------------------------------------------

\* An update puts its entry where Info finds it, and touches no other stream.
LEMMA SetInfoEffect ==
  ASSUME MapType, DOMAIN low \cap DOMAIN high = {},
         NEW s \in Streams, NEW e \in Entry, SetInfo(s, e)
  PROVE  /\ MapType'
         /\ (DOMAIN low \cap DOMAIN high = {})'
         /\ \A t \in DOMAIN low' : IF t = s THEN low'[t] = e ELSE t \in DOMAIN low /\ low'[t] = low[t]
         /\ \A t \in DOMAIN high' : IF t = s THEN high'[t] = e ELSE t \in DOMAIN high /\ high'[t] = high[t]
<1> USE TransporterAssumption DEF MapType, SetInfo, IsHigh, Streams, LowOnly
<1>1. CASE IsHigh(s)
  <2>1. /\ low' = low
        /\ high' = [t \in {s} \cup DOMAIN high |-> IF t = s THEN e ELSE high[t]]
    BY <1>1 DEF With
  <2>2. s \in Uids \cup {"videoSource"} /\ s \notin DOMAIN low
    BY <1>1
  <2> QED BY <2>1, <2>2
<1>2. CASE ~IsHigh(s)
  <2>1. /\ high' = high
        /\ low' = [t \in {s} \cup DOMAIN low |-> IF t = s THEN e ELSE low[t]]
    BY <1>2 DEF With
  <2>2. s \in Uids \cup LowOnly /\ s \notin DOMAIN high
    BY <1>2
  <2> QED BY <2>1, <2>2
<1> QED BY <1>1, <1>2

\* What Info finds is an entry, of the stream's own map or a new one.
LEMMA InfoType ==
  ASSUME MapType, NEW s \in Streams
  PROVE  /\ Info(s) \in Entry
         /\ \/ s \in DOMAIN low /\ Info(s) = low[s]
            \/ s \in DOMAIN high /\ Info(s) = high[s]
            \/ Info(s) = NewInfo
BY TransporterAssumption DEF MapType, Info, IsHigh, Lookup, Entry, NewInfo

\* Its frame was sent, and is unseen if it is new.
LEMMA InfoSound ==
  ASSUME TypeOK, MapInv, NEW s \in Streams
  PROVE  /\ Info(s).frame <= sent[s]
         /\ Info(s).fresh => Info(s).frame > shown[s] /\ Info(s).miss = 0
<1>1. CASE s \in DOMAIN low /\ Info(s) = low[s]
  BY <1>1 DEF MapInv, Sound
<1>2. CASE s \in DOMAIN high /\ Info(s) = high[s]
  BY <1>2 DEF MapInv, Sound
<1>3. CASE Info(s) = NewInfo
  BY <1>3 DEF NewInfo, TypeOK
<1> QED BY <1>1, <1>2, <1>3, InfoType DEF MapType, TypeOK

\* A smaller map holds the same entries.
LEMMA WithoutEffect ==
  ASSUME NEW map, NEW S, map \in [DOMAIN map -> Entry]
  PROVE  /\ DOMAIN Without(map, S) = DOMAIN map \ S
         /\ Without(map, S) \in [DOMAIN Without(map, S) -> Entry]
         /\ \A t \in DOMAIN map \ S : Without(map, S)[t] = map[t]
BY DEF Without, Restrict

\* Nobody draws unless JavaScript has the lock; whoever scales has it.
LEMMA NobodyDraws ==
  ASSUME LockInv, lock # "js"
  PROVE  drawing = {}
BY DEF LockInv

\* A lock that is free, or JavaScript's, leaves every entry whole.
LEMMA AllWhole ==
  ASSUME TypeOK, MapInv, lock \notin Streams
  PROVE  /\ \A s \in DOMAIN low : low[s].whole
         /\ \A s \in DOMAIN high : high[s].whole
BY DEF TypeOK, MapInv, Sound, Streams

\* No stream is called as the other holders of the lock are.
LEMMA LockNames == "free" \notin Streams /\ "js" \notin Streams
BY TransporterAssumption DEF Streams, LowOnly

-----------------------------------------------------------------------------

\* A frame is scaled into the buffer of its stream.
LEMMA DeliverBeginKeeps ==
  ASSUME IInv, NEW s \in Streams, DeliverBegin(s)
  PROVE  IInv'
<1> USE DEF IInv, DeliverBegin, history, bounds
<1>1. MapType /\ DOMAIN low \cap DOMAIN high = {}
  BY DEF TypeOK, MapType, MapInv
<1>2. PICK e \in Entry : /\ e = [Info(s) EXCEPT !.whole = FALSE]
                         /\ e.frame = Info(s).frame /\ e.fresh = Info(s).fresh /\ e.miss = Info(s).miss
  <2> DEFINE r == [Info(s) EXCEPT !.whole = FALSE]
  <2>1. r \in Entry /\ r.frame = Info(s).frame /\ r.fresh = Info(s).fresh /\ r.miss = Info(s).miss
    BY <1>1, InfoType DEF Entry
  <2> QED BY <2>1
<1>3. /\ MapType'
      /\ (DOMAIN low \cap DOMAIN high = {})'
      /\ \A t \in DOMAIN low' : IF t = s THEN low'[t] = e ELSE t \in DOMAIN low /\ low'[t] = low[t]
      /\ \A t \in DOMAIN high' : IF t = s THEN high'[t] = e ELSE t \in DOMAIN high /\ high'[t] = high[t]
  BY <1>1, <1>2, SetInfoEffect
<1>4. TypeOK'
  BY <1>3 DEF TypeOK, MapType
<1>5. drawing = {} /\ lock \notin Streams
  BY NobodyDraws, LockNames
<1>6. LockInv' /\ DrawInv'
  BY <1>5, LockNames DEF LockInv, DrawInv, TypeOK
<1>7. MapInv'
  <2>1. e.frame <= sent[s] /\ (e.fresh => e.frame > shown[s] /\ e.miss = 0)
    BY <1>2, InfoSound
  <2>2. Sound(s, e)'
    BY <2>1 DEF Sound
  <2>3. /\ \A t \in DOMAIN low : Sound(t, low[t]) /\ low[t].whole
        /\ \A t \in DOMAIN high : Sound(t, high[t]) /\ high[t].whole
    BY <1>5, AllWhole DEF MapInv
  <2> QED BY <1>3, <2>2, <2>3 DEF MapInv, Sound
<1> QED BY <1>4, <1>6, <1>7

\* The frame is marked new.
LEMMA DeliverEndKeeps ==
  ASSUME IInv, NEW s \in Streams, DeliverEnd(s)
  PROVE  IInv'
<1> USE DEF IInv, DeliverEnd, bounds
<1>1. MapType /\ DOMAIN low \cap DOMAIN high = {}
  BY DEF TypeOK, MapType, MapInv
<1>2. PICK e \in Entry :
        e = [frame |-> sent[s] + 1, whole |-> TRUE, fresh |-> TRUE, miss |-> 0]
  <2> DEFINE r == [frame |-> sent[s] + 1, whole |-> TRUE, fresh |-> TRUE, miss |-> 0]
  <2>1. r \in Entry
    BY TransporterAssumption DEF Entry, TypeOK
  <2> QED BY <2>1
<1>3. /\ MapType'
      /\ (DOMAIN low \cap DOMAIN high = {})'
      /\ \A t \in DOMAIN low' : IF t = s THEN low'[t] = e ELSE t \in DOMAIN low /\ low'[t] = low[t]
      /\ \A t \in DOMAIN high' : IF t = s THEN high'[t] = e ELSE t \in DOMAIN high /\ high'[t] = high[t]
  BY <1>1, <1>2, SetInfoEffect
<1>4. TypeOK'
  BY <1>3 DEF TypeOK, MapType
<1>5. lock = s /\ drawing = {}
  BY NobodyDraws, LockNames DEF LockInv
<1>6. LockInv' /\ DrawInv'
  BY <1>5, LockNames DEF LockInv, DrawInv, TypeOK
<1>7. MapInv'
  <2>1. sent' = [sent EXCEPT ![s] = sent[s] + 1] /\ sent'[s] = sent[s] + 1
    BY DEF TypeOK
  <2>2. \A t \in Streams : shown'[t] <= sent'[t] /\ sent[t] <= sent'[t]
    BY <2>1 DEF MapInv, TypeOK
  <2>3. Sound(s, e)'
    BY <1>2, <2>1 DEF Sound, MapInv, TypeOK
  <2>4. ASSUME NEW t \in Streams \ {s}, NEW f \in Entry, Sound(t, f)
        PROVE  Sound(t, f)'
    <3>1. f.whole /\ f.frame <= sent[t] /\ sent'[t] = sent[t]
      BY <1>5, <2>1, <2>4 DEF Sound
    <3> QED BY <2>4, <3>1 DEF Sound
  <2>5. /\ \A t \in DOMAIN low' : t # s => Sound(t, low[t])'
        /\ \A t \in DOMAIN high' : t # s => Sound(t, high[t])'
    BY <1>1, <1>3, <2>4 DEF MapInv, MapType, Streams
  <2> QED BY <1>3, <2>2, <2>3, <2>5 DEF MapInv
<1> QED BY <1>4, <1>6, <1>7

\* Entries that went away are all that the flush threads change.
LEMMA EvictKeeps ==
  ASSUME IInv, EvictLow \/ EvictHigh
  PROVE  IInv'
<1>1. /\ DOMAIN low' \subseteq DOMAIN low /\ low' \in [DOMAIN low' -> Entry]
      /\ \A t \in DOMAIN low' : low'[t] = low[t]
      /\ DOMAIN high' \subseteq DOMAIN high /\ high' \in [DOMAIN high' -> Entry]
      /\ \A t \in DOMAIN high' : high'[t] = high[t]
  <2>1. low \in [DOMAIN low -> Entry] /\ high \in [DOMAIN high -> Entry]
    BY DEF IInv, TypeOK
  <2>2. CASE EvictLow
    <3>1. PICK S : low' = Without(low, S)
      BY <2>2 DEF EvictLow
    <3>2. /\ DOMAIN low' = DOMAIN low \ S /\ low' \in [DOMAIN low' -> Entry]
          /\ \A t \in DOMAIN low \ S : low'[t] = low[t]
      BY <2>1, <3>1, WithoutEffect
    <3> QED BY <2>1, <2>2, <3>2 DEF EvictLow
  <2>3. CASE EvictHigh
    <3>1. PICK S : high' = Without(high, S)
      BY <2>3 DEF EvictHigh
    <3>2. /\ DOMAIN high' = DOMAIN high \ S /\ high' \in [DOMAIN high' -> Entry]
          /\ \A t \in DOMAIN high \ S : high'[t] = high[t]
      BY <2>1, <3>1, WithoutEffect
    <3> QED BY <2>1, <2>3, <3>2 DEF EvictHigh
  <2> QED BY <2>2, <2>3
<1> USE DEF IInv, EvictLow, EvictHigh, history, bounds
<1>2. TypeOK'
  <2>1. TypeOK
    OBVIOUS
  <2>2. UNCHANGED <<lock, init, stop, deliver, js, drawing, tasks, sent, shown, calls, inits>>
    OBVIOUS
  <2>3. flush' = [flush EXCEPT !["low"] = "post"] \/ flush' = [flush EXCEPT !["high"] = "post"]
    OBVIOUS
  <2>4. dead' \in BOOLEAN
    BY <2>1 DEF TypeOK
  <2> HIDE DEF IInv, EvictLow, EvictHigh
  <2>5. flush' \in [Classes -> {"off", "test", "evict", "post"}]
    BY <2>1, <2>3 DEF TypeOK
  <2>6. DOMAIN low' \subseteq Uids \cup LowOnly /\ DOMAIN high' \subseteq Uids \cup {"videoSource"}
    BY <1>1, <2>1 DEF TypeOK
  <2> QED BY <1>1, <2>1, <2>2, <2>4, <2>5, <2>6 DEF TypeOK
<1>3. MapInv'
  BY <1>1 DEF MapInv, Sound
<1>4. LockInv' /\ DrawInv'
  BY NobodyDraws, LockNames DEF LockInv, DrawInv
<1> QED BY <1>2, <1>3, <1>4

\* What a task collects is no longer new, and newer than what JavaScript drew.
LEMMA CollectedEffect ==
  ASSUME NEW map, map \in [DOMAIN map -> Entry]
  PROVE  /\ DOMAIN Collected(map) = DOMAIN map
         /\ Collected(map) \in [DOMAIN map -> Entry]
         /\ \A t \in DOMAIN map : /\ Collected(map)[t].frame = map[t].frame
                                  /\ Collected(map)[t].whole = map[t].whole
                                  /\ ~Collected(map)[t].fresh
<1>1. ASSUME NEW t \in DOMAIN map, map[t].fresh
      PROVE  [map[t] EXCEPT !.fresh = FALSE] \in Entry
  BY DEF Entry
<1>2. ASSUME NEW t \in DOMAIN map
      PROVE  [map[t] EXCEPT !.miss = IF map[t].miss > MissMax THEN map[t].miss
                                                              ELSE map[t].miss + 1] \in Entry
  BY TransporterAssumption DEF Entry
<1> QED BY <1>1, <1>2 DEF Collected, Entry

\* A flush task takes the new frames of one map, under the lock.
LEMMA RunTaskKeeps ==
  ASSUME IInv, RunTask
  PROVE  IInv'
<1> USE DEF IInv, RunTask, history, bounds
<1>1. /\ lock = "free" /\ js = "idle" /\ tasks' = Tail(tasks) /\ tasks # <<>>
      /\ sent' = sent /\ shown' = shown
      /\ IF drawing' = {} THEN js' = js /\ lock' = lock ELSE js' = "draw" /\ lock' = "js"
  OBVIOUS
<1>2. /\ DOMAIN low' = DOMAIN low /\ low' \in [DOMAIN low -> Entry]
      /\ \A t \in DOMAIN low : low'[t].frame = low[t].frame /\ low'[t].whole = low[t].whole
      /\ \A t \in DOMAIN low : low'[t].fresh => low'[t] = low[t]
      /\ DOMAIN high' = DOMAIN high /\ high' \in [DOMAIN high -> Entry]
      /\ \A t \in DOMAIN high : high'[t].frame = high[t].frame /\ high'[t].whole = high[t].whole
      /\ \A t \in DOMAIN high : high'[t].fresh => high'[t] = high[t]
      /\ \/ drawing' = Fresh(low) /\ \A t \in DOMAIN low : ~low'[t].fresh
         \/ drawing' = Fresh(high) /\ \A t \in DOMAIN high : ~high'[t].fresh
  <2>1. low \in [DOMAIN low -> Entry] /\ high \in [DOMAIN high -> Entry]
    BY DEF TypeOK
  <2>2. \/ low' = Collected(low) /\ drawing' = Fresh(low) /\ high' = high
        \/ high' = Collected(high) /\ drawing' = Fresh(high) /\ low' = low
    BY DEF Collect
  <2> HIDE DEF IInv, RunTask
  <2>3. CASE low' = Collected(low) /\ drawing' = Fresh(low) /\ high' = high
    BY <2>1, <2>3, CollectedEffect
  <2>4. CASE high' = Collected(high) /\ drawing' = Fresh(high) /\ low' = low
    BY <2>1, <2>4, CollectedEffect
  <2> QED BY <2>2, <2>3, <2>4
<1>3. drawing' \subseteq Streams
  BY <1>2 DEF Fresh, TypeOK, Streams
<1>4. TypeOK'
  <2>1. tasks' \in Seq(Classes)
    BY <1>1 DEF TypeOK
  <2>2. UNCHANGED <<init, stop, dead, flush, deliver, sent, shown, calls, inits>>
    OBVIOUS
  <2> QED BY <1>1, <1>2, <1>3, <2>1, <2>2 DEF TypeOK
<1>5. LockInv'
  BY <1>1, LockNames DEF LockInv
<1>6. MapInv'
  <2>1. /\ \A t \in DOMAIN low : low[t].whole
        /\ \A t \in DOMAIN high : high[t].whole
    BY <1>1, AllWhole, LockNames
  <2> QED BY <1>1, <1>2, <2>1 DEF MapInv, Sound
<1>7. DrawInv'
  BY <1>1, <1>2, TransporterAssumption
     DEF DrawInv, Fresh, Info, IsHigh, Lookup, MapInv, Sound, TypeOK, LowOnly
<1> QED BY <1>4, <1>5, <1>6, <1>7

\* JavaScript has drawn what it was given.
LEMMA DrawKeeps ==
  ASSUME IInv, Draw
  PROVE  IInv'
<1> USE DEF IInv, Draw, frames, bounds
<1>1. lock = "js" /\ drawing \subseteq Streams
  BY DEF LockInv, TypeOK
<1>2. \A s \in drawing : Info(s).frame <= sent[s] /\ Info(s).frame \in Nat
  BY <1>1, InfoSound, InfoType DEF TypeOK, MapType, Entry
<1>3. TypeOK'
  BY <1>1, <1>2 DEF TypeOK
<1>4. LockInv' /\ DrawInv'
  BY LockNames DEF LockInv, DrawInv
<1>5. MapInv'
  <2>1. \A s \in Streams : shown'[s] <= sent'[s]
    BY <1>2 DEF MapInv
  <2>2. /\ \A t \in DOMAIN low : low[t].whole
        /\ \A t \in DOMAIN high : high[t].whole
    BY <1>1, AllWhole, LockNames
  <2>3. \A t \in DOMAIN low : t \in drawing => ~low[t].fresh
    BY TransporterAssumption DEF DrawInv, Info, IsHigh, Lookup, MapInv, TypeOK, LowOnly
  <2>4. \A t \in DOMAIN high : t \in drawing => ~high[t].fresh
    BY DEF DrawInv, Info, IsHigh, Lookup
  <2>5. /\ \A t \in DOMAIN low : Sound(t, low[t])'
        /\ \A t \in DOMAIN high : Sound(t, high[t])'
    BY <2>2, <2>3, <2>4 DEF MapInv, Sound, TypeOK, Streams
  <2> QED BY <2>1, <2>5 DEF MapInv
<1> QED BY <1>3, <1>4, <1>5

\* A call that takes m_lock runs while nobody scales or draws.
LEMMA CallKeeps ==
  ASSUME IInv, Call,
         MapType', (DOMAIN low \cap DOMAIN high = {})',
         NEW s \in Streams, NEW e \in Entry,
         e.frame <= sent[s], e.fresh => e.frame > shown[s] /\ e.miss = 0, e.whole,
         \A t \in DOMAIN low' : low'[t] = (IF t = s THEN e ELSE low[t])
                                /\ (t # s => t \in DOMAIN low),
         \A t \in DOMAIN high' : high'[t] = (IF t = s THEN e ELSE high[t])
                                 /\ (t # s => t \in DOMAIN high)
  PROVE  IInv'
<1> USE DEF IInv, Call, threads, history
<1>1. lock = "free" /\ drawing = {}
  BY NobodyDraws
<1>2. TypeOK'
  BY DEF TypeOK, MapType
<1>3. LockInv' /\ DrawInv'
  BY <1>1 DEF LockInv, DrawInv
<1>4. MapInv'
  BY DEF MapInv, Sound
<1> QED BY <1>2, <1>3, <1>4

\* setVideoDimension adds a stream without a frame, or changes none.
LEMMA SetDimensionKeeps ==
  ASSUME IInv, NEW s \in Streams, SetDimension(s)
  PROVE  IInv'
<1>1. MapType /\ DOMAIN low \cap DOMAIN high = {}
  BY DEF IInv, TypeOK, MapType, MapInv
<1>2. PICK e \in Entry : e = Info(s)
  BY <1>1, InfoType
<1>3. /\ MapType'
      /\ (DOMAIN low \cap DOMAIN high = {})'
      /\ \A t \in DOMAIN low' : IF t = s THEN low'[t] = e ELSE t \in DOMAIN low /\ low'[t] = low[t]
      /\ \A t \in DOMAIN high' : IF t = s THEN high'[t] = e ELSE t \in DOMAIN high /\ high'[t] = high[t]
  BY <1>1, <1>2, SetInfoEffect DEF SetDimension
<1>4. e.frame <= sent[s] /\ (e.fresh => e.frame > shown[s] /\ e.miss = 0)
  BY <1>2, InfoSound DEF IInv
<1>5. e.whole
  BY <1>1, <1>2, InfoType, AllWhole, LockNames DEF IInv, SetDimension, Call, NewInfo
<1> QED BY <1>3, <1>4, <1>5, CallKeeps DEF SetDimension

\* A stream that moves leaves the map it was in.
LEMMA MoveKeeps ==
  ASSUME IInv, NEW u \in Uids, AddToHigh(u) \/ RemoveFromHigh(u)
  PROVE  IInv'
<1>1. MapType /\ DOMAIN low \cap DOMAIN high = {} /\ u \in Streams
  BY DEF IInv, TypeOK, MapType, MapInv, Streams
<1>2. CASE AddToHigh(u)
  <2>1. PICK e \in Entry : e = Lookup(high, u)
    <3>1. NewInfo \in Entry
      BY TransporterAssumption DEF NewInfo, Entry
    <3>2. Lookup(high, u) \in Entry
      BY <1>1, <3>1 DEF Lookup, MapType
    <3> QED BY <3>2
  <2>2. /\ DOMAIN low' = DOMAIN low \ {u} /\ low' \in [DOMAIN low' -> Entry]
        /\ \A t \in DOMAIN low \ {u} : low'[t] = low[t]
    BY <1>1, <1>2, WithoutEffect DEF AddToHigh, MapType
  <2>3. /\ DOMAIN high' = DOMAIN high \cup {u} /\ high' \in [DOMAIN high' -> Entry]
        /\ \A t \in DOMAIN high' : high'[t] = (IF t = u THEN e ELSE high[t])
    BY <1>1, <1>2, <2>1 DEF AddToHigh, MapType, With
  <2>4. /\ e.frame <= sent[u] /\ (e.fresh => e.frame > shown[u] /\ e.miss = 0)
        /\ e.whole
    BY <1>1, <1>2, <2>1, AllWhole, LockNames
       DEF Lookup, NewInfo, IInv, MapInv, Sound, TypeOK, AddToHigh, Call
  <2>5. MapType' /\ (DOMAIN low \cap DOMAIN high = {})'
    BY <1>1, <2>2, <2>3 DEF MapType
  <2> QED BY <1>1, <1>2, <2>2, <2>3, <2>4, <2>5, CallKeeps DEF AddToHigh
<1>3. CASE RemoveFromHigh(u)
  <2>1. PICK e \in Entry : e = Lookup(low, u)
    <3>1. NewInfo \in Entry
      BY TransporterAssumption DEF NewInfo, Entry
    <3>2. Lookup(low, u) \in Entry
      BY <1>1, <3>1 DEF Lookup, MapType
    <3> QED BY <3>2
  <2>2. /\ DOMAIN high' = DOMAIN high \ {u} /\ high' \in [DOMAIN high' -> Entry]
        /\ \A t \in DOMAIN high \ {u} : high'[t] = high[t]
    BY <1>1, <1>3, WithoutEffect DEF RemoveFromHigh, MapType
  <2>3. /\ DOMAIN low' = DOMAIN low \cup {u} /\ low' \in [DOMAIN low' -> Entry]
        /\ \A t \in DOMAIN low' : low'[t] = (IF t = u THEN e ELSE low[t])
    BY <1>1, <1>3, <2>1 DEF RemoveFromHigh, MapType, With
  <2>4. /\ e.frame <= sent[u] /\ (e.fresh => e.frame > shown[u] /\ e.miss = 0)
        /\ e.whole
    BY <1>1, <1>3, <2>1, AllWhole, LockNames
       DEF Lookup, NewInfo, IInv, MapInv, Sound, TypeOK, RemoveFromHigh, Call
  <2>5. MapType' /\ (DOMAIN low \cap DOMAIN high = {})'
    BY <1>1, <2>2, <2>3 DEF MapType
  <2>6. /\ \A t \in DOMAIN low' : low'[t] = (IF t = u THEN e ELSE low[t])
                                  /\ (t # u => t \in DOMAIN low)
        /\ \A t \in DOMAIN high' : high'[t] = (IF t = u THEN e ELSE high[t])
                                   /\ (t # u => t \in DOMAIN high)
    BY <2>2, <2>3
  <2> QED BY <1>1, <1>3, <2>4, <2>5, <2>6, CallKeeps DEF RemoveFromHigh
<1> QED BY <1>2, <1>3

-----------------------------------------------------------------------------

\* The invariant holds at first, and each action keeps it.
LEMMA Inductive ==
  /\ Init => IInv
  /\ IInv /\ [Next]_vars => IInv'
<1>1. Init => IInv
  <2>1. Init => TypeOK
    <3>1. Init => /\ DOMAIN low = {} /\ low \in [DOMAIN low -> Entry]
                  /\ DOMAIN high = {} /\ high \in [DOMAIN high -> Entry]
      BY DEF Init
    <3>2. Init => tasks \in Seq(Classes)
      BY DEF Init
    <3>3. Init => /\ flush \in [Classes -> {"off", "test", "evict", "post"}]
                  /\ deliver \in [Streams -> {"idle", "lock", "scale"}]
                  /\ sent \in [Streams -> Nat] /\ shown \in [Streams -> Nat]
      BY DEF Init
    <3>4. Init => init \in BOOLEAN /\ stop \in BOOLEAN /\ dead \in BOOLEAN
      BY DEF Init
    <3>5. Init => /\ lock = "free" /\ js = "idle" /\ drawing = {}
                  /\ calls = 0 /\ inits = 0
      BY DEF Init
    <3>6. Init => calls \in Nat /\ inits \in Nat
      BY <3>5
    <3> QED BY <3>1, <3>2, <3>3, <3>4, <3>5, <3>6 DEF TypeOK
  <2> QED BY <2>1 DEF Init, IInv, LockInv, MapInv, DrawInv
<1>2. ASSUME IInv, [Next]_vars
      PROVE  IInv'
  <2> USE <1>2
  <2>1. ASSUME NEW s \in Sources, DeliverCall(s)
        PROVE  IInv'
    <3>1. s \in Streams
      BY TransporterAssumption
    <3> QED BY <2>1, <3>1 DEF DeliverCall, IInv, TypeOK, LockInv, MapInv, DrawInv, Sound, Info,
                         IsHigh, Lookup, frames, history, bounds
  <2>2. ASSUME NEW s \in Sources, DeliverStep(s)
        PROVE  IInv'
    BY <2>2, TransporterAssumption, DeliverBeginKeeps, DeliverEndKeeps DEF DeliverStep
  <2>3. ASSUME NEW c \in Classes, FlushTest(c) \/ Post(c)
        PROVE  IInv'
    <3>1. tasks' \in Seq(Classes)
      <4>1. tasks' = tasks \/ tasks' = Append(tasks, c)
        BY <2>3 DEF FlushTest, Post
      <4>2. tasks \in Seq(Classes)
        BY DEF IInv, TypeOK
      <4> QED BY <4>1, <4>2
    <3>2. flush' \in [Classes -> {"off", "test", "evict", "post"}]
      BY <2>3 DEF FlushTest, Post, IInv, TypeOK
    <3>3. UNCHANGED <<frames, lock, init, stop, deliver, js, drawing, dead, history, bounds>>
      BY <2>3 DEF FlushTest, Post
    <3> QED BY <3>1, <3>2, <3>3 DEF IInv, TypeOK, LockInv, MapInv, DrawInv, Sound, Info,
                                    IsHigh, Lookup, frames, history, bounds
  <2>4. CASE EvictLow \/ EvictHigh
    BY <2>4, EvictKeeps
  <2>5. CASE RunTask \/ Draw
    BY <2>5, RunTaskKeeps, DrawKeeps
  <2>6. CASE JoinLow \/ JoinHigh \/ Start \/ Initialize
    <3>1. UNCHANGED <<frames, lock, deliver, drawing, tasks, dead, history>>
      BY <2>6 DEF JoinLow, JoinHigh, Start, Initialize
    <3>2. /\ init' \in BOOLEAN /\ stop' \in BOOLEAN
          /\ flush' \in [Classes -> {"off", "test", "evict", "post"}]
          /\ js' \in {"idle", "joinLow", "joinHigh", "start", "draw"}
          /\ calls' \in Nat /\ inits' \in Nat
      <4>1. CASE JoinLow \/ JoinHigh
        BY <4>1 DEF JoinLow, JoinHigh, IInv, TypeOK, bounds
      <4>2. CASE Start
        BY <4>2 DEF Start, IInv, TypeOK, bounds
      <4>3. CASE Initialize
        <5>1. /\ init \in BOOLEAN /\ stop \in BOOLEAN /\ calls \in Nat /\ inits \in Nat
              /\ flush \in [Classes -> {"off", "test", "evict", "post"}]
          BY DEF IInv, TypeOK
        <5>2. init' \in BOOLEAN /\ stop' \in BOOLEAN
          BY <4>3, <5>1 DEF Initialize
        <5>3. calls' \in Nat /\ inits' \in Nat /\ flush' = flush
          BY <4>3, <5>1 DEF Initialize
        <5>4. js' \in {"joinLow", "start"}
          BY <4>3 DEF Initialize
        <5> QED BY <5>1, <5>2, <5>3, <5>4
      <4> QED BY <2>6, <4>1, <4>2, <4>3
    <3>3. js # "draw" /\ js' # "draw"
      BY <2>6 DEF JoinLow, JoinHigh, Start, Initialize
    <3> QED BY <3>1, <3>2, <3>3 DEF IInv, TypeOK, LockInv, MapInv, DrawInv, Sound, Info,
                                    IsHigh, Lookup, frames, history
  <2>7. ASSUME NEW s \in Sources, SetDimension(s)
        PROVE  IInv'
    BY <2>7, TransporterAssumption, SetDimensionKeeps
  <2>8. ASSUME NEW u \in Uids, AddToHigh(u) \/ RemoveFromHigh(u)
        PROVE  IInv'
    BY <2>8, MoveKeeps
  <2>9. CASE UNCHANGED vars
    BY <2>9 DEF vars, threads, IInv, TypeOK, LockInv, MapInv, DrawInv, Sound, Info, IsHigh,
                Lookup, frames, history, bounds
  <2> QED BY <2>1, <2>2, <2>3, <2>4, <2>5, <2>6, <2>7, <2>8, <2>9
          DEF Next, FlushStep, JsStep, JsCall
<1> QED BY <1>1, <1>2

\* The inductive invariant holds in every behaviour.
THEOREM Invariance == Spec => []IInv
BY Inductive, PTL DEF Spec

\* The types of FrameTransporter's variables: TypeOK of every behaviour.
THEOREM TypeCorrect == Spec => []TypeOK
<1>1. IInv => TypeOK
  BY DEF IInv
<1> QED BY <1>1, Invariance, PTL

\* m_lock, held from the collection of the frames to the return of JavaScript,
\* keeps the buffers that JavaScript reads alive and whole.
THEOREM NoTearHolds == Spec => []NoTear
<1>1. IInv => NoTear
  <2> SUFFICES ASSUME IInv, NEW s \in drawing
               PROVE  s \in DOMAIN low \cup DOMAIN high /\ Info(s).whole
    BY DEF NoTear
  <2>1. lock \notin Streams /\ s \in Streams
    BY LockNames DEF IInv, LockInv, TypeOK
  <2>2. s \in DOMAIN low \cup DOMAIN high
    BY DEF IInv, DrawInv
  <2>3. Info(s).whole
    <3>1. TypeOK /\ MapInv /\ MapType
      BY DEF IInv, TypeOK, MapType
    <3>2. \/ s \in DOMAIN low /\ Info(s) = low[s]
          \/ s \in DOMAIN high /\ Info(s) = high[s]
          \/ Info(s) = NewInfo
      BY <2>1, <3>1, InfoType
    <3>3. /\ \A t \in DOMAIN low : low[t].whole
          /\ \A t \in DOMAIN high : high[t].whole
      BY <2>1, <3>1, AllWhole
    <3> QED BY <3>2, <3>3 DEF NewInfo
  <2> QED BY <2>2, <2>3
<1> QED BY <1>1, Invariance, PTL

\* The entry that addToHighVideo and removeFromeHighVideo move is never left
\* behind in the other map, where its frame would be drawn late.
THEOREM NewerFramesHolds == Spec => []NewerFrames
<1>1. IInv => NewerFrames
  BY DEF IInv, DrawInv, NewerFrames
<1> QED BY <1>1, Invariance, PTL

-----------------------------------------------------------------------------

\* An update that leaves a new frame new loses no frame.
LEMMA SetInfoKeepsUnseen ==
  ASSUME IInv, NEW s \in Streams, NEW e \in Entry, SetInfo(s, e),
         Info(s).fresh => e.fresh,
         NEW t \in Streams, Unseen(t)
  PROVE  Unseen(t)'
<1> USE TransporterAssumption DEF SetInfo, IsHigh, Info, Lookup, Unseen, With
<1>1. DOMAIN low \cap DOMAIN high = {} /\ "videoSource" \notin DOMAIN low
  BY DEF IInv, MapInv, TypeOK, LowOnly
<1>2. CASE t = s
  BY <1>1, <1>2
<1>3. CASE t # s
  BY <1>1, <1>3
<1> QED BY <1>2, <1>3

\* A map keeps what is not taken out of it.
LEMMA KeptUnseen ==
  ASSUME IInv, NEW t \in Streams, Unseen(t),
         t \in DOMAIN low => t \in DOMAIN low' /\ low'[t] = low[t],
         t \in DOMAIN high => t \in DOMAIN high' /\ high'[t] = high[t]
  PROVE  Unseen(t)'
BY DEF Unseen

\* m_count is reset with every frame, so a flush thread does not evict a stream
\* whose frame JavaScript has still to see.
THEOREM UnseenKeptHolds == Spec => UnseenKept
<1> DEFINE Allowed(s) ==
      Unseen(s) /\ ~Unseen(s)' =>
        s \in drawing' \/ (s \in Uids /\ (AddToHigh(s) \/ RemoveFromHigh(s)))
<1>1. ASSUME IInv, Next, NEW s \in Streams \ {"devTest"}
      PROVE  Allowed(s)
  <2> SUFFICES ASSUME Unseen(s)
               PROVE  Unseen(s)' \/ s \in drawing'
                      \/ (s \in Uids /\ (AddToHigh(s) \/ RemoveFromHigh(s)))
    OBVIOUS
  <2> USE <1>1
  <2>1. CASE UNCHANGED frames
    BY <2>1 DEF frames, Unseen
  <2>2. ASSUME NEW r \in Sources, DeliverBegin(r)
        PROVE  Unseen(s)'
    <3>1. r \in Streams /\ Info(r) \in Entry
      BY TransporterAssumption, InfoType DEF IInv, TypeOK, MapType
    <3>2. [Info(r) EXCEPT !.whole = FALSE] \in Entry
          /\ [Info(r) EXCEPT !.whole = FALSE].fresh = Info(r).fresh
      BY <3>1 DEF Entry
    <3> QED BY <2>2, <3>1, <3>2, SetInfoKeepsUnseen DEF DeliverBegin
  <2>3. ASSUME NEW r \in Sources, DeliverEnd(r)
        PROVE  Unseen(s)'
    <3>1. r \in Streams
      BY TransporterAssumption
    <3>2. [frame |-> sent[r] + 1, whole |-> TRUE, fresh |-> TRUE, miss |-> 0] \in Entry
      BY <3>1, TransporterAssumption, SMTT(30) DEF Entry, IInv, TypeOK
    <3> QED BY <2>3, <3>1, <3>2, SetInfoKeepsUnseen DEF DeliverEnd
  <2>4. CASE EvictLow
    <3>1. s \in DOMAIN low /\ low[s].fresh => ~(low[s].miss > MissMax)
      BY TransporterAssumption DEF IInv, MapInv, Sound
    <3>2. s \in DOMAIN low => low[s].fresh
      BY DEF Unseen, IInv, MapInv
    <3>3. s \in DOMAIN low => s \in DOMAIN low' /\ low'[s] = low[s]
      BY <2>4, <3>1, <3>2 DEF EvictLow, Without, Restrict, Missed
    <3> QED BY <2>4, <3>3, KeptUnseen DEF EvictLow
  <2>5. CASE EvictHigh
    <3>1. s \in DOMAIN high /\ high[s].fresh => ~(high[s].miss > MissMax)
      BY TransporterAssumption DEF IInv, MapInv, Sound
    <3>2. s \in DOMAIN high => high[s].fresh
      BY DEF Unseen, IInv, MapInv
    <3>3. s \in DOMAIN high => s \in DOMAIN high' /\ high'[s] = high[s]
      BY <2>5, <3>1, <3>2 DEF EvictHigh, Without, Restrict, Missed
    <3> QED BY <2>5, <3>3, KeptUnseen DEF EvictHigh
  <2>6. CASE RunTask
    BY <2>6 DEF RunTask, Collect, Fresh, Unseen
  <2>7. ASSUME NEW r \in Sources, SetDimension(r)
        PROVE  Unseen(s)'
    <3>1. r \in Streams /\ Info(r) \in Entry
      BY TransporterAssumption, InfoType DEF IInv, TypeOK, MapType
    <3> QED BY <2>7, <3>1, SetInfoKeepsUnseen DEF SetDimension
  <2>8. ASSUME NEW u \in Uids, AddToHigh(u) \/ RemoveFromHigh(u), u # s
        PROVE  Unseen(s)'
    BY <2>8, KeptUnseen DEF AddToHigh, RemoveFromHigh, With, Without, Restrict
  <2>9. ASSUME NEW c \in Classes, FlushTest(c) \/ Post(c)
        PROVE  UNCHANGED frames
    BY <2>9 DEF FlushTest, Post
  <2>10. ASSUME NEW r \in Sources, DeliverCall(r)
         PROVE  UNCHANGED frames
    BY <2>10 DEF DeliverCall
  <2>11. CASE Draw \/ JoinLow \/ JoinHigh \/ Start \/ Initialize
    <3>1. UNCHANGED frames
      BY <2>11 DEF Draw, JoinLow, JoinHigh, Start, Initialize
    <3> QED BY <2>1, <3>1
  <2> QED BY <2>1, <2>2, <2>3, <2>4, <2>5, <2>6, <2>7, <2>8, <2>9, <2>10, <2>11
          DEF Next, DeliverStep, FlushStep, JsStep, JsCall
<1>2. IInv /\ [Next]_vars => [\A s \in Streams \ {"devTest"} : Allowed(s)]_vars
  BY <1>1
<1> QED BY <1>2, Invariance, PTL DEF Spec, UnseenKept

=============================================================================
