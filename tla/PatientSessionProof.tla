------------------------ MODULE PatientSessionProof ------------------------
(***************************************************************************)
(* Proofs about VideoSourceSession when neither process crashes and        *)
(* JavaScript waits until a preview call took effect before the next one   *)
(* and before release.  The calls, their replies and the handling of the   *)
(* replies are then one conversation: at any time at most one message of   *)
(* it is on its way, and where it is determines what the sink and the      *)
(* source have: a receiver, a sender, a frame channel.                     *)
(***************************************************************************)
EXTENDS VideoSourceSessionProof

Peaceful == Patient /\ ~SourceMayCrash /\ ~SinkMayCrash

----------------------------------------------------------------------------
(* The invariant *)

StopCmd == OnCmd("STOP_PREVIEW") + Eq(pc["main"], "stopLock")
StopEvt == OnEvt("STOP_COMPLETE") + Eq(pc["msg"], "reset")
Handling == IF pc["msg"] \in {"open", "joinRecv"} THEN 1 ELSE 0

\* The places where the one message of the conversation can be.
Tokens == Requests + Replies + StopCmd + StopEvt + Handling

\* How far clear, called by js, has come.
Disconnected == pc["js"] \in {"closeEvt", "closeCmd", "joinMsg", "released"}
Cleared ==
  \/ Disconnected
  \/ pc["js"] = "joinRecv"
  \/ pc["js"] = "send" /\ out["js"] = "DISCONNECT"

OneToken ==
  /\ Tokens <= 1
  /\ ~(pc["js"] \in {"idle", "send"} /\ initialized) => Tokens = 0

\* No process dies before clear sent DISCONNECT, so the monitor has nothing to
\* clear.
Lifetime ==
  /\ sinkUp
  /\ pc["mon"] \in {"idle", "done"}
  /\ src # "up" => Cleared
  /\ pc["js"] \in {"waiting", "arming", "reset"} \/ Cleared => ~initialized
  /\ initialized \/ pc["js"] = "arming" => event
  /\ pc["js"] = "idle" => initialized
  /\ pc["js"] = "send" => initialized \/ out["js"] = "DISCONNECT"

\* The sink is told that the source is ready after the source is.
Ready ==
  /\ event => srcInit
  /\ OnEvt("SOURCE_READY") >= 1 => srcInit

\* Which ends are open, and until when.
Ends ==
  /\ Count(ring["cmd"].q, "DISCONNECT") >= 1 => Disconnected
  /\ pc["main"] # "connect" /\ ~Disconnected => ring["cmd"].r /\ ring["evt"].w
  /\ ring["cmd"].w <=> pc["js"] \notin {"joinMsg", "released"}
  /\ ring["evt"].r <=> pc["js"] \notin {"closeCmd", "joinMsg", "released"}
  /\ pc["js"] = "released" => pc["msg"] = "done"
  /\ pc["msg"] = "done" => ~ring["evt"].r

\* The source has no frame channel and the engine does not render, or it has one.
Off == sender = 0 /\ shmName = 0 /\ ~canvas /\ ~mutex
On == sender = shmName /\ shmName # 0
Fresh == On /\ ~frame[shmName].r

\* The sink has a receiver: the last one it made.
Receiving == receiver = made /\ made # 0

Places == {"start", "create", "started", "open", "stop", "lock", "stopped", "join", "none"}

\* Where the message is ...
Place(l) ==
  \/ l = "start" /\ OnCmd("START_PREVIEW") >= 1
  \/ l = "create" /\ pc["main"] = "create"
  \/ l = "started" /\ Replies >= 1
  \/ l = "open" /\ pc["msg"] = "open"
  \/ l = "stop" /\ OnCmd("STOP_PREVIEW") >= 1
  \/ l = "lock" /\ pc["main"] = "stopLock"
  \/ l = "stopped" /\ (OnEvt("STOP_COMPLETE") >= 1 \/ pc["msg"] = "reset")
  \/ l = "join" /\ pc["msg"] = "joinRecv"
  \/ l = "none" /\ Tokens = 0

\* ... determines what both sides have.
Has(l) ==
  /\ l = "start" => receiver = 0 /\ Off
  /\ l = "create" =>
         receiver = 0 /\ sender = previews + 1 /\ shmName = 0 /\ ~canvas /\ ~mutex
  /\ l = "started" => receiver = 0 /\ Fresh
  /\ l = "open" => Receiving /\ recv[made].st = "new" /\ Fresh
  /\ l = "stop" => Receiving /\ On
  /\ l = "lock" => Receiving /\ On /\ ~canvas
  /\ l = "stopped" => Receiving /\ Off
  /\ l = "join" => receiver = 0 /\ old["msg"] = made /\ made # 0 /\ Off
  /\ l = "none" => Cleared \/ (receiver = 0 /\ Off) \/ (Receiving /\ On)

Stage == \A l \in Places : Place(l) => Has(l)

\* The render thread writes to the sender that the source has.
Render ==
  /\ mutex <=> pc["ren"] = "write"
  /\ mutex /\ ~Cleared => writing = shmName

\* A receiver whose thread runs is the last one made, and whoever stops it waits
\* for the thread.
Receivers ==
  /\ \A i \in Previews : recv[i].st = "new" => pc["msg"] = "open" /\ i = made
  /\ \A i \in Previews : recv[i].st = "reading" =>
       i = made /\ (receiver = made \/ pc["msg"] = "joinRecv" \/ pc["js"] = "joinRecv")
  /\ \A p \in Previews : frame[p].r => p <= previews
  /\ shmName <= previews
  /\ Cleared => receiver = 0
  /\ pc["js"] = "joinRecv" => old["js"] = made /\ made # 0

PatientInv ==
  /\ TypeInv
  /\ OneToken /\ Lifetime /\ Ready /\ Ends /\ Stage /\ Render /\ Receivers

LEMMA PatientProperties == PatientInv => OneClear /\ OneReceiver /\ ReleasedClean
<1> SUFFICES ASSUME PatientInv
             PROVE  OneClear /\ OneReceiver /\ ReleasedClean
  OBVIOUS
<1>1. OneClear
  BY DEF PatientInv, Lifetime, OneClear, InClear
<1>2. OneReceiver
  <2>1. pc["msg"] = "open" => Receiving
    BY DEF PatientInv, Stage, Places, Place, Has
  <2> QED BY <2>1 DEF PatientInv, Receivers, Receiving, OneReceiver
<1>3. ReleasedClean
  <2> SUFFICES ASSUME pc["js"] = "released"
               PROVE  /\ pc["msg"] = "done"
                      /\ receiver = 0 /\ \A i \in Previews : recv[i].st # "reading"
                      /\ ~ring["evt"].r /\ ~ring["cmd"].w
    BY DEF ReleasedClean
  <2>1. pc["msg"] = "done" /\ ~ring["evt"].r /\ ~ring["cmd"].w
    BY DEF PatientInv, Ends
  <2>2. receiver = 0
    BY DEF PatientInv, Receivers, Cleared, Disconnected
  <2>3. \A i \in Previews : recv[i].st # "reading"
    BY <2>1, <2>2 DEF PatientInv, Receivers, Previews
  <2> QED BY <2>1, <2>2, <2>3
<1> QED BY <1>1, <1>2, <1>3

----------------------------------------------------------------------------
(* Where the message is *)

TokenTypes ==
  /\ Requests \in Nat /\ Replies \in Nat /\ StopCmd \in Nat /\ StopEvt \in Nat
  /\ Handling \in Nat /\ Tokens \in Nat
  /\ OnCmd("START_PREVIEW") \in Nat /\ OnEvt("START_COMPLETE") \in Nat
  /\ OnCmd("STOP_PREVIEW") \in Nat /\ OnEvt("STOP_COMPLETE") \in Nat
  /\ OnEvt("SOURCE_READY") \in Nat

LEMMA TokenParts == TypeInv => TokenTypes
<1> SUFFICES ASSUME TypeInv PROVE TokenTypes
  OBVIOUS
<1>1. \A m : OnCmd(m) \in Nat /\ OnEvt(m) \in Nat
  BY CountFacts DEF TypeInv
<1>2. Requests \in Nat /\ Replies \in Nat /\ StopCmd \in Nat /\ StopEvt \in Nat
  BY <1>1 DEF Requests, Replies, StopCmd, StopEvt, Eq
<1>3. Handling \in Nat
  BY DEF Handling
<1> QED BY <1>1, <1>2, <1>3 DEF Tokens, TokenTypes

Nowhere ==
  /\ Replies = 0
  /\ OnCmd("START_PREVIEW") = 0 /\ pc["main"] # "create"
  /\ OnEvt("START_COMPLETE") = 0 /\ pc["msg"] # "renew"
  /\ OnCmd("STOP_PREVIEW") = 0 /\ pc["main"] # "stopLock"
  /\ OnEvt("STOP_COMPLETE") = 0 /\ pc["msg"] # "reset"
  /\ pc["msg"] \notin {"open", "joinRecv"}

LEMMA NoParts ==
  TypeInv =>
    (Tokens = 0 <=> /\ Requests = 0 /\ Replies = 0 /\ StopCmd = 0 /\ StopEvt = 0
                    /\ Handling = 0)
<1> SUFFICES ASSUME TypeInv
             PROVE  Tokens = 0 <=> /\ Requests = 0 /\ Replies = 0 /\ StopCmd = 0
                                   /\ StopEvt = 0 /\ Handling = 0
  OBVIOUS
<1> QED BY TokenParts DEF TokenTypes, Tokens

LEMMA NoToken == TypeInv => (Tokens = 0 <=> Nowhere)
<1> SUFFICES ASSUME TypeInv PROVE Tokens = 0 <=> Nowhere
  OBVIOUS
<1> USE TokenParts DEF TokenTypes
<1>1. Tokens = 0 <=> /\ Requests = 0 /\ Replies = 0 /\ StopCmd = 0 /\ StopEvt = 0
                     /\ Handling = 0
  BY NoParts
<1>2. Requests = 0 <=> OnCmd("START_PREVIEW") = 0 /\ pc["main"] # "create"
  BY DEF Requests, Eq
<1>3. Replies = 0 <=> OnEvt("START_COMPLETE") = 0 /\ pc["msg"] # "renew"
  BY DEF Replies, Eq
<1>4. StopCmd = 0 <=> OnCmd("STOP_PREVIEW") = 0 /\ pc["main"] # "stopLock"
  BY DEF StopCmd, Eq
<1>5. StopEvt = 0 <=> OnEvt("STOP_COMPLETE") = 0 /\ pc["msg"] # "reset"
  BY DEF StopEvt, Eq
<1>6. Handling = 0 <=> pc["msg"] \notin {"open", "joinRecv"}
  BY DEF Handling
<1> HIDE TokenParts DEF TokenTypes
<1> QED BY <1>1, <1>2, <1>3, <1>4, <1>5, <1>6 DEF Nowhere

\* Settled says that it is nowhere.
LEMMA SettledTokens ==
  ASSUME TypeInv, Settled
  PROVE  Tokens = 0
<1>1. \A m \in Messages : Count(ring["cmd"].q, m) # 0 =>
          m \in {ring["cmd"].q[i] : i \in DOMAIN ring["cmd"].q}
  <2>1. ring["cmd"].q \in Seq(Messages)
    BY DEF TypeInv, RingType, RingRecords, Rings
  <2> QED BY <2>1, CountType
<1>2. \A m \in Messages : Count(ring["evt"].q, m) # 0 =>
          m \in {ring["evt"].q[i] : i \in DOMAIN ring["evt"].q}
  <2>1. ring["evt"].q \in Seq(Messages)
    BY DEF TypeInv, RingType, RingRecords, Rings
  <2> QED BY <2>1, CountType
<1>3. /\ OnCmd("START_PREVIEW") = 0 /\ OnEvt("START_COMPLETE") = 0
      /\ OnCmd("STOP_PREVIEW") = 0 /\ OnEvt("STOP_COMPLETE") = 0
  BY <1>1, <1>2 DEF Settled, InFlight, OnCmd, OnEvt, Sending, Eq, Messages
<1>4. Replies = 0
  BY <1>3 DEF Replies, Settled, Eq
<1> QED BY <1>3, <1>4, NoToken DEF Settled, Nowhere

----------------------------------------------------------------------------
(* The steps of a patient session *)

Calls == {"START_PREVIEW", "STOP_PREVIEW"}
Answers == {"START_COMPLETE", "STOP_COMPLETE"}

\* Steps that move the message.
MsgReadAnswer == MsgRead /\ Head(ring["evt"].q) \in Answers
Moves ==
  \/ StartPreview \/ StopPreview \/ MainStartPreview \/ MainStopPreview
  \/ CreateSender \/ FreeSender \/ MsgReadAnswer
  \/ RenewReceiver \/ OpenReceiver \/ ResetReceiver("msg") \/ JoinReceiver("msg")

\* Steps that neither move it nor change what both sides have.
JsClears ==
  ClearUnset("js") \/ ClearCloseEvt("js") \/ ClearCloseCmd("js") \/ ClearJoin("js")
    \/ JoinReceiver("js")
JsWorks == InitReady \/ InitDone \/ InitTimeout \/ Command \/ ReleaseCall \/ MonitorFires
MsgReadOther == MsgRead /\ Head(ring["evt"].q) \notin Answers
Quiets ==
  \/ \E t \in {"js", "main", "eng"} : Deliver(t) \/ DrawLostBlock(t)
  \/ Drop("main") \/ Drop("eng")
  \/ JsClears \/ JsWorks \/ MsgReadOther \/ MsgEnd
  \/ MainCommand \/ Connect \/ StartEngine \/ EngineEvent

\* Steps that do not move it.
Others ==
  \/ ResetReceiver("js") \/ Receives \/ BeginFrame \/ EndFrame
  \/ MainDisconnect \/ MainEnd \/ SenderFault

LEMMA PatientSteps ==
  ASSUME PatientInv, Peaceful, Next
  PROVE  Moves \/ Quiets \/ Others
<1> USE DEF PatientInv
<1>1. sinkUp /\ pc["mon"] \in {"idle", "done"}
  BY DEF Lifetime
<1>2. CASE Sends
  <2>1. ~\E t \in {"mon"} : Deliver(t) \/ DrawLostBlock(t) \/ Drop(t)
    BY <1>1 DEF Deliver, DrawLostBlock, Drop, At
  <2>2. ~Drop("js")
    <3>1. pc["js"] = "send" => ring["cmd"].w
      BY DEF Ends
    <3> QED BY <3>1 DEF Drop, At, RingOf
  <2> QED BY <1>2, <2>1, <2>2 DEF Sends, Senders, Quiets
<1>3. CASE Clears
  <2>1. PICK t \in Clearers :
          ClearUnset(t) \/ ClearCloseEvt(t) \/ ClearCloseCmd(t) \/ ClearJoin(t)
    BY <1>3 DEF Clears
  <2>2. t # "mon"
    BY <1>1, <2>1 DEF ClearUnset, ClearCloseEvt, ClearCloseCmd, ClearJoin, At
  <2>3. t = "js"
    BY <2>2 DEF Clearers
  <2> QED BY <2>1, <2>3 DEF Quiets, JsClears
<1>4. CASE Resets
  <2>1. ~ResetReceiver("mon") /\ ~JoinReceiver("mon")
    BY <1>1 DEF ResetReceiver, JoinReceiver, At
  <2>2. PICK t \in SinkThreads : ResetReceiver(t) \/ JoinReceiver(t)
    BY <1>4 DEF Resets
  <2>3. CASE t = "js"
    BY <2>2, <2>3 DEF Quiets, Others, JsClears
  <2>4. CASE t = "msg"
    BY <2>2, <2>4 DEF Moves
  <2> QED BY <2>1, <2>2, <2>3, <2>4 DEF SinkThreads
<1>5. CASE JsCalls \/ MonitorFires \/ Listens \/ Receives \/ MainReads \/ MainWorks \/ Renders
  <2>1. CASE JsCalls \/ MonitorFires
    BY <2>1 DEF JsCalls, Moves, Quiets, JsWorks
  <2>2. CASE Listens \/ Receives
    BY <2>2 DEF Listens, Moves, Quiets, Others, MsgReadAnswer, MsgReadOther
  <2>3. CASE MainReads \/ MainWorks
    BY <2>3 DEF MainReads, MainWorks, Moves, Quiets, Others
  <2>4. CASE Renders
    BY <2>4 DEF Renders, Quiets, Others
  <2> QED BY <1>5, <2>1, <2>2, <2>3, <2>4
<1>6. ~SinkMonitorFires /\ ~SinkDeath
  <2>1. ~SinkMonitorFires
    BY <1>1 DEF SinkMonitorFires
  <2>2. ~ReceiverFault
    BY DEF ReceiverFault, At, Stage, Places, Place, Has, Receiving
  <2> QED BY <2>1, <2>2 DEF SinkDeath, SinkCrash, Peaceful
<1>7. CASE SourceDeath
  BY <1>7 DEF SourceDeath, SourceCrash, Peaceful, Others
<1> QED BY <1>2, <1>3, <1>4, <1>5, <1>6, <1>7, NextSteps

\* Steps that do not move the message leave it where it is.
SameTokens ==
  /\ \A m \in Calls : OnCmd(m)' = OnCmd(m)
  /\ \A m \in Answers : OnEvt(m)' = OnEvt(m)
  /\ \A l \in {"create", "stopLock"} : pc'["main"] = l <=> pc["main"] = l
  /\ \A l \in {"renew", "open", "reset", "joinRecv"} : pc'["msg"] = l <=> pc["msg"] = l

LEMMA SameTokensFacts ==
  ASSUME SameTokens
  PROVE  Tokens' = Tokens /\ Requests' = Requests /\ Replies' = Replies
BY DEF SameTokens, Tokens, Requests, Replies, StopCmd, StopEvt, Handling, Calls, Answers, Eq

\* The counts of the state after a step are numbers, too.
LEMMA CountFactsNext ==
  ASSUME TypeInv, Next
  PROVE  /\ TypeInv'
         /\ \A m : OnCmd(m)' \in Nat /\ OnEvt(m)' \in Nat
<1>1. TypeInv'
  BY TypeStep
<1>2. ring'["cmd"].q \in Seq(Messages) /\ ring'["evt"].q \in Seq(Messages)
  BY <1>1 DEF TypeInv, RingType, RingRecords, Rings
<1>3. \A m : Count(ring'["cmd"].q, m) \in Nat /\ Count(ring'["evt"].q, m) \in Nat
  BY <1>2, CountType
<1>4. \A m : Sending("js", m)' \in Nat /\ Sending("main", m)' \in Nat
  BY DEF Sending, Eq
<1> QED BY <1>1, <1>3, <1>4 DEF OnCmd, OnEvt, Count

\* The source's main thread sends into an open ring while the message exists.
LEMMA MainDrops ==
  ASSUME PatientInv, Next, Drop("main")
  PROVE  SameTokens
<1> USE DEF PatientInv
<1>1. /\ pc["main"] = "send" /\ ~ring["evt"].w
      /\ pc' = [pc EXCEPT !["main"] = "read"]
  BY DEF Drop, At, RingOf, Goto, AfterSend
<1>2. pc'["main"] \notin {"create", "stopLock"} /\ pc'["msg"] = pc["msg"]
  BY <1>1 DEF TypeInv, ThreadPc, Threads, SinkThreads, SourceThreads
<1>3. Tokens = 0
  BY <1>1 DEF Ends, OneToken, Disconnected
<1>4. /\ \A m \in Calls : OnCmd(m) = 0 /\ OnCmd(m)' <= OnCmd(m)
      /\ \A m \in Answers : OnEvt(m) = 0 /\ OnEvt(m)' <= OnEvt(m)
  BY <1>3, NoToken, DropCounts DEF Nowhere, Calls, Answers, Tracked, Senders
<1>5. \A m : OnCmd(m)' \in Nat /\ OnEvt(m)' \in Nat
  BY CountFactsNext
<1>6. /\ \A m \in Calls : OnCmd(m)' = OnCmd(m)
      /\ \A m \in Answers : OnEvt(m)' = OnEvt(m)
  BY <1>4, <1>5
<1> QED BY <1>1, <1>2, <1>6 DEF SameTokens

LEMMA QuietTokens ==
  ASSUME PatientInv, Next, Quiets \/ Others
  PROVE  SameTokens
<1> USE DEF PatientInv
<1>1. SameCounts => /\ \A m \in Calls : OnCmd(m)' = OnCmd(m)
                    /\ \A m \in Answers : OnEvt(m)' = OnEvt(m)
  BY DEF SameCounts, Tracked, Calls, Answers
<1>2. CASE \E t \in {"js", "main", "eng"} : Deliver(t) \/ DrawLostBlock(t)
  <2>1. PICK t \in {"js", "main", "eng"} : Deliver(t) \/ DrawLostBlock(t)
    BY <1>2
  <2>2. SameCounts
    BY <2>1, DeliverCounts, DrawCounts DEF Senders
  <2>3. /\ pc'["msg"] = pc["msg"]
        /\ pc'["main"] = pc["main"] \/ (pc["main"] = "send" /\ pc'["main"] = "read")
    BY <2>1 DEF Deliver, DrawLostBlock, At, Goto, AfterSend, TypeInv, ThreadPc, Threads,
                SinkThreads, SourceThreads
  <2> QED BY <1>1, <2>2, <2>3 DEF SameTokens
<1>3. CASE Drop("eng")
  <2>1. SameCounts
    BY <1>3, DropCounts DEF Senders
  <2>2. pc'["msg"] = pc["msg"] /\ pc'["main"] = pc["main"]
    BY <1>3 DEF Drop, Goto, TypeInv, ThreadPc, Threads, SinkThreads, SourceThreads
  <2> QED BY <1>1, <2>1, <2>2 DEF SameTokens
<1>4. CASE JsClears \/ InitReady \/ InitDone \/ InitTimeout \/ ReleaseCall \/ MonitorFires
             \/ ResetReceiver("js")
  <2>1. SameCounts
    BY <1>4, SinkCounts DEF JsClears, Clears, Resets, Clearers, SinkThreads
  <2>2. \E t \in {"js", "mon"}, l \in PcNames : pc' = [pc EXCEPT ![t] = l]
    BY <1>4 DEF JsClears, InitReady, InitDone, InitTimeout, ReleaseCall, MonitorFires, ClearUnset,
         ClearCloseEvt, ClearCloseCmd, ClearJoin, JoinReceiver, ResetReceiver, Goto, Send,
         PcNames, Clearers
  <2>3. pc'["msg"] = pc["msg"] /\ pc'["main"] = pc["main"]
    BY <2>2 DEF TypeInv, ThreadPc, Threads, SinkThreads, SourceThreads
  <2> QED BY <1>1, <2>1, <2>3 DEF SameTokens
<1>5. CASE Command
  <2>1. Call("CMD")
    BY <1>5 DEF Command
  <2>2. /\ \A m \in Calls : OnCmd(m)' = OnCmd(m)
        /\ \A m \in Answers : OnEvt(m)' = OnEvt(m)
    <3>1. \A m : OnCmd(m)' = OnCmd(m) + Eq(m, "CMD") /\ OnEvt(m)' = OnEvt(m)
      BY <2>1, CallCounts DEF Messages
    <3> QED BY <3>1, TokenParts DEF TokenTypes, Eq, Calls, Answers
  <2>3. pc'["msg"] = pc["msg"] /\ pc'["main"] = pc["main"]
    BY <2>1 DEF Call, Send, TypeInv, ThreadPc, Threads, SinkThreads, SourceThreads
  <2> QED BY <2>2, <2>3 DEF SameTokens
<1>6. CASE MsgReadOther
  <2>1. \A m \in Answers : OnEvt(m)' = OnEvt(m)
    <3>1. \A m : OnEvt(m) = OnEvt(m)' + Eq(Head(ring["evt"].q), m)
      BY <1>6, MsgReadCounts DEF MsgReadOther
    <3> QED BY <1>6, <3>1, CountFactsNext DEF MsgReadOther, Eq
  <2>2. \A m : OnCmd(m)' = OnCmd(m)
    BY <1>6, MsgReadCounts DEF MsgReadOther
  <2>3. pc'["msg"] = "read" /\ pc["msg"] = "read" /\ pc'["main"] = pc["main"]
    BY <1>6 DEF MsgReadOther, Answers, MsgRead, At, Goto, TypeInv, ThreadPc, Threads,
                SinkThreads, SourceThreads
  <2> QED BY <2>1, <2>2, <2>3 DEF SameTokens
<1>7. CASE MsgEnd \/ Receives
  <2>1. SameCounts
    BY <1>7, SinkCounts
  <2>2. /\ pc'["main"] = pc["main"]
        /\ pc'["msg"] = pc["msg"] \/ (pc["msg"] = "read" /\ pc'["msg"] = "done")
    BY <1>7 DEF MsgEnd, Receives, TakeFrame, ReceiverEnds, At, Goto, TypeInv, ThreadPc,
                Threads, SinkThreads, SourceThreads
  <2> QED BY <1>1, <2>1, <2>2 DEF SameTokens
<1>8. CASE MainCommand \/ MainDisconnect
  <2>1. Head(ring["cmd"].q) \notin Calls
    <3>1. CASE MainDisconnect
      BY <3>1 DEF MainDisconnect, MainRead, Calls
    <3>2. CASE MainCommand
      <4> SUFFICES ASSUME Head(ring["cmd"].q) \in Calls
                   PROVE  FALSE
        OBVIOUS
      <4>1. ~srcInit /\ ring["cmd"].q # <<>>
        BY <3>2 DEF MainCommand, MainRead, Calls
      <4>2. Count(ring["cmd"].q, Head(ring["cmd"].q)) >= 1
        BY <4>1, HeadCounted DEF TypeInv, Rings
      <4>3. OnCmd(Head(ring["cmd"].q)) >= 1
        BY <4>2, CountFacts DEF OnCmd, TypeInv
      <4>4. Tokens # 0
        BY <4>3, NoToken DEF Nowhere, Calls
      <4> QED BY <4>1, <4>4 DEF OneToken, Lifetime, Ready
    <3> QED BY <1>8, <3>1, <3>2
  <2>2. \A m \in Calls : OnCmd(m)' = OnCmd(m)
    <3>1. \A m : OnCmd(m) = OnCmd(m)' + Eq(Head(ring["cmd"].q), m)
      BY <1>8, MainReadCounts DEF MainReads
    <3> QED BY <2>1, <3>1, CountFactsNext DEF Eq
  <2>3. \A m : OnEvt(m)' = OnEvt(m)
    BY <1>8, MainReadCounts DEF MainReads
  <2>4. pc'["msg"] = pc["msg"] /\ pc'["main"] = pc["main"]
    BY <1>8 DEF MainCommand, MainDisconnect
  <2> QED BY <2>2, <2>3, <2>4 DEF SameTokens
<1>9. CASE StartEngine
  <2>1. /\ pc'["msg"] = pc["msg"] /\ pc["main"] = "engine"
        /\ pc'["main"] \in {"send", "read"}
    BY <1>9 DEF StartEngine, At, Goto, Send, TypeInv, ThreadPc, Threads, SinkThreads,
                SourceThreads
  <2>2. CASE pc'["main"] = "read"
    BY <1>1, <1>9, <2>1, <2>2, SourceCounts DEF SameTokens
  <2>3. CASE pc'["main"] = "send"
    <3>1. Send("main", "SOURCE_READY") /\ ring' = ring
      BY <1>9, <2>3 DEF StartEngine, Goto, TypeInv, ThreadPc, Threads, SourceThreads
    <3>2. \A m : OnEvt(m)' = OnEvt(m) + Eq(m, "SOURCE_READY") /\ OnCmd(m)' = OnCmd(m)
      BY <2>1, <3>1, ReplyCounts DEF Messages
    <3>3. \A m \in Answers : OnEvt(m)' = OnEvt(m)
      BY <3>2, TokenParts DEF TokenTypes, Eq, Answers
    <3> QED BY <2>1, <2>3, <3>2, <3>3 DEF SameTokens
  <2> QED BY <2>1, <2>2, <2>3
<1>10. CASE Connect \/ EngineEvent \/ BeginFrame \/ EndFrame \/ MainEnd \/ SenderFault
  <2>1. SameCounts
    BY <1>10, SourceCounts DEF Renders, SenderFault
  <2>2. /\ pc'["msg"] = pc["msg"]
        /\ \/ pc'["main"] = pc["main"]
           \/ pc["main"] = "connect" /\ pc'["main"] = "engine"
    BY <1>10 DEF Connect, EngineEvent, BeginFrame, EndFrame, MainEnd, SenderFault, SourceDies, At,
         Goto, Send, TypeInv, ThreadPc, Threads, SinkThreads, SourceThreads
  <2> QED BY <1>1, <2>1, <2>2 DEF SameTokens
<1> QED BY <1>2, <1>3, <1>4, <1>5, <1>6, <1>7, <1>8, <1>9, <1>10, MainDrops
        DEF Quiets, Others, JsWorks

\* The message is somewhere, or nowhere ...
LEMMA SomePlace ==
  ASSUME TypeInv
  PROVE  \E l \in Places : Place(l)
<1>1. CASE Tokens = 0
  BY <1>1 DEF Places, Place
<1>2. CASE Tokens # 0
  <2>1. ~Nowhere
    BY <1>2, NoToken
  <2>2. OnEvt("START_COMPLETE") # 0 \/ pc["msg"] = "renew" => Replies # 0
    BY TokenParts DEF TokenTypes, Replies, Eq
  <2>3. \/ Place("start") \/ Place("create") \/ Place("started") \/ Place("open")
        \/ Place("stop") \/ Place("lock") \/ Place("stopped") \/ Place("join")
    BY <2>1, <2>2, TokenParts DEF TokenTypes, Nowhere, Place
  <2> QED BY <2>3 DEF Places
<1> QED BY <1>1, <1>2

LEMMA OneOfFive ==
  ASSUME NEW a \in Nat, NEW b \in Nat, NEW c \in Nat, NEW d \in Nat, NEW e \in Nat,
         a + b + c + d + e <= 1
  PROVE  /\ a <= 1 /\ c <= 1
         /\ a >= 1 => b = 0 /\ c = 0 /\ d = 0 /\ e = 0
         /\ b >= 1 => a = 0 /\ c = 0 /\ d = 0 /\ e = 0
         /\ c >= 1 => a = 0 /\ b = 0 /\ d = 0 /\ e = 0
         /\ d >= 1 => a = 0 /\ b = 0 /\ c = 0 /\ e = 0
         /\ e >= 1 => a = 0 /\ b = 0 /\ c = 0 /\ d = 0
OBVIOUS

\* ... in one place only.
LEMMA OnePlace ==
  TypeInv /\ Tokens <= 1 => \A j, k \in Places : Place(j) /\ Place(k) => j = k
<1> SUFFICES ASSUME TypeInv, Tokens <= 1
             PROVE  \A j, k \in Places : Place(j) /\ Place(k) => j = k
  OBVIOUS
<1> USE TokenParts DEF TokenTypes
<1>1. /\ Requests <= 1 /\ StopCmd <= 1
      /\ Requests >= 1 => Replies = 0 /\ StopCmd = 0 /\ StopEvt = 0 /\ Handling = 0
      /\ Replies >= 1 => Requests = 0 /\ StopCmd = 0 /\ StopEvt = 0 /\ Handling = 0
      /\ StopCmd >= 1 => Requests = 0 /\ Replies = 0 /\ StopEvt = 0 /\ Handling = 0
      /\ StopEvt >= 1 => Requests = 0 /\ Replies = 0 /\ StopCmd = 0 /\ Handling = 0
      /\ Handling >= 1 => Requests = 0 /\ Replies = 0 /\ StopCmd = 0 /\ StopEvt = 0
  <2>1. Requests + Replies + StopCmd + StopEvt + Handling <= 1
    BY DEF Tokens
  <2> QED BY <2>1, OneOfFive
<1>2. /\ Place("start") => Requests >= 1 /\ ~Place("create")
      /\ Place("create") => Requests >= 1
  BY <1>1 DEF Place, Requests, Eq
<1>3. Place("started") => Replies >= 1
  BY DEF Place
<1>4. /\ Place("stop") => StopCmd >= 1 /\ ~Place("lock")
      /\ Place("lock") => StopCmd >= 1
  BY <1>1 DEF Place, StopCmd, Eq
<1>5. Place("stopped") => StopEvt >= 1
  BY DEF Place, StopEvt, Eq
<1>6. /\ Place("open") => Handling >= 1 /\ ~Place("join")
      /\ Place("join") => Handling >= 1
  BY DEF Place, Handling
<1>7. Place("none") => /\ Requests = 0 /\ Replies = 0 /\ StopCmd = 0 /\ StopEvt = 0
                       /\ Handling = 0
  BY NoParts DEF Place
<1> HIDE TokenParts DEF TokenTypes
<1>8. /\ ~(Requests >= 1 /\ Requests = 0) /\ ~(Replies >= 1 /\ Replies = 0)
      /\ ~(StopCmd >= 1 /\ StopCmd = 0) /\ ~(StopEvt >= 1 /\ StopEvt = 0)
      /\ ~(Handling >= 1 /\ Handling = 0)
  BY TokenParts DEF TokenTypes
<1> QED BY <1>1, <1>2, <1>3, <1>4, <1>5, <1>6, <1>7, <1>8 DEF Places

\* What a move does to the message.
Moved(from, to) == Place(from) /\ Place(to)' /\ Tokens' = 1

\* A preview call finds nothing on its way, and starts the conversation.
LEMMA CallMoves ==
  ASSUME PatientInv, Next, Peaceful, StartPreview \/ StopPreview
  PROVE  /\ StartPreview => Moved("none", "start")
         /\ StopPreview => Moved("none", "stop")
<1> USE DEF PatientInv
<1>1. Tokens = 0
  BY SettledTokens DEF StartPreview, StopPreview, Peaceful
<1>2. PICK m \in Calls : /\ Call(m)
                         /\ StartPreview => m = "START_PREVIEW"
                         /\ StopPreview => m = "STOP_PREVIEW"
  <2>1. ~(StartPreview /\ StopPreview)
    BY DEF StartPreview, StopPreview, Peaceful
  <2> QED BY <2>1 DEF StartPreview, StopPreview, Calls
<1>3. \A k : OnCmd(k)' = OnCmd(k) + Eq(k, m) /\ OnEvt(k)' = OnEvt(k)
  BY <1>2, CallCounts DEF Calls, Messages
<1>4. pc'["main"] = pc["main"] /\ pc'["msg"] = pc["msg"]
  BY <1>2 DEF Call, Send, TypeInv, ThreadPc, Threads, SinkThreads, SourceThreads
<1>5. Nowhere
  BY <1>1, NoToken
<1>6. /\ OnCmd("START_PREVIEW")' = Eq("START_PREVIEW", m)
      /\ OnCmd("STOP_PREVIEW")' = Eq("STOP_PREVIEW", m)
  BY <1>3, <1>5 DEF Nowhere, Eq
<1>7. /\ Requests' = OnCmd("START_PREVIEW")' /\ StopCmd' = OnCmd("STOP_PREVIEW")'
      /\ Replies' = 0 /\ StopEvt' = 0 /\ Handling' = 0
  BY <1>3, <1>4, <1>5, <1>6
     DEF Nowhere, Requests, Replies, StopCmd, StopEvt, Handling, Eq
<1>8. Tokens' = 1 /\ OnCmd(m)' = 1
  BY <1>2, <1>6, <1>7 DEF Tokens, Eq, Calls
<1> QED BY <1>1, <1>2, <1>8 DEF Moved, Place

\* The source takes it ...
LEMMA TakeMoves ==
  ASSUME PatientInv, Next, MainStartPreview \/ MainStopPreview
  PROVE  /\ MainStartPreview => Moved("start", "create")
         /\ MainStopPreview => Moved("stop", "lock")
<1> USE DEF PatientInv
<1> DEFINE C == "START_PREVIEW"
           S == "STOP_PREVIEW"
<1>1. /\ ring["cmd"].q # <<>>
      /\ MainStartPreview => Head(ring["cmd"].q) = C /\ pc'["main"] = "create"
      /\ MainStopPreview => Head(ring["cmd"].q) = S /\ pc'["main"] = "stopLock"
      /\ pc["main"] = "read" /\ pc'["msg"] = pc["msg"]
  BY DEF MainStartPreview, MainStopPreview, MainRead, At, Goto, TypeInv, ThreadPc, Threads,
         SinkThreads, SourceThreads
<1>2. \A m : OnCmd(m) = OnCmd(m)' + Eq(Head(ring["cmd"].q), m) /\ OnEvt(m)' = OnEvt(m)
  BY MainReadCounts DEF MainReads
<1>3. OnCmd(C) \in Nat /\ OnCmd(S) \in Nat /\ OnCmd(C)' \in Nat /\ OnCmd(S)' \in Nat
  BY CountFactsNext, TokenParts DEF TokenTypes
<1>4. OnCmd(Head(ring["cmd"].q)) >= 1
  <2>1. OnCmd(C) = OnCmd(C)' + Eq(Head(ring["cmd"].q), C)
        /\ OnCmd(S) = OnCmd(S)' + Eq(Head(ring["cmd"].q), S)
    BY <1>2
  <2> QED BY <1>1, <1>3, <2>1 DEF Eq
<1>5. Replies' = Replies /\ StopEvt' = StopEvt /\ Handling' = Handling
  BY <1>1, <1>2 DEF Replies, StopEvt, Handling
<1>6. Requests' = Requests /\ StopCmd' = StopCmd
  <2>1. /\ OnCmd(C) = OnCmd(C)' + Eq(Head(ring["cmd"].q), C)
        /\ OnCmd(S) = OnCmd(S)' + Eq(Head(ring["cmd"].q), S)
    BY <1>2
  <2>2. CASE Head(ring["cmd"].q) = C
    <3>1. pc'["main"] = "create" /\ OnCmd(C) = OnCmd(C)' + 1 /\ OnCmd(S) = OnCmd(S)'
      BY <1>1, <1>3, <2>1, <2>2 DEF Eq
    <3> QED BY <1>1, <1>3, <3>1 DEF Requests, StopCmd, Eq
  <2>3. CASE Head(ring["cmd"].q) = S
    <3>1. pc'["main"] = "stopLock" /\ OnCmd(S) = OnCmd(S)' + 1 /\ OnCmd(C) = OnCmd(C)'
      BY <1>1, <1>3, <2>1, <2>3 DEF Eq
    <3> QED BY <1>1, <1>3, <3>1 DEF Requests, StopCmd, Eq
  <2> QED BY <1>1, <2>2, <2>3
<1>7. Tokens' = Tokens
  BY <1>5, <1>6 DEF Tokens
<1>8. Tokens = 1
  <2>1. Tokens # 0
    BY <1>1, <1>4, NoToken DEF Nowhere
  <2> QED BY <2>1, TokenParts DEF TokenTypes, OneToken
<1> QED BY <1>1, <1>4, <1>7, <1>8 DEF Moved, Place

\* ... and replies.
LEMMA ReplyMoves ==
  ASSUME PatientInv, Next, CreateSender \/ FreeSender
  PROVE  /\ CreateSender => Moved("create", "started")
         /\ FreeSender => Moved("lock", "stopped")
<1> USE DEF PatientInv
<1> DEFINE C == "START_COMPLETE"
           S == "STOP_COMPLETE"
<1>1. PICK m \in Answers : /\ Send("main", m) /\ ring' = ring
                           /\ CreateSender => m = C
                           /\ FreeSender => m = S
                           /\ pc["main"] = IF m = C THEN "create" ELSE "stopLock"
  BY DEF CreateSender, FreeSender, At, Answers
<1>2. pc'["main"] = "send" /\ pc'["msg"] = pc["msg"]
  BY <1>1 DEF Send, TypeInv, ThreadPc, Threads, SinkThreads, SourceThreads
<1>3. \A k : OnEvt(k)' = OnEvt(k) + Eq(k, m) /\ OnCmd(k)' = OnCmd(k)
  <2>1. pc["main"] # "send"
    BY <1>1
  <2> QED BY <1>1, <2>1, ReplyCounts DEF Answers, Messages
<1>4. /\ OnEvt(C)' = OnEvt(C) + Eq(C, m) /\ OnEvt(S)' = OnEvt(S) + Eq(S, m)
      /\ OnCmd("START_PREVIEW")' = OnCmd("START_PREVIEW")
      /\ OnCmd("STOP_PREVIEW")' = OnCmd("STOP_PREVIEW")
  BY <1>3
<1>5. TokenTypes /\ Handling' = Handling
  BY <1>2, TokenParts DEF Handling
<1>6. CASE m = C
  <2>1. Requests' = OnCmd("START_PREVIEW") /\ Requests = OnCmd("START_PREVIEW") + 1
    BY <1>1, <1>2, <1>4, <1>5, <1>6 DEF Requests, Eq, TokenTypes
  <2>2. Replies' = Replies + 1 /\ Replies' >= 1
    BY <1>2, <1>4, <1>5, <1>6 DEF Replies, Eq, TokenTypes
  <2>3. StopCmd' = StopCmd /\ StopEvt' = StopEvt
    BY <1>1, <1>2, <1>4, <1>5, <1>6 DEF StopCmd, StopEvt, Eq, TokenTypes
  <2>4. Tokens' = Tokens
    BY <1>5, <2>1, <2>2, <2>3 DEF Tokens, TokenTypes
  <2>5. Tokens = 1
    BY <1>1, <1>5, <1>6, NoToken DEF OneToken, Nowhere, TokenTypes
  <2> QED BY <1>1, <1>6, <2>2, <2>4, <2>5 DEF Moved, Place
<1>7. CASE m = S
  <2>1. StopCmd' = OnCmd("STOP_PREVIEW") /\ StopCmd = OnCmd("STOP_PREVIEW") + 1
    BY <1>1, <1>2, <1>4, <1>5, <1>7 DEF StopCmd, Eq, TokenTypes
  <2>2. StopEvt' = StopEvt + 1 /\ OnEvt(S)' >= 1
    BY <1>2, <1>4, <1>5, <1>7 DEF StopEvt, Eq, TokenTypes
  <2>3. Requests' = Requests /\ Replies' = Replies
    BY <1>1, <1>2, <1>4, <1>5, <1>7 DEF Requests, Replies, Eq, TokenTypes
  <2>4. Tokens' = Tokens
    BY <1>5, <2>1, <2>2, <2>3 DEF Tokens, TokenTypes
  <2>5. Tokens = 1
    BY <1>1, <1>5, <1>7, NoToken DEF OneToken, Nowhere, TokenTypes
  <2> QED BY <1>1, <1>7, <2>2, <2>4, <2>5 DEF Moved, Place
<1> QED BY <1>1, <1>6, <1>7 DEF Answers

\* The sink takes the reply ...
LEMMA AnswerMoves ==
  ASSUME PatientInv, Next, MsgReadAnswer
  PROVE  \/ Moved("started", "started") /\ pc'["msg"] = "renew"
         \/ Moved("stopped", "stopped") /\ pc'["msg"] = "reset"
<1> USE DEF PatientInv
<1> DEFINE C == "START_COMPLETE"
           S == "STOP_COMPLETE"
           m == Head(ring["evt"].q)
<1>1. \A k : OnEvt(k) = OnEvt(k)' + Eq(m, k) /\ OnCmd(k)' = OnCmd(k)
  BY MsgReadCounts DEF MsgReadAnswer
<1>2. m \in {C, S}
  BY DEF MsgReadAnswer, Answers
<1>3. /\ OnEvt(C) = OnEvt(C)' + Eq(m, C) /\ OnEvt(S) = OnEvt(S)' + Eq(m, S)
      /\ OnCmd("START_PREVIEW")' = OnCmd("START_PREVIEW")
      /\ OnCmd("STOP_PREVIEW")' = OnCmd("STOP_PREVIEW")
      /\ OnEvt(C)' \in Nat /\ OnEvt(S)' \in Nat
  BY <1>1, CountFactsNext
<1>4. TokenTypes
  BY TokenParts
<1>5. Tokens = 1
  <2>1. OnEvt(C) # 0 \/ OnEvt(S) # 0
    BY <1>2, <1>3 DEF Eq
  <2> QED BY <1>4, <2>1, NoToken DEF OneToken, Nowhere, TokenTypes
<1>6. /\ pc["msg"] = "read" /\ pc'["main"] = pc["main"]
      /\ m = C => pc'["msg"] = "renew"
      /\ m = S => pc'["msg"] = "reset"
  BY <1>5 DEF MsgReadAnswer, MsgRead, At, Goto, OneToken, TypeInv, ThreadPc, Threads,
              SinkThreads, SourceThreads
<1> HIDE DEF m
<1>7. Requests' = Requests /\ StopCmd' = StopCmd /\ Handling' = Handling
  <2>1. Requests' = Requests /\ StopCmd' = StopCmd
    BY <1>3, <1>6 DEF Requests, StopCmd
  <2> QED BY <1>2, <1>6, <2>1 DEF Handling
<1>8. CASE m = C
  <2>1. OnEvt(C) = OnEvt(C)' + 1 /\ OnEvt(S) = OnEvt(S)'
    BY <1>3, <1>4, <1>8 DEF Eq, TokenTypes
  <2>2. Replies' = Replies /\ Replies >= 1 /\ StopEvt' = StopEvt
    BY <1>3, <1>4, <1>6, <1>8, <2>1 DEF Replies, StopEvt, Eq, TokenTypes
  <2>3. Tokens' = Tokens
    BY <1>7, <2>2 DEF Tokens
  <2> QED BY <1>5, <1>6, <1>8, <2>2, <2>3 DEF Moved, Place
<1>9. CASE m = S
  <2>1. OnEvt(S) = OnEvt(S)' + 1 /\ OnEvt(C) = OnEvt(C)' /\ OnEvt(S) >= 1
    BY <1>3, <1>4, <1>9 DEF Eq, TokenTypes
  <2>2. Replies' = Replies /\ StopEvt' = StopEvt
    BY <1>3, <1>4, <1>6, <1>9, <2>1 DEF Replies, StopEvt, Eq, TokenTypes
  <2>3. Tokens' = Tokens
    BY <1>7, <2>2 DEF Tokens
  <2> QED BY <1>5, <1>6, <1>9, <2>1, <2>3 DEF Moved, Place
<1> QED BY <1>2, <1>8, <1>9

\* A receiver is new only between renew and open.
LEMMA OldReceiver ==
  ASSUME PatientInv, Receiving, pc["msg"] # "open"
  PROVE  receiver \in Previews /\ recv[receiver].st # "new"
BY DEF PatientInv, Receiving, Receivers, TypeInv, SinkType, PreviewRefs, Previews

\* ... and handles it.
LEMMA HandleMoves ==
  ASSUME PatientInv, Next,
         RenewReceiver \/ OpenReceiver \/ ResetReceiver("msg") \/ JoinReceiver("msg")
  PROVE  /\ RenewReceiver => Moved("started", "open")
         /\ OpenReceiver => Place("open") /\ Tokens' = 0
         /\ ResetReceiver("msg") => Moved("stopped", "join")
         /\ JoinReceiver("msg") => Place("join") /\ Tokens' = 0
<1> USE DEF PatientInv
<1>1. /\ OnCmd("START_PREVIEW")' = OnCmd("START_PREVIEW")
      /\ OnCmd("STOP_PREVIEW")' = OnCmd("STOP_PREVIEW")
      /\ OnEvt("START_COMPLETE")' = OnEvt("START_COMPLETE")
      /\ OnEvt("STOP_COMPLETE")' = OnEvt("STOP_COMPLETE")
  BY SinkCounts DEF SameCounts, Tracked, Resets, SinkThreads
<1>2. \E l \in PcNames : pc' = [pc EXCEPT !["msg"] = l]
  BY DEF RenewReceiver, OpenReceiver, ResetReceiver, JoinReceiver, Goto, PcNames, Clearers
<1>3. pc'["main"] = pc["main"]
  BY <1>2 DEF TypeInv, ThreadPc, Threads, SinkThreads, SourceThreads
<1>4. Requests' = Requests /\ StopCmd' = StopCmd /\ TokenTypes
  BY <1>1, <1>3, TokenParts DEF Requests, StopCmd
<1>5. CASE RenewReceiver
  <2>1. pc["msg"] = "renew"
    BY <1>5 DEF RenewReceiver, At
  <2>2. Replies = OnEvt("START_COMPLETE") + 1 /\ Replies >= 1
    BY <1>4, <2>1 DEF Replies, Eq, TokenTypes
  <2>3. receiver = 0
    BY <2>2 DEF Stage, Places, Place, Has
  <2>4. pc'["msg"] = "open"
    BY <1>5, <2>3 DEF RenewReceiver, Goto, TypeInv, ThreadPc, Threads, SinkThreads
  <2>5. Replies' = OnEvt("START_COMPLETE") /\ StopEvt' = StopEvt
    BY <1>1, <1>4, <2>1, <2>4 DEF Replies, StopEvt, Eq, TokenTypes
  <2>6. Handling = 0 /\ Handling' = 1
    BY <2>1, <2>4 DEF Handling
  <2>7. Tokens' = Tokens
    BY <1>4, <2>2, <2>5, <2>6 DEF Tokens, TokenTypes
  <2>8. Tokens = 1
    BY <1>4, <2>2, NoToken DEF OneToken, Nowhere, TokenTypes
  <2>9. ~OpenReceiver /\ ~ResetReceiver("msg") /\ ~JoinReceiver("msg")
    BY <2>1 DEF OpenReceiver, ResetReceiver, JoinReceiver, At
  <2> QED BY <2>2, <2>4, <2>7, <2>8, <2>9 DEF Moved, Place
<1>6. CASE ResetReceiver("msg")
  <2>1. pc["msg"] = "reset"
    BY <1>6 DEF ResetReceiver, At
  <2>2. StopEvt = OnEvt("STOP_COMPLETE") + 1
    BY <1>4, <2>1 DEF StopEvt, Eq, TokenTypes
  <2>3. receiver # 0 /\ recv[receiver].st # "new"
    BY <2>1, OldReceiver DEF Stage, Places, Place, Has, Receiving
  <2>4. pc'["msg"] = "joinRecv"
    BY <1>6, <2>3 DEF ResetReceiver, Goto, TypeInv, ThreadPc, Threads, SinkThreads
  <2>5. Replies' = Replies /\ StopEvt' = OnEvt("STOP_COMPLETE")
    BY <1>1, <1>4, <2>1, <2>4 DEF Replies, StopEvt, Eq, TokenTypes
  <2>6. Handling = 0 /\ Handling' = 1
    BY <2>1, <2>4 DEF Handling
  <2>7. Tokens' = Tokens
    BY <1>4, <2>2, <2>5, <2>6 DEF Tokens, TokenTypes
  <2>8. Tokens = 1
    BY <1>4, <2>1, NoToken DEF OneToken, Nowhere, TokenTypes
  <2>9. ~RenewReceiver /\ ~OpenReceiver /\ ~JoinReceiver("msg")
    BY <2>1 DEF RenewReceiver, OpenReceiver, JoinReceiver, At
  <2> QED BY <2>1, <2>4, <2>7, <2>8, <2>9 DEF Moved, Place
<1>7. CASE OpenReceiver \/ JoinReceiver("msg")
  <2>1. /\ OpenReceiver => pc["msg"] = "open"
        /\ JoinReceiver("msg") => pc["msg"] = "joinRecv"
    BY DEF OpenReceiver, JoinReceiver, At
  <2>2. pc'["msg"] = "read"
    <3>1. CASE OpenReceiver
      BY <3>1 DEF OpenReceiver, Goto, TypeInv, ThreadPc, Threads, SinkThreads
    <3>2. CASE JoinReceiver("msg")
      <4>1. old["msg"] = made
        BY <2>1, <3>2 DEF Stage, Places, Place, Has
      <4> QED BY <3>2, <4>1 DEF JoinReceiver, Goto, Clearers, TypeInv, ThreadPc, Threads,
                                SinkThreads
    <3> QED BY <1>7, <3>1, <3>2
  <2>3. Replies' = Replies /\ StopEvt' = StopEvt
    BY <1>1, <1>7, <2>1, <2>2 DEF Replies, StopEvt, Eq
  <2>4. Handling = 1 /\ Handling' = 0
    BY <1>7, <2>1, <2>2 DEF Handling
  <2>5. Tokens = 1
    BY <1>4, <1>7, <2>1, NoToken DEF OneToken, Nowhere, TokenTypes
  <2>6. Tokens' = 0
    BY <1>4, <2>3, <2>4, <2>5 DEF Tokens, TokenTypes
  <2>7. ~RenewReceiver /\ ~ResetReceiver("msg")
    BY <1>7, <2>1 DEF RenewReceiver, ResetReceiver, At
  <2> QED BY <2>1, <2>6, <2>7 DEF Place
<1> QED BY <1>5, <1>6, <1>7

----------------------------------------------------------------------------
(* What JavaScript does *)

\* The steps of the JavaScript thread.
JsMoves ==
  \/ InitReady \/ InitDone \/ InitTimeout \/ Command \/ StartPreview \/ StopPreview
  \/ ReleaseCall \/ Deliver("js") \/ DrawLostBlock("js")
  \/ ClearUnset("js") \/ ResetReceiver("js") \/ JoinReceiver("js")
  \/ ClearCloseEvt("js") \/ ClearCloseCmd("js") \/ ClearJoin("js")

SameJs == pc'["js"] = pc["js"] /\ out'["js"] = out["js"] /\ initialized' = initialized

LEMMA JsSteps ==
  ASSUME PatientInv, Next, Moves \/ Quiets \/ Others
  PROVE  JsMoves \/ SameJs
<1> USE DEF PatientInv, TypeInv, ThreadPc, ThreadOut, Threads, SinkThreads, SourceThreads,
            Senders
<1>1. CASE \E t \in {"js", "main", "eng"} : Deliver(t) \/ DrawLostBlock(t) \/ Drop(t)
  <2>1. ~Drop("js")
    BY DEF Ends, Drop, At, RingOf
  <2>2. ASSUME NEW t \in {"main", "eng"}, Deliver(t) \/ DrawLostBlock(t) \/ Drop(t)
        PROVE  SameJs
    BY <2>2 DEF Deliver, DrawLostBlock, Drop, Goto, sinkVars, SameJs
  <2> QED BY <1>1, <2>1, <2>2 DEF JsMoves
<1>2. CASE MonitorFires \/ MsgRead \/ MsgEnd \/ RenewReceiver \/ OpenReceiver \/ Receives
  BY <1>2 DEF MonitorFires, MsgRead, MsgEnd, RenewReceiver, OpenReceiver, Receives, TakeFrame,
              ReceiverEnds, Goto, sinkVars, SameJs
<1>3. CASE ResetReceiver("msg") \/ JoinReceiver("msg")
  BY <1>3 DEF ResetReceiver, JoinReceiver, Clearers, Goto, sinkVars, SameJs
<1>4. CASE MainReads
  BY <1>4 DEF MainReads, MainCommand, MainStartPreview, MainStopPreview, MainDisconnect,
              MainRead, Goto, sinkVars, SameJs
<1>5. CASE Connect \/ StartEngine \/ CreateSender \/ FreeSender \/ MainEnd
  BY <1>5 DEF Connect, StartEngine, CreateSender, FreeSender, MainEnd, Goto, Send, sinkVars,
              SameJs
<1>6. CASE EngineEvent \/ BeginFrame \/ EndFrame \/ SenderFault
  BY <1>6 DEF EngineEvent, BeginFrame, EndFrame, SenderFault, SourceDies, Goto, Send, sinkVars,
              SameJs
<1> QED BY <1>1, <1>2, <1>3, <1>4, <1>5, <1>6
        DEF Moves, Quiets, Others, JsClears, JsWorks, MsgReadAnswer, MsgReadOther, MainReads,
            JsMoves

LEMMA ClearedTokens ==
  ASSUME PatientInv, Cleared
  PROVE  Tokens = 0 /\ ~initialized
BY DEF PatientInv, OneToken, Lifetime

\* What a step of the JavaScript thread changes: where it is, m_initialized, and
\* which of its sends there is.
JsEffect ==
  \/ InitReady /\ pc["js"] = "waiting" /\ pc'["js"] = "arming" /\ ~initialized'
  \/ InitDone /\ pc["js"] = "arming" /\ pc'["js"] = "idle" /\ initialized'
  \/ InitTimeout /\ pc["js"] = "waiting" /\ pc'["js"] = "unset" /\ ~initialized'
  \/ /\ Command \/ StartPreview \/ StopPreview
     /\ pc["js"] = "idle" /\ pc'["js"] = "send" /\ out'["js"] # "DISCONNECT" /\ initialized'
  \/ ReleaseCall /\ pc["js"] = "idle" /\ pc'["js"] = "unset" /\ initialized'
  \/ DrawLostBlock("js") /\ SameJs
  \/ /\ Deliver("js") /\ pc["js"] = "send" /\ out["js"] # "DISCONNECT"
     /\ pc'["js"] = "idle" /\ initialized /\ initialized'
  \/ /\ Deliver("js") /\ pc["js"] = "send" /\ out["js"] = "DISCONNECT"
     /\ pc'["js"] = "closeEvt" /\ ~initialized'
  \/ ClearUnset("js") /\ pc["js"] = "unset" /\ pc'["js"] = "reset" /\ ~initialized'
  \/ /\ ResetReceiver("js") /\ pc["js"] = "reset" /\ ~initialized'
     /\ pc'["js"] = "joinRecv" \/ (pc'["js"] = "send" /\ out'["js"] = "DISCONNECT")
  \/ /\ JoinReceiver("js") /\ pc["js"] = "joinRecv" /\ ~initialized'
     /\ pc'["js"] = "send" /\ out'["js"] = "DISCONNECT"
  \/ ClearCloseEvt("js") /\ pc["js"] = "closeEvt" /\ pc'["js"] = "closeCmd" /\ ~initialized'
  \/ ClearCloseCmd("js") /\ pc["js"] = "closeCmd" /\ pc'["js"] = "joinMsg" /\ ~initialized'
  \/ ClearJoin("js") /\ pc["js"] = "joinMsg" /\ pc'["js"] = "released" /\ ~initialized'

LEMMA JsEffects ==
  ASSUME PatientInv, Next, JsMoves
  PROVE  JsEffect
<1> USE DEF PatientInv, TypeInv, ThreadPc, ThreadOut, Threads, SinkThreads, SourceThreads,
            Senders, JsEffect, SinkType
<1>1. CASE InitReady
  BY <1>1 DEF InitReady, At, Goto, Lifetime
<1>2. CASE InitDone
  BY <1>2 DEF InitDone, At, Goto
<1>3. CASE InitTimeout
  BY <1>3 DEF InitTimeout, At, Goto, Lifetime, sinkVars
<1>4. CASE Command \/ StartPreview \/ StopPreview
  <2>1. PICK m \in {"CMD", "START_PREVIEW", "STOP_PREVIEW"} : Call(m)
    BY <1>4 DEF Command, StartPreview, StopPreview
  <2> QED BY <1>4, <2>1 DEF Call, At, Send, Lifetime
<1>5. CASE ReleaseCall
  BY <1>5 DEF ReleaseCall, At, Goto, Lifetime, sinkVars
<1>6. CASE DrawLostBlock("js")
  BY <1>6 DEF DrawLostBlock, SameJs, sinkVars
<1>7. CASE Deliver("js")
  <2>1. pc["js"] = "send" /\ pc'["js"] = AfterSend("js") /\ initialized' = initialized
    BY <1>7 DEF Deliver, At, Goto, sinkVars
  <2>2. CASE out["js"] = "DISCONNECT"
    BY <1>7, <2>1, <2>2 DEF AfterSend, Lifetime, Cleared
  <2>3. CASE out["js"] # "DISCONNECT"
    BY <1>7, <2>1, <2>3 DEF AfterSend, Lifetime
  <2> QED BY <2>2, <2>3
<1>8. CASE ClearUnset("js")
  BY <1>8 DEF ClearUnset, At, Goto
<1>9. CASE ResetReceiver("js")
  BY <1>9 DEF ResetReceiver, At, Goto, Send, Clearers, Lifetime
<1>10. CASE JoinReceiver("js")
  BY <1>10 DEF JoinReceiver, At, Goto, Send, Clearers, Lifetime, Cleared, sinkVars
<1>11. CASE ClearCloseEvt("js") \/ ClearCloseCmd("js") \/ ClearJoin("js")
  BY <1>11 DEF ClearCloseEvt, ClearCloseCmd, ClearJoin, At, Goto, Lifetime, Cleared,
               Disconnected, sinkVars
<1> QED BY <1>1, <1>2, <1>3, <1>4, <1>5, <1>6, <1>7, <1>8, <1>9, <1>10, <1>11 DEF JsMoves

LEMMA ClearedStays ==
  ASSUME PatientInv, Next, Moves \/ Quiets \/ Others
  PROVE  (Cleared => Cleared') /\ (Disconnected => Disconnected')
<1>1. JsEffect \/ SameJs
  BY JsSteps, JsEffects
<1> QED BY <1>1 DEF JsEffect, SameJs, Cleared, Disconnected

----------------------------------------------------------------------------
(* Each part of the invariant is kept *)

LEMMA OneTokenStep ==
  ASSUME PatientInv, Peaceful, Next
  PROVE  OneToken'
<1> USE DEF PatientInv
<1>1. Moves \/ Quiets \/ Others
  BY PatientSteps
<1>2. JsEffect \/ SameJs
  BY <1>1, JsSteps, JsEffects
<1>3. CASE Quiets \/ Others
  <2>1. Tokens' = Tokens
    BY <1>3, QuietTokens, SameTokensFacts
  <2>2. pc["js"] \in {"idle", "send"} /\ initialized /\ Tokens # 0
          => pc'["js"] \in {"idle", "send"} /\ initialized'
    <3>1. ReleaseCall => Tokens = 0
      BY SettledTokens DEF ReleaseCall, Peaceful
    <3>2. out["js"] = "DISCONNECT" /\ pc["js"] = "send" => Tokens = 0
      BY ClearedTokens DEF Cleared
    <3> QED BY <1>2, <3>1, <3>2 DEF JsEffect, SameJs
  <2>3. Tokens <= 1 /\ (~(pc["js"] \in {"idle", "send"} /\ initialized) => Tokens = 0)
    BY DEF OneToken
  <2> QED BY <2>1, <2>2, <2>3 DEF OneToken
<1>4. CASE Moves
  <2>1. CASE StartPreview \/ StopPreview
    <3>1. Tokens' = 1
      BY <2>1, CallMoves DEF Moved
    <3>2. pc'["js"] = "send" /\ initialized'
      <4>1. pc["js"] = "idle" /\ pc'["js"] = "send"
        BY <2>1 DEF StartPreview, StopPreview, Call, At, Send, TypeInv, ThreadPc, Threads,
                    SinkThreads
      <4>2. initialized' = initialized
        BY <2>1 DEF StartPreview, StopPreview, Call
      <4> QED BY <4>1, <4>2 DEF Lifetime
    <3> QED BY <3>1, <3>2 DEF OneToken
  <2>2. CASE ~(StartPreview \/ StopPreview)
    <3>1. Tokens' = 0 \/ (Tokens' = 1 /\ Tokens # 0)
      <4>1. \A l \in {"start", "create", "started", "stop", "lock", "stopped"} :
              Place(l) => Tokens # 0
        BY NoToken, TokenParts DEF TokenTypes, Nowhere, Place
      <4> QED BY <1>4, <2>2, <4>1, TakeMoves, ReplyMoves, AnswerMoves, HandleMoves
              DEF Moves, Moved
    <3>2. SameJs
      <4> USE DEF TypeInv, ThreadPc, ThreadOut, Threads, SinkThreads, SourceThreads, Senders,
                  SameJs
      <4>1. CASE MsgRead \/ RenewReceiver \/ OpenReceiver
        BY <4>1 DEF MsgRead, RenewReceiver, OpenReceiver, Goto
      <4>2. CASE ResetReceiver("msg") \/ JoinReceiver("msg")
        BY <4>2 DEF ResetReceiver, JoinReceiver, Clearers, Goto, sinkVars
      <4>3. CASE MainStartPreview \/ MainStopPreview \/ CreateSender \/ FreeSender
        BY <4>3 DEF MainStartPreview, MainStopPreview, MainRead, CreateSender, FreeSender, Goto,
                    Send, sinkVars
      <4> QED BY <1>4, <2>2, <4>1, <4>2, <4>3 DEF Moves, MsgReadAnswer
    <3>3. Tokens' <= 1
      BY <3>1
    <3> QED BY <3>1, <3>2, <3>3 DEF OneToken, SameJs
  <2> QED BY <2>1, <2>2
<1> QED BY <1>1, <1>3, <1>4

LEMMA MonitorRests ==
  ASSUME PatientInv, Next, Moves \/ Quiets \/ Others
  PROVE  pc'["mon"] \in {"idle", "done"}
<1> USE DEF PatientInv, TypeInv, ThreadPc, Threads, SinkThreads, SourceThreads
<1>1. pc["mon"] \in {"idle", "done"}
  BY DEF Lifetime
<1>2. CASE MonitorFires
  BY <1>2 DEF MonitorFires, Goto, Lifetime
<1>3. CASE JsMoves
  BY <1>1, <1>3 DEF JsMoves, InitReady, InitDone, InitTimeout, Command, StartPreview, StopPreview,
       Call, ReleaseCall, Deliver, DrawLostBlock, ClearUnset, ResetReceiver, JoinReceiver,
       ClearCloseEvt, ClearCloseCmd, ClearJoin, Goto, Send
<1>4. CASE \E t \in {"main", "eng"} : Deliver(t) \/ DrawLostBlock(t) \/ Drop(t)
  BY <1>1, <1>4 DEF Deliver, DrawLostBlock, Drop, Goto
<1>5. CASE MsgRead \/ MsgEnd \/ RenewReceiver \/ OpenReceiver \/ Receives
  BY <1>1, <1>5 DEF MsgRead, MsgEnd, RenewReceiver, OpenReceiver, Receives, TakeFrame,
       ReceiverEnds, Goto
<1>6. CASE ResetReceiver("msg") \/ JoinReceiver("msg")
  BY <1>1, <1>6 DEF ResetReceiver, JoinReceiver, Clearers, Goto
<1>7. CASE MainReads
  BY <1>1, <1>7 DEF MainReads, MainCommand, MainStartPreview, MainStopPreview, MainDisconnect,
       Goto
<1>8. CASE Connect \/ StartEngine \/ CreateSender \/ FreeSender \/ MainEnd
  BY <1>1, <1>8 DEF Connect, StartEngine, CreateSender, FreeSender, MainEnd, Goto, Send
<1>9. CASE EngineEvent \/ BeginFrame \/ EndFrame \/ SenderFault
  BY <1>1, <1>9 DEF EngineEvent, BeginFrame, EndFrame, SenderFault, SourceDies, Goto, Send
<1> QED BY <1>2, <1>3, <1>4, <1>5, <1>6, <1>7, <1>8, <1>9
        DEF Moves, Quiets, Others, JsClears, JsWorks, MsgReadAnswer, MsgReadOther, MainReads,
            JsMoves

\* MainEnd and SenderFault come after clear has closed, or has asked the source to.
LEMMA EndsLate ==
  ASSUME PatientInv, MainDisconnect \/ MainEnd \/ SenderFault
  PROVE  Cleared
<1> USE DEF PatientInv
<1>1. CASE MainDisconnect
  <2>1. ring["cmd"].q # <<>> /\ Head(ring["cmd"].q) = "DISCONNECT"
    BY <1>1 DEF MainDisconnect, MainRead
  <2>2. Count(ring["cmd"].q, "DISCONNECT") >= 1
    BY <2>1, HeadCounted DEF TypeInv, Rings
  <2> QED BY <2>2 DEF Ends, Cleared
<1>2. CASE MainEnd
  BY <1>2 DEF MainEnd, At, ReadEnds, Ends, Cleared
<1>3. CASE SenderFault
  BY <1>3 DEF SenderFault, At, Render
<1> QED BY <1>1, <1>2, <1>3

LEMMA LifetimeStep ==
  ASSUME PatientInv, Peaceful, Next
  PROVE  Lifetime'
<1> USE DEF PatientInv
<1>1. Moves \/ Quiets \/ Others
  BY PatientSteps
<1>2. JsEffect \/ SameJs
  BY <1>1, JsSteps, JsEffects
<1>3. sinkUp' = sinkUp /\ (src' = src \/ MainEnd \/ SenderFault)
  BY <1>1 DEF Moves, Quiets, Others, JsClears, JsWorks, MsgReadAnswer, MsgReadOther, Receives,
       Deliver, DrawLostBlock, Drop, ClearUnset, ClearCloseEvt, ClearCloseCmd, ClearJoin,
       ResetReceiver, JoinReceiver, InitReady, InitDone, InitTimeout, Command, StartPreview,
       StopPreview, Call, ReleaseCall, MonitorFires, MsgRead, MsgEnd, RenewReceiver,
       OpenReceiver, TakeFrame, ReceiverEnds, MainCommand, MainStartPreview, MainStopPreview,
       MainDisconnect, MainRead, Connect, StartEngine, CreateSender, FreeSender, MainEnd,
       EngineEvent, BeginFrame, EndFrame, SenderFault, SourceDies
<1>4. src' # "up" => Cleared'
  BY <1>1, <1>3, EndsLate, ClearedStays DEF Lifetime
<1>5. event => event'
  BY <1>1 DEF Moves, Quiets, Others, JsClears, JsWorks, MsgReadAnswer, MsgReadOther, Receives,
       Deliver, DrawLostBlock, Drop, ClearUnset, ClearCloseEvt, ClearCloseCmd, ClearJoin,
       ResetReceiver, JoinReceiver, InitReady, InitDone, InitTimeout, Command, StartPreview,
       StopPreview, Call, ReleaseCall, MonitorFires, MsgRead, MsgEnd, RenewReceiver,
       OpenReceiver, TakeFrame, ReceiverEnds, MainCommand, MainStartPreview, MainStopPreview,
       MainDisconnect, MainRead, Connect, StartEngine, CreateSender, FreeSender, MainEnd,
       EngineEvent, BeginFrame, EndFrame, SenderFault, SourceDies, sinkVars
<1>6. InitReady => event
  BY DEF InitReady
<1>7. /\ pc'["js"] \in {"waiting", "arming", "reset"} \/ Cleared' => ~initialized'
      /\ initialized' \/ pc'["js"] = "arming" => event'
      /\ pc'["js"] = "idle" => initialized'
      /\ pc'["js"] = "send" => initialized' \/ out'["js"] = "DISCONNECT"
  BY <1>2, <1>5, <1>6 DEF JsEffect, SameJs, Lifetime, Cleared, Disconnected
<1> QED BY <1>1, <1>3, <1>4, <1>7, MonitorRests DEF Lifetime

LEMMA ReadyStep ==
  ASSUME PatientInv, Peaceful, Next
  PROVE  Ready'
<1> USE DEF PatientInv
<1> DEFINE S == "SOURCE_READY"
<1>1. Moves \/ Quiets \/ Others
  BY PatientSteps
<1>2. OnEvt(S) \in Nat /\ OnEvt(S)' \in Nat
  BY CountFactsNext, TokenParts DEF TokenTypes
<1>3. CASE StartEngine
  <2>1. event' = event
    BY <1>3 DEF StartEngine, sinkVars
  <2>2. CASE srcInit'
    BY <2>2 DEF Ready
  <2>3. CASE ~srcInit'
    <3>1. pc'["main"] = "read" /\ srcInit' = srcInit
      BY <1>3, <2>3 DEF StartEngine, Goto, TypeInv, SourceType, ThreadPc, Threads, SourceThreads
    <3>2. OnEvt(S)' = OnEvt(S)
      BY <1>3, <3>1, SourceCounts DEF SameCounts, Tracked
    <3> QED BY <2>1, <3>1, <3>2 DEF Ready
  <2> QED BY <2>2, <2>3
<1>4. CASE ~StartEngine
  <2>1. srcInit' = srcInit
    BY <1>1, <1>4 DEF Moves, Quiets, Others, JsClears, JsWorks, MsgReadAnswer, MsgReadOther,
       Receives, Deliver, DrawLostBlock, Drop, ClearUnset, ClearCloseEvt, ClearCloseCmd, ClearJoin,
       ResetReceiver, JoinReceiver, InitReady, InitDone, InitTimeout, Command, StartPreview,
       StopPreview, Call, ReleaseCall, MonitorFires, MsgRead, MsgEnd, RenewReceiver,
       OpenReceiver, TakeFrame, ReceiverEnds, MainCommand, MainStartPreview, MainStopPreview,
       MainDisconnect, MainRead, Connect, CreateSender, FreeSender, MainEnd,
       EngineEvent, BeginFrame, EndFrame, SenderFault, SourceDies, srcVars
  <2>2. OnEvt(S)' <= OnEvt(S)
    <3>1. SameCounts => OnEvt(S)' = OnEvt(S)
      BY DEF SameCounts, Tracked
    <3>2. CASE \E t \in {"js", "main", "eng"} : Deliver(t) \/ DrawLostBlock(t) \/ Drop(t)
      <4>1. PICK t \in {"js", "main", "eng"} : Deliver(t) \/ DrawLostBlock(t) \/ Drop(t)
        BY <3>2
      <4>2. CASE Deliver(t) \/ DrawLostBlock(t)
        BY <1>2, <3>1, <4>2, DeliverCounts, DrawCounts DEF Senders
      <4>3. CASE Drop(t)
        BY <4>3, DropCounts DEF Senders, Tracked
      <4> QED BY <4>1, <4>2, <4>3
    <3>3. CASE Clears \/ Resets \/ InitReady \/ InitDone \/ InitTimeout \/ ReleaseCall
                \/ MonitorFires \/ MsgEnd \/ RenewReceiver \/ OpenReceiver \/ Receives
      BY <1>2, <3>1, <3>3, SinkCounts
    <3>4. CASE Command \/ StartPreview \/ StopPreview
      <4>1. PICK m \in Messages : Call(m)
        BY <3>4 DEF Command, StartPreview, StopPreview, Messages
      <4>2. OnEvt(S)' = OnEvt(S)
        BY <4>1, CallCounts
      <4> QED BY <1>2, <4>2
    <3>5. CASE MsgRead
      <4>1. OnEvt(S) = OnEvt(S)' + Eq(Head(ring["evt"].q), S)
        BY <3>5, MsgReadCounts
      <4> QED BY <1>2, <4>1 DEF Eq
    <3>6. CASE MainReads
      BY <1>2, <3>6, MainReadCounts
    <3>7. CASE CreateSender \/ FreeSender
      <4>1. PICK m \in Answers : Send("main", m) /\ ring' = ring /\ pc["main"] # "send"
        BY <3>7 DEF CreateSender, FreeSender, At, Answers
      <4>2. OnEvt(S)' = OnEvt(S) + Eq(S, m)
        BY <4>1, ReplyCounts DEF Answers, Messages
      <4> QED BY <1>2, <4>2 DEF Eq, Answers
    <3>8. CASE Connect \/ MainEnd \/ Renders \/ SourceDies
      BY <1>2, <3>1, <3>8, SourceCounts
    <3> QED BY <1>1, <1>4, <3>2, <3>3, <3>4, <3>5, <3>6, <3>7, <3>8
        DEF Moves, Quiets, Others, JsClears, JsWorks, MsgReadAnswer, MsgReadOther, MainReads,
            Clears, Clearers, Resets, SinkThreads, Renders, SenderFault
  <2>3. event' => event \/ OnEvt(S) >= 1
    <3>1. CASE MsgRead
      <4>1. OnEvt(S) = OnEvt(S)' + Eq(Head(ring["evt"].q), S)
        BY <3>1, MsgReadCounts
      <4>2. event' = (event \/ Head(ring["evt"].q) = S)
        BY <3>1 DEF MsgRead
      <4>3. CASE Head(ring["evt"].q) = S
        <5>1. OnEvt(S) = OnEvt(S)' + 1
          BY <4>1, <4>3 DEF Eq
        <5> QED BY <1>2, <5>1
      <4> QED BY <4>2, <4>3
    <3>2. CASE ~MsgRead
      <4>1. event' = event
        BY <1>1, <3>2 DEF Moves, Quiets, Others, JsClears, JsWorks, MsgReadAnswer, MsgReadOther,
           Receives, Deliver, DrawLostBlock, Drop, ClearUnset, ClearCloseEvt, ClearCloseCmd,
           ClearJoin, ResetReceiver, JoinReceiver, InitReady, InitDone, InitTimeout, Command,
           StartPreview, StopPreview, Call, ReleaseCall, MonitorFires, MsgEnd, RenewReceiver,
           OpenReceiver, TakeFrame, ReceiverEnds, MainCommand, MainStartPreview, MainStopPreview,
           MainDisconnect, MainRead, Connect, StartEngine, CreateSender, FreeSender, MainEnd,
           EngineEvent, BeginFrame, EndFrame, SenderFault, SourceDies, sinkVars
      <4> QED BY <4>1
    <3> QED BY <3>1, <3>2
  <2> QED BY <1>2, <2>1, <2>2, <2>3 DEF Ready
<1> QED BY <1>3, <1>4

\* Which steps touch the ends of the rings.
LEMMA RingEnds ==
  ASSUME PatientInv, Next, Moves \/ Quiets \/ Others
  PROVE  /\ ring'["cmd"].w = ring["cmd"].w \/ ClearCloseCmd("js")
         /\ ring'["evt"].r = ring["evt"].r \/ ClearCloseEvt("js")
         /\ \/ MainDisconnect
            \/ Connect
            \/ ring'["cmd"].r = ring["cmd"].r /\ ring'["evt"].w = ring["evt"].w
<1> USE DEF PatientInv, TypeInv, RingType, RingRecords, Rings
<1>1. ASSUME NEW c \in Rings, NEW q, ring' = [ring EXCEPT ![c].q = q]
      PROVE  /\ ring'["cmd"].w = ring["cmd"].w /\ ring'["evt"].r = ring["evt"].r
             /\ ring'["cmd"].r = ring["cmd"].r /\ ring'["evt"].w = ring["evt"].w
  BY <1>1
<1>2. ASSUME NEW c \in Rings, NEW l, ring' = [ring EXCEPT ![c].lock = l]
      PROVE  /\ ring'["cmd"].w = ring["cmd"].w /\ ring'["evt"].r = ring["evt"].r
             /\ ring'["cmd"].r = ring["cmd"].r /\ ring'["evt"].w = ring["evt"].w
  BY <1>2
<1>3. CASE \E t \in {"js", "main", "eng"} : Deliver(t) \/ DrawLostBlock(t) \/ Drop(t)
  <2>1. PICK t \in {"js", "main", "eng"} : Deliver(t) \/ DrawLostBlock(t) \/ Drop(t)
    BY <1>3
  <2>2. RingOf(t) \in Rings
    BY DEF RingOf
  <2>3. \/ ring' = [ring EXCEPT ![RingOf(t)].q = Append(ring[RingOf(t)].q, out[t])]
        \/ ring' = [ring EXCEPT ![RingOf(t)].lock = t]
        \/ ring' = ring
    BY <2>1 DEF Deliver, DrawLostBlock, Drop
  <2> HIDE DEF Rings
  <2> QED BY <1>1, <1>2, <2>2, <2>3
<1>4. CASE MsgRead \/ MsgEnd
  BY <1>4 DEF MsgRead, MsgEnd, MayLoseLock
<1>5. CASE MainCommand \/ MainStartPreview \/ MainStopPreview
  BY <1>5 DEF MainCommand, MainStartPreview, MainStopPreview, TakeCmd
<1>6. CASE MainDisconnect
  <2>1. /\ ring'["cmd"].w = TakeCmd["cmd"].w /\ ring'["evt"].r = TakeCmd["evt"].r
    BY <1>6 DEF MainDisconnect, ExitEnds, TakeCmd
  <2>2. /\ TakeCmd["cmd"].w = ring["cmd"].w /\ TakeCmd["evt"].r = ring["evt"].r
    BY DEF TakeCmd
  <2> QED BY <1>6, <2>1, <2>2
<1>7. CASE Connect
  BY <1>7 DEF Connect
<1>8. CASE ClearCloseEvt("js") \/ ClearCloseCmd("js")
  BY <1>8 DEF ClearCloseEvt, ClearCloseCmd, CloseRing
<1>9. CASE SenderFault
  BY <1>9 DEF SenderFault, SourceDies, LoseLocks
<1>10. CASE UNCHANGED ring
  BY <1>10
<1>11. \/ UNCHANGED ring
       \/ \E t \in {"js", "main", "eng"} : Deliver(t) \/ DrawLostBlock(t) \/ Drop(t)
       \/ MsgRead \/ MsgEnd \/ MainCommand \/ MainStartPreview \/ MainStopPreview
       \/ MainDisconnect \/ Connect \/ ClearCloseEvt("js") \/ ClearCloseCmd("js") \/ SenderFault
  BY DEF Moves, Quiets, Others, JsClears, JsWorks, MsgReadAnswer, MsgReadOther, Receives,
       ClearUnset, ClearJoin, ResetReceiver, JoinReceiver, InitReady, InitDone, InitTimeout,
       Command, StartPreview, StopPreview, Call, ReleaseCall, MonitorFires, RenewReceiver,
       OpenReceiver, TakeFrame, ReceiverEnds, StartEngine, CreateSender, FreeSender, MainEnd,
       EngineEvent, BeginFrame, EndFrame
<1> QED BY <1>3, <1>4, <1>5, <1>6, <1>7, <1>8, <1>9, <1>10, <1>11

\* What moves msgThread to its end, and what leaves it there.
LEMMA MsgDone ==
  ASSUME PatientInv, Next, Moves \/ Quiets \/ Others
  PROVE  /\ pc["msg"] = "done" => pc'["msg"] = "done"
         /\ pc'["msg"] = "done" => pc["msg"] = "done" \/ (MsgEnd /\ ~ring["evt"].r)
<1> USE DEF PatientInv, TypeInv, ThreadPc, Threads, SinkThreads, SourceThreads
<1>1. CASE MsgRead \/ MsgEnd \/ RenewReceiver \/ OpenReceiver
  BY <1>1 DEF MsgRead, MsgEnd, RenewReceiver, OpenReceiver, At, Goto, ReadEnds
<1>2. CASE ResetReceiver("msg") \/ JoinReceiver("msg")
  BY <1>2 DEF ResetReceiver, JoinReceiver, At, Goto, Clearers
<1>3. CASE pc'["msg"] = pc["msg"]
  BY <1>3
<1>4. \/ pc'["msg"] = pc["msg"]
      \/ MsgRead \/ MsgEnd \/ RenewReceiver \/ OpenReceiver
      \/ ResetReceiver("msg") \/ JoinReceiver("msg")
  <2>1. CASE JsMoves
    BY <2>1 DEF JsMoves, InitReady, InitDone, InitTimeout, Command, StartPreview, StopPreview,
       Call, ReleaseCall, Deliver, DrawLostBlock, ClearUnset, ResetReceiver, JoinReceiver,
       ClearCloseEvt, ClearCloseCmd, ClearJoin, Clearers, Goto, Send
  <2>2. CASE \E t \in {"main", "eng"} : Deliver(t) \/ DrawLostBlock(t) \/ Drop(t)
    BY <2>2 DEF Deliver, DrawLostBlock, Drop, Goto
  <2>3. CASE MonitorFires \/ Receives \/ MainReads
    BY <2>3 DEF MonitorFires, Receives, TakeFrame, ReceiverEnds, MainReads, MainCommand,
       MainStartPreview, MainStopPreview, MainDisconnect, Goto
  <2>4. CASE Connect \/ StartEngine \/ CreateSender \/ FreeSender \/ MainEnd \/ EngineEvent
               \/ BeginFrame \/ EndFrame \/ SenderFault
    BY <2>4 DEF Connect, StartEngine, CreateSender, FreeSender, MainEnd, EngineEvent,
       BeginFrame, EndFrame, SenderFault, SourceDies, Goto, Send
  <2> QED BY <2>1, <2>2, <2>3, <2>4
          DEF Moves, Quiets, Others, JsClears, JsWorks, MsgReadAnswer, MsgReadOther, MainReads,
              JsMoves
<1> QED BY <1>1, <1>2, <1>3, <1>4

\* DISCONNECT enters the cmd ring when clear goes on to close its ends.
LEMMA DisconnectSent ==
  ASSUME PatientInv, Next, Moves \/ Quiets \/ Others
  PROVE  Count(ring'["cmd"].q, "DISCONNECT") >= 1 => Disconnected'
<1> USE DEF PatientInv
<1> DEFINE D == "DISCONNECT"
<1>1. Disconnected => Disconnected'
  BY ClearedStays
<1>2. ring["cmd"].q \in Seq(Messages) /\ ring["evt"].q \in Seq(Messages)
  BY DEF TypeInv, RingType, RingRecords, Rings
<1>3. CASE ring'["cmd"].q = ring["cmd"].q
  BY <1>1, <1>3 DEF Ends
<1>4. CASE Deliver("js")
  <2>1. ring'["cmd"].q = Append(ring["cmd"].q, out["js"]) /\ out["js"] \in Messages
    BY <1>4 DEF Deliver, RingOf, TypeInv, RingType, RingRecords, Rings, ThreadOut, Senders
  <2>2. Count(ring'["cmd"].q, D) = Count(ring["cmd"].q, D) + Eq(out["js"], D)
    BY <1>2, <2>1, CountAppend
  <2>3. CASE out["js"] = D
    BY <1>4, <2>3 DEF Deliver, At, Goto, AfterSend, Disconnected, TypeInv, ThreadPc, Threads,
                      SinkThreads
  <2>4. CASE out["js"] # D
    <3>1. Count(ring["cmd"].q, D) \in Nat /\ Eq(out["js"], D) = 0
      BY <1>2, <2>4, CountType DEF Eq
    <3> QED BY <1>1, <2>2, <3>1 DEF Ends
  <2> QED BY <2>3, <2>4
<1>5. CASE MainReads
  <2>1. ring["cmd"].q # <<>> /\ ring'["cmd"].q = Tail(ring["cmd"].q)
    <3>1. ring["cmd"].q # <<>> /\ (ring' = TakeCmd \/ ring' = ExitEnds(TakeCmd))
      BY <1>5 DEF MainReads, MainCommand, MainStartPreview, MainStopPreview, MainDisconnect,
                  MainRead
    <3>2. ASSUME ring' = ExitEnds(TakeCmd)
          PROVE  ring'["cmd"].q = TakeCmd["cmd"].q
      BY <3>2 DEF ExitEnds, TakeCmd, TypeInv, RingType, RingRecords, Rings
    <3>3. TakeCmd["cmd"].q = Tail(ring["cmd"].q)
      BY DEF TakeCmd, TypeInv, RingType, RingRecords, Rings
    <3> QED BY <3>1, <3>2, <3>3
  <2>2. Count(ring["cmd"].q, D) = Count(Tail(ring["cmd"].q), D) + Eq(Head(ring["cmd"].q), D)
    BY <1>2, <2>1, CountTail
  <2>3. Count(Tail(ring["cmd"].q), D) \in Nat /\ Eq(Head(ring["cmd"].q), D) \in Nat
    BY <1>2, <2>1, CountType, HeadTailProperties DEF Eq
  <2> QED BY <1>1, <2>1, <2>2, <2>3 DEF Ends
<1>6. CASE \E t \in {"main", "eng"} : Deliver(t)
  BY <1>3, <1>6 DEF Deliver, RingOf, TypeInv, RingType, RingRecords, Rings
<1>7. CASE \E t \in {"js", "main", "eng"} : DrawLostBlock(t) \/ Drop(t)
  <2>1. PICK t \in {"js", "main", "eng"} : DrawLostBlock(t) \/ Drop(t)
    BY <1>7
  <2> QED BY <1>3, <2>1 DEF DrawLostBlock, Drop, RingOf, TypeInv, RingType, RingRecords, Rings
<1>8. CASE MsgRead \/ MsgEnd \/ Connect \/ ClearCloseEvt("js") \/ ClearCloseCmd("js") \/ SenderFault
  BY <1>3, <1>8 DEF MsgRead, MsgEnd, MayLoseLock, Connect, ClearCloseEvt, ClearCloseCmd, CloseRing,
       SenderFault, SourceDies, LoseLocks, TypeInv, RingType, RingRecords, Rings
<1>9. \/ UNCHANGED ring
      \/ \E t \in {"js", "main", "eng"} : Deliver(t) \/ DrawLostBlock(t) \/ Drop(t)
      \/ MsgRead \/ MsgEnd \/ MainReads \/ Connect \/ ClearCloseEvt("js") \/ ClearCloseCmd("js")
      \/ SenderFault
  BY DEF Moves, Quiets, Others, JsClears, JsWorks, MsgReadAnswer, MsgReadOther, Receives,
       ClearUnset, ClearJoin, ResetReceiver, JoinReceiver, InitReady, InitDone, InitTimeout,
       Command, StartPreview, StopPreview, Call, ReleaseCall, MonitorFires, RenewReceiver,
       OpenReceiver, TakeFrame, ReceiverEnds, StartEngine, CreateSender, FreeSender, MainEnd,
       EngineEvent, BeginFrame, EndFrame, MainReads
<1> QED BY <1>3, <1>4, <1>5, <1>6, <1>7, <1>8, <1>9

LEMMA MainConnects ==
  ASSUME PatientInv, Next, Moves \/ Quiets \/ Others, pc["main"] = "connect"
  PROVE  Connect \/ pc'["main"] = "connect"
<1> USE DEF PatientInv, TypeInv, ThreadPc, Threads, SinkThreads, SourceThreads
<1>1. CASE JsMoves \/ MonitorFires
  BY <1>1 DEF JsMoves, InitReady, InitDone, InitTimeout, Command, StartPreview, StopPreview,
     Call, ReleaseCall, Deliver, DrawLostBlock, ClearUnset, ResetReceiver, JoinReceiver,
     ClearCloseEvt, ClearCloseCmd, ClearJoin, Clearers, Goto, Send, MonitorFires
<1>2. CASE \E t \in {"main", "eng"} : Deliver(t) \/ DrawLostBlock(t) \/ Drop(t)
  BY <1>2 DEF Deliver, DrawLostBlock, Drop, At, Goto
<1>3. CASE MsgRead \/ MsgEnd \/ RenewReceiver \/ OpenReceiver \/ Receives
  BY <1>3 DEF MsgRead, MsgEnd, RenewReceiver, OpenReceiver, Receives, TakeFrame, ReceiverEnds,
     Goto
<1>4. CASE ResetReceiver("msg") \/ JoinReceiver("msg")
  BY <1>4 DEF ResetReceiver, JoinReceiver, Goto, Clearers
<1>5. CASE MainReads
  BY <1>5 DEF MainReads, MainCommand, MainStartPreview, MainStopPreview, MainDisconnect,
     MainRead, At
<1>6. CASE StartEngine \/ CreateSender \/ FreeSender \/ MainEnd \/ EngineEvent \/ BeginFrame
             \/ EndFrame \/ SenderFault
  BY <1>6 DEF StartEngine, CreateSender, FreeSender, MainEnd, EngineEvent, BeginFrame, EndFrame,
     SenderFault, SourceDies, At, Goto, Send
<1> QED BY <1>1, <1>2, <1>3, <1>4, <1>5, <1>6
        DEF Moves, Quiets, Others, JsClears, JsWorks, MsgReadAnswer, MsgReadOther, MainReads,
            JsMoves

LEMMA EndsStep ==
  ASSUME PatientInv, Peaceful, Next
  PROVE  Ends'
<1> USE DEF PatientInv
<1>1. Moves \/ Quiets \/ Others
  BY PatientSteps
<1>2. JsEffect \/ SameJs
  BY <1>1, JsSteps, JsEffects
<1>3. ClearCloseCmd("js") =>
        pc["js"] = "closeCmd" /\ pc'["js"] = "joinMsg" /\ ~ring'["cmd"].w
  BY DEF ClearCloseCmd, CloseRing, At, Goto, TypeInv, RingType, RingRecords, Rings, ThreadPc, Threads,
         SinkThreads
<1>4. ClearCloseEvt("js") =>
        pc["js"] = "closeEvt" /\ pc'["js"] = "closeCmd" /\ ~ring'["evt"].r
  BY DEF ClearCloseEvt, CloseRing, At, Goto, TypeInv, RingType, RingRecords, Rings, ThreadPc, Threads,
         SinkThreads
<1>5. Count(ring'["cmd"].q, "DISCONNECT") >= 1 => Disconnected'
  BY <1>1, DisconnectSent
<1>6. (ring["cmd"].w <=> pc["js"] \notin {"joinMsg", "released"})'
  BY <1>1, <1>2, <1>3, RingEnds DEF Ends, JsEffect, SameJs
<1>7. (ring["evt"].r <=> pc["js"] \notin {"closeCmd", "joinMsg", "released"})'
  BY <1>1, <1>2, <1>4, RingEnds DEF Ends, JsEffect, SameJs
<1>8. (pc["main"] # "connect" /\ ~Disconnected => ring["cmd"].r /\ ring["evt"].w)'
  <2>1. Disconnected => Disconnected'
    BY <1>1, ClearedStays
  <2>2. CASE MainDisconnect
    <3>1. Count(ring["cmd"].q, "DISCONNECT") >= 1
      <4>1. ring["cmd"].q # <<>> /\ Head(ring["cmd"].q) = "DISCONNECT"
        BY <2>2 DEF MainDisconnect, MainRead
      <4> QED BY <4>1, HeadCounted DEF TypeInv, Rings
    <3> QED BY <2>1, <3>1 DEF Ends
  <2>3. CASE Connect
    BY <2>3 DEF Connect, TypeInv, RingType, RingRecords, Rings
  <2>4. CASE ~MainDisconnect /\ ~Connect
    <3>1. ring'["cmd"].r = ring["cmd"].r /\ ring'["evt"].w = ring["evt"].w
      BY <1>1, <2>4, RingEnds
    <3>2. pc["main"] = "connect" => pc'["main"] = "connect"
      BY <1>1, <2>4, MainConnects
    <3> QED BY <2>1, <3>1, <3>2 DEF Ends
  <2> QED BY <2>2, <2>3, <2>4
<1>9. (pc["js"] = "released" => pc["msg"] = "done")'
  <2>1. ClearJoin("js") => pc["msg"] = "done"
    BY DEF ClearJoin
  <2> QED BY <1>1, <1>2, <2>1, MsgDone DEF Ends, JsEffect, SameJs
<1>10. (pc["msg"] = "done" => ~ring["evt"].r)'
  BY <1>1, <1>4, MsgDone, RingEnds DEF Ends
<1>11. Count(ring["cmd"].q, "DISCONNECT")' = Count(ring'["cmd"].q, "DISCONNECT")
  BY DEF Count
<1> QED BY <1>5, <1>6, <1>7, <1>8, <1>9, <1>10, <1>11 DEF Ends

----------------------------------------------------------------------------
(* What both sides have *)

\* What the places of the message speak about.
SameEnds == UNCHANGED <<receiver, made, recv, old, frame, shmName, previews, sender, canvas,
                        mutex, writing>>

LEMMA QuietEnds ==
  ASSUME Quiets
  PROVE  SameEnds
<1>1. CASE \E t \in {"js", "main", "eng"} : Deliver(t) \/ DrawLostBlock(t) \/ Drop(t)
  BY <1>1 DEF Deliver, DrawLostBlock, Drop, sinkVars, srcVars, SameEnds
<1>2. CASE JsClears \/ MsgEnd \/ Connect \/ StartEngine \/ EngineEvent \/ MainCommand
  BY <1>2 DEF JsClears, ClearUnset, ClearCloseEvt, ClearCloseCmd, ClearJoin, JoinReceiver,
       MsgEnd, Connect, StartEngine, EngineEvent, MainCommand, MainRead, sinkVars, srcVars,
       SameEnds
<1>3. CASE JsWorks \/ MsgReadOther
  BY <1>3 DEF JsWorks, InitReady, InitDone, InitTimeout, Command, Call, ReleaseCall, MonitorFires,
       MsgReadOther, MsgRead, sinkVars, srcVars, SameEnds
<1> QED BY <1>1, <1>2, <1>3 DEF Quiets

\* Where the render thread is.
LEMMA RenderSteps ==
  ASSUME PatientInv, Next, Moves \/ Quiets \/ Others
  PROVE  BeginFrame \/ EndFrame \/ pc'["ren"] = pc["ren"]
<1> USE DEF PatientInv, TypeInv, ThreadPc, Threads, SinkThreads, SourceThreads
<1>1. CASE JsMoves \/ MonitorFires
  BY <1>1 DEF JsMoves, InitReady, InitDone, InitTimeout, Command, StartPreview, StopPreview,
     Call, ReleaseCall, Deliver, DrawLostBlock, ClearUnset, ResetReceiver, JoinReceiver,
     ClearCloseEvt, ClearCloseCmd, ClearJoin, Clearers, Goto, Send, MonitorFires
<1>2. CASE \E t \in {"main", "eng"} : Deliver(t) \/ DrawLostBlock(t) \/ Drop(t)
  BY <1>2 DEF Deliver, DrawLostBlock, Drop, At, Goto
<1>3. CASE MsgRead \/ MsgEnd \/ RenewReceiver \/ OpenReceiver \/ Receives
  BY <1>3 DEF MsgRead, MsgEnd, RenewReceiver, OpenReceiver, Receives, TakeFrame, ReceiverEnds,
     Goto
<1>4. CASE ResetReceiver("msg") \/ JoinReceiver("msg")
  BY <1>4 DEF ResetReceiver, JoinReceiver, Goto, Clearers
<1>5. CASE MainReads
  BY <1>5 DEF MainReads, MainCommand, MainStartPreview, MainStopPreview, MainDisconnect, Goto
<1>6. CASE Connect \/ StartEngine \/ CreateSender \/ FreeSender \/ MainEnd \/ EngineEvent
             \/ SenderFault
  BY <1>6 DEF Connect, StartEngine, CreateSender, FreeSender, MainEnd, EngineEvent,
     SenderFault, SourceDies, Goto, Send
<1> QED BY <1>1, <1>2, <1>3, <1>4, <1>5, <1>6
        DEF Moves, Quiets, Others, JsClears, JsWorks, MsgReadAnswer, MsgReadOther, MainReads,
            JsMoves

\* While the engine renders, the source has the frame channel.
LEMMA CanvasOn ==
  ASSUME PatientInv, ~Cleared, canvas
  PROVE  On
<1>1. PICK l \in Places : Place(l) /\ Has(l)
  BY SomePlace DEF PatientInv, Stage
<1> QED BY <1>1 DEF Places, Has, Off, Fresh

\* A step that takes the message to l has to leave there what l stands for.
LEMMA ArriveAt ==
  ASSUME TypeInv, Next, (Tokens <= 1)', NEW l \in Places, Place(l)', Has(l)'
  PROVE  Stage'
<1>1. TypeInv'
  BY TypeStep
<1>2. (TypeInv /\ Tokens <= 1 => \A j, k \in Places : Place(j) /\ Place(k) => j = k)'
  BY OnePlace, PTL
<1>3. \A k \in Places : Place(k)' => k = l
  BY <1>1, <1>2 DEF Places
<1>4. \A k \in Places : Place(k)' => Has(k)'
  BY <1>3
<1> QED BY <1>4 DEF Stage, Places

\* Steps that do not move the message leave it where it is.
LEMMA StayAt ==
  ASSUME SameTokens
  PROVE  \A l \in Places : Place(l)' <=> Place(l)
<1>1. Tokens' = Tokens /\ Replies' = Replies
  BY SameTokensFacts
<1> QED BY <1>1 DEF SameTokens, Calls, Answers, Places, Place

\* Nothing is on its way once clear has sent DISCONNECT.
LEMMA ClearedStage ==
  ASSUME PatientInv, Next, SameTokens, Tokens = 0, Cleared'
  PROVE  Stage'
<1>1. Tokens' = 0
  BY SameTokensFacts
<1>2. Place("none")' /\ Has("none")'
  BY <1>1 DEF Place, Has
<1> QED BY <1>1, <1>2, ArriveAt DEF PatientInv, Places

LEMMA StageMoves ==
  ASSUME PatientInv, Peaceful, Next, Moves
  PROVE  Stage'
<1> USE DEF PatientInv
<1>1. \A l \in Places : Place(l) => Has(l)
  BY DEF Stage
<1>2. (Tokens <= 1)'
  BY OneTokenStep DEF OneToken
<1>3. PreviewCount /\ previews \in Nat /\ made \in Nat /\ starts \in 0 .. MaxPreviews
  BY DEF TypeInv, SinkType, SourceType, PreviewRefs
<1>4. CASE StartPreview
  <2>1. Place("none") /\ Place("start")'
    BY <1>4, CallMoves DEF Moved
  <2>2. ~Cleared /\ receiver = 0
    BY <1>4 DEF StartPreview, Call, At, Cleared, Disconnected, Peaceful
  <2>3. receiver = 0 /\ Off
    BY <1>1, <2>1, <2>2 DEF Places, Has, Receiving
  <2>4. Has("start")'
    BY <1>4, <2>3 DEF StartPreview, Call, Has, Off, srcVars
  <2> QED BY <1>2, <2>1, <2>4, ArriveAt DEF Places
<1>5. CASE StopPreview
  <2>1. Place("none") /\ Place("stop")'
    BY <1>5, CallMoves DEF Moved
  <2>2. ~Cleared /\ receiver # 0
    BY <1>5 DEF StopPreview, Call, At, Cleared, Disconnected, Peaceful
  <2>3. Receiving /\ On
    BY <1>1, <2>1, <2>2 DEF Places, Has
  <2>4. Has("stop")'
    BY <1>5, <2>3 DEF StopPreview, Call, Has, Receiving, On, srcVars
  <2> QED BY <1>2, <2>1, <2>4, ArriveAt DEF Places
<1>6. CASE MainStartPreview
  <2>1. Place("start") /\ Place("create")'
    BY <1>6, TakeMoves DEF Moved
  <2>2. receiver = 0 /\ Off
    BY <1>1, <2>1 DEF Places, Has
  <2>3. Has("create")'
    BY <1>6, <2>2 DEF MainStartPreview, MainRead, Has, Off, sinkVars
  <2> QED BY <1>2, <2>1, <2>3, ArriveAt DEF Places
<1>7. CASE MainStopPreview
  <2>1. Place("stop") /\ Place("lock")'
    BY <1>7, TakeMoves DEF Moved
  <2>2. Receiving /\ On
    BY <1>1, <2>1 DEF Places, Has
  <2>3. Has("lock")'
    BY <1>7, <2>2 DEF MainStopPreview, MainRead, Has, Receiving, On, sinkVars
  <2> QED BY <1>2, <2>1, <2>3, ArriveAt DEF Places
<1>8. CASE CreateSender
  <2>1. Place("create") /\ Place("started")'
    BY <1>8, ReplyMoves DEF Moved
  <2>2. receiver = 0 /\ sender = previews + 1
    BY <1>1, <2>1 DEF Places, Has
  <2>3. previews + 1 \in Previews /\ ~frame[previews + 1].r
    <3>1. Requests >= 1 /\ Requests \in Nat
      BY <2>1, CountFacts DEF Place, TypeInv
    <3>2. previews + 1 <= MaxPreviews
      BY <1>3, <3>1, SessionAssumption DEF PreviewCount
    <3>3. previews + 1 \in Previews
      BY <1>3, <3>2, SessionAssumption DEF Previews
    <3> QED BY <1>3, <3>3 DEF Receivers
  <2>4. ~frame'[shmName'].r /\ shmName' = previews + 1 /\ sender' = previews + 1
    BY <1>8, <2>2, <2>3 DEF CreateSender, TypeInv, FrameType, FrameChannels
  <2>5. receiver' = 0
    BY <1>8, <2>2 DEF CreateSender, sinkVars
  <2>6. Has("started")'
    BY <1>3, <2>4, <2>5 DEF Has, Fresh, On
  <2> QED BY <1>2, <2>1, <2>6, ArriveAt DEF Places
<1>9. CASE FreeSender
  <2>1. Place("lock") /\ Place("stopped")'
    BY <1>9, ReplyMoves DEF Moved
  <2>2. Receiving /\ ~canvas
    BY <1>1, <2>1 DEF Places, Has
  <2>3. Has("stopped")'
    BY <1>9, <2>2 DEF FreeSender, Has, Receiving, Off, sinkVars
  <2> QED BY <1>2, <2>1, <2>3, ArriveAt DEF Places
<1>10. CASE MsgReadAnswer
  <2>1. \E l \in {"started", "stopped"} : Place(l) /\ Place(l)'
    BY <1>10, AnswerMoves DEF Moved
  <2>2. PICK l \in {"started", "stopped"} : Place(l) /\ Place(l)'
    BY <2>1
  <2>3. Has(l)
    BY <1>1, <2>2 DEF Places
  <2>4. UNCHANGED <<receiver, made, recv, old, frame, shmName, previews, sender, canvas, mutex>>
    BY <1>10 DEF MsgReadAnswer, MsgRead, srcVars
  <2>5. Has(l)'
    BY <2>2, <2>3, <2>4 DEF Has, Fresh, On, Off, Receiving
  <2> QED BY <1>2, <2>2, <2>5, ArriveAt DEF Places
<1>11. CASE RenewReceiver
  <2>1. Place("started") /\ Place("open")'
    BY <1>11, HandleMoves DEF Moved
  <2>2. receiver = 0 /\ Fresh
    BY <1>1, <2>1 DEF Places, Has
  <2>3. made + 1 \in Previews
    <3>1. Replies >= 1 /\ Replies \in Nat /\ Requests \in Nat
      BY <2>1, CountFacts DEF Place, TypeInv
    <3>2. made + 1 <= MaxPreviews
      BY <1>3, <3>1, SessionAssumption DEF PreviewCount
    <3> QED BY <1>3, <3>2, SessionAssumption DEF Previews
  <2>4. /\ receiver' = made + 1 /\ made' = made + 1 /\ recv'[made + 1].st = "new"
        /\ UNCHANGED <<frame, shmName, sender>>
    BY <1>11, <2>2, <2>3 DEF RenewReceiver, TypeInv, SinkType, srcVars
  <2>5. Has("open")'
    BY <1>3, <2>2, <2>4 DEF Has, Fresh, On, Receiving
  <2> QED BY <1>2, <2>1, <2>5, ArriveAt DEF Places
<1>12. CASE OpenReceiver
  <2>1. Place("open") /\ Place("none")'
    BY <1>12, HandleMoves DEF Place
  <2>2. Receiving /\ Fresh
    BY <1>1, <2>1 DEF Places, Has
  <2>3. UNCHANGED <<receiver, made, shmName, sender>>
    BY <1>12, <2>2 DEF OpenReceiver, Fresh, On, srcVars
  <2>4. Has("none")'
    BY <2>2, <2>3 DEF Has, Fresh, On, Receiving
  <2> QED BY <1>2, <2>1, <2>4, ArriveAt DEF Places
<1>13. CASE ResetReceiver("msg")
  <2>1. Place("stopped") /\ Place("join")' /\ pc["msg"] = "reset"
    BY <1>13, HandleMoves DEF Moved, ResetReceiver, At
  <2>2. Receiving /\ Off
    BY <1>1, <2>1 DEF Places, Has
  <2>3. receiver # 0 /\ recv[receiver].st # "new"
    BY <2>1, <2>2, OldReceiver DEF Receiving
  <2>4. /\ receiver' = 0 /\ old'["msg"] = receiver /\ made' = made
        /\ UNCHANGED <<shmName, sender, canvas, mutex>>
    BY <1>13, <2>3 DEF ResetReceiver, TypeInv, SinkType, SinkThreads, srcVars
  <2>5. Has("join")'
    BY <2>2, <2>4 DEF Has, Receiving, Off
  <2> QED BY <1>2, <2>1, <2>5, ArriveAt DEF Places
<1>14. CASE JoinReceiver("msg")
  <2>1. Place("join") /\ Place("none")'
    BY <1>14, HandleMoves DEF Place
  <2>2. receiver = 0 /\ Off
    BY <1>1, <2>1 DEF Places, Has
  <2>3. UNCHANGED <<receiver, shmName, sender, canvas, mutex>>
    BY <1>14 DEF JoinReceiver, sinkVars, srcVars
  <2>4. Has("none")'
    BY <2>2, <2>3 DEF Has, Off
  <2> QED BY <1>2, <2>1, <2>4, ArriveAt DEF Places
<1> QED BY <1>4, <1>5, <1>6, <1>7, <1>8, <1>9, <1>10, <1>11, <1>12, <1>13, <1>14 DEF Moves

LEMMA StageStep ==
  ASSUME PatientInv, Peaceful, Next
  PROVE  Stage'
<1> USE DEF PatientInv
<1>1. Moves \/ Quiets \/ Others
  BY PatientSteps
<1>2. Cleared => Cleared'
  BY <1>1, ClearedStays
<1>3. CASE Quiets
  <2>1. SameTokens /\ SameEnds
    BY <1>3, QuietTokens, QuietEnds
  <2>2. \A l \in Places : Has(l) => Has(l)'
    BY <1>2, <2>1 DEF Places, Has, SameEnds, Receiving, On, Off, Fresh
  <2> QED BY <2>1, <2>2, StayAt DEF Stage, Places
<1>4. CASE Others
  <2>1. SameTokens
    BY <1>4, QuietTokens
  <2>2. CASE ResetReceiver("js")
    <3>1. Tokens = 0
      BY <2>2 DEF ResetReceiver, At, OneToken
    <3>2. Cleared'
      BY <2>2, JsEffects DEF JsMoves, ResetReceiver, At, Goto, Send, Clearers, Cleared, TypeInv,
         ThreadPc, ThreadOut, Threads, SinkThreads, Senders
    <3> QED BY <2>1, <3>1, <3>2, ClearedStage
  <2>3. CASE MainDisconnect \/ MainEnd \/ SenderFault
    BY <1>2, <2>1, <2>3, EndsLate, ClearedTokens, ClearedStage
  <2>4. CASE Receives
    <3>1. /\ UNCHANGED <<receiver, made, old, shmName, previews, sender, canvas, mutex>>
          /\ \A i \in Previews : recv[i].st = "new" => recv'[i].st = "new"
          /\ \A p \in Previews : frame'[p].r = frame[p].r
      <4>1. ASSUME NEW i \in Previews, TakeFrame(i)
            PROVE  /\ UNCHANGED <<receiver, made, old, recv, shmName, previews, sender, canvas, mutex>>
                   /\ \A p \in Previews : frame'[p].r = frame[p].r
        BY <4>1 DEF TakeFrame, sinkVars, srcVars, TypeInv, FrameType, FrameChannels
      <4>2. ASSUME NEW i \in Previews, ReceiverEnds(i)
            PROVE  /\ UNCHANGED <<receiver, made, old, shmName, previews, sender, canvas, mutex>>
                   /\ \A k \in Previews : recv[k].st = "new" => recv'[k].st = "new"
                   /\ \A p \in Previews : frame'[p].r = frame[p].r
        BY <4>2 DEF ReceiverEnds, srcVars, TypeInv, FrameType, FrameChannels, SinkType
      <4> QED BY <2>4, <4>1, <4>2 DEF Receives
    <3>2. /\ shmName # 0 => shmName \in Previews
          /\ made # 0 => made \in Previews
      BY DEF TypeInv, SinkType, SourceType, PreviewRefs, Previews
    <3>3. \A l \in Places : Has(l) => Has(l)'
      BY <1>2, <3>1, <3>2 DEF Places, Has, Receiving, On, Off, Fresh
    <3> QED BY <2>1, <3>3, StayAt DEF Stage, Places
  <2>5. CASE BeginFrame
    <3>1. UNCHANGED <<receiver, made, recv, old, frame, shmName, previews, sender, canvas>> /\ canvas
      BY <2>5 DEF BeginFrame, sinkVars
    <3>2. \A l \in Places : Has(l) => Has(l)'
      BY <1>2, <3>1 DEF Places, Has, Receiving, On, Off, Fresh
    <3> QED BY <2>1, <3>2, StayAt DEF Stage, Places
  <2>6. CASE EndFrame
    <3>1. /\ UNCHANGED <<receiver, made, recv, old, shmName, previews, sender, canvas>>
          /\ ~mutex'
          /\ \A p \in Previews : frame'[p].r = frame[p].r
      BY <2>6 DEF EndFrame, sinkVars, TypeInv, FrameType, FrameChannels
    <3>2. shmName # 0 => shmName \in Previews
      BY DEF TypeInv, SourceType, PreviewRefs, Previews
    <3>3. \A l \in Places : Has(l) => Has(l)'
      BY <1>2, <3>1, <3>2 DEF Places, Has, Receiving, On, Off, Fresh
    <3> QED BY <2>1, <3>3, StayAt DEF Stage, Places
  <2> QED BY <1>4, <2>2, <2>3, <2>4, <2>5, <2>6 DEF Others
<1> QED BY <1>1, <1>3, <1>4, StageMoves

LEMMA RenderStep ==
  ASSUME PatientInv, Peaceful, Next
  PROVE  Render'
<1> USE DEF PatientInv
<1>1. Moves \/ Quiets \/ Others
  BY PatientSteps
<1>2. Cleared => Cleared'
  BY <1>1, ClearedStays
<1>3. CASE BeginFrame
  <2>1. /\ mutex' /\ pc'["ren"] = "write" /\ canvas
        /\ writing' = sender /\ shmName' = shmName
    BY <1>3 DEF BeginFrame, Goto, TypeInv, ThreadPc, Threads, SourceThreads
  <2>2. ~Cleared => sender = shmName
    BY <2>1, CanvasOn DEF On
  <2> QED BY <1>2, <2>1, <2>2 DEF Render
<1>4. CASE EndFrame
  BY <1>4 DEF EndFrame, Goto, TypeInv, ThreadPc, Threads, SourceThreads, Render
<1>5. CASE ~BeginFrame /\ ~EndFrame
  <2>1. pc'["ren"] = pc["ren"]
    BY <1>1, <1>5, RenderSteps
  <2>2. mutex' = mutex /\ writing' = writing
    <3>1. Quiets => UNCHANGED <<mutex, writing>>
      BY QuietEnds DEF SameEnds
    <3> QED BY <1>1, <1>5, <3>1 DEF Moves, Others, StartPreview, StopPreview, Call,
         MainStartPreview, MainStopPreview, MainRead, CreateSender, FreeSender, MsgReadAnswer,
         MsgRead, RenewReceiver, OpenReceiver, ResetReceiver, JoinReceiver, Receives, TakeFrame,
         ReceiverEnds, MainDisconnect, MainEnd, SenderFault, SourceDies, srcVars
  <2>3. mutex => Cleared \/ shmName' = shmName
    <3>1. Quiets => shmName' = shmName
      BY QuietEnds DEF SameEnds
    <3>2. MainStartPreview => ~mutex
      <4>1. MainStartPreview => Place("start")
        BY TakeMoves DEF Moved
      <4> QED BY <4>1 DEF Stage, Places, Has, Off
    <3>3. CreateSender => ~mutex
      BY DEF CreateSender, At, Stage, Places, Place, Has
    <3>4. FreeSender => ~mutex
      BY DEF FreeSender
    <3>5. MainDisconnect \/ MainEnd \/ SenderFault => Cleared
      BY EndsLate
    <3> QED BY <1>1, <1>5, <3>1, <3>2, <3>3, <3>4, <3>5 DEF Moves, Others, StartPreview,
         StopPreview, Call, MainStopPreview, MsgReadAnswer, MsgRead, RenewReceiver, OpenReceiver,
         ResetReceiver, JoinReceiver, Receives, TakeFrame, ReceiverEnds
  <2> QED BY <1>2, <2>1, <2>2, <2>3 DEF Render
<1> QED BY <1>3, <1>4, <1>5

\* Which steps change the receivers and the reading ends of their channels.
LEMMA ReceiverSteps ==
  ASSUME PatientInv, Next, Moves \/ Quiets \/ Others
  PROVE  \/ RenewReceiver \/ OpenReceiver \/ (\E i \in Previews : ReceiverEnds(i))
         \/ ResetReceiver("msg") \/ ResetReceiver("js")
         \/ /\ UNCHANGED <<receiver, made, recv, old>>
            /\ \A p \in Previews : frame'[p].r = frame[p].r
<1> USE DEF PatientInv, TypeInv, FrameType, FrameChannels
<1>1. CASE Quiets
  BY <1>1, QuietEnds DEF SameEnds
<1>2. CASE StartPreview \/ StopPreview \/ MsgReadAnswer \/ JoinReceiver("msg")
  BY <1>2 DEF StartPreview, StopPreview, Call, MsgReadAnswer, MsgRead, JoinReceiver, sinkVars
<1>3. CASE MainStartPreview \/ FreeSender \/ MainDisconnect \/ MainEnd
  BY <1>3 DEF MainStartPreview, FreeSender, MainDisconnect, MainEnd, MainRead, SenderGone,
              sinkVars
<1>4. CASE MainStopPreview \/ CreateSender
  BY <1>4 DEF MainStopPreview, MainRead, CreateSender, sinkVars
<1>5. CASE BeginFrame \/ EndFrame
  BY <1>5 DEF BeginFrame, EndFrame, sinkVars
<1>6. CASE SenderFault
  BY <1>6 DEF SenderFault, SourceDies, sinkVars
<1>7. ASSUME NEW i \in Previews, TakeFrame(i)
      PROVE  /\ UNCHANGED <<receiver, made, recv, old>>
             /\ \A p \in Previews : frame'[p].r = frame[p].r
  BY <1>7 DEF TakeFrame, sinkVars
<1> QED BY <1>1, <1>2, <1>3, <1>4, <1>5, <1>6, <1>7 DEF Moves, Others, Receives

\* The number of frame channels grows with their name.
LEMMA NameSteps ==
  ASSUME PatientInv, Next, Moves \/ Quiets \/ Others
  PROVE  /\ previews' >= previews
         /\ shmName' \in {shmName, 0} \/ shmName' = previews'
<1> USE DEF PatientInv
<1>1. previews \in Nat
  BY DEF TypeInv, SourceType, PreviewRefs
<1>2. CASE Quiets
  BY <1>1, <1>2, QuietEnds DEF SameEnds
<1>3. CASE CreateSender
  BY <1>1, <1>3 DEF CreateSender
<1>4. CASE MainStartPreview \/ FreeSender \/ MainDisconnect \/ MainEnd
  BY <1>1, <1>4 DEF MainStartPreview, FreeSender, MainDisconnect, MainEnd, MainRead, srcVars
<1>5. CASE (Moves \/ Others) /\ ~CreateSender
             /\ ~(MainStartPreview \/ FreeSender \/ MainDisconnect \/ MainEnd)
  <2>1. UNCHANGED <<shmName, previews>>
    BY <1>5 DEF Moves, Others, StartPreview, StopPreview, Call, MainStopPreview, MainRead,
       MsgReadAnswer, MsgRead, RenewReceiver, OpenReceiver, ResetReceiver, JoinReceiver, Receives,
       TakeFrame, ReceiverEnds, BeginFrame, EndFrame, SenderFault, SourceDies, srcVars
  <2> QED BY <1>1, <2>1
<1> QED BY <1>2, <1>3, <1>4, <1>5

\* What ends the opening of a receiver and the wait for one.
LEMMA OpenStays ==
  ASSUME PatientInv, Next, Moves \/ Quiets \/ Others
  PROVE  /\ pc["msg"] = "open" => pc'["msg"] = "open" \/ OpenReceiver
         /\ pc["msg"] = "joinRecv" => pc'["msg"] = "joinRecv" \/ JoinReceiver("msg")
<1>1. CASE Quiets \/ Others
  <2>1. SameTokens
    BY <1>1, QuietTokens
  <2>2. /\ pc'["msg"] = "open" <=> pc["msg"] = "open"
        /\ pc'["msg"] = "joinRecv" <=> pc["msg"] = "joinRecv"
    BY <2>1 DEF SameTokens
  <2> QED BY <2>2
<1>2. CASE MsgReadAnswer \/ RenewReceiver \/ ResetReceiver("msg")
  BY <1>2 DEF MsgReadAnswer, MsgRead, RenewReceiver, ResetReceiver, At
<1>3. CASE StartPreview \/ StopPreview \/ MainStartPreview \/ MainStopPreview \/ CreateSender
             \/ FreeSender
  BY <1>3 DEF StartPreview, StopPreview, Call, MainStartPreview, MainStopPreview, CreateSender,
     FreeSender, Goto, Send, PatientInv, TypeInv, ThreadPc, Threads, SinkThreads, SourceThreads
<1>4. CASE OpenReceiver \/ JoinReceiver("msg")
  BY <1>4 DEF OpenReceiver, JoinReceiver, At
<1> QED BY <1>1, <1>2, <1>3, <1>4 DEF Moves

LEMMA ReceiversStep ==
  ASSUME PatientInv, Peaceful, Next
  PROVE  Receivers'
<1> USE DEF PatientInv
<1>1. Moves \/ Quiets \/ Others
  BY PatientSteps
<1>2. JsEffect \/ SameJs
  BY <1>1, JsSteps, JsEffects
<1>3. /\ previews' >= previews /\ previews \in Nat /\ previews' \in Nat /\ shmName \in Nat
      /\ shmName' <= previews'
  <2>1. previews \in Nat /\ previews' \in Nat /\ shmName \in Nat
    BY TypeStep DEF TypeInv, SourceType, PreviewRefs
  <2> QED BY <1>1, <2>1, NameSteps DEF Receivers
<1>4. /\ made \in PreviewRefs /\ receiver \in PreviewRefs /\ old \in [SinkThreads -> PreviewRefs]
      /\ recv \in [Previews -> [st : {"none", "new", "reading", "done"}, preview : PreviewRefs]]
      /\ 0 \notin Previews /\ Previews \subseteq Nat
  BY DEF TypeInv, SinkType, Previews
<1>5. Cleared => Tokens = 0
  BY ClearedTokens
<1>6. CASE RenewReceiver
  <2>1. /\ pc["msg"] = "renew" /\ Place("started") /\ Place("open")'
    BY <1>6, HandleMoves DEF Moved, RenewReceiver, At
  <2>2. receiver = 0 /\ Tokens # 0 /\ ~Cleared
    <3>1. receiver = 0
      BY <2>1 DEF Stage, Places, Has
    <3>2. Tokens # 0
      BY <2>1, NoToken DEF Nowhere
    <3> QED BY <1>5, <3>1, <3>2
  <2>3. SameJs
    BY <1>6 DEF RenewReceiver, Goto, SameJs, TypeInv, ThreadPc, Threads, SinkThreads
  <2>4. ~Cleared' /\ pc'["js"] # "joinRecv"
    BY <2>2, <2>3 DEF SameJs, Cleared, Disconnected
  <2>5. /\ \A i \in Previews : recv[i].st # "new" /\ recv[i].st # "reading"
    BY <1>4, <2>1, <2>2 DEF Receivers, Cleared
  <2>6. /\ made' = made + 1 /\ frame' = frame
        /\ \A i \in Previews : recv'[i].st = IF i = made + 1 THEN "new" ELSE recv[i].st
    BY <1>4, <1>6, <2>2 DEF RenewReceiver
  <2>7. pc'["msg"] = "open"
    BY <2>1 DEF Place
  <2> QED BY <1>3, <1>4, <2>4, <2>5, <2>6, <2>7 DEF Receivers
<1>7. CASE OpenReceiver
  <2>1. pc["msg"] = "open" /\ Place("open")
    BY <1>7 DEF OpenReceiver, At, Place
  <2>2. Receiving /\ Fresh /\ ~Cleared
    <3>1. Receiving /\ Fresh
      BY <2>1 DEF Stage, Places, Has
    <3>2. Tokens # 0
      BY <2>1, NoToken DEF Nowhere
    <3> QED BY <1>5, <3>1, <3>2
  <2>3. SameJs
    BY <1>7 DEF OpenReceiver, Goto, SameJs, TypeInv, ThreadPc, Threads, SinkThreads
  <2>4. ~Cleared' /\ pc'["js"] # "joinRecv"
    BY <2>2, <2>3 DEF SameJs, Cleared, Disconnected
  <2>5. /\ \A i \in Previews : recv[i].st = "new" => i = made
        /\ \A i \in Previews : recv[i].st = "reading" => i = made
        /\ made \in Previews
    BY <1>4, <2>2 DEF Receivers, Receiving, PreviewRefs, Previews
  <2>6. /\ receiver' = receiver /\ made' = made
        /\ \A i \in Previews : recv'[i].st = IF i = made THEN "reading" ELSE recv[i].st
    BY <1>4, <1>7, <2>2, <2>5 DEF OpenReceiver, Receiving, Fresh, On
  <2>7. \A p \in Previews : frame'[p].r => p <= previews'
    <3>1. frame' = [frame EXCEPT ![shmName].r = TRUE] /\ shmName <= previews
      BY <1>7, <2>2 DEF OpenReceiver, Fresh, On, Receivers
    <3>2. \A p \in Previews : frame'[p].r => p = shmName \/ frame[p].r
      BY <3>1 DEF TypeInv, FrameType, FrameChannels
    <3> QED BY <1>3, <1>4, <3>1, <3>2 DEF Receivers
  <2> QED BY <1>3, <2>2, <2>4, <2>5, <2>6, <2>7 DEF Receivers, Receiving
<1>8. CASE ResetReceiver("msg")
  <2>1. pc["msg"] = "reset" /\ Place("stopped") /\ Place("join")'
    BY <1>8, HandleMoves DEF Moved, ResetReceiver, At
  <2>2. Receiving /\ ~Cleared
    <3>1. Receiving
      BY <2>1 DEF Stage, Places, Has
    <3>2. Tokens # 0
      BY <2>1, NoToken DEF Nowhere
    <3> QED BY <1>5, <3>1, <3>2
  <2>3. pc'["msg"] = "joinRecv"
    BY <2>1 DEF Place
  <2>4. SameJs
    BY <1>8 DEF ResetReceiver, Clearers, Goto, SameJs, TypeInv, ThreadPc, Threads, SinkThreads
  <2>5. ~Cleared' /\ pc'["js"] # "joinRecv"
    BY <2>2, <2>4 DEF SameJs, Cleared, Disconnected
  <2>6. \A i \in Previews : recv[i].st # "new"
    BY <2>1 DEF Receivers
  <2>7. /\ UNCHANGED <<recv, made>>
        /\ \A p \in Previews : frame'[p].r => frame[p].r
    BY <1>8 DEF ResetReceiver, TypeInv, FrameType, FrameChannels
  <2> QED BY <1>3, <1>4, <2>3, <2>5, <2>6, <2>7 DEF Receivers
<1>9. CASE ResetReceiver("js")
  <2>1. pc["js"] = "reset" /\ Tokens = 0 /\ ~Cleared
    BY <1>9 DEF ResetReceiver, At, OneToken, Cleared, Disconnected
  <2>2. Nowhere
    BY <2>1, NoToken
  <2>3. \A i \in Previews : recv[i].st # "new"
    BY <2>2 DEF Receivers, Nowhere
  <2>4. receiver = 0 \/ Receiving
    BY <2>1 DEF Stage, Places, Place, Has
  <2>5. CASE receiver = 0
    <3>1. \A i \in Previews : recv[i].st # "reading"
      BY <1>4, <2>1, <2>2, <2>5 DEF Receivers, Nowhere
    <3>2. receiver' = 0 /\ UNCHANGED <<recv, made, frame>> /\ pc'["js"] = "send"
      BY <1>9, <2>5 DEF ResetReceiver, Send, Clearers, TypeInv, ThreadPc, Threads, SinkThreads
    <3> QED BY <1>3, <1>4, <2>3, <3>1, <3>2 DEF Receivers
  <2>6. CASE receiver # 0
    <3>1. receiver = made /\ recv[receiver].st # "new"
      BY <1>4, <2>3, <2>4, <2>6 DEF Receiving, PreviewRefs, Previews
    <3>2. /\ receiver' = 0 /\ UNCHANGED <<recv, made>> /\ pc'["js"] = "joinRecv"
          /\ old'["js"] = receiver
          /\ \A p \in Previews : frame'[p].r => frame[p].r
      <4>1. frame' = [frame EXCEPT ![recv[receiver].preview].r = FALSE]
        BY <1>9, <2>6, <3>1 DEF ResetReceiver
      <4>2. \A p \in Previews : frame'[p].r => frame[p].r
        BY <4>1 DEF TypeInv, FrameType, FrameChannels
      <4> QED BY <1>9, <2>6, <3>1, <4>2 DEF ResetReceiver, Goto, TypeInv, ThreadPc, Threads,
                                            SinkThreads, SinkType
    <3> QED BY <1>3, <1>4, <2>3, <2>6, <3>1, <3>2 DEF Receivers
  <2> QED BY <2>5, <2>6
<1>10. ASSUME /\ UNCHANGED <<receiver, made, old>>
              /\ \A i \in Previews : recv'[i].st = recv[i].st \/ recv'[i].st = "done"
              /\ \A p \in Previews : frame'[p].r = frame[p].r,
              ~OpenReceiver, ~ResetReceiver("js")
       PROVE  Receivers'
  <2>1. \A i \in Previews : recv'[i].st = "new" => pc'["msg"] = "open" /\ i = made
    <3>1. pc["msg"] = "open" => pc'["msg"] = "open"
      BY <1>1, <1>10, OpenStays
    <3> QED BY <1>10, <3>1 DEF Receivers
  <2>2. pc["msg"] = "joinRecv" => pc'["msg"] = "joinRecv" \/ JoinReceiver("msg")
    BY <1>1, <1>10, OpenStays
  <2>3. JoinReceiver("msg") => \A i \in Previews : recv[i].st # "reading"
    <3>1. JoinReceiver("msg") => old["msg"] = made /\ recv[old["msg"]].st = "done"
      BY HandleMoves DEF JoinReceiver, Stage, Places, Has
    <3> QED BY <3>1 DEF Receivers
  <2>4. JoinReceiver("js") => \A i \in Previews : recv[i].st # "reading"
    <3>1. JoinReceiver("js") => old["js"] = made /\ recv[old["js"]].st = "done"
      BY DEF JoinReceiver, At, Receivers
    <3> QED BY <3>1 DEF Receivers
  <2>5. pc["js"] = "joinRecv" => pc'["js"] = "joinRecv" \/ JoinReceiver("js")
    BY <1>2 DEF JsEffect, SameJs
  <2>6. (Cleared' => Cleared) /\ (pc'["js"] = "joinRecv" => pc["js"] = "joinRecv")
    BY <1>2, <1>10 DEF JsEffect, SameJs, Cleared, Disconnected
  <2>7. \A i \in Previews : recv'[i].st = "reading" =>
          i = made /\ (receiver = made \/ pc'["msg"] = "joinRecv" \/ pc'["js"] = "joinRecv")
    BY <1>10, <2>2, <2>3, <2>4, <2>5 DEF Receivers
  <2>8. \A p \in Previews : frame'[p].r => p <= previews'
    BY <1>3, <1>4, <1>10 DEF Receivers
  <2> QED BY <1>3, <1>10, <2>1, <2>6, <2>7, <2>8 DEF Receivers
<1>11. ASSUME NEW i \in Previews, ReceiverEnds(i)
       PROVE  /\ UNCHANGED <<receiver, made, old>>
              /\ \A k \in Previews : recv'[k].st = recv[k].st \/ recv'[k].st = "done"
              /\ \A p \in Previews : frame'[p].r = frame[p].r
  BY <1>4, <1>11 DEF ReceiverEnds, TypeInv, FrameType, FrameChannels
<1> QED BY <1>1, <1>6, <1>7, <1>8, <1>9, <1>10, <1>11, ReceiverSteps

----------------------------------------------------------------------------
(* The invariant holds *)

LEMMA PatientInit == Init => PatientInv
<1> SUFFICES ASSUME Init PROVE PatientInv
  OBVIOUS
<1>1. TypeInv
  BY TypeInit
<1>2. /\ pc["js"] = "waiting" /\ pc["mon"] = "idle" /\ pc["msg"] = "read"
      /\ pc["main"] = "connect" /\ pc["eng"] = "idle" /\ pc["ren"] = "idle"
  BY DEF Init, Threads, SinkThreads, SourceThreads
<1>3. \A m : Count(ring["cmd"].q, m) = 0 /\ Count(ring["evt"].q, m) = 0
  BY CountEmpty DEF Init, Rings
<1>4. \A m : OnCmd(m) = 0 /\ OnEvt(m) = 0
  BY <1>2, <1>3 DEF OnCmd, OnEvt, Sending
<1>5. Tokens = 0
  <2>1. Replies = 0
    BY <1>2, <1>4 DEF Replies, Eq
  <2> QED BY <1>1, <1>2, <1>4, <2>1, NoToken DEF Nowhere
<1>6. OneToken
  BY <1>5 DEF OneToken
<1>7. Lifetime
  BY <1>2 DEF Init, Lifetime, Cleared, Disconnected
<1>8. Ready
  BY <1>4 DEF Init, Ready
<1>9. Ends
  <2>1. ring["cmd"].w = ("cmd" = "cmd") /\ ring["evt"].r = ("evt" = "evt")
    BY DEF Init, Rings
  <2>2. ring["cmd"].w /\ ring["evt"].r
    BY <2>1
  <2>3. ~(Count(ring["cmd"].q, "DISCONNECT") >= 1)
    BY <1>3
  <2> QED BY <1>2, <2>2, <2>3 DEF Ends
<1>10. Stage
  <2>1. \A l \in Places : Place(l) => l = "none"
    BY <1>1, <1>5, NoToken DEF Nowhere, Places, Place
  <2>2. Has("none")
    BY DEF Init, Has, Off
  <2> QED BY <2>1, <2>2 DEF Stage
<1>11. Render
  BY <1>2 DEF Init, Render
<1>12. Receivers
  BY <1>2, SessionAssumption DEF Init, Receivers, Previews
<1> QED BY <1>1, <1>6, <1>7, <1>8, <1>9, <1>10, <1>11, <1>12 DEF PatientInv

LEMMA PatientStep ==
  ASSUME Peaceful, PatientInv, [Next]_vars
  PROVE  PatientInv'
<1>1. CASE Next
  <2>1. TypeInv'
    BY <1>1, TypeStep DEF PatientInv
  <2> QED BY <1>1, <2>1, OneTokenStep, LifetimeStep, ReadyStep, EndsStep, StageStep, RenderStep,
             ReceiversStep DEF PatientInv
<1>2. CASE UNCHANGED vars
  <2> USE <1>2 DEF vars, sinkVars, srcVars, PatientInv
  <2>1. TypeInv'
    BY TypeStep
  <2>2. Tokens' = Tokens /\ Replies' = Replies
    BY DEF Tokens, Requests, Replies, StopCmd, StopEvt, Handling, OnCmd, OnEvt, Sending, Eq, Count
  <2>3. \A m : /\ OnCmd(m)' = OnCmd(m) /\ OnEvt(m)' = OnEvt(m)
               /\ Count(ring["cmd"].q, m)' = Count(ring["cmd"].q, m)
    BY DEF OnCmd, OnEvt, Sending, Eq, Count
  <2>4. (Cleared' <=> Cleared) /\ (Disconnected' <=> Disconnected)
    BY DEF Cleared, Disconnected
  <2>5. OneToken' /\ Lifetime' /\ Ready'
    BY <2>2, <2>3, <2>4 DEF OneToken, Lifetime, Ready
  <2>6. Ends'
    BY <2>3, <2>4 DEF Ends
  <2>7. Stage'
    <3>1. \A l \in Places : Place(l)' <=> Place(l)
      BY <2>2, <2>3 DEF Places, Place
    <3>2. \A l \in Places : Has(l)' <=> Has(l)
      BY <2>4 DEF Places, Has, Receiving, On, Off, Fresh
    <3> QED BY <3>1, <3>2 DEF Stage, Places
  <2>8. Render' /\ Receivers'
    BY <2>4 DEF Render, Receivers
  <2> QED BY <2>1, <2>5, <2>6, <2>7, <2>8
<1> QED BY <1>1, <1>2

LEMMA PatientInvAlways ==
  ASSUME Patient, ~SourceMayCrash, ~SinkMayCrash
  PROVE  Spec => []PatientInv
<1>1. PatientInv /\ [Next]_vars => PatientInv'
  BY PatientStep DEF Peaceful
<1> QED BY <1>1, PatientInit, PTL DEF Spec

----------------------------------------------------------------------------
(***************************************************************************)
(* Theorems.  They hold for rings of any size, any number of calls,        *)
(* previews and events, a source that starts slowly, and an engine that    *)
(* fails.                                                                  *)
(***************************************************************************)

\* Without crashes, and with a JavaScript that waits for its preview calls,
\* release (AgoraVideoSourceSink::clear) never runs in two threads at once: the
\* monitor of the source process never finds m_initialized set, so it cannot
\* join msgThread or free m_ipcReceiver while JavaScript does.
THEOREM PatientOneClear ==
  ASSUME Patient, ~SourceMayCrash, ~SinkMayCrash
  PROVE  Spec => []OneClear
<1>1. PatientInv => OneClear
  BY PatientProperties
<1> QED BY <1>1, PatientInvAlways, PTL

\* In such a session at most one receiver thread runs, so that one thread at a
\* time fills m_backBuf, and onStartPreviewComplete finds the receiver it made.
THEOREM PatientOneReceiver ==
  ASSUME Patient, ~SourceMayCrash, ~SinkMayCrash
  PROVE  Spec => []OneReceiver
<1>1. PatientInv => OneReceiver
  BY PatientProperties
<1> QED BY <1>1, PatientInvAlways, PTL

\* In such a session, when release returned, msgThread and every receiver thread
\* are at their ends, and no end of the rings that the sink has is open.
THEOREM PatientReleasedClean ==
  ASSUME Patient, ~SourceMayCrash, ~SinkMayCrash
  PROVE  Spec => []ReleasedClean
<1>1. PatientInv => ReleasedClean
  BY PatientProperties
<1> QED BY <1>1, PatientInvAlways, PTL

=============================================================================
