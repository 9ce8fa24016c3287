------------------------- MODULE VideoSourceSession -------------------------
(***************************************************************************)
(* One session between the Electron main process (the sink,                *)
(* agora_node_ext/agora_video_source.cpp) and the VideoSource process it   *)
(* starts (video_source/video_source.cpp), from the start of the process   *)
(* to its end.  Seven threads take part:                                   *)
(*   js    JavaScript thread: initialize, commands, preview, release       *)
(*   mon   monitor of the source process: destroyVideoSource when it ends  *)
(*   msg   msgThread: reads the evt ring                                   *)
(*   main  main thread of VideoSource: reads the cmd ring                  *)
(*   eng   a callback thread of the RTC engine: sends events               *)
(*   ren   the render thread of the RTC engine: sends frames               *)
(*   smon  monitor of the sink process: exit when the sink ends            *)
(* and one thread per AgoraIpcDataReceiver that reads frames.              *)
(*                                                                         *)
(* The rings are bounded queues with two ends, as ShmChannel has them, and *)
(* with the one fact of ShmChannel that does not fit a queue: a thread     *)
(* that leaves a read because its end was closed, or that dies inside a    *)
(* call, may keep the lock of the block that is written next.  The next    *)
(* writer then waits until both ends are closed.                           *)
(***************************************************************************)
EXTENDS Naturals, Sequences, FiniteSets

CONSTANTS
  RingSize,        \* VIDEO_SOURCE_BLOCK_NUM (10 in the code)
  MaxCalls,        \* bound: calls of JavaScript before release
  MaxPreviews,     \* bound: how often startPreview is called
  MaxEvents,       \* bound: events the RTC engine reports
  Patient,         \* JavaScript waits until its last preview call took effect
  SlowStart,       \* the source may take longer than the 5 s of initialize
  EngineMayFail,   \* IRtcEngine::initialize may fail in the source
  SourceMayCrash,  \* the source process may die at any moment
  SinkMayCrash     \* the Electron process may die at any moment

ASSUME SessionAssumption ==
  /\ RingSize \in Nat \ {0, 1}
  /\ MaxCalls \in Nat /\ MaxPreviews \in Nat /\ MaxEvents \in Nat
  /\ {Patient, SlowStart, EngineMayFail, SourceMayCrash, SinkMayCrash} \subseteq BOOLEAN

SinkThreads == {"js", "mon", "msg"}
SourceThreads == {"main", "eng", "ren"}
Threads == SinkThreads \cup SourceThreads
Senders == {"js", "mon", "main", "eng"}
Rings == {"cmd", "evt"}
Previews == 1 .. MaxPreviews
PreviewRefs == 0 .. MaxPreviews   \* a preview, or 0 for none

\* CMD stands for every command that only makes the source call its engine,
\* EVENT for the events that only make the sink call JavaScript.
Messages == {"CMD", "START_PREVIEW", "STOP_PREVIEW", "DISCONNECT", "SOURCE_READY",
             "EVENT", "START_COMPLETE", "STOP_COMPLETE"}

VARIABLES
  ring,         \* both rings: queue, ends, and the lock of the next block
  frame,        \* the frame channel of each preview: block, ends and lock
  shmName,      \* the preview whose frame channel has the name, or 0
  sinkUp,       \* the Electron process runs
  src,          \* the source process: "up", "gone" (it ended) or "crashed"
  initialized,  \* AgoraVideoSourceSink::m_initialized
  event,        \* AgoraVideoSourceSink::m_event
  armed,        \* INodeProcess::Monitor was called
  receiver,     \* AgoraVideoSourceSink::m_ipcReceiver, or 0
  recv,         \* each receiver: its thread and its frame channel
  made,         \* how many receivers were made
  srcInit,      \* AgoraVideoSource::m_initialized
  sender,       \* AgoraVideoSource::m_ipcSender: its preview, or 0
  previews,     \* how many frame channels were created
  canvas,       \* setupLocalVideo has a canvas: the engine renders
  mutex,        \* AgoraVideoSource::m_ipcSenderMutex is held by ren
  writing,      \* the preview ren writes a frame to
  pc,           \* where each thread is
  out,          \* the message each thread is sending
  old,          \* the receiver each sink thread is stopping
  calls,        \* how many calls JavaScript made
  starts,       \* how many of them were startPreview
  events        \* how many events the engine reported

sinkVars == <<initialized, event, armed, receiver, recv, made, old, calls, starts>>
srcVars == <<srcInit, sender, previews, canvas, mutex, writing, events>>
vars == <<ring, frame, shmName, sinkUp, src, sinkVars, srcVars, pc, out>>

PcNames == {"waiting", "arming", "idle", "unset", "reset", "joinRecv", "send",
            "closeEvt", "closeCmd", "joinMsg", "released", "done", "read", "renew",
            "open", "connect", "engine", "create", "stopLock", "write"}

\* init_channel, and the ends that listen opens before it starts the source.
Init ==
  /\ ring = [c \in Rings |-> [q |-> <<>>, w |-> c = "cmd", r |-> c = "evt", lock |-> "free"]]
  /\ frame = [p \in Previews |-> [full |-> FALSE, w |-> FALSE, r |-> FALSE, lost |-> FALSE]]
  /\ shmName = 0
  /\ sinkUp = TRUE
  /\ src = "up"
  /\ initialized = FALSE /\ event = FALSE /\ armed = FALSE
  /\ receiver = 0
  /\ recv = [i \in Previews |-> [st |-> "none", preview |-> 0]]
  /\ made = 0
  /\ srcInit = FALSE
  /\ sender = 0
  /\ previews = 0
  /\ canvas = FALSE
  /\ mutex = FALSE
  /\ writing = 0
  /\ pc = [t \in Threads |-> CASE t = "js" -> "waiting"
                                [] t = "msg" -> "read"
                                [] t = "main" -> "connect"
                                [] OTHER -> "idle"]
  /\ out = [t \in Senders |-> "CMD"]
  /\ old = [t \in SinkThreads |-> 0]
  /\ calls = 0 /\ starts = 0 /\ events = 0

----------------------------------------------------------------------------
(* Helpers *)

Alive(t) == IF t \in SinkThreads THEN sinkUp ELSE src = "up"

At(t, label) == Alive(t) /\ pc[t] = label
Goto(t, label) == pc' = [pc EXCEPT ![t] = label]

\* Calls sendMessage.
Send(t, m) ==
  /\ pc' = [pc EXCEPT ![t] = "send"]
  /\ out' = [out EXCEPT ![t] = m]

\* `used': an end of the channel is open.
Used(ch) == ch.w \/ ch.r

RingOf(t) == IF t \in {"js", "mon"} THEN "cmd" ELSE "evt"

\* Where a thread goes on after its sendMessage.
AfterSend(t) == CASE t = "main" -> "read"
                  [] t # "main" /\ out[t] = "DISCONNECT" -> "closeEvt"
                  [] OTHER -> "idle"

CloseRing(c, end) == [ring EXCEPT ![c][end] = FALSE]

\* The message is on its way between startPreview or stopPreview and the end of
\* its handling in the sink.
InFlight(cmd, reply) ==
  \/ cmd \in {ring["cmd"].q[i] : i \in DOMAIN ring["cmd"].q}
  \/ reply \in {ring["evt"].q[i] : i \in DOMAIN ring["evt"].q}
  \/ pc["js"] = "send" /\ out["js"] = cmd
  \/ pc["main"] = "send" /\ out["main"] = reply

Settled ==
  /\ ~InFlight("START_PREVIEW", "START_COMPLETE")
  /\ ~InFlight("STOP_PREVIEW", "STOP_COMPLETE")
  /\ pc["main"] \notin {"create", "stopLock"}
  /\ pc["msg"] \notin {"renew", "open", "reset", "joinRecv"}

----------------------------------------------------------------------------
(***************************************************************************)
(* sendMessage and the ring.  A message is stored, or the sender finds the *)
(* block's lock lost and is stuck with it, or it is dropped.               *)
(***************************************************************************)

\* Mutant of Deliver: the ring is never full.
DeliverUnbounded(t) ==
  /\ At(t, "send")
  /\ ring[RingOf(t)].w
  /\ ring[RingOf(t)].lock \notin {"lost", t}
  /\ ring' = [ring EXCEPT ![RingOf(t)].q = Append(@, out[t])]
  /\ Goto(t, AfterSend(t))
  /\ UNCHANGED <<frame, shmName, sinkUp, src, sinkVars, srcVars, out>>

\* The block of the sender's ticket is empty, or becomes so, and is filled.
Deliver(t) ==
  LET c == RingOf(t) IN
  /\ At(t, "send")
  /\ ring[c].w
  /\ ring[c].lock \notin {"lost", t}
  /\ Len(ring[c].q) < IF ring[c].lock = "free" THEN RingSize ELSE RingSize - 1
  /\ ring' = [ring EXCEPT ![c].q = Append(@, out[t])]
  /\ Goto(t, AfterSend(t))
  /\ UNCHANGED <<frame, shmName, sinkUp, src, sinkVars, srcVars, out>>

DrawLostBlock(t) ==
  /\ At(t, "send")
  /\ ring[RingOf(t)].w
  /\ ring[RingOf(t)].lock = "lost"
  /\ ring' = [ring EXCEPT ![RingOf(t)].lock = t]
  /\ UNCHANGED <<frame, shmName, sinkUp, src, sinkVars, srcVars, pc, out>>

Drop(t) ==
  /\ At(t, "send")
  /\ ~ring[RingOf(t)].w
  /\ ring[RingOf(t)].lock = t => ~ring[RingOf(t)].r
  /\ Goto(t, AfterSend(t))
  /\ UNCHANGED <<ring, frame, shmName, sinkUp, src, sinkVars, srcVars, out>>

\* Mutant of ReadEnds: a read looks at `used' only.
ReadEndsUnused(c) == ~Used(ring[c])

\* The reader of a ring is inside read, and finds its end closed.  It cannot
\* see that while another thread took the lock of its block to the grave.
ReadEnds(c) ==
  /\ ~ring[c].r
  /\ ring[c].lock = "lost" /\ ring[c].q = <<>> => ~ring[c].w

\* The lock the reader may leave behind.
MayLoseLock(c) ==
  {ring} \cup IF ring[c].q = <<>> /\ ring[c].w /\ ring[c].lock = "free"
              THEN {[ring EXCEPT ![c].lock = "lost"]} ELSE {}

----------------------------------------------------------------------------
(* The sink: JavaScript calls *)

\* initialize: the event is set, and the source process gets its monitor ...
InitReady ==
  /\ At("js", "waiting")
  /\ event
  /\ armed' = TRUE
  /\ Goto("js", "arming")
  /\ UNCHANGED <<ring, frame, shmName, sinkUp, src, initialized, event, receiver,
                 recv, made, old, calls, starts, srcVars, out>>

\* ... and m_initialized is set.
InitDone ==
  /\ At("js", "arming")
  /\ initialized' = TRUE
  /\ Goto("js", "idle")
  /\ UNCHANGED <<ring, frame, shmName, sinkUp, src, event, armed, receiver, recv,
                 made, old, calls, starts, srcVars, out>>

\* The source will not send SOURCE_READY.
Hopeless == src # "up" \/ (pc["main"] = "read" /\ ~srcInit)

\* WaitFor(5000) runs out, and initialize calls clear.
InitTimeout ==
  /\ At("js", "waiting")
  /\ ~event
  /\ SlowStart \/ Hopeless
  /\ Goto("js", "unset")
  /\ UNCHANGED <<ring, frame, shmName, sinkUp, src, sinkVars, srcVars, out>>

Call(m) ==
  /\ At("js", "idle")
  /\ calls < MaxCalls
  /\ calls' = calls + 1
  /\ Send("js", m)
  /\ UNCHANGED <<ring, frame, shmName, sinkUp, src, initialized, event, armed,
                 receiver, recv, made, old, srcVars>>

\* join, leave, setParameters and the rest, which check m_initialized.
Command == initialized /\ Call("CMD") /\ UNCHANGED starts

StartPreview ==
  /\ starts < MaxPreviews
  /\ Patient => Settled /\ receiver = 0
  /\ Call("START_PREVIEW")
  /\ starts' = starts + 1

\* Without a receiver, stopPreview returns node_status_error.
StopPreview ==
  /\ receiver # 0
  /\ Patient => Settled
  /\ Call("STOP_PREVIEW")
  /\ UNCHANGED starts

\* release looks at m_initialized.
ReleaseCall ==
  /\ At("js", "idle")
  /\ Patient => Settled
  /\ Goto("js", IF initialized THEN "unset" ELSE "released")
  /\ UNCHANGED <<ring, frame, shmName, sinkUp, src, sinkVars, srcVars, out>>

----------------------------------------------------------------------------
(* The sink: clear, by js or by mon *)

Clearers == {"js", "mon"}

\* Mutant of ClearUnset: m_initialized stays set.
ClearLeavesSet(t) ==
  /\ At(t, "unset")
  /\ Goto(t, "reset")
  /\ UNCHANGED <<ring, frame, shmName, sinkUp, src, sinkVars, srcVars, out>>

ClearUnset(t) ==
  /\ At(t, "unset")
  /\ initialized' = FALSE
  /\ Goto(t, "reset")
  /\ UNCHANGED <<ring, frame, shmName, sinkUp, src, event, armed, receiver, recv,
                 made, old, calls, starts, srcVars, out>>

\* Mutant of ResetReceiver: stop does not join the thread.
ResetUnjoined(t) ==
  /\ At(t, "reset")
  /\ receiver' = 0
  /\ frame' = [p \in Previews |->
                IF receiver # 0 /\ p = recv[receiver].preview
                THEN [frame[p] EXCEPT !.r = FALSE] ELSE frame[p]]
  /\ IF t \in Clearers THEN Send(t, "DISCONNECT") ELSE Goto(t, "read") /\ UNCHANGED out
  /\ UNCHANGED <<ring, shmName, sinkUp, src, initialized, event, armed, recv, made,
                 old, calls, starts, srcVars>>

\* m_ipcReceiver.reset: the receiver's stop closes the reading end ...
ResetReceiver(t) ==
  /\ At(t, "reset")
  /\ receiver' = 0
  /\ IF receiver # 0 /\ recv[receiver].st # "new"
     THEN /\ frame' = [frame EXCEPT ![recv[receiver].preview].r = FALSE]
          /\ old' = [old EXCEPT ![t] = receiver]
          /\ Goto(t, "joinRecv")
          /\ UNCHANGED out
     ELSE /\ IF t \in Clearers THEN Send(t, "DISCONNECT")
                               ELSE Goto(t, "read") /\ UNCHANGED out
          /\ UNCHANGED <<frame, old>>
  /\ UNCHANGED <<ring, shmName, sinkUp, src, initialized, event, armed, recv, made,
                 calls, starts, srcVars>>

\* ... and joins its thread.  Then clear sends DISCONNECT, and msgThread starts
\* the new receiver if there is one.
JoinReceiver(t) ==
  /\ At(t, "joinRecv")
  /\ recv[old[t]].st = "done"
  /\ IF t \in Clearers
     THEN Send(t, "DISCONNECT")
     ELSE Goto(t, IF recv[made].st = "new" THEN "open" ELSE "read") /\ UNCHANGED out
  /\ UNCHANGED <<ring, frame, shmName, sinkUp, src, sinkVars, srcVars>>

\* Mutant of ClearCloseEvt: disconnect swaps the modes.
ClearCloseOther(t) ==
  /\ At(t, "closeEvt")
  /\ ring' = CloseRing("evt", "w")
  /\ Goto(t, "closeCmd")
  /\ UNCHANGED <<frame, shmName, sinkUp, src, sinkVars, srcVars, out>>

\* disconnect, and m_msgThread.join.
ClearCloseEvt(t) ==
  /\ At(t, "closeEvt")
  /\ ring' = CloseRing("evt", "r")
  /\ Goto(t, "closeCmd")
  /\ UNCHANGED <<frame, shmName, sinkUp, src, sinkVars, srcVars, out>>

ClearCloseCmd(t) ==
  /\ At(t, "closeCmd")
  /\ ring' = CloseRing("cmd", "w")
  /\ Goto(t, "joinMsg")
  /\ UNCHANGED <<frame, shmName, sinkUp, src, sinkVars, srcVars, out>>

\* Mutant of ClearJoin: clear does not wait for msgThread.
ClearUnjoined(t) ==
  /\ At(t, "joinMsg")
  /\ Goto(t, IF t = "js" THEN "released" ELSE "done")
  /\ UNCHANGED <<ring, frame, shmName, sinkUp, src, sinkVars, srcVars, out>>

ClearJoin(t) ==
  /\ At(t, "joinMsg")
  /\ pc["msg"] = "done"
  /\ Goto(t, IF t = "js" THEN "released" ELSE "done")
  /\ UNCHANGED <<ring, frame, shmName, sinkUp, src, sinkVars, srcVars, out>>

\* The monitor: the source ended, destroyVideoSource calls release.
MonitorFires ==
  /\ At("mon", "idle")
  /\ armed /\ src # "up"
  /\ Goto("mon", IF initialized THEN "unset" ELSE "done")
  /\ UNCHANGED <<ring, frame, shmName, sinkUp, src, sinkVars, srcVars, out>>

----------------------------------------------------------------------------
(* The sink: msgThread and the receivers *)

\* read returns a message, and onMessage handles it.
MsgRead ==
  LET m == Head(ring["evt"].q) IN
  /\ At("msg", "read")
  /\ ring["evt"].r
  /\ ring["evt"].q # <<>>
  /\ ring' = [ring EXCEPT !["evt"].q = Tail(@)]
  /\ event' = (event \/ m = "SOURCE_READY")
  /\ Goto("msg", CASE initialized /\ m = "START_COMPLETE" -> "renew"
                   [] initialized /\ m = "STOP_COMPLETE" -> "reset"
                   [] OTHER -> "read")
  /\ UNCHANGED <<frame, shmName, sinkUp, src, initialized, armed, receiver, recv, made,
                 old, calls, starts, srcVars, out>>

\* read returns -1.
MsgEnd ==
  /\ At("msg", "read")
  /\ ReadEnds("evt")
  /\ ring' \in MayLoseLock("evt")
  /\ Goto("msg", "done")
  /\ UNCHANGED <<frame, shmName, sinkUp, src, sinkVars, srcVars, out>>

\* onStartPreviewComplete replaces the receiver by a new one, which stops the
\* one before ...
RenewReceiver ==
  /\ At("msg", "renew")
  /\ made' = made + 1
  /\ receiver' = made + 1
  /\ recv' = [recv EXCEPT ![made + 1].st = "new"]
  /\ IF receiver # 0 /\ recv[receiver].st # "new"
     THEN /\ frame' = [frame EXCEPT ![recv[receiver].preview].r = FALSE]
          /\ old' = [old EXCEPT !["msg"] = receiver]
          /\ Goto("msg", "joinRecv")
     ELSE Goto("msg", "open") /\ UNCHANGED <<frame, old>>
  /\ UNCHANGED <<ring, shmName, sinkUp, src, initialized, event, armed, calls, starts,
                 srcVars, out>>

\* ... opens the frame channel by its name, and starts the thread.  Without a
\* channel of that name, or with its reading end open, the receiver goes away.
OpenReceiver ==
  /\ At("msg", "open")
  /\ receiver # 0
  /\ Goto("msg", "read")
  /\ IF shmName # 0 /\ ~frame[shmName].r
     THEN /\ frame' = [frame EXCEPT ![shmName].r = TRUE]
          /\ recv' = [recv EXCEPT ![receiver] = [st |-> "reading", preview |-> shmName]]
          /\ UNCHANGED receiver
     ELSE /\ receiver' = 0
          /\ recv' = [recv EXCEPT ![receiver].st = "done"]
          /\ UNCHANGED frame
  /\ UNCHANGED <<ring, shmName, sinkUp, src, initialized, event, armed, made, old, calls,
                 starts, srcVars, out>>

\* A receiver's thread reads a frame ...
TakeFrame(i) ==
  LET p == recv[i].preview IN
  /\ sinkUp
  /\ recv[i].st = "reading"
  /\ frame[p].r /\ frame[p].full /\ ~frame[p].lost
  /\ frame' = [frame EXCEPT ![p].full = FALSE]
  /\ UNCHANGED <<ring, shmName, sinkUp, src, sinkVars, srcVars, pc, out>>

\* ... or ends with the first -1.  It cannot see its end closed while the lock
\* of the only block is lost, unless both ends are.
ReceiverEnds(i) ==
  LET p == recv[i].preview IN
  /\ sinkUp
  /\ recv[i].st = "reading"
  /\ ~frame[p].r
  /\ frame[p].lost => ~frame[p].w
  /\ recv' = [recv EXCEPT ![i].st = "done"]
  /\ \E loses \in BOOLEAN : frame' = [frame EXCEPT ![p].lost = @ \/ loses]
  /\ UNCHANGED <<ring, shmName, sinkUp, src, initialized, event, armed, receiver, made,
                 old, calls, starts, srcVars, pc, out>>

----------------------------------------------------------------------------
(* The source: the main thread *)

\* initialize: connect opens the source's ends ...
Connect ==
  /\ At("main", "connect")
  /\ ring' = [ring EXCEPT !["cmd"].r = TRUE, !["evt"].w = TRUE]
  /\ Goto("main", "engine")
  /\ UNCHANGED <<frame, shmName, sinkUp, src, sinkVars, srcVars, out>>

\* ... and the engine starts, or fails to: main runs the message loop anyway.
\* (m_initialized is set behind the send; main looks at it only later.)
StartEngine ==
  /\ At("main", "engine")
  /\ \/ srcInit' = TRUE /\ Send("main", "SOURCE_READY")
     \/ EngineMayFail /\ Goto("main", "read") /\ UNCHANGED <<srcInit, out>>
  /\ UNCHANGED <<ring, frame, shmName, sinkUp, src, sinkVars, sender, previews, canvas,
                 mutex, writing, events>>

\* What m_ipcSender.reset does to its frame channel.
SenderGone == IF shmName = 0 THEN frame ELSE [frame EXCEPT ![shmName].w = FALSE]

\* read returns message m.
MainRead(m) ==
  /\ At("main", "read")
  /\ ring["cmd"].r
  /\ ring["cmd"].q # <<>>
  /\ m = Head(ring["cmd"].q)
  /\ UNCHANGED <<sinkUp, src, sinkVars, srcInit, previews, mutex, writing, events, out>>

TakeCmd == [ring EXCEPT !["cmd"].q = Tail(@)]

\* Without m_initialized, onMessage drops every message, DISCONNECT too.
MainCommand ==
  /\ \E m \in Messages : MainRead(m) /\ (srcInit => m = "CMD")
  /\ ring' = TakeCmd
  /\ UNCHANGED <<frame, shmName, sender, canvas, pc>>

\* startPreview frees the sender before, without the mutex ...
MainStartPreview ==
  /\ MainRead("START_PREVIEW") /\ srcInit
  /\ ring' = TakeCmd
  /\ frame' = SenderGone /\ shmName' = 0 /\ sender' = previews + 1
  /\ Goto("main", "create")
  /\ UNCHANGED canvas

\* stopPreview takes the canvas away ...
MainStopPreview ==
  /\ MainRead("STOP_PREVIEW") /\ srcInit
  /\ ring' = TakeCmd
  /\ canvas' = FALSE
  /\ Goto("main", "stopLock")
  /\ UNCHANGED <<frame, shmName, sender>>

\* Mutant of ExitEnds: the reading end stays open.
ExitHalf(rg) == [rg EXCEPT !["evt"].w = FALSE]

\* exit frees the sender without the mutex, and closes the source's ends.
ExitEnds(rg) == [rg EXCEPT !["cmd"].r = FALSE, !["evt"].w = FALSE]

\* Mutant of MainDisconnect: exit takes the mutex, as it did once.
MainDisconnectLocked ==
  /\ MainRead("DISCONNECT") /\ srcInit
  /\ ~mutex
  /\ ring' = ExitEnds(TakeCmd)
  /\ frame' = SenderGone /\ shmName' = 0 /\ sender' = 0
  /\ UNCHANGED <<canvas, pc>>

MainDisconnect ==
  /\ MainRead("DISCONNECT") /\ srcInit
  /\ ring' = ExitEnds(TakeCmd)
  /\ frame' = SenderGone /\ shmName' = 0 /\ sender' = 0
  /\ UNCHANGED <<canvas, pc>>

\* ... and makes the frame channel, sets the canvas and replies.
CreateSender ==
  /\ At("main", "create")
  /\ previews' = previews + 1
  /\ frame' = [frame EXCEPT ![previews + 1].w = TRUE]
  /\ shmName' = previews + 1
  /\ canvas' = TRUE
  /\ Send("main", "START_COMPLETE")
  /\ UNCHANGED <<ring, sinkUp, src, sinkVars, srcInit, sender, mutex, writing, events>>

\* Mutant of FreeSender: STOP_COMPLETE is not sent.
FreeSenderQuietly ==
  /\ At("main", "stopLock")
  /\ ~mutex
  /\ frame' = SenderGone /\ shmName' = 0 /\ sender' = 0
  /\ Goto("main", "read")
  /\ UNCHANGED <<ring, sinkUp, src, sinkVars, srcInit, previews, canvas, mutex, writing,
                 events, out>>

\* ... and frees the sender under the mutex.
FreeSender ==
  /\ At("main", "stopLock")
  /\ ~mutex
  /\ frame' = SenderGone /\ shmName' = 0 /\ sender' = 0
  /\ Send("main", "STOP_COMPLETE")
  /\ UNCHANGED <<ring, sinkUp, src, sinkVars, srcInit, previews, canvas, mutex, writing,
                 events>>

\* read returns -1, and the process ends.
MainEnd ==
  /\ At("main", "read")
  /\ ReadEnds("cmd")
  /\ src' = "gone"
  /\ frame' = SenderGone /\ shmName' = 0
  /\ UNCHANGED <<ring, sinkUp, sinkVars, srcVars, pc, out>>

----------------------------------------------------------------------------
(* The source: the engine's threads, and the monitor of the sink *)

\* JOIN_SUCCESS, LEAVE_CHANNEL, RENEW_TOKEN or RENDER_READY.
EngineEvent ==
  /\ At("eng", "idle")
  /\ srcInit
  /\ events < MaxEvents
  /\ events' = events + 1
  /\ Send("eng", "EVENT")
  /\ UNCHANGED <<ring, frame, shmName, sinkUp, src, sinkVars, srcInit, sender, previews,
                 canvas, mutex, writing>>

\* sendData takes the mutex and enters write ...
BeginFrame ==
  /\ At("ren", "idle")
  /\ canvas
  /\ ~mutex
  /\ sender # 0
  /\ mutex' = TRUE
  /\ writing' = sender
  /\ Goto("ren", "write")
  /\ UNCHANGED <<ring, frame, shmName, sinkUp, src, sinkVars, srcInit, sender, previews,
                 canvas, events, out>>

\* ... which stores the frame when the block is empty, or returns -1 when the
\* writing end is closed, if it can see that.
EndFrame ==
  /\ At("ren", "write")
  /\ writing <= previews
  /\ LET f == frame[writing] IN
       \/ /\ f.w /\ ~f.full /\ ~f.lost
          /\ frame' = [frame EXCEPT ![writing].full = TRUE]
       \/ /\ ~f.w /\ (f.lost => ~f.r)
          /\ UNCHANGED frame
  /\ mutex' = FALSE
  /\ Goto("ren", "idle")
  /\ UNCHANGED <<ring, shmName, sinkUp, src, sinkVars, srcInit, sender, previews, canvas,
                 writing, events, out>>

\* The main thread of the source monitors the sink once it is in run, which is
\* after it has sent SOURCE_READY, and exit is called when the sink ends.  (Bound:
\* here and in MonitorFires the read of a monitor does not fail.)
SinkMonitorFires ==
  /\ ~sinkUp /\ src = "up"
  /\ pc["main"] \notin {"connect", "engine"}
  /\ ~(pc["main"] = "send" /\ out["main"] = "SOURCE_READY")
  /\ ring["cmd"].r
  /\ ring' = ExitEnds(ring)
  /\ frame' = SenderGone /\ shmName' = 0 /\ sender' = 0
  /\ UNCHANGED <<sinkUp, src, sinkVars, srcInit, previews, canvas, mutex, writing, events,
                 pc, out>>

----------------------------------------------------------------------------
(***************************************************************************)
(* Deaths.  A process that dies leaves its ends open, and may leave locked *)
(* the blocks its threads were working on.                                 *)
(***************************************************************************)

\* The rings after the death of a process some of whose threads, ts, were in a
\* call on ring c: either lock may be lost.
LoseLocks(onCmd, onEvt) ==
  {[ring EXCEPT !["cmd"].lock = IF l["cmd"] /\ @ = "free" THEN "lost" ELSE @,
                !["evt"].lock = IF l["evt"] /\ @ = "free" THEN "lost" ELSE @] :
     l \in {k \in [Rings -> BOOLEAN] : (k["cmd"] => onCmd) /\ (k["evt"] => onEvt)}}

SourceDies ==
  /\ src = "up"
  /\ src' = "crashed"
  /\ ring' \in LoseLocks(pc["main"] = "read",
                         "send" \in {pc["main"], pc["eng"]})
  /\ \/ UNCHANGED frame
     \/ /\ pc["ren"] = "write" /\ writing \in Previews
        /\ frame' = [frame EXCEPT ![writing].lost = TRUE]
  /\ UNCHANGED <<sinkUp, shmName, sinkVars, srcVars, pc, out>>

SinkDies ==
  /\ sinkUp
  /\ sinkUp' = FALSE
  /\ ring' \in LoseLocks("send" \in {pc["js"], pc["mon"]}, pc["msg"] = "read")
  /\ \/ UNCHANGED frame
     \/ \E i \in Previews :
          /\ recv[i].st = "reading"
          /\ frame' = [frame EXCEPT ![recv[i].preview].lost = TRUE]
  /\ UNCHANGED <<shmName, src, sinkVars, srcVars, pc, out>>

SourceCrash == SourceMayCrash /\ SourceDies

SinkCrash == SinkMayCrash /\ SinkDies

\* ren uses a sender that exit or startPreview freed, or that startPreview has
\* not initialized yet.
SenderFault == At("ren", "write") /\ writing # shmName /\ SourceDies

\* msgThread initializes a receiver that clear has freed: a null pointer.
ReceiverFault == At("msg", "open") /\ receiver = 0 /\ SinkDies

----------------------------------------------------------------------------
SendStep(t) == Deliver(t) \/ DrawLostBlock(t) \/ Drop(t)

ClearStep(t) ==
  ClearUnset(t) \/ ResetReceiver(t) \/ JoinReceiver(t) \/ SendStep(t)
    \/ ClearCloseEvt(t) \/ ClearCloseCmd(t) \/ ClearJoin(t)

JsStep == InitReady \/ InitDone \/ ClearStep("js")

MonStep == MonitorFires \/ ClearStep("mon")

MsgStep ==
  MsgRead \/ MsgEnd \/ ResetReceiver("msg") \/ JoinReceiver("msg")
    \/ RenewReceiver \/ OpenReceiver \/ ReceiverFault

RecvStep(i) == TakeFrame(i) \/ ReceiverEnds(i)

MainStep ==
  Connect \/ StartEngine \/ MainCommand \/ MainStartPreview \/ MainStopPreview
    \/ MainDisconnect \/ CreateSender \/ FreeSender \/ MainEnd \/ SendStep("main")

RenStep == EndFrame \/ SenderFault

Next ==
  \/ JsStep \/ InitTimeout \/ Command \/ StartPreview \/ StopPreview \/ ReleaseCall
  \/ MonStep
  \/ MsgStep
  \/ \E i \in Previews : RecvStep(i)
  \/ MainStep
  \/ EngineEvent \/ SendStep("eng")
  \/ BeginFrame \/ RenStep
  \/ SinkMonitorFires
  \/ SourceCrash \/ SinkCrash

(***************************************************************************)
(* Every thread that is inside a call or a loop goes on, and initialize    *)
(* ends by its timeout.  JavaScript need not call anything, the engine     *)
(* need not report events or render frames, and nobody need crash.         *)
(***************************************************************************)
Fairness ==
  /\ WF_vars(JsStep) /\ WF_vars(InitTimeout)
  /\ WF_vars(MonStep)
  /\ WF_vars(MsgStep)
  /\ \A i \in Previews : WF_vars(RecvStep(i))
  /\ WF_vars(MainStep)
  /\ WF_vars(SendStep("eng"))
  /\ WF_vars(RenStep)
  /\ WF_vars(SinkMonitorFires)

Spec == Init /\ [][Next]_vars

FairSpec == Spec /\ Fairness

----------------------------------------------------------------------------
(* Properties *)

RingOK(c) ==
  /\ c.q \in Seq(Messages) /\ Len(c.q) <= RingSize
  /\ c.w \in BOOLEAN /\ c.r \in BOOLEAN
  /\ c.lock \in {"free", "lost"} \cup Senders

TypeOK ==
  /\ \A c \in Rings : RingOK(ring[c])
  /\ frame \in [Previews -> [full : BOOLEAN, w : BOOLEAN, r : BOOLEAN, lost : BOOLEAN]]
  /\ shmName \in PreviewRefs
  /\ {sinkUp, initialized, event, armed, srcInit, canvas, mutex} \subseteq BOOLEAN
  /\ src \in {"up", "gone", "crashed"}
  /\ receiver \in PreviewRefs
  /\ recv \in [Previews -> [st : {"none", "new", "reading", "done"}, preview : PreviewRefs]]
  /\ made \in PreviewRefs
  /\ {sender, writing, previews} \subseteq PreviewRefs
  /\ pc \in [Threads -> PcNames]
  /\ out \in [Senders -> Messages]
  /\ old \in [SinkThreads -> PreviewRefs]
  /\ calls \in 0 .. MaxCalls /\ starts \in PreviewRefs /\ events \in 0 .. MaxEvents

InClear(t) ==
  \/ pc[t] \in {"unset", "reset", "joinRecv", "closeEvt", "closeCmd", "joinMsg"}
  \/ pc[t] = "send" /\ out[t] = "DISCONNECT"

\* clear is not reentrant: it joins m_msgThread and frees m_ipcReceiver.  While
\* the source does not crash, JavaScript's release and the monitor's
\* destroyVideoSource are never in it together.
OneClear == ~(InClear("js") /\ InClear("mon"))

\* deliverFrame copies every frame into the one m_backBuf, so there is at most
\* one receiver thread; and onStartPreviewComplete never finds its receiver
\* freed by another thread.
OneReceiver ==
  /\ \A i, k \in Previews : recv[i].st = "reading" /\ recv[k].st = "reading" => i = k
  /\ pc["msg"] = "open" => receiver # 0

\* When release returns, no thread of the session is left in the sink, and the
\* source will not find an open end to talk to.
ReleasedClean ==
  sinkUp /\ pc["js"] = "released" =>
    /\ pc["msg"] = "done"
    /\ receiver = 0 /\ \A i \in Previews : recv[i].st # "reading"
    /\ ~ring["evt"].r /\ ~ring["cmd"].w

\* release returns, and so does an initialize that fails, even if the source is
\* stuck; unless the cmd ring is full, when sendMessage waits for the source.
ReleaseReturns ==
  InClear("js") ~> \/ pc["js"] = "released"
                   \/ ~sinkUp
                   \/ Len(ring["cmd"].q) = RingSize

\* The source process ends after a release that JavaScript calls when its last
\* preview call took effect, with or without a running preview: exit frees the
\* sender without m_ipcSenderMutex, which the render thread may never give back
\* ("fix CSD-8509").
PatientRelease ==
  Patient /\ pc["js"] = "unset" /\ initialized ~> src # "up" \/ ~sinkUp

\* A stopPreview that is not refused ends the preview on both sides, unless
\* the session ends.
Stopping == pc["js"] = "send" /\ out["js"] = "STOP_PREVIEW"

StopTakesEffect ==
  /\ Stopping ~> sender = 0 \/ src # "up" \/ ~initialized
  /\ Stopping ~> receiver = 0 \/ src # "up" \/ ~initialized

\* The source process ends after every release.
SourceExits == InClear("js") /\ src = "up" ~> src # "up" \/ ~sinkUp

LocksFree ==
  /\ \A c \in Rings : ring[c].lock = "free"
  /\ \A p \in Previews : ~frame[p].lost

\* The sink tears the session down when the source dies and the monitor has
\* still to report it; unless a lock died with the source, or the cmd ring is
\* full, so that clear cannot send its DISCONNECT.
CrashTearsDown ==
  src = "crashed" /\ initialized /\ pc["mon"] = "idle" /\ LocksFree
    ~> \/ ~initialized /\ pc["msg"] = "done"
       \/ ~sinkUp
       \/ Len(ring["cmd"].q) = RingSize

\* The source process ends when the sink dies, unless a lock died with it.
SinkLossEndsSource == ~sinkUp /\ LocksFree ~> src # "up"

=============================================================================
