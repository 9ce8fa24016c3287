--------------------------- MODULE SourceCommands ---------------------------
(***************************************************************************)
(* The video source as JavaScript uses it: one sink                        *)
(* (agora_node_ext/agora_video_source.cpp) that lives as long as the       *)
(* engine object, the VideoSource processes it starts one after the other, *)
(* the monitor of each of them, and what the commands carry.               *)
(*                                                                         *)
(* VideoSourceSession has the threads, rings and locks inside one session. *)
(* Here the steps of clear and of the message handlers are coarser; what   *)
(* is finer is what outlives a session (m_event, m_peerJoined, the         *)
(* monitors, the events still to be given to JavaScript) and the bytes of  *)
(* a message.  A ring is a bounded queue, as ShmChannel shows, with what   *)
(* does not fit a queue: the lock of a block that died with its owner or   *)
(* was left taken by a read that failed, and a block that is never filled. *)
(*                                                                         *)
(* A payload is a sequence of cells.  A cell stands for some bytes, NUL    *)
(* for the end of a string.                                                *)
(***************************************************************************)
EXTENDS Naturals, Sequences, FiniteSets

CONSTANTS
  MaxSessions,  \* bound: how often initialize starts a source
  Used,         \* bound: the first commands JavaScript may give, the second ones, and so on
  Few,          \* bound: the commands in all when anything disturbs them
  MayCrash,     \* a source process may die at any moment
  MayMisread,   \* the read of a monitor may fail or be interrupted
  RingSize,     \* VIDEO_SOURCE_BLOCK_NUM (10 in the code)
  Strings,      \* tokens, file names and parameters: sequences of cells
  Structs,      \* the bytes of plain structs and values: sequences of cells
  BadProfiles,  \* those of a VideoProfileCmd above LANDSCAPE_4K_3
  NUL,          \* the cell that ends a string
  Fresh,        \* what a cell of the source's new readBuf may hold
  Garbage,      \* what m_peerJoined, which no constructor sets, may hold at first
  Field         \* MAX_TOKEN_LEN in cells

Sessions == 1 .. MaxSessions
Cells == UNION {{str[i] : i \in DOMAIN str} : str \in Strings \cup Structs}

\* Commands with a string, commands with a plain struct or value, and those
\* without a payload.
StringCommands == {"JOIN", "RENEW_TOKEN", "SET_LOGFILE", "SET_PARAMETER"}
ValueCommands == {"SET_VIDEO_PROFILE", "CAPTURE_SCREEN"}
PlainCommands == {"LEAVE_CHANNEL", "DISCONNECT"}

Commands ==
  [cmd : StringCommands, arg : Strings]
    \cup [cmd : ValueCommands, arg : Structs]
    \cup [cmd : PlainCommands, arg : {<<>>}]

ASSUME CommandsAssumption ==
  /\ Used \in Seq(SUBSET Commands) /\ Few \in Nat
  /\ MaxSessions \in Nat \ {0} /\ Field \in Nat \ {0}
  /\ RingSize \in Nat \ {0, 1}
  /\ Fresh # {} /\ {MayCrash, MayMisread} \subseteq BOOLEAN
  /\ Garbage \in (SUBSET BOOLEAN) \ {{}}
  /\ \A str \in Strings \cup Structs :
       str \in Seq(Cells) /\ str # <<>> /\ Len(str) <= Field
  /\ \A str \in Strings : \A i \in DOMAIN str : str[i] # NUL
  /\ BadProfiles \subseteq Structs

VARIABLES
  \* the sink
  session,      \* the session of m_ipcMsg: how many were started
  initialized,  \* m_initialized
  event,        \* m_event
  peerJoined,   \* m_peerJoined
  pc,           \* the JavaScript thread
  open,         \* each session: the sink's ends of its rings are open
  cmdLock,      \* each session: the lock of the cmd block that is used next
  evtLock,      \* each session: the lock of the evt block that is used next
  mon,          \* each session: the monitor of its source
  jsq,          \* the exit events posted to the JavaScript thread: whose source ended
  asked,        \* each session: the commands JavaScript gave that were not refused
  late,         \* each session: earlier monitors that were not done at its start
  \* the sources
  src,          \* each session: its VideoSource process
  cmd, evt,     \* each session: its two rings
  buf,          \* each session: readBuf of the source's run
  engine,       \* each session: what onMessage made of the source's messages
  chan          \* each session: whether this engine is in a channel

sinkVars == <<session, initialized, event, peerJoined, pc, open, mon, jsq, asked, late>>
srcVars == <<src, cmd, evt, buf, engine, chan>>
locks == <<cmdLock, evtLock>>
vars == <<sinkVars, srcVars, locks>>

BufLen == Field + 2

Init ==
  /\ session = 0
  /\ initialized = FALSE /\ event = FALSE
  /\ peerJoined \in Garbage
  /\ pc = "idle"
  /\ open = [s \in Sessions |-> FALSE]
  /\ cmdLock = [s \in Sessions |-> "free"] /\ evtLock = [s \in Sessions |-> "free"]
  /\ mon = [s \in Sessions |-> "off"]
  /\ jsq = <<>>
  /\ asked = [s \in Sessions |-> <<>>]
  /\ late = [s \in Sessions |-> {}]
  /\ src = [s \in Sessions |-> "none"]
  /\ cmd = [s \in Sessions |-> <<>>] /\ evt = [s \in Sessions |-> <<>>]
  /\ \E c \in Fresh : buf = [s \in Sessions |-> [i \in 1 .. BufLen |-> c]]
  /\ engine = [s \in Sessions |-> <<>>]
  /\ chan = [s \in Sessions |-> "out"]

----------------------------------------------------------------------------
(* What a command carries *)

\* Mutant of Padded: memcpy of strlen bytes into a field nobody cleared.
PaddedNot(str, n) == [i \in 1 .. n |-> IF i <= Len(str) THEN str[i] ELSE str[1]]

\* strncpy into a field of n cells: it fills what the string leaves with zeros.
Padded(str, n) == [i \in 1 .. n |-> IF i <= Len(str) THEN str[i] ELSE NUL]

\* The bytes after the header.  A token and a file name are sent with strlen,
\* without their end; the channel name follows the token of JoinChannelCmd.  No
\* plain struct is longer than a token's field.
Payload(c) ==
  CASE c.cmd = "JOIN" -> Padded(c.arg, Field) \o <<c.arg[1], NUL>>
    [] c.cmd = "SET_PARAMETER" -> Padded(c.arg, Field + 1)
    [] OTHER -> c.arg

\* read copies a message into readBuf, over what the last one left there.
Received(b, data) == [i \in 1 .. BufLen |-> IF i <= Len(data) THEN data[i] ELSE b[i]]

\* The string that starts with the first cell of b.
StringAt(b) ==
  LET n == CHOOSE k \in 0 .. Len(b) :
             /\ \A i \in 1 .. k : b[i] # NUL
             /\ k = Len(b) \/ b[k + 1] = NUL
  IN SubSeq(b, 1, n)

NoCall == [cmd |-> "NONE", arg |-> <<>>]

\* Mutant of EngineCall: a profile that is out of range is only logged.
EngineCallAnyway(m, b) ==
  [cmd |-> m.cmd,
   arg |-> IF m.cmd \in StringCommands THEN StringAt(b) ELSE SubSeq(b, 1, Len(m.data))]

\* What onMessage makes of message m, with b in readBuf: a call of the engine, or
\* none for a video profile that is out of range.
EngineCall(m, b) ==
  LET struct == SubSeq(b, 1, Len(m.data)) IN
  IF m.cmd = "SET_VIDEO_PROFILE" /\ struct \in BadProfiles
  THEN NoCall
  ELSE [cmd |-> m.cmd, arg |-> IF m.cmd \in StringCommands THEN StringAt(b) ELSE struct]

----------------------------------------------------------------------------
(***************************************************************************)
(* The sink: sendMessage and clear, by the JavaScript thread or a monitor. *)
(* A lock of the cmd ring is "lost" when its owner died in a read, and     *)
(* "drawn" when a sender waits for it; a lock of the evt ring is "lost" in *)
(* a death, too, or "kept" by the read of msgThread that failed.           *)
(***************************************************************************)

\* The sender's block still holds a message, or is the one a sender waits for.
Full == Len(cmd[session]) >= IF cmdLock[session] = "drawn" THEN RingSize - 1 ELSE RingSize

\* The sender's block is the one whose lock is lost.
AtLostBlock == cmdLock[session] = "lost" /\ Len(cmd[session]) \in {0, RingSize}

\* sendMessage writes m when the block is free; it does not look at the other
\* end ...
Stores(m) ==
  /\ open[session] /\ ~Full /\ ~AtLostBlock
  /\ cmd' = [cmd EXCEPT ![session] = Append(@, m)]
  /\ UNCHANGED cmdLock

\* ... spins for a lock that nobody gives back, for as long as the dead source's
\* end counts as open, which is for ever ...
Spins ==
  /\ open[session] /\ AtLostBlock
  /\ cmdLock' = [cmdLock EXCEPT ![session] = "drawn"]

\* ... or does nothing once its own end is closed.
Bye == [cmd |-> "DISCONNECT", data |-> <<>>]

SendsBye == Stores(Bye) \/ (~open[session] /\ UNCHANGED <<cmd, cmdLock>>)

\* msgThread waits inside read for a lock that died with the source.
MsgStuck == evtLock[session] = "lost" /\ evt[session] = <<>>

\* What closing the evt ring makes of its lock.  The read that ends keeps it, and
\* if the source still starts, SOURCE_READY is written there next.  (Of a later
\* source only a report of the engine would wait.)
EvtLocks ==
  IF MsgStuck \/ ~open[session] THEN {evtLock[session]}
  ELSE {"free"} \cup IF src[session] = "starting" THEN {"kept"} ELSE {}

\* disconnect closes both ends, and msgThread ends and is joined, unless it is
\* stuck.
Closes ==
  /\ open' = [s \in Sessions |-> FALSE]
  /\ evt' = [s \in Sessions |-> <<>>]
  /\ \E lock \in EvtLocks : evtLock' = [evtLock EXCEPT ![session] = lock]

----------------------------------------------------------------------------
(* The sink: initialize and release *)

Given ==
  Cardinality({g \in Sessions \X (1 .. Len(Used)) : g[2] <= Len(asked[g[1]])})

\* Bound: behind more commands no source dies, no read of a monitor fails, and
\* no other session starts ...
OnlyFew == Given <= Few

\* ... and behind any of these there are no more commands.
Disturbed == session # 1 \/ mon[session] # "armed" \/ src[session] = "ended"

\* initialize, unless m_initialized, calls clear.  It finds open ends only while
\* a monitor is about to close them.  (Bound: no monitor is stuck in clear, whose
\* ring initialize would free under it.)
InitClears ==
  /\ pc = "idle"
  /\ ~initialized
  /\ session # 0 /\ session < MaxSessions /\ OnlyFew
  /\ open[session]
  /\ \A s \in Sessions : mon[s] # "stuck"
  /\ pc' = "rest"
  /\ UNCHANGED <<session, initialized, event, peerJoined, open, mon, jsq, asked, late,
                 srcVars, locks>>

\* Mutant of Initialize: it does not call clear.
InitializeOver ==
  /\ pc = "idle"
  /\ ~initialized
  /\ session < MaxSessions /\ OnlyFew
  /\ session' = session + 1
  /\ pc' = "waiting"
  /\ open' = [open EXCEPT ![session + 1] = TRUE]
  /\ src' = [src EXCEPT ![session + 1] = "starting"]
  /\ late' = [late EXCEPT ![session + 1] = {s \in 1 .. session : mon[s] \notin {"off", "done"}}]
  /\ UNCHANGED <<initialized, event, peerJoined, mon, jsq, asked, cmd, evt, buf, engine, chan,
                 locks>>

\* With the ends closed, it makes new rings, msgThread, and a source.
Initialize ==
  /\ pc = "idle"
  /\ ~initialized
  /\ session < MaxSessions /\ OnlyFew
  /\ \A s \in Sessions : ~open[s] /\ mon[s] # "stuck"
  /\ session' = session + 1
  /\ pc' = "waiting"
  /\ open' = [open EXCEPT ![session + 1] = TRUE]
  /\ src' = [src EXCEPT ![session + 1] = "starting"]
  /\ late' = [late EXCEPT ![session + 1] = {s \in 1 .. session : mon[s] \notin {"off", "done"}}]
  /\ UNCHANGED <<initialized, event, peerJoined, mon, jsq, asked, cmd, evt, buf, engine, chan,
                 locks>>

\* Mutant of InitReady: the result of WaitFor is not looked at.
InitAnyway ==
  /\ pc = "waiting"
  /\ mon' = [mon EXCEPT ![session] = "armed"]
  /\ pc' = "arming"
  /\ UNCHANGED <<session, initialized, event, peerJoined, open, jsq, asked, late, srcVars,
                 locks>>

\* WaitFor finds m_event set, perhaps by the source of an earlier session, and
\* the monitor starts ...
InitReady ==
  /\ pc = "waiting"
  /\ event
  /\ mon' = [mon EXCEPT ![session] = "armed"]
  /\ pc' = "arming"
  /\ UNCHANGED <<session, initialized, event, peerJoined, open, jsq, asked, late, srcVars,
                 locks>>

\* ... and initialize returns true.
InitDone ==
  /\ pc = "arming"
  /\ initialized' = TRUE
  /\ pc' = "idle"
  /\ UNCHANGED <<session, event, peerJoined, open, mon, jsq, asked, late, srcVars, locks>>

\* Five seconds are over: initialize calls clear and returns false.
InitTimeout ==
  /\ pc = "waiting"
  /\ ~event
  /\ pc' = "rest"
  /\ UNCHANGED <<session, initialized, event, peerJoined, open, mon, jsq, asked, late,
                 srcVars, locks>>

\* release, or the destructor, calls clear: m_initialized first ...
Release ==
  /\ pc = "idle"
  /\ initialized
  /\ initialized' = FALSE
  /\ pc' = "rest"
  /\ UNCHANGED <<session, event, peerJoined, open, mon, jsq, asked, late, srcVars, locks>>

\* ... then it sends DISCONNECT ...
ClearSends ==
  /\ pc = "rest"
  /\ SendsBye
  /\ pc' = "closing"
  /\ UNCHANGED <<session, initialized, event, peerJoined, open, mon, jsq, asked, late, src,
                 evt, buf, engine, chan, evtLock>>

\* ... and closes.
ClearCloses ==
  /\ pc = "closing"
  /\ Closes
  /\ pc' = IF MsgStuck THEN "stuck" ELSE "idle"
  /\ UNCHANGED <<session, initialized, event, peerJoined, mon, jsq, asked, late, src,
                 cmd, buf, engine, chan, cmdLock>>

\* The JavaScript thread is caught in sendMessage.
JsSpins ==
  /\ pc \in {"sending", "rest"}
  /\ Spins
  /\ pc' = "stuck"
  /\ UNCHANGED <<session, initialized, event, peerJoined, open, mon, jsq, asked, late,
                 srcVars, evtLock>>

----------------------------------------------------------------------------
(* The sink: commands *)

\* Mutant of Accepts: the capture calls look at m_initialized only.
AcceptsUnjoined(c) == initialized

\* The checks of the commands; the others return node_status_error.
Accepts(c) == initialized /\ (c.cmd = "CAPTURE_SCREEN" => peerJoined)

MessageOf(c) == [cmd |-> c.cmd, data |-> Payload(c)]

\* A command that is not refused goes to sendMessage, which returns at once when
\* the end is closed.
Command(c) ==
  /\ pc = "idle"
  /\ Accepts(c)
  /\ Given < IF Disturbed THEN Few ELSE Len(Used)
  /\ c \in Used[Given + 1]
  /\ asked' = [asked EXCEPT ![session] = Append(@, c)]
  /\ pc' = IF open[session] THEN "sending" ELSE "idle"
  /\ UNCHANGED <<session, initialized, event, peerJoined, open, mon, jsq, late, srcVars,
                 locks>>

\* The call returns node_ok when the ring has the message ...
CommandSent ==
  /\ pc = "sending"
  /\ Stores(MessageOf(asked[session][Len(asked[session])]))
  /\ pc' = "idle"
  /\ UNCHANGED <<session, initialized, event, peerJoined, open, mon, jsq, asked, late, src,
                 evt, buf, engine, chan, evtLock>>

\* ... and when a monitor has closed the end meanwhile.  What the monitor wrote
\* into later blocks, its DISCONNECT, the source then does not reach: it waits at
\* the block of this command.
CommandDropped ==
  /\ pc = "sending"
  /\ ~open[session]
  /\ \E n \in 0 .. Len(cmd[session]) :
       /\ \A i \in n + 1 .. Len(cmd[session]) : cmd[session][i] = Bye
       /\ cmd' = [cmd EXCEPT ![session] = SubSeq(@, 1, n)]
  /\ pc' = "idle"
  /\ UNCHANGED <<session, initialized, event, peerJoined, open, mon, jsq, asked, late, src,
                 evt, buf, engine, chan, locks>>

----------------------------------------------------------------------------
(* The sink: msgThread, the monitors, and the events for JavaScript *)

MsgRead(m) ==
  /\ session # 0
  /\ open[session]
  /\ evt[session] # <<>>
  /\ m = Head(evt[session])
  /\ evt' = [evt EXCEPT ![session] = Tail(@)]
  /\ UNCHANGED <<session, initialized, pc, open, mon, jsq, asked, late, src, cmd, buf,
                 engine, chan, locks>>

\* SOURCE_READY sets the event, also when it comes late.
MsgReady ==
  /\ MsgRead("SOURCE_READY")
  /\ event' = TRUE
  /\ UNCHANGED peerJoined

MsgJoined ==
  /\ MsgRead("JOIN_SUCCESS")
  /\ peerJoined' = (initialized \/ peerJoined)
  /\ UNCHANGED event

\* The end of the channel changes nothing: m_peerJoined stays set.
MsgLeft ==
  /\ MsgRead("LEAVE_CHANNEL")
  /\ UNCHANGED <<event, peerJoined>>

\* Mutant of MonitorFires: the end of any source is taken for its own.
MonitorFiresForAny(s) ==
  /\ mon[s] = "armed"
  /\ \E r \in Sessions : src[r] = "ended"
  /\ jsq' = Append(jsq, s)
  /\ mon' = [mon EXCEPT ![s] = "told"]
  /\ UNCHANGED <<session, initialized, event, peerJoined, pc, open, asked, late, srcVars,
                 locks>>

\* Mutant of MonitorFires: the end of a source after release is not reported.
MonitorFiresQuietly(s) ==
  /\ mon[s] = "armed"
  /\ src[s] = "ended"
  /\ initialized
  /\ jsq' = Append(jsq, s)
  /\ mon' = [mon EXCEPT ![s] = "told"]
  /\ UNCHANGED <<session, initialized, event, peerJoined, pc, open, asked, late, srcVars,
                 locks>>

\* The monitor's read returns when the source ends: onVideoSourceExit posts an
\* event ...
MonitorFires(s) ==
  /\ mon[s] = "armed"
  /\ src[s] = "ended"
  /\ jsq' = Append(jsq, s)
  /\ mon' = [mon EXCEPT ![s] = "told"]
  /\ UNCHANGED <<session, initialized, event, peerJoined, pc, open, asked, late, srcVars,
                 locks>>

\* ... and so it does when read fails or a signal interrupts it: what it returns
\* is not looked at ...
MonitorMisreads(s) ==
  /\ MayMisread /\ OnlyFew
  /\ mon[s] = "armed"
  /\ src[s] # "ended"
  /\ jsq' = Append(jsq, s)
  /\ mon' = [mon EXCEPT ![s] = "misled"]
  /\ UNCHANGED <<session, initialized, event, peerJoined, pc, open, asked, late, srcVars,
                 locks>>

\* ... and it releases the sink, whichever session it is in by now ...
MonitorReleases(s) ==
  /\ mon[s] \in {"told", "misled"}
  /\ initialized' = FALSE
  /\ mon' = [mon EXCEPT ![s] = IF initialized THEN "rest" ELSE "done"]
  /\ UNCHANGED <<session, event, peerJoined, pc, open, jsq, asked, late, srcVars, locks>>

\* ... as Release does.
MonitorSends(s) ==
  /\ mon[s] = "rest"
  /\ SendsBye
  /\ mon' = [mon EXCEPT ![s] = "closing"]
  /\ UNCHANGED <<session, initialized, event, peerJoined, pc, open, jsq, asked, late, src, evt,
                 buf, engine, chan, evtLock>>

MonitorCloses(s) ==
  /\ mon[s] = "closing"
  /\ Closes
  /\ mon' = [mon EXCEPT ![s] = IF MsgStuck THEN "stuck" ELSE "done"]
  /\ UNCHANGED <<session, initialized, event, peerJoined, pc, jsq, asked, late, src, cmd, buf,
                 engine, chan, cmdLock>>

MonitorSpins(s) ==
  /\ mon[s] = "rest"
  /\ Spins
  /\ mon' = [mon EXCEPT ![s] = "stuck"]
  /\ UNCHANGED <<session, initialized, event, peerJoined, pc, open, jsq, asked, late, srcVars,
                 evtLock>>

\* The JavaScript thread runs the handlers of an event.
JsEvent ==
  /\ pc = "idle"
  /\ jsq # <<>>
  /\ jsq' = Tail(jsq)
  /\ UNCHANGED <<session, initialized, event, peerJoined, pc, open, mon, asked, late,
                 srcVars, locks>>

----------------------------------------------------------------------------
(* The sources *)

\* What sendMessage does to the evt rings, whose end in the sink may be closed.
Told(s, m) == IF open[s] THEN [evt EXCEPT ![s] = Append(@, m)] ELSE evt

\* The process ends, and its readBuf and its engine with it.  Its end of the cmd
\* ring stays open, or nobody asks for it: sendMessage does not.
Ends(s) ==
  /\ src' = [src EXCEPT ![s] = "ended"]
  /\ buf' = [buf EXCEPT ![s] = [i \in 1 .. BufLen |-> NUL]]
  /\ chan' = [chan EXCEPT ![s] = "out"]

\* initialize of the source: it sends SOURCE_READY and handles messages from
\* then on, unless the lock of the block is kept and it stays in sendMessage for
\* ever; or its engine fails and it drops them all; or its sink is gone and it
\* ends.
SourceStart(s) ==
  /\ src[s] = "starting"
  /\ \/ /\ src' = [src EXCEPT ![s] = IF evtLock[s] = "kept" THEN "stuck" ELSE "up"]
        /\ evt' = Told(s, "SOURCE_READY")
        /\ UNCHANGED <<buf, chan>>
     \/ /\ src' = [src EXCEPT ![s] = "failed"]
        /\ UNCHANGED <<evt, buf, chan>>
     \/ /\ ~open[s]
        /\ Ends(s)
        /\ UNCHANGED evt
  /\ UNCHANGED <<sinkVars, cmd, engine, locks>>

\* read returns the oldest message, m.
SourceRead(s, m) ==
  /\ cmd[s] # <<>>
  /\ m = Head(cmd[s])
  /\ cmd' = [cmd EXCEPT ![s] = Tail(@)]
  /\ UNCHANGED <<sinkVars, evt, locks>>

Taken(s, m) == buf' = [buf EXCEPT ![s] = Received(@, m.data)]

Waiting(s) == {cmd[s][i] : i \in DOMAIN cmd[s]}

\* What a call does to the engine's place in the channel.
Moved(name, place) ==
  CASE name = "JOIN" /\ place = "out" -> "joining"
    [] name = "LEAVE_CHANNEL" /\ place # "out" -> "leaving"
    [] OTHER -> place

\* onMessage calls the engine, or does not.
SourceObeys(s) ==
  \E m \in Waiting(s) :
    /\ src[s] = "up"
    /\ m.cmd # "DISCONNECT"
    /\ SourceRead(s, m) /\ Taken(s, m)
    /\ engine' = [engine EXCEPT ![s] = Append(@, EngineCall(m, Received(buf[s], m.data)))]
    /\ chan' = [chan EXCEPT ![s] = Moved(m.cmd, @)]
    /\ UNCHANGED src

\* DISCONNECT: exit closes the rings and the process ends.
SourceExits(s) ==
  \E m \in Waiting(s) :
    /\ src[s] = "up"
    /\ m.cmd = "DISCONNECT"
    /\ SourceRead(s, m) /\ Ends(s)
    /\ UNCHANGED engine


\* Without m_initialized, onMessage drops every message.
SourceDrops(s) ==
  \E m \in Waiting(s) :
    /\ src[s] = "failed"
    /\ SourceRead(s, m) /\ Taken(s, m)
    /\ UNCHANGED <<src, engine, chan>>

\* The RTC engine has joined or left, and the source tells the sink.
EngineReports(s) ==
  /\ src[s] = "up"
  /\ chan[s] \in {"joining", "leaving"}
  /\ chan' = [chan EXCEPT ![s] = IF @ = "joining" THEN "in" ELSE "out"]
  /\ evt' = Told(s, IF chan[s] = "joining" THEN "JOIN_SUCCESS" ELSE "LEAVE_CHANNEL")
  /\ UNCHANGED <<sinkVars, src, cmd, buf, engine, locks>>

\* What a source may be in the middle of when it dies: a read, or a sendMessage.
MayLose(lock, inside) == {lock} \cup IF inside THEN {"lost"} ELSE {}

\* A source process dies (bound: in its session; after it, it ends by DISCONNECT).
\* The locks it holds are lost.
SourceCrash(s) ==
  /\ MayCrash /\ OnlyFew
  /\ open[s]
  /\ src[s] \in {"starting", "up", "failed"}
  /\ Ends(s)
  /\ \E lock \in MayLose(cmdLock[s], src[s] # "starting") :
       cmdLock' = [cmdLock EXCEPT ![s] = lock]
  /\ \E lock \in MayLose(evtLock[s], src[s] = "starting" \/ chan[s] \in {"joining", "leaving"}) :
       evtLock' = [evtLock EXCEPT ![s] = lock]
  /\ UNCHANGED <<sinkVars, cmd, evt, engine>>

----------------------------------------------------------------------------
JsStep ==
  InitReady \/ InitDone \/ InitTimeout \/ ClearSends \/ ClearCloses \/ CommandSent
    \/ CommandDropped \/ JsSpins \/ JsEvent

MsgStep == MsgReady \/ MsgJoined \/ MsgLeft

MonitorStep(s) ==
  MonitorFires(s) \/ MonitorReleases(s) \/ MonitorSends(s) \/ MonitorCloses(s)
    \/ MonitorSpins(s)

SourceStep(s) == SourceStart(s) \/ SourceObeys(s) \/ SourceExits(s) \/ SourceDrops(s)

Next ==
  \/ InitClears \/ Initialize \/ Release \/ \E c \in Commands : Command(c)
  \/ JsStep
  \/ MsgStep
  \/ \E s \in Sessions :
       \/ MonitorStep(s) \/ MonitorMisreads(s)
       \/ SourceStep(s) \/ EngineReports(s) \/ SourceCrash(s)

Spec == Init /\ [][Next]_vars

(***************************************************************************)
(* The JavaScript thread comes back from its calls and runs the events it  *)
(* is sent, and the threads of the sink and the sources go on.  JavaScript *)
(* need not call anything, the RTC engine need not report, no source need  *)
(* crash and no read fail.                                                 *)
(***************************************************************************)
Fairness ==
  /\ WF_vars(JsStep) /\ WF_vars(MsgStep)
  /\ \A s \in Sessions : WF_vars(MonitorStep(s)) /\ WF_vars(SourceStep(s))

FairSpec == Spec /\ Fairness

----------------------------------------------------------------------------
(* Properties *)

Message == {MessageOf(c) : c \in Commands}

\* The types of the variables; and the sink keeps no ends of an earlier session
\* open, whoever ended it.
CommandsTypeOK ==
  /\ session \in 0 .. MaxSessions
  /\ {initialized, event, peerJoined} \subseteq BOOLEAN
  /\ pc \in {"idle", "waiting", "arming", "sending", "rest", "closing", "stuck"}
  /\ open \in [Sessions -> BOOLEAN] /\ \A s \in Sessions : open[s] => s = session
  /\ cmdLock \in [Sessions -> {"free", "lost", "drawn"}]
  /\ evtLock \in [Sessions -> {"free", "lost", "kept"}]
  /\ mon \in [Sessions -> {"off", "armed", "told", "misled", "rest", "closing", "stuck", "done"}]
  /\ jsq \in Seq(Sessions)
  /\ asked \in [Sessions -> Seq(Commands)]
  /\ late \in [Sessions -> SUBSET Sessions]
  /\ src \in [Sessions -> {"none", "starting", "up", "failed", "stuck", "ended"}]
  /\ cmd \in [Sessions -> Seq(Message)] /\ \A s \in Sessions : Len(cmd[s]) <= RingSize
  /\ evt \in [Sessions -> Seq({"SOURCE_READY", "JOIN_SUCCESS", "LEAVE_CHANNEL"})]
  /\ buf \in [Sessions -> [1 .. BufLen -> Cells \cup Fresh \cup {NUL}]]
  /\ chan \in [Sessions -> {"out", "joining", "in", "leaving"}]

\* The engine of a session's source gets the calls JavaScript was told are
\* sent, in their order and no others: not those of another session, and none
\* left out in between but video profiles that are out of range.  What a command
\* carries in a struct is what JavaScript gave, as long as a string leaves room
\* for its end in its field.
Refused(c) == c.cmd = "SET_VIDEO_PROFILE" /\ c.arg \in BadProfiles

Exact(c) ==
  /\ c.cmd \notin {"RENEW_TOKEN", "SET_LOGFILE"}
  /\ c.cmd = "JOIN" => Len(c.arg) < Field

Hears(call, c) ==
  IF Refused(c) THEN call = NoCall
                ELSE call.cmd = c.cmd /\ (Exact(c) => call.arg = c.arg)

EngineHears ==
  \A s \in Sessions :
    /\ Len(engine[s]) <= Len(asked[s])
    /\ \A i \in DOMAIN engine[s] : Hears(engine[s][i], asked[s][i])

\* The token or file name of the i-th command of s is written over nothing
\* longer: since a join whose token fits and is no longer, no longer string
\* was sent.
OverNothingLonger(s, i) ==
  LET arg == asked[s][i].arg IN
  \E j \in 1 .. i - 1 :
    /\ asked[s][j].cmd = "JOIN"
    /\ Len(arg) < Field
    /\ \A k \in j .. i - 1 : Len(asked[s][k].arg) <= Len(arg)

\* A token is renewed with the token JavaScript gave, and a log file is the one
\* it named, though both are sent without their end: JoinChannelCmd has left
\* zeros behind a token that is no longer, and shorter strings keep them.
StringsEnd ==
  \A s \in Sessions : \A i \in DOMAIN engine[s] :
    asked[s][i].cmd \in {"RENEW_TOKEN", "SET_LOGFILE"} /\ OverNothingLonger(s, i)
      => engine[s][i].arg = asked[s][i].arg

\* agora_video_source.h: "To renew video source's token.  @param token : new
\* token".  What the engine is given as its token is a token JavaScript gave.
TokenArrives ==
  \A s \in Sessions : \A i \in DOMAIN engine[s] :
    asked[s][i].cmd = "RENEW_TOKEN" => engine[s][i].arg = asked[s][i].arg

\* The first initialize of a sink returns only when its source has an engine
\* (or had one, and died).  Later ones need not wait: m_event stays set.
FirstIsReady ==
  session = 1 /\ (pc = "arming" \/ initialized) => src[1] \notin {"starting", "failed"}

\* If m_peerJoined is always false at first, the first source is asked to
\* capture the screen only after it was asked to join.
CaptureFollowsJoin ==
  TRUE \notin Garbage =>
    \A i \in DOMAIN engine[1] :
      engine[1][i].cmd = "CAPTURE_SCREEN" =>
        \E j \in 1 .. i - 1 : engine[1][j].cmd = "JOIN"

\* Only JavaScript ends a session whose source is alive, unless the read of its
\* monitor failed, or the monitor of an earlier source had still to finish when
\* the session began.
StaysUp ==
  [][initialized /\ ~initialized' =>
       \/ pc' = "rest"
       \/ src[session] = "ended"
       \/ mon[session] = "misled"
       \/ late[session] # {}]_vars

\* A monitor closed the ring of s without JavaScript, and the source, which is not
\* told to end, has run what was in the ring.
CutOff(s) == ~open[s] /\ cmd[s] = <<>>


\* A thread of the sink is caught in sendMessage or in clear: it spins for a lock
\* or waits for msgThread, or for room in a ring whose source has ended.
Caught ==
  \/ pc = "stuck" \/ \E s \in Sessions : mon[s] = "stuck"
  \/ /\ session # 0 /\ open[session] /\ Full
     /\ src[session] = "ended"
     /\ pc \in {"sending", "rest"} \/ \E s \in Sessions : mon[s] = "rest"

\* JavaScript is told of the end of every source that has its monitor, released
\* or not, and in the sink nothing of the monitor remains; unless a thread of the
\* sink is caught in what a source that died took along.
ExitReported ==
  \A s \in Sessions :
    mon[s] = "armed" /\ src[s] = "ended" ~>
      \/ mon[s] = "done" /\ \A i \in DOMAIN jsq : jsq[i] # s
      \/ Caught
=============================================================================
