--------------------------- MODULE FrameTransporter ---------------------------
(***************************************************************************)
(* How video frames reach JavaScript: NodeVideoFrameTransporter of         *)
(* agora_node_ext/node_napi_api.cpp.  Threads of the engine and of the     *)
(* video source overwrite the one frame kept for their stream.  Two flush  *)
(* threads, for the low and the high rate, post a task each period to the  *)
(* JavaScript thread; the task passes the frames that are new to           *)
(* JavaScript, as array buffers that alias the transporter's own.  A       *)
(* stream whose frame was not new for MissMax periods is forgotten.        *)
(*                                                                         *)
(* m_lock guards the frames.  `init' and `m_stopFlag' are plain variables  *)
(* read without it.  The tasks form a FIFO queue whose members all run:    *)
(* module AsyncQueue.                                                      *)
(*                                                                         *)
(* A frame is its number in its stream.  Its size, the size JavaScript     *)
(* asks for and the frame rates change no step.                            *)
(***************************************************************************)
EXTENDS Naturals, Sequences, Functions

CONSTANTS
  Uids,       \* remote users
  Sources,    \* the streams in use
  MissMax,    \* MAX_MISS_COUNT
  MaxFrames,  \* bound: frames of one stream
  MaxTasks,   \* bound: a flush thread sleeps on while it has so many tasks waiting
  MaxCalls,   \* bound: calls from JavaScript, initialize apart
  MaxInits    \* bound: calls of initialize

LowOnly == {"local", "devTest"}
Streams == Uids \cup LowOnly \cup {"videoSource"}
Classes == {"low", "high"}

ASSUME TransporterAssumption ==
  /\ Uids \cap {"local", "devTest", "videoSource", "js", "free"} = {}
  /\ Sources \subseteq Streams
  /\ {MissMax, MaxFrames, MaxTasks, MaxCalls, MaxInits} \subseteq Nat

VARIABLES
  low,      \* m_remoteVideoFrames, m_localVideoFrame, m_devTestVideoFrame
  high,     \* m_remoteHighVideoFrames, m_videoSourceVideoFrame
  lock,     \* m_lock: "free", "js" or the stream whose thread holds it
  init,     \* init
  stop,     \* m_stopFlag
  flush,    \* the flush threads: "off", "test", "evict", "post"
  deliver,  \* each delivering thread: "idle", "lock", "scale"
  js,       \* "idle", "joinLow", "joinHigh", "start", "draw"
  drawing,  \* the streams whose frames JavaScript draws
  tasks,    \* the flush tasks waiting for the JavaScript thread
  dead,     \* a null pointer was dereferenced: what follows means nothing
  sent,     \* history: the last frame of each stream
  shown,    \* history: the last frame JavaScript drew
  calls, inits

frames == <<low, high>>
threads == <<lock, init, stop, flush, deliver, js, drawing, tasks>>
history == <<sent, shown>>
bounds == <<calls, inits>>
vars == <<frames, threads, dead, history, bounds>>

\* VideoFrameInfo: the number of its frame, whether the buffer holds the whole
\* frame, m_needUpdate and m_count.
Entry == [frame : Nat, whole : BOOLEAN, fresh : BOOLEAN, miss : 0 .. MissMax + 1]

NewInfo == [frame |-> 0, whole |-> TRUE, fresh |-> FALSE, miss |-> 0]

Init ==
  /\ low = [s \in {} |-> NewInfo] /\ high = [s \in {} |-> NewInfo]
  /\ lock = "free"
  /\ init = FALSE /\ stop = FALSE
  /\ flush = [c \in Classes |-> "off"]
  /\ deliver = [s \in Streams |-> "idle"]
  /\ js = "idle" /\ drawing = {}
  /\ tasks = <<>>
  /\ dead = FALSE
  /\ sent = [s \in Streams |-> 0] /\ shown = [s \in Streams |-> 0]
  /\ calls = 0 /\ inits = 0

With(map, s, e) == [t \in DOMAIN map \cup {s} |-> IF t = s THEN e ELSE map[t]]

Without(map, S) == Restrict(map, DOMAIN map \ S)

\* getVideoFrameInfo: the high streams are searched first; who is in neither map
\* is added to the low one.
IsHigh(s) == s = "videoSource" \/ s \in DOMAIN high

Lookup(map, s) == IF s \in DOMAIN map THEN map[s] ELSE NewInfo

Info(s) == IF IsHigh(s) THEN Lookup(high, s) ELSE Lookup(low, s)

SetInfo(s, e) ==
  IF IsHigh(s) THEN high' = With(high, s, e) /\ low' = low
               ELSE low' = With(low, s, e) /\ high' = high

----------------------------------------------------------------------------
(* Delivering threads: deliverFrame_I420 and deliverVideoSourceFrame *)

DeliverCall(s) ==
  /\ deliver[s] = "idle"
  /\ sent[s] < MaxFrames
  /\ init
  /\ deliver' = [deliver EXCEPT ![s] = "lock"]
  /\ UNCHANGED <<frames, lock, init, stop, flush, js, drawing, tasks, dead,
                 history, bounds>>

\* The frame is scaled into the stream's buffer ...
DeliverBegin(s) ==
  /\ deliver[s] = "lock"
  /\ lock = "free"
  /\ lock' = s
  /\ SetInfo(s, [Info(s) EXCEPT !.whole = FALSE])
  /\ deliver' = [deliver EXCEPT ![s] = "scale"]
  /\ UNCHANGED <<init, stop, flush, js, drawing, tasks, dead, history, bounds>>

\* Mutant of DeliverEnd: m_count is not reset.
DeliverEndKeepsCount(s) ==
  /\ deliver[s] = "scale"
  /\ sent' = [sent EXCEPT ![s] = @ + 1]
  /\ SetInfo(s, [frame |-> sent[s] + 1, whole |-> TRUE, fresh |-> TRUE,
                 miss |-> Info(s).miss])
  /\ lock' = "free"
  /\ deliver' = [deliver EXCEPT ![s] = "idle"]
  /\ UNCHANGED <<init, stop, flush, js, drawing, tasks, dead, shown, bounds>>

\* ... and marked new.
DeliverEnd(s) ==
  /\ deliver[s] = "scale"
  /\ sent' = [sent EXCEPT ![s] = @ + 1]
  /\ SetInfo(s, [frame |-> sent[s] + 1, whole |-> TRUE, fresh |-> TRUE, miss |-> 0])
  /\ lock' = "free"
  /\ deliver' = [deliver EXCEPT ![s] = "idle"]
  /\ UNCHANGED <<init, stop, flush, js, drawing, tasks, dead, shown, bounds>>

----------------------------------------------------------------------------
(* Flush threads: FlushVideo and highFlushVideo *)

\* The thread wakes from its sleep and tests m_stopFlag.
FlushTest(c) ==
  /\ flush[c] = "test"
  /\ stop \/ Len(SelectSeq(tasks, LAMBDA t : t = c)) < MaxTasks
  /\ flush' = [flush EXCEPT ![c] = IF stop THEN "off" ELSE "evict"]
  /\ UNCHANGED <<frames, lock, init, stop, deliver, js, drawing, tasks, dead,
                 history, bounds>>

Missed(map, S) == {s \in DOMAIN map \cap S : map[s].miss > MissMax}

\* The frame of the device test goes when the local one was missed; the local
\* one is not tested for null.
TestFrameMissed ==
  "devTest" \in DOMAIN low /\ Missed(low, {"local"}) # {}

EvictLow ==
  /\ flush["low"] = "evict"
  /\ lock = "free"
  /\ low' = Without(low, Missed(low, Uids)
                           \cup (IF TestFrameMissed THEN {"devTest"} ELSE {}))
  /\ dead' = (dead \/ ("devTest" \in DOMAIN low /\ "local" \notin DOMAIN low))
  /\ flush' = [flush EXCEPT !["low"] = "post"]
  /\ UNCHANGED <<high, lock, init, stop, deliver, js, drawing, tasks, history, bounds>>

EvictHigh ==
  /\ flush["high"] = "evict"
  /\ lock = "free"
  /\ high' = Without(high, Missed(high, Streams))
  /\ flush' = [flush EXCEPT !["high"] = "post"]
  /\ UNCHANGED <<low, lock, init, stop, deliver, js, drawing, tasks, dead,
                 history, bounds>>

Post(c) ==
  /\ flush[c] = "post"
  /\ tasks' = Append(tasks, c)
  /\ flush' = [flush EXCEPT ![c] = "test"]
  /\ UNCHANGED <<frames, lock, init, stop, deliver, js, drawing, dead, history, bounds>>

----------------------------------------------------------------------------
(* The JavaScript thread: flush tasks *)

Fresh(map) == {s \in DOMAIN map : map[s].fresh}

\* AddObj for each stream of the map: what is new is no longer so, what is not
\* was missed once more.  (A count beyond MissMax + 1 says no more.)
Collected(map) ==
  [s \in DOMAIN map |->
     IF map[s].fresh THEN [map[s] EXCEPT !.fresh = FALSE]
     ELSE [map[s] EXCEPT !.miss = IF @ > MissMax THEN @ ELSE @ + 1]]

Collect(c) ==
  IF c = "low"
  THEN low' = Collected(low) /\ drawing' = Fresh(low) /\ high' = high
  ELSE high' = Collected(high) /\ drawing' = Fresh(high) /\ low' = low

\* Mutant of RunTask: m_lock is released before JavaScript is called.
RunTaskUnlocks ==
  /\ js = "idle" /\ lock = "free"
  /\ tasks # <<>>
  /\ tasks' = Tail(tasks)
  /\ Collect(Head(tasks))
  /\ js' = IF drawing' = {} THEN "idle" ELSE "draw"
  /\ UNCHANGED <<lock, init, stop, flush, deliver, dead, history, bounds>>

\* The task collects the new frames and, if there are any, calls JavaScript with
\* m_lock held ...
RunTask ==
  /\ js = "idle" /\ lock = "free"
  /\ tasks # <<>>
  /\ tasks' = Tail(tasks)
  /\ Collect(Head(tasks))
  /\ IF drawing' = {} THEN UNCHANGED <<js, lock>> ELSE js' = "draw" /\ lock' = "js"
  /\ UNCHANGED <<init, stop, flush, deliver, dead, history, bounds>>

\* ... which draws them.
Draw ==
  /\ js = "draw"
  /\ shown' = [s \in Streams |-> IF s \in drawing THEN Info(s).frame ELSE shown[s]]
  /\ drawing' = {}
  /\ js' = "idle"
  /\ lock' = "free"
  /\ UNCHANGED <<frames, init, stop, flush, deliver, tasks, dead, sent, bounds>>

----------------------------------------------------------------------------
(* The JavaScript thread: calls of the API *)

\* A call that takes m_lock: the JavaScript thread waits for it.
Call ==
  /\ js = "idle" /\ lock = "free"
  /\ calls < MaxCalls
  /\ calls' = calls + 1
  /\ UNCHANGED <<threads, dead, history, inits>>

\* setVideoDimension adds the stream if it is new.
SetDimension(s) ==
  /\ Call
  /\ init
  /\ SetInfo(s, Info(s))

\* Mutant of AddToHigh: the low stream stays.
AddToHighOnly(u) ==
  /\ Call
  /\ high' = With(high, u, Lookup(high, u))
  /\ low' = low

\* addToHighVideo forgets the low stream, its size and its frame.
AddToHigh(u) ==
  /\ Call
  /\ low' = Without(low, {u})
  /\ high' = With(high, u, Lookup(high, u))

\* removeFromeHighVideo
RemoveFromHigh(u) ==
  /\ Call
  /\ high' = Without(high, {u})
  /\ low' = With(low, u, Lookup(low, u))

\* Mutant of Initialize: deinitialize takes m_lock for as long as it runs.
InitializeLocks ==
  /\ js = "idle" /\ lock = "free" /\ inits < MaxInits
  /\ inits' = inits + 1
  /\ IF init THEN stop' = TRUE /\ js' = "joinLow" /\ lock' = "js"
             ELSE js' = "start" /\ UNCHANGED <<stop, lock>>
  /\ UNCHANGED <<frames, init, flush, deliver, drawing, tasks, dead, history, calls>>

\* initialize first ends the flush threads of an earlier initialize ...
Initialize ==
  /\ js = "idle" /\ inits < MaxInits
  /\ inits' = inits + 1
  /\ IF init THEN stop' = TRUE /\ js' = "joinLow" ELSE js' = "start" /\ UNCHANGED stop
  /\ UNCHANGED <<frames, lock, init, flush, deliver, drawing, tasks, dead,
                 history, calls>>

JoinLow ==
  /\ js = "joinLow" /\ flush["low"] = "off"
  /\ js' = "joinHigh"
  /\ UNCHANGED <<frames, lock, init, stop, flush, deliver, drawing, tasks, dead,
                 history, bounds>>

JoinHigh ==
  /\ js = "joinHigh" /\ flush["high"] = "off"
  /\ init' = FALSE
  /\ js' = "start"
  /\ UNCHANGED <<frames, lock, stop, flush, deliver, drawing, tasks, dead,
                 history, bounds>>

\* Mutant of Start: both threads run FlushVideo.
StartLowOnly ==
  /\ js = "start"
  /\ stop' = FALSE /\ init' = TRUE
  /\ flush' = [c \in Classes |-> IF c = "low" THEN "test" ELSE "off"]
  /\ js' = "idle"
  /\ UNCHANGED <<frames, lock, deliver, drawing, tasks, dead, history, bounds>>

\* ... and then starts new ones.
Start ==
  /\ js = "start"
  /\ stop' = FALSE /\ init' = TRUE
  /\ flush' = [c \in Classes |-> "test"]
  /\ js' = "idle"
  /\ UNCHANGED <<frames, lock, deliver, drawing, tasks, dead, history, bounds>>

----------------------------------------------------------------------------

DeliverStep(s) == DeliverBegin(s) \/ DeliverEnd(s)

FlushStep(c) ==
  \/ FlushTest(c)
  \/ c = "low" /\ EvictLow
  \/ c = "high" /\ EvictHigh
  \/ Post(c)

JsStep == RunTask \/ Draw \/ JoinLow \/ JoinHigh \/ Start

JsCall ==
  \/ Initialize
  \/ \E s \in Sources : SetDimension(s)
  \/ \E u \in Uids : AddToHigh(u) \/ RemoveFromHigh(u)

Next ==
  \/ \E s \in Sources : DeliverCall(s) \/ DeliverStep(s)
  \/ \E c \in Classes : FlushStep(c)
  \/ JsStep
  \/ JsCall

\* Threads that can run do.  Nobody has to deliver a frame or to call the API.
Fairness ==
  /\ \A s \in Sources : WF_vars(DeliverStep(s))
  /\ \A c \in Classes : WF_vars(FlushStep(c))
  /\ WF_vars(JsStep)

Spec == Init /\ [][Next]_vars

FairSpec == Spec /\ Fairness

----------------------------------------------------------------------------
(* Properties *)

TypeOK ==
  /\ DOMAIN low \subseteq Uids \cup LowOnly
  /\ low \in [DOMAIN low -> Entry]
  /\ DOMAIN high \subseteq Uids \cup {"videoSource"}
  /\ high \in [DOMAIN high -> Entry]
  /\ lock \in Streams \cup {"free", "js"}
  /\ init \in BOOLEAN /\ stop \in BOOLEAN /\ dead \in BOOLEAN
  /\ flush \in [Classes -> {"off", "test", "evict", "post"}]
  /\ deliver \in [Streams -> {"idle", "lock", "scale"}]
  /\ js \in {"idle", "joinLow", "joinHigh", "start", "draw"}
  /\ drawing \subseteq Streams
  /\ tasks \in Seq(Classes)
  /\ sent \in [Streams -> Nat] /\ shown \in [Streams -> Nat]
  /\ calls \in Nat /\ inits \in Nat

\* While JavaScript draws, the buffers it was given exist and hold whole frames,
\* although they are the transporter's own and nothing was copied.
NoTear ==
  \A s \in drawing : s \in DOMAIN low \cup DOMAIN high /\ Info(s).whole

\* What JavaScript draws of a stream is newer than all it has drawn of it, also
\* when the stream moves between the low and the high rate.
NewerFrames == \A s \in drawing : Info(s).frame > shown[s]

\* A frame JavaScript has not seen.
Unseen(s) ==
  \/ s \in DOMAIN low /\ low[s].fresh
  \/ s \in DOMAIN high /\ high[s].fresh

\* Such a frame gives way to a newer one, goes to JavaScript, or is dropped when
\* JavaScript moves the stream to the other rate: the flush threads never evict
\* it.  (The device test's frame falls with the local one.)
UnseenKept ==
  [][\A s \in Streams \ {"devTest"} :
       Unseen(s) /\ ~Unseen(s)' =>
         s \in drawing' \/ (s \in Uids /\ (AddToHigh(s) \/ RemoveFromHigh(s)))]_vars

\* No frame stays unseen, whoever delivers, whichever rate its stream has and
\* however often initialize is called.
FrameArrives == \A s \in Sources : Unseen(s) ~> ~Unseen(s)

\* initialize ends the flush threads of an earlier one and returns.
InitializeReturns == js = "joinLow" ~> js = "idle"

\* ts/Api/index.ts:1464-1466 asks for enableVideo before startVideoDeviceTest, and
\* for no local video: the process survives the test's first frame.
DeviceTestSurvives == ~dead

=============================================================================
