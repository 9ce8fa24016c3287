--------------------------- MODULE StreamRenderers ---------------------------
(***************************************************************************)
(* The JavaScript side of the SDK on top of the task queue: the engine     *)
(* object of ts/Api/index.ts with its map of renderers, the two renderers  *)
(* of ts/Renderer, and an application that drives them.                    *)
(*                                                                         *)
(* A task of the thread "engine" is an event; its handler does its own     *)
(* work at once and tells the application later, through setImmediate      *)
(* (`fire').  A task of the thread "flush" passes a batch of frames to     *)
(* onRegisterDeliverFrame.  Tasks, immediates and the calls of the         *)
(* application all run on the one JavaScript thread; what interleaves are  *)
(* the threads that post tasks.                                            *)
(*                                                                         *)
(* The page is a set of containers (boxes), each in a view or nowhere.  A  *)
(* frame is its stream and its size; mirroring and rotation lead to the    *)
(* same steps as a new size.                                               *)
(***************************************************************************)
EXTENDS AsyncQueue

CONSTANTS
  Users,           \* remote users
  OwnStreams,      \* the streams of its own that the application shows
  Views,           \* the page's elements that show video
  Boxes,           \* the names a container can have
  Sizes,           \* the sizes of frames: <<width, height>>
  Unset,           \* no view, or no size yet
  Home,            \* the view the application keeps for each user
  ContextMayFail,  \* the page may be refused a WebGL context
  MaxEvents,       \* bound: events of the engine
  MaxBatches,      \* bound: batches of frames
  MaxAppCalls      \* bound: calls of the application outside its event handlers

Keys == Users \cup OwnStreams
Modes == {"gl", "soft"}
EventKinds == {"userjoined", "useroffline"}

ASSUME RenderersAssumption ==
  /\ Producers = {"engine", "flush"}
  /\ OwnStreams \subseteq {"local", "videosource"}
  /\ IsFiniteSet(Users) /\ Users \cap {"local", "videosource"} = {}
  /\ IsFiniteSet(Boxes) /\ Cardinality(Boxes) > Cardinality(Keys)
  /\ Sizes \subseteq (Nat \ {0}) \X (Nat \ {0})
  /\ Unset \notin Views /\ Unset \notin Sizes
  /\ Home \in [Users -> Views]
  /\ ContextMayFail \in BOOLEAN
  /\ MaxEvents \in 0 .. MaxCalls /\ MaxBatches \in 0 .. MaxCalls /\ MaxAppCalls \in Nat

VARIABLES
  events,      \* the events the engine reported: the contents of its tasks
  online,      \* the users in the channel
  bound,       \* the streams the engine has a view for
  drawing,     \* the frames of the running batch that are still to be drawn
  immediates,  \* the emits that wait for the end of the poll phase
  streams,     \* AgoraRtcEngine.streams
  renderMode,  \* AgoraRtcEngine.renderMode: "gl" for 1, "soft" for 2
  page,        \* the view each container is in
  contexts,    \* the containers whose canvas has a live WebGL context
  heard,       \* history: the events the application was told
  thrown,      \* the drawing of the running batch that threw, if one did
  appCalls

engineVars == <<events, online>>
uiVars == <<streams, page, contexts>>
restVars == <<renderMode, heard, thrown, appCalls>>
systemVars == <<vars, engineVars, bound, drawing, immediates, uiVars, restVars>>

\* A renderer: GlRenderer or SoftwareRenderer, its view and container, whether
\* it can draw (gl, or yuv, is set), whether its canvas is still in the
\* container, and the size its canvas was made for.
Renderer == [kind : Modes, view : Views, box : Boxes, live : BOOLEAN,
             whole : BOOLEAN, size : Sizes \cup {Unset}]

Frame == [stream : Keys, size : Sizes]

Event(t) == events[t[2]]

SystemInit ==
  /\ Init
  /\ events = <<>> /\ online = {}
  /\ bound = {}
  /\ drawing = <<>> /\ immediates = <<>>
  /\ streams = [k \in {} |-> Unset]
  /\ renderMode \in Modes
  /\ page = [b \in Boxes |-> Unset]
  /\ contexts = {}
  /\ heard = <<>> /\ thrown = NoTask
  /\ appCalls = 0

----------------------------------------------------------------------------
(* The layout of a frame: copyFrame and deliverVideoSourceFrame of          *)
(* node_napi_api.cpp, and what the page makes of it                         *)

Luma(f) == f.size[1] * f.size[2]

\* The frames of a video source divide later.
Chroma(f) ==
  IF f.stream = "videosource"
  THEN ((f.size[1] \div 2) * f.size[2]) \div 2
  ELSE (f.size[1] \div 2) * (f.size[2] \div 2)

\* _checkData
CheckData(f) ==
  /\ Luma(f) # 20 /\ Chroma(f) # 20
  /\ Luma(f) = 4 * Chroma(f)

\* YUVBuffer.format refuses a chroma plane of half a sample.
Halves(f) == f.size[1] % 2 = 0 /\ f.size[2] % 2 = 0

----------------------------------------------------------------------------
(* The map of renderers.  `ui' is what a call changes: streams, page and    *)
(* contexts.                                                                *)

Ui == [streams |-> streams, page |-> page, contexts |-> contexts]

SetUi(ui) == streams' = ui.streams /\ page' = ui.page /\ contexts' = ui.contexts

NewBox(ui) ==
  CHOOSE b \in Boxes : /\ ui.page[b] = Unset /\ b \notin ui.contexts
                       /\ \A k \in DOMAIN ui.streams : ui.streams[k].box # b

Put(map, k, r) == [j \in DOMAIN map \cup {k} |-> IF j = k THEN r ELSE map[j]]

\* The renderer's container leaves the page and its context is given back.
Cleared(ui, r) == [ui EXCEPT !.page[r.box] = Unset, !.contexts = @ \ {r.box}]

\* A container in the view, with a canvas that has a context if one is made.
Shown(ui, key, kind, view, size, made) ==
  LET b == NewBox(ui)
  IN [streams |-> Put(ui.streams, key,
                      [kind |-> kind, view |-> view, box |-> b, live |-> made,
                       whole |-> TRUE, size |-> size]),
      page |-> [ui.page EXCEPT ![b] = view],
      contexts |-> IF kind = "gl" /\ made THEN ui.contexts \cup {b} ELSE ui.contexts]

\* unbind of a SoftwareRenderer throws if the view lost the container, having
\* taken the canvas out of the container.
UnbindThrows(ui, r) == r.kind = "soft" /\ (~r.whole \/ ui.page[r.box] = Unset)

\* Mutant of DestroyRender: the entry stays after a good unbind.
DestroyKeepsEntry(ui, key) ==
  IF key \notin DOMAIN ui.streams THEN ui
  ELSE IF UnbindThrows(ui, ui.streams[key])
       THEN [ui EXCEPT !.streams[key].whole = FALSE]
       ELSE [Cleared(ui, ui.streams[key]) EXCEPT !.streams[key].live = FALSE]

\* destroyRender: an exception keeps the entry.
DestroyRender(ui, key) ==
  IF key \notin DOMAIN ui.streams THEN ui
  ELSE IF UnbindThrows(ui, ui.streams[key])
       THEN [ui EXCEPT !.streams[key].whole = FALSE]
       ELSE [Cleared(ui, ui.streams[key])
               EXCEPT !.streams = Restrict(@, DOMAIN @ \ {key})]

\* Mutant of InitRender: the renderer before it is only forgotten.
InitForgets(ui, key, view, made) ==
  Shown([ui EXCEPT !.streams = Restrict(@, DOMAIN @ \ {key})], key, renderMode,
        view, Unset, made)

\* initRender: destroyRender, then bind of a renderer of the current mode.
InitRender(ui, key, view, made) ==
  Shown(DestroyRender(ui, key), key, renderMode, view, Unset, made)

\* Whether a context is made; a SoftwareRenderer needs none.
Outcomes(kind) == IF kind = "gl" /\ ContextMayFail THEN BOOLEAN ELSE {TRUE}

----------------------------------------------------------------------------
(* The engine's threads *)

\* What the SDK may report next of a user.
Reports ==
  [kind : {"userjoined"}, uid : Users \ online]
    \cup [kind : {"useroffline"}, uid : online]

\* A callback of the engine posts its event.  The SDK forgets the view of a user
\* who leaves.
Report ==
  /\ Len(events) < MaxEvents
  /\ Push("engine")
  /\ \E e \in Reports :
       /\ events' = Append(events, e)
       /\ IF e.kind = "useroffline"
          THEN online' = online \ {e.uid} /\ bound' = bound \ {e.uid}
          ELSE online' = online \cup {e.uid} /\ UNCHANGED bound
  /\ UNCHANGED <<drawing, immediates, uiVars, restVars>>

\* A flush thread posts its task.
Flush ==
  /\ calls["flush"] < MaxBatches
  /\ Push("flush")
  /\ UNCHANGED <<engineVars, bound, drawing, immediates, uiVars, restVars>>

Send(p) ==
  /\ AsyncSend(p)
  /\ UNCHANGED <<engineVars, bound, drawing, immediates, uiVars, restVars>>

----------------------------------------------------------------------------
(* The JavaScript thread in the poll phase *)

\* The immediates of the last round have run.
Poll ==
  /\ immediates = <<>>
  /\ Wake
  /\ UNCHANGED <<engineVars, bound, drawing, immediates, uiVars, restVars>>

PollEnd ==
  /\ Drained
  /\ UNCHANGED <<engineVars, bound, drawing, immediates, uiVars, restVars>>

\* The streams that may have a frame in the transporter: those with a view of
\* the engine, users who had one, and what the video source sends.
Delivering ==
  bound \cup (OwnStreams \cap {"videosource"}) \cup {Event(t).uid : t \in Range(heard)}

\* A flush task brings a frame of a stream, or of a user and of one more stream:
\* users come first, and "local" and "videosource" belong to different threads.
Batches ==
  LET fs == [stream : Delivering, size : Sizes]
  IN {<<f>> : f \in fs}
       \cup {b \in fs \X fs : b[1].stream \in Users \ {b[2].stream}}

\* on_event starts a task; that of a flush thread collects the new frames.
Begin ==
  /\ Take
  /\ drawing' \in IF task'[1] = "flush" THEN Batches ELSE {<<>>}
  /\ UNCHANGED <<engineVars, bound, immediates, uiVars, restVars>>

\* Mutant of OnEvent: the application is told before anything that waits.
OnEventFirst(e) ==
  /\ immediates' = <<task>> \o immediates
  /\ IF e.kind = "useroffline"
     THEN SetUi(DestroyRender(Ui, e.uid)) /\ bound' = bound \ {e.uid}
     ELSE UNCHANGED <<uiVars, bound>>

\* The handlers of initEventHandler: useroffline destroys the renderer and
\* unsubscribes at once; all leave the rest to `fire'.
OnEvent(e) ==
  /\ immediates' = Append(immediates, task)
  /\ IF e.kind = "useroffline"
     THEN SetUi(DestroyRender(Ui, e.uid)) /\ bound' = bound \ {e.uid}
     ELSE UNCHANGED <<uiVars, bound>>

Handle ==
  /\ Run
  /\ task[1] = "engine"
  /\ OnEvent(Event(task))
  /\ UNCHANGED <<engineVars, drawing, restVars>>

\* Mutant of BatchEnd: the handler returns with frames left.
BatchEndEarly ==
  /\ Run
  /\ task[1] = "flush"
  /\ thrown' = NoTask
  /\ UNCHANGED <<engineVars, bound, drawing, immediates, uiVars, renderMode, heard,
                 appCalls>>

\* The batch is drawn, or given up.
BatchEnd ==
  /\ Run
  /\ task[1] = "flush"
  /\ drawing = <<>>
  /\ thrown' = NoTask
  /\ UNCHANGED <<engineVars, bound, drawing, immediates, uiVars, renderMode, heard,
                 appCalls>>

\* One round of the loop of onRegisterDeliverFrame, for the next frame.
frame == Head(drawing)

Drawing == loop = "run" /\ drawing # <<>>

\* The frame is passed over: no renderer, planes of the wrong size, or a
\* GlRenderer without a context.
Skip ==
  /\ Drawing
  /\ \/ frame.stream \notin DOMAIN streams
     \/ ~CheckData(frame)
     \/ /\ frame.stream \in DOMAIN streams
        /\ streams[frame.stream].kind = "gl" /\ ~streams[frame.stream].live
  /\ drawing' = Tail(drawing)
  /\ UNCHANGED <<vars, engineVars, bound, immediates, uiVars, restVars>>

\* drawFrame of the frame's renderer is called.
DrawFrame(kind) ==
  /\ Drawing
  /\ frame.stream \in DOMAIN streams
  /\ CheckData(frame)
  /\ streams[frame.stream].kind = kind
  /\ UNCHANGED <<vars, engineVars, bound, immediates, renderMode, heard, appCalls>>

Drawn == drawing' = Tail(drawing) /\ UNCHANGED thrown

\* An exception leaves onRegisterDeliverFrame and takes the batch along.
Throw(r, made) ==
  /\ drawing' = <<>>
  /\ thrown' = [frame |-> frame, kind |-> r.kind, made |-> made]

\* renderImage: for a new size the renderer leaves the page and comes back with a
\* new canvas.  Without a context its first call of gl throws.
DrawGl ==
  /\ DrawFrame("gl")
  /\ LET r == streams[frame.stream]
     IN /\ r.live
        /\ \/ frame.size = r.size /\ Drawn /\ UNCHANGED uiVars
           \/ /\ frame.size # r.size
              /\ \E made \in Outcomes("gl") :
                   /\ SetUi(Shown(Cleared(Ui, r), frame.stream, "gl", r.view,
                                  frame.size, made))
                   /\ IF made THEN Drawn ELSE Throw(r, made)

\* SoftwareRenderer.drawFrame throws where the chroma planes have half a sample
\* and where its canvas is gone.
DrawSoft ==
  /\ DrawFrame("soft")
  /\ LET r == streams[frame.stream]
     IN IF Halves(frame) /\ r.live THEN Drawn ELSE Throw(r, r.live)
  /\ streams' = [streams EXCEPT ![frame.stream].size = frame.size]
  /\ UNCHANGED <<page, contexts>>

----------------------------------------------------------------------------
(* The application: external, modelled from how example/src/renderer/App.js *)
(* and __tests__/utils/multistream.js use the SDK                           *)

\* subscribe(uid, view), setupLocalVideo(view), setupLocalVideoSource(view).
Setup(key, view) ==
  /\ \E made \in Outcomes(renderMode) : SetUi(InitRender(Ui, key, view, made))
  /\ bound' = IF key = "videosource" THEN bound ELSE bound \cup {key}

\* The check phase: an immediate emits its event.  The application subscribes a
\* user it hears of, and destroys the renderer of one who left.
Emit ==
  /\ loop = "poll"
  /\ immediates # <<>>
  /\ LET e == Event(Head(immediates))
     IN \/ e.kind = "userjoined" /\ Setup(e.uid, Home[e.uid])
        \/ /\ e.kind = "useroffline"
           /\ SetUi(DestroyRender(Ui, e.uid))
           /\ UNCHANGED bound
  /\ heard' = Append(heard, Head(immediates))
  /\ immediates' = Tail(immediates)
  /\ UNCHANGED <<vars, engineVars, drawing, renderMode, thrown, appCalls>>

AppTurn ==
  /\ loop = "poll" /\ immediates = <<>>
  /\ appCalls < MaxAppCalls
  /\ appCalls' = appCalls + 1

\* The users the application takes to be in the channel.
Known ==
  {u \in Users : LET mine == SelectSeq(heard, LAMBDA t : Event(t).uid = u)
                 IN mine # <<>> /\ Event(mine[Len(mine)]).kind = "userjoined"}

AppSetup ==
  /\ AppTurn
  /\ \E key \in OwnStreams \cup Known, v \in Views : Setup(key, v)
  /\ UNCHANGED <<vars, engineVars, drawing, immediates, renderMode, heard, thrown>>

\* destroyRender from the application, for its own streams.
AppDestroy ==
  /\ AppTurn
  /\ \E key \in OwnStreams : SetUi(DestroyRender(Ui, key))
  /\ UNCHANGED <<vars, engineVars, bound, drawing, immediates, renderMode, heard, thrown>>

SetRenderMode ==
  /\ AppTurn
  /\ renderMode' \in Modes \ {renderMode}
  /\ UNCHANGED <<vars, engineVars, bound, drawing, immediates, uiVars, heard, thrown>>

\* The application empties a view, as a framework does that renders it anew.
EmptyView ==
  /\ AppTurn
  /\ \E v \in Views :
       page' = [b \in Boxes |-> IF page[b] = v THEN Unset ELSE page[b]]
  /\ UNCHANGED <<vars, engineVars, bound, drawing, immediates, streams, contexts,
                 renderMode, heard, thrown>>

----------------------------------------------------------------------------

JsStep ==
  Poll \/ PollEnd \/ Begin \/ Handle \/ BatchEnd \/ Skip \/ DrawGl \/ DrawSoft \/ Emit

SystemNext ==
  \/ JsStep
  \/ Report \/ Flush \/ \E p \in Producers : Send(p)
  \/ AppSetup \/ AppDestroy \/ SetRenderMode \/ EmptyView

\* The JavaScript thread goes on while there is work, and async_call returns.
SystemFairness ==
  /\ WF_systemVars(JsStep)
  /\ \A p \in Producers : WF_systemVars(Send(p))

SystemSpec == SystemInit /\ [][SystemNext]_systemVars

FairSystemSpec == SystemSpec /\ SystemFairness

----------------------------------------------------------------------------
(* Properties *)

RenderersTypeOK ==
  /\ TypeOK
  /\ events \in Seq([kind : EventKinds, uid : Users])
  /\ online \subseteq Users
  /\ bound \subseteq Keys
  /\ drawing \in Seq(Frame) /\ (drawing # <<>> => loop = "run")
  /\ immediates \in Seq(Tasks)
  /\ DOMAIN streams \subseteq Keys
  /\ \A k \in DOMAIN streams : streams[k] \in Renderer
  /\ renderMode \in Modes
  /\ page \in [Boxes -> Views \cup {Unset}]
  /\ contexts \subseteq Boxes
  /\ heard \in Seq(Tasks)

\* What is on the page is what `streams' has: a container in a view is that of
\* one renderer, which was bound to this view, and the live WebGL contexts are
\* those of the renderers that draw with one.  A browser has few contexts;
\* initRender, destroyRender and every new size take part in this.
PageMatchesStreams ==
  /\ \A b \in Boxes : page[b] # Unset =>
       \E k \in DOMAIN streams : streams[k].box = b /\ streams[k].view = page[b]
  /\ \A j, k \in DOMAIN streams : streams[j].box = streams[k].box => j = k
  /\ contexts = {streams[k].box : k \in {j \in DOMAIN streams :
                                           streams[j].kind = "gl" /\ streams[j].live}}

\* A drawing throws, and takes the rest of its batch along, only for a WebGL
\* context that was refused or for a video source of odd height on a software
\* renderer: never for a renderer that is already unbound.
ThrowsExplained ==
  thrown # NoTask =>
    \/ thrown.kind = "gl" /\ ~thrown.made
    \/ /\ thrown.kind = "soft" /\ thrown.made
       /\ thrown.frame.stream = "videosource" /\ ~Halves(thrown.frame)

\* The places in a queue of tasks that the engine's have.
EngineAt(s) == {k \in DOMAIN s : s[k][1] = "engine"}

\* The i-th of them has i - 1 before it.
EngineTasks(s) ==
  [i \in 1 .. Cardinality(EngineAt(s)) |->
     s[CHOOSE k \in EngineAt(s) : Cardinality({j \in EngineAt(s) : j <= k}) = i]]

\* From the engine to the application, events pass the task queue and then the
\* immediates: each arrives once, in the order of its report.
AppFifo ==
  INSTANCE BoundedFifo WITH
    Msgs <- Tasks, Capacity <- MaxEvents, received <- heard,
    accepted <- {t \in accepted : t[1] = "engine"},
    queue <- immediates \o EngineTasks(IF loop = "run" THEN <<task>> \o queue ELSE queue)

AppFifoSpec == AppFifo!Spec

\* The user's renderer shows on the page or holds a context.
Visible(u) ==
  u \in DOMAIN streams /\ (page[streams[u].box] # Unset \/ streams[u].box \in contexts)

\* A user who left for good is gone from the page in the end, although the
\* handler of useroffline runs before events that the application has yet to hear.
OfflineCleaned ==
  \A u \in Users : <>[](u \notin online) => <>[]~Visible(u)

\* A user who stays has a renderer and a view of the engine in the end, although
\* useroffline of an earlier stay unsubscribes the uid, not the stay.
StaysSubscribed ==
  \A u \in Users :
    <>[](u \in online) => <>[](u \in DOMAIN streams /\ u \in bound)

=============================================================================
