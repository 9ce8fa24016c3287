------------------------ MODULE StreamRenderersProof ------------------------
(***************************************************************************)
(* Proofs about StreamRenderers for any users, views and sizes of frames   *)
(* and any number of events, batches and calls: what is on the page is     *)
(* what the map of renderers has, and a drawing throws for two reasons     *)
(* only.                                                                   *)
(***************************************************************************)
EXTENDS StreamRenderers, AsyncQueueProof

LEMMA SystemConstants ==
  /\ Producers = {"engine", "flush"}
  /\ Users \subseteq Keys /\ OwnStreams \subseteq Keys
  /\ IsFiniteSet(Keys) /\ IsFiniteSet(Boxes)
  /\ Cardinality(Keys) \in Nat /\ Cardinality(Boxes) \in Nat
  /\ Cardinality(Boxes) > Cardinality(Keys)
  /\ Unset \notin Views /\ Unset \notin Sizes
<1>1. IsFiniteSet(OwnStreams)
  <2>1. IsFiniteSet({"local", "videosource"})
    <3>1. IsFiniteSet({"local"})
      BY FS_Singleton
    <3>2. IsFiniteSet({"local"} \cup {"videosource"})
      BY <3>1, FS_AddElement
    <3>3. {"local", "videosource"} = {"local"} \cup {"videosource"}
      OBVIOUS
    <3> QED BY <3>2, <3>3
  <2> QED BY <2>1, FS_Subset, RenderersAssumption
<1>2. IsFiniteSet(Keys)
  BY <1>1, FS_Union, RenderersAssumption DEF Keys
<1> QED BY <1>2, FS_CardinalityType, RenderersAssumption DEF Keys

----------------------------------------------------------------------------
(* The map of renderers, the page and the contexts *)

\* The components of a value of Ui.
IsUi(ui) ==
  ui \in [streams : {ui.streams}, page : {ui.page}, contexts : {ui.contexts}]

\* The type of the three.
UiType(map, pg, ctx) ==
  /\ DOMAIN map \subseteq Keys
  /\ \A k \in DOMAIN map : map[k] \in Renderer
  /\ pg \in [Boxes -> Views \cup {Unset}]
  /\ ctx \subseteq Boxes

\* PageMatchesStreams for all streams but those of but.
PageMatch(map, pg, ctx, but) ==
  /\ \A b \in Boxes : pg[b] # Unset =>
       \E k \in DOMAIN map \ but : map[k].box = b /\ map[k].view = pg[b]
  /\ \A j, k \in DOMAIN map : map[j].box = map[k].box => j = k
  /\ ctx = {map[k].box : k \in {j \in DOMAIN map \ but : map[j].kind = "gl" /\ map[j].live}}

\* A software renderer can always draw, and a container that lost its canvas is
\* not on the page.
Softs(map, pg, but) ==
  \A k \in DOMAIN map \ but :
    map[k].kind = "soft" => map[k].live /\ (~map[k].whole => pg[map[k].box] = Unset)

UiInv(map, pg, ctx, but) ==
  UiType(map, pg, ctx) /\ PageMatch(map, pg, ctx, but) /\ Softs(map, pg, but)

Good(ui, but) == IsUi(ui) /\ UiInv(ui.streams, ui.page, ui.contexts, but)

\* There are more names for containers than renderers, so a new container gets
\* a name that no renderer, view or context knows.
LEMMA NewBoxFacts ==
  ASSUME NEW ui, NEW but, Good(ui, but)
  PROVE  /\ NewBox(ui) \in Boxes
         /\ ui.page[NewBox(ui)] = Unset /\ NewBox(ui) \notin ui.contexts
         /\ \A k \in DOMAIN ui.streams : ui.streams[k].box # NewBox(ui)
<1> USE DEF Good, UiInv, UiType
<1>1. \E b \in Boxes : \A k \in DOMAIN ui.streams : ui.streams[k].box # b
  <2>1. SUFFICES ASSUME \A b \in Boxes : \E k \in DOMAIN ui.streams : ui.streams[k].box = b
                 PROVE  FALSE
    OBVIOUS
  <2> DEFINE owner == [b \in Boxes |-> CHOOSE k \in DOMAIN ui.streams : ui.streams[k].box = b]
  <2>2. \A b \in Boxes : owner[b] \in Keys /\ ui.streams[owner[b]].box = b
    BY <2>1
  <2>3. owner \in Injection(Boxes, Keys)
    <3>1. owner \in [Boxes -> Keys]
      BY <2>2
    <3> HIDE DEF owner
    <3>2. ASSUME NEW b \in Boxes, NEW c \in Boxes, owner[b] = owner[c]
          PROVE  b = c
      BY <2>2, <3>2
    <3> QED BY <3>1, <3>2 DEF Injection, IsInjective
  <2> HIDE DEF owner
  <2>4. Cardinality(Boxes) <= Cardinality(Keys)
    BY <2>3, FS_Injection, SystemConstants
  <2> QED BY <2>4, SystemConstants
<1>2. \E b \in Boxes : /\ ui.page[b] = Unset /\ b \notin ui.contexts
                       /\ \A k \in DOMAIN ui.streams : ui.streams[k].box # b
  BY <1>1 DEF PageMatch
<1> QED BY <1>2 DEF NewBox

\* A renderer gives up its container and its context, and may keep its entry.
LEMMA ClearedFacts ==
  ASSUME NEW ui, Good(ui, {}), NEW key \in DOMAIN ui.streams
  PROVE  /\ Good(Cleared(ui, ui.streams[key]), {key})
         /\ Cleared(ui, ui.streams[key]).streams = ui.streams
<1> DEFINE r == ui.streams[key]
           v == Cleared(ui, r)
<1>1. /\ IsUi(v)
      /\ v.streams = ui.streams
      /\ v.page = [ui.page EXCEPT ![r.box] = Unset]
      /\ v.contexts = ui.contexts \ {r.box}
  BY DEF Good, IsUi, Cleared
<1>2. r \in Renderer /\ r.box \in Boxes
  BY DEF Good, UiInv, UiType, Renderer
<1> HIDE DEF r, v
<1>3. UiType(v.streams, v.page, v.contexts)
  BY <1>1, <1>2 DEF Good, UiInv, UiType
<1>4. ASSUME NEW b \in Boxes
      PROVE  v.page[b] = IF b = r.box THEN Unset ELSE ui.page[b]
  BY <1>1, <1>2 DEF Good, UiInv, UiType
<1>5. PageMatch(v.streams, v.page, v.contexts, {key})
  <2>1. ASSUME NEW b \in Boxes, v.page[b] # Unset
        PROVE  \E k \in DOMAIN v.streams \ {key} :
                 v.streams[k].box = b /\ v.streams[k].view = v.page[b]
    <3>1. b # r.box /\ v.page[b] = ui.page[b]
      BY <1>4, <2>1
    <3>2. PICK k \in DOMAIN ui.streams : ui.streams[k].box = b /\ ui.streams[k].view = ui.page[b]
      BY <2>1, <3>1 DEF Good, UiInv, PageMatch
    <3> QED BY <1>1, <3>1, <3>2 DEF r
  <2>2. v.contexts = {v.streams[k].box : k \in {j \in DOMAIN v.streams \ {key} :
                                           v.streams[j].kind = "gl" /\ v.streams[j].live}}
    BY <1>1 DEF r, Good, UiInv, PageMatch
  <2> QED BY <1>1, <2>1, <2>2 DEF Good, UiInv, PageMatch
<1>6. Softs(v.streams, v.page, {key})
  BY <1>1, <1>4 DEF Good, UiInv, UiType, Softs, Renderer
<1> QED BY <1>1, <1>3, <1>5, <1>6 DEF Good, UiInv, r, v

\* destroyRender leaves no container and no context of the stream's renderer,
\* whether it removes the entry or not.
LEMMA DestroyFacts ==
  ASSUME NEW ui, Good(ui, {}), NEW key
  PROVE  Good(DestroyRender(ui, key), {}) /\ Good(DestroyRender(ui, key), {key})
<1> DEFINE v == DestroyRender(ui, key)
<1>1. CASE key \notin DOMAIN ui.streams
  <2>1. v = ui /\ DOMAIN ui.streams \ {key} = DOMAIN ui.streams \ {}
    BY <1>1 DEF DestroyRender
  <2>2. {j \in DOMAIN ui.streams \ {key} : ui.streams[j].kind = "gl" /\ ui.streams[j].live}
          = {j \in DOMAIN ui.streams \ {} : ui.streams[j].kind = "gl" /\ ui.streams[j].live}
    BY <2>1
  <2>3. Good(ui, {key})
    BY <2>1, <2>2 DEF Good, UiInv, PageMatch, Softs
  <2> QED BY <2>1, <2>3
<1>2. CASE key \in DOMAIN ui.streams /\ UnbindThrows(ui, ui.streams[key])
  <2> DEFINE r == ui.streams[key]
  <2>1. /\ IsUi(v)
        /\ v.streams = [ui.streams EXCEPT ![key].whole = FALSE]
        /\ v.page = ui.page /\ v.contexts = ui.contexts
    BY <1>2 DEF Good, IsUi, DestroyRender
  <2>2. r \in Renderer /\ r.kind = "soft" /\ ui.page[r.box] = Unset /\ r.live
    BY <1>2 DEF UnbindThrows, Good, UiInv, UiType, Softs
  <2>3. /\ DOMAIN v.streams = DOMAIN ui.streams
        /\ \A k \in DOMAIN ui.streams : k # key => v.streams[k] = ui.streams[k]
        /\ v.streams[key] = [r EXCEPT !.whole = FALSE]
    BY <1>2, <2>1
  <2>4. /\ v.streams[key].box = r.box /\ v.streams[key].view = r.view
        /\ v.streams[key].kind = "soft" /\ v.streams[key].live
        /\ v.streams[key] \in Renderer
    <3> HIDE DEF v, r
    <3>1. r.live /\ r.kind = "soft" /\ r \in Renderer
      BY <2>2
    <3>2. [r EXCEPT !.whole = FALSE] \in Renderer
      BY <3>1 DEF Renderer
    <3>3. /\ [r EXCEPT !.whole = FALSE].box = r.box /\ [r EXCEPT !.whole = FALSE].view = r.view
          /\ [r EXCEPT !.whole = FALSE].kind = "soft" /\ [r EXCEPT !.whole = FALSE].live
      BY <3>1 DEF Renderer
    <3> QED BY <2>3, <3>2, <3>3
  <2> HIDE DEF v
  <2>5. UiType(v.streams, v.page, v.contexts)
    BY <2>1, <2>3, <2>4 DEF Good, UiInv, UiType
  <2>6. ASSUME NEW b \in Boxes, v.page[b] # Unset
        PROVE  \E k \in DOMAIN v.streams \ {key} :
                 v.streams[k].box = b /\ v.streams[k].view = v.page[b]
    BY <2>1, <2>2, <2>3, <2>6 DEF Good, UiInv, PageMatch
  <2>7. ASSUME NEW j \in DOMAIN v.streams, NEW k \in DOMAIN v.streams,
               v.streams[j].box = v.streams[k].box
        PROVE  j = k
    <3>1. v.streams[j].box = ui.streams[j].box /\ v.streams[k].box = ui.streams[k].box
      BY <2>3, <2>4
    <3> QED BY <2>3, <2>7, <3>1 DEF Good, UiInv, PageMatch
  <2>8. /\ v.contexts = {v.streams[k].box : k \in {j \in DOMAIN v.streams \ {key} :
                            v.streams[j].kind = "gl" /\ v.streams[j].live}}
        /\ v.contexts = {v.streams[k].box : k \in {j \in DOMAIN v.streams \ {} :
                            v.streams[j].kind = "gl" /\ v.streams[j].live}}
    BY <2>1, <2>2, <2>3, <2>4 DEF Good, UiInv, PageMatch
  <2>9. Softs(v.streams, v.page, {}) /\ Softs(v.streams, v.page, {key})
    BY <2>1, <2>2, <2>3, <2>4 DEF Good, UiInv, Softs
  <2>10. PageMatch(v.streams, v.page, v.contexts, {})
         /\ PageMatch(v.streams, v.page, v.contexts, {key})
    BY <2>6, <2>7, <2>8 DEF PageMatch
  <2> QED BY <2>1, <2>5, <2>9, <2>10 DEF Good, UiInv, v
<1>3. CASE key \in DOMAIN ui.streams /\ ~UnbindThrows(ui, ui.streams[key])
  <2> DEFINE w == Cleared(ui, ui.streams[key])
  <2>1. Good(w, {key}) /\ w.streams = ui.streams
    BY <1>3, ClearedFacts
  <2>2. v = [w EXCEPT !.streams = Restrict(@, DOMAIN @ \ {key})]
    BY <1>3 DEF DestroyRender
  <2> HIDE DEF v, w
  <2>3. /\ IsUi(v)
        /\ v.streams = [k \in DOMAIN w.streams \ {key} |-> w.streams[k]]
        /\ v.page = w.page /\ v.contexts = w.contexts
    BY <2>1, <2>2 DEF Good, IsUi, Restrict
  <2>4. /\ DOMAIN v.streams = DOMAIN w.streams \ {key}
        /\ DOMAIN v.streams \ {key} = DOMAIN v.streams \ {}
        /\ DOMAIN v.streams \ {} = DOMAIN w.streams \ {key}
        /\ \A k \in DOMAIN v.streams : v.streams[k] = w.streams[k]
    BY <2>3
  <2>5. UiType(v.streams, v.page, v.contexts)
    BY <2>1, <2>3, <2>4 DEF Good, UiInv, UiType
  <2>6. PageMatch(v.streams, v.page, v.contexts, {})
    <3>1. {j \in DOMAIN v.streams \ {} : v.streams[j].kind = "gl" /\ v.streams[j].live}
            = {j \in DOMAIN w.streams \ {key} : w.streams[j].kind = "gl" /\ w.streams[j].live}
      BY <2>4
    <3>2. \A b \in Boxes : v.page[b] # Unset =>
            \E k \in DOMAIN v.streams \ {} : v.streams[k].box = b /\ v.streams[k].view = v.page[b]
      BY <2>1, <2>3, <2>4 DEF Good, UiInv, PageMatch
    <3>3. \A j, k \in DOMAIN v.streams : v.streams[j].box = v.streams[k].box => j = k
      BY <2>1, <2>4 DEF Good, UiInv, PageMatch
    <3>4. v.contexts = {v.streams[k].box : k \in {j \in DOMAIN v.streams \ {} :
                          v.streams[j].kind = "gl" /\ v.streams[j].live}}
      BY <2>1, <2>3, <2>4 DEF Good, UiInv, PageMatch
    <3> QED BY <3>2, <3>3, <3>4 DEF PageMatch
  <2>7. Softs(v.streams, v.page, {})
    BY <2>1, <2>3, <2>4 DEF Good, UiInv, Softs
  <2>8. UiInv(v.streams, v.page, v.contexts, {key})
    BY <2>4, <2>5, <2>6, <2>7 DEF UiInv, PageMatch, Softs
  <2> QED BY <2>3, <2>5, <2>6, <2>7, <2>8 DEF Good, UiInv, v
<1> QED BY <1>1, <1>2, <1>3

\* A renderer comes to a container of its own in its view.
LEMMA ShownFacts ==
  ASSUME NEW ui, NEW key \in Keys, Good(ui, {key}),
         NEW kind \in Modes, NEW view \in Views, NEW size \in Sizes \cup {Unset},
         NEW made \in BOOLEAN, kind = "soft" => made
  PROVE  Good(Shown(ui, key, kind, view, size, made), {})
<1> DEFINE b == NewBox(ui)
           new == [kind |-> kind, view |-> view, box |-> b, live |-> made,
                   whole |-> TRUE, size |-> size]
           v == Shown(ui, key, kind, view, size, made)
<1>1. /\ b \in Boxes /\ ui.page[b] = Unset /\ b \notin ui.contexts
      /\ \A k \in DOMAIN ui.streams : ui.streams[k].box # b
  BY NewBoxFacts
<1>2. /\ IsUi(v)
      /\ v.streams = Put(ui.streams, key, new)
      /\ v.page = [ui.page EXCEPT ![b] = view]
      /\ v.contexts = IF kind = "gl" /\ made THEN ui.contexts \cup {b} ELSE ui.contexts
  BY DEF Shown, IsUi
<1> HIDE DEF b
<1>3. /\ new \in Renderer /\ new.box = b /\ new.view = view /\ new.kind = kind
      /\ new.live = made /\ new.whole
  BY <1>1 DEF Renderer
<1> HIDE DEF v, new
<1>4. /\ DOMAIN v.streams = DOMAIN ui.streams \cup {key}
      /\ v.streams[key] = new
      /\ \A k \in DOMAIN ui.streams \ {key} : v.streams[k] = ui.streams[k]
  BY <1>2 DEF Put
<1>5. \A a \in Boxes : v.page[a] = IF a = b THEN view ELSE ui.page[a]
  BY <1>1, <1>2 DEF Good, UiInv, UiType
<1>6. UiType(v.streams, v.page, v.contexts)
  <2>1. \A k \in DOMAIN v.streams : v.streams[k] \in Renderer
    BY <1>3, <1>4 DEF Good, UiInv, UiType
  <2> QED BY <1>1, <1>2, <1>4, <2>1 DEF Good, UiInv, UiType
<1>7. ASSUME NEW a \in Boxes, v.page[a] # Unset
      PROVE  \E k \in DOMAIN v.streams \ {} : v.streams[k].box = a /\ v.streams[k].view = v.page[a]
  <2>1. CASE a = b
    BY <1>3, <1>4, <1>5, <2>1
  <2>2. CASE a # b
    <3>1. PICK k \in DOMAIN ui.streams \ {key} :
                ui.streams[k].box = a /\ ui.streams[k].view = ui.page[a]
      BY <1>5, <1>7, <2>2 DEF Good, UiInv, PageMatch
    <3> QED BY <1>4, <1>5, <2>2, <3>1
  <2> QED BY <2>1, <2>2
<1>8. ASSUME NEW j \in DOMAIN v.streams, NEW k \in DOMAIN v.streams,
             v.streams[j].box = v.streams[k].box
      PROVE  j = k
  BY <1>1, <1>3, <1>4, <1>8 DEF Good, UiInv, PageMatch
<1>9. v.contexts = {v.streams[k].box : k \in {j \in DOMAIN v.streams \ {} :
                                         v.streams[j].kind = "gl" /\ v.streams[j].live}}
  <2>1. ASSUME NEW a
        PROVE  a \in v.contexts <=>
                 \E k \in DOMAIN v.streams :
                   v.streams[k].kind = "gl" /\ v.streams[k].live /\ v.streams[k].box = a
    <3>1. a \in ui.contexts <=>
            \E k \in DOMAIN ui.streams \ {key} :
              ui.streams[k].kind = "gl" /\ ui.streams[k].live /\ ui.streams[k].box = a
      BY DEF Good, UiInv, PageMatch
    <3>2. (\E k \in DOMAIN v.streams :
             v.streams[k].kind = "gl" /\ v.streams[k].live /\ v.streams[k].box = a)
            <=> \/ kind = "gl" /\ made /\ a = b
                \/ \E k \in DOMAIN ui.streams \ {key} :
                     ui.streams[k].kind = "gl" /\ ui.streams[k].live /\ ui.streams[k].box = a
      BY <1>3, <1>4
    <3> QED BY <1>2, <3>1, <3>2
  <2> QED BY <2>1
<1>10. Softs(v.streams, v.page, {})
  BY <1>1, <1>3, <1>4, <1>5 DEF Good, UiInv, UiType, Softs, Renderer
<1>11. PageMatch(v.streams, v.page, v.contexts, {})
  BY <1>7, <1>8, <1>9 DEF PageMatch
<1> QED BY <1>2, <1>6, <1>10, <1>11 DEF Good, UiInv, v

----------------------------------------------------------------------------
(* The task queue and what is behind its tasks *)

Reported == {t \in Tasks : t[1] = "engine" => t[2] <= Len(events)}
Told == {t \in Tasks : t[1] = "engine" /\ t[2] <= Len(events)}

\* A task of the engine thread has its event, wherever it has got to.
EventInv ==
  /\ events \in Seq([kind : EventKinds, uid : Users])
  /\ Len(events) = calls["engine"]
  /\ queue \in Seq(Reported)
  /\ loop = "run" => task \in Reported
  /\ immediates \in Seq(Told) /\ heard \in Seq(Told)

\* Frames are drawn while on_event runs the task of a flush thread.
DrawInv ==
  /\ drawing \in Seq(Frame)
  /\ drawing # <<>> => loop = "run" /\ task[1] = "flush"

EngineInv ==
  online \subseteq Users /\ bound \subseteq Keys /\ renderMode \in Modes

QueueInv == TypeInv /\ EventInv /\ DrawInv /\ EngineInv

PageInv == UiInv(streams, page, contexts, {})

\* Every step of the system is one of the task queue, or does not touch it.
LEMMA QueueStep == [SystemNext]_systemVars => [Next]_vars
<1> USE SystemConstants DEF Next, LoopStep
<1>1. CASE Poll
  BY <1>1 DEF Poll
<1>2. CASE PollEnd
  BY <1>2 DEF PollEnd
<1>3. CASE Begin
  BY <1>3 DEF Begin
<1>4. CASE Handle \/ BatchEnd
  BY <1>4 DEF Handle, BatchEnd
<1>5. CASE Skip \/ DrawGl \/ DrawSoft
  BY <1>5 DEF Skip, DrawGl, DrawSoft, DrawFrame
<1>6. CASE Emit
  BY <1>6 DEF Emit
<1>7. CASE Report \/ Flush
  BY <1>7 DEF Report, Flush
<1>8. ASSUME NEW p \in Producers, Send(p)
      PROVE  [Next]_vars
  BY <1>8 DEF Send
<1>9. CASE AppSetup \/ AppDestroy \/ SetRenderMode \/ EmptyView
  BY <1>9 DEF AppSetup, AppDestroy, SetRenderMode, EmptyView
<1>10. CASE UNCHANGED systemVars
  BY <1>10 DEF systemVars
<1> QED BY <1>1, <1>2, <1>3, <1>4, <1>5, <1>6, <1>7, <1>8, <1>9, <1>10 DEF SystemNext, JsStep

LEMMA EventFacts ==
  ASSUME EventInv, NEW t \in Told
  PROVE  Event(t) \in [kind : EventKinds, uid : Users]
<1>1. t[2] \in 1 .. Len(events)
  BY QueueAssumption DEF EventInv, Told, Tasks
<1>2. events[t[2]] \in [kind : EventKinds, uid : Users]
  BY <1>1, ElementOfSeq DEF EventInv
<1> QED BY <1>2 DEF Event

LEMMA HeadTold ==
  ASSUME EventInv, immediates # <<>>
  PROVE  Head(immediates) \in Told /\ Tail(immediates) \in Seq(Told)
BY DEF EventInv

LEMMA TaskTold ==
  ASSUME EventInv, loop = "run", task[1] = "engine"
  PROVE  task \in Told
BY DEF EventInv, Reported, Told

\* Streams that may have a frame are streams.
LEMMA DeliveringFacts ==
  ASSUME EventInv, EngineInv
  PROVE  Delivering \subseteq Keys
<1>1. ASSUME NEW t \in Range(heard)
      PROVE  Event(t).uid \in Users
  <2>1. t \in Told
    BY DEF EventInv, Range
  <2> QED BY <2>1, EventFacts
<1> QED BY <1>1, SystemConstants DEF Delivering, EngineInv

LEMMA BatchFacts ==
  ASSUME EventInv, EngineInv, NEW b \in Batches
  PROVE  b \in Seq(Frame)
<1> DEFINE fs == [stream : Delivering, size : Sizes]
<1>1. fs \subseteq Frame
  BY DeliveringFacts DEF Frame
<1>2. CASE \E f \in fs : b = <<f>>
  BY <1>1, <1>2
<1>3. CASE \E f, g \in fs : b = <<f, g>>
  BY <1>1, <1>3
<1>4. (\E f \in fs : b = <<f>>) \/ (\E f, g \in fs : b = <<f, g>>)
  BY DEF Batches
<1> QED BY <1>2, <1>3, <1>4

\* A step that neither posts nor takes a task nor tells one keeps EventInv.
LEMMA EventQuiet ==
  ASSUME EventInv, UNCHANGED <<events, calls, queue, immediates, heard>>,
         loop' = "run" => loop = "run" /\ task' = task
  PROVE  EventInv'
BY DEF EventInv, Reported, Told

LEMMA EventReport ==
  ASSUME QueueInv, Report
  PROVE  EventInv'
<1>1. PICK e \in Reports : events' = Append(events, e)
  BY DEF Report
<1>2. e \in [kind : EventKinds, uid : Users]
  BY <1>1 DEF Reports, EventKinds, QueueInv, EngineInv
<1>3. /\ events' \in Seq([kind : EventKinds, uid : Users])
      /\ Len(events') = Len(events) + 1
  BY <1>1, <1>2, AppendProperties DEF QueueInv, EventInv
<1>4. /\ queue' = Append(queue, <<"engine", calls["engine"] + 1>>)
      /\ calls' = [calls EXCEPT !["engine"] = @ + 1]
      /\ loop' = loop /\ task' = task
      /\ UNCHANGED <<immediates, heard>>
  BY DEF Report, Push, restVars
<1>5. /\ <<"engine", calls["engine"] + 1>> \in Tasks
      /\ calls'["engine"] = calls["engine"] + 1
  BY <1>4, NextTask, SystemConstants DEF Report, Push, QueueInv, TypeInv, TypeOK
<1>6. Len(events) \in Nat
  BY DEF QueueInv, EventInv
<1>7. Reported \subseteq Reported' /\ Told \subseteq Told'
  BY <1>3, <1>6, QueueAssumption DEF Reported, Told, Tasks
<1>8. <<"engine", calls["engine"] + 1>> \in Reported'
  BY <1>3, <1>5 DEF Reported, QueueInv, EventInv
<1>9. queue \in Seq(Reported')
  BY <1>7, SeqMonotonic DEF QueueInv, EventInv
<1>10. queue' \in Seq(Reported')
  BY <1>4, <1>8, <1>9, AppendProperties
<1>11. immediates' \in Seq(Told') /\ heard' \in Seq(Told')
  BY <1>4, <1>7, SeqMonotonic DEF QueueInv, EventInv
<1>12. loop' = "run" => task' \in Reported'
  BY <1>4, <1>7 DEF QueueInv, EventInv
<1> QED BY <1>3, <1>4, <1>5, <1>10, <1>11, <1>12 DEF QueueInv, EventInv

LEMMA EventFlush ==
  ASSUME QueueInv, Flush
  PROVE  EventInv'
<1>1. /\ queue' = Append(queue, <<"flush", calls["flush"] + 1>>)
      /\ calls' = [calls EXCEPT !["flush"] = @ + 1]
      /\ UNCHANGED <<loop, task, events, immediates, heard>>
  BY DEF Flush, Push, engineVars, restVars
<1>2. <<"flush", calls["flush"] + 1>> \in Tasks
  BY NextTask, SystemConstants DEF Flush, Push, QueueInv
<1>3. calls'["engine"] = calls["engine"]
  BY <1>1, SystemConstants DEF QueueInv, TypeInv, TypeOK
<1>4. Reported' = Reported /\ Told' = Told
  BY <1>1 DEF Reported, Told
<1>5. <<"flush", calls["flush"] + 1>> \in Reported
  BY <1>2 DEF Reported
<1>6. queue' \in Seq(Reported)
  BY <1>1, <1>5, AppendProperties DEF QueueInv, EventInv
<1> QED BY <1>1, <1>3, <1>4, <1>6 DEF QueueInv, EventInv

LEMMA EventStep ==
  ASSUME QueueInv, [SystemNext]_systemVars
  PROVE  EventInv'
<1> USE DEF QueueInv
<1>1. CASE Poll \/ PollEnd
  BY <1>1, EventQuiet DEF Poll, Wake, PollEnd, Drained, engineVars, restVars
<1>2. CASE Begin
  <2>1. /\ task' = Head(queue) /\ queue' = Tail(queue) /\ queue # <<>>
        /\ UNCHANGED <<events, calls, immediates, heard>>
    BY <1>2 DEF Begin, Take, engineVars, restVars
  <2>2. Reported' = Reported /\ Told' = Told
    BY <2>1 DEF Reported, Told
  <2>3. Head(queue) \in Reported /\ Tail(queue) \in Seq(Reported)
    BY <2>1 DEF EventInv
  <2> QED BY <2>1, <2>2, <2>3 DEF EventInv
<1>3. CASE Handle
  <2>1. /\ immediates' = Append(immediates, task) /\ loop = "run" /\ task[1] = "engine"
        /\ loop' = "drain" /\ UNCHANGED <<events, calls, queue, heard>>
    BY <1>3 DEF Handle, Run, OnEvent, engineVars, restVars
  <2>2. Reported' = Reported /\ Told' = Told
    BY <2>1 DEF Reported, Told
  <2>3. task \in Told
    BY <2>1, TaskTold
  <2>4. immediates' \in Seq(Told)
    BY <2>1, <2>3, AppendProperties DEF EventInv
  <2> QED BY <2>1, <2>2, <2>4 DEF EventInv
<1>4. CASE BatchEnd
  BY <1>4, EventQuiet DEF BatchEnd, Run, engineVars
<1>5. CASE Skip \/ DrawGl \/ DrawSoft
  BY <1>5, EventQuiet DEF Skip, DrawGl, DrawSoft, DrawFrame, vars, engineVars, restVars
<1>6. CASE Emit
  <2>1. /\ immediates # <<>> /\ immediates' = Tail(immediates)
        /\ heard' = Append(heard, Head(immediates))
        /\ UNCHANGED <<events, calls, queue, loop, task>>
    BY <1>6 DEF Emit, vars, engineVars
  <2>2. Reported' = Reported /\ Told' = Told
    BY <2>1 DEF Reported, Told
  <2>3. Head(immediates) \in Told /\ Tail(immediates) \in Seq(Told)
    BY <2>1, HeadTold
  <2>4. heard' \in Seq(Told)
    BY <2>1, <2>3, AppendProperties DEF EventInv
  <2> QED BY <2>1, <2>2, <2>3, <2>4 DEF EventInv
<1>7. CASE Report
  BY <1>7, EventReport
<1>8. CASE Flush
  BY <1>8, EventFlush
<1>9. ASSUME NEW p \in Producers, Send(p)
      PROVE  EventInv'
  BY <1>9, EventQuiet DEF Send, AsyncSend, engineVars, restVars
<1>10. CASE AppSetup \/ AppDestroy \/ SetRenderMode \/ EmptyView
  BY <1>10, EventQuiet DEF AppSetup, AppDestroy, SetRenderMode, EmptyView, vars, engineVars
<1>11. CASE UNCHANGED systemVars
  BY <1>11, EventQuiet DEF systemVars, vars, engineVars, restVars
<1> QED BY <1>1, <1>2, <1>3, <1>4, <1>5, <1>6, <1>7, <1>8, <1>9, <1>10, <1>11 DEF SystemNext, JsStep

LEMMA DrawStep ==
  ASSUME QueueInv, [SystemNext]_systemVars
  PROVE  DrawInv'
<1> USE DEF QueueInv, DrawInv
<1>1. CASE Poll \/ PollEnd
  BY <1>1 DEF Poll, Wake, PollEnd, Drained
<1>2. CASE Begin
  <2>1. CASE task'[1] = "flush"
    <3>1. drawing' \in Batches /\ loop' = "run"
      BY <1>2, <2>1 DEF Begin, Take
    <3> QED BY <2>1, <3>1, BatchFacts
  <2>2. CASE task'[1] # "flush"
    BY <1>2, <2>2 DEF Begin
  <2> QED BY <2>1, <2>2
<1>3. CASE Handle \/ BatchEnd
  BY <1>3 DEF Handle, BatchEnd
<1>4. CASE Skip \/ DrawGl \/ DrawSoft
  <2>1. /\ drawing # <<>> /\ UNCHANGED <<loop, task>>
        /\ drawing' = Tail(drawing) \/ drawing' = <<>>
    BY <1>4 DEF Skip, DrawGl, DrawSoft, DrawFrame, Drawing, Drawn, Throw, vars
  <2>2. drawing' \in Seq(Frame)
    BY <2>1, HeadTailProperties, EmptySeq
  <2> QED BY <2>1, <2>2
<1>5. CASE Emit \/ AppSetup \/ AppDestroy \/ SetRenderMode \/ EmptyView
  BY <1>5 DEF Emit, AppSetup, AppDestroy, SetRenderMode, EmptyView, vars
<1>6. CASE Report \/ Flush
  BY <1>6 DEF Report, Flush, Push
<1>7. ASSUME NEW p \in Producers, Send(p)
      PROVE  DrawInv'
  BY <1>7 DEF Send, AsyncSend
<1>8. CASE UNCHANGED systemVars
  BY <1>8 DEF systemVars, vars
<1> QED BY <1>1, <1>2, <1>3, <1>4, <1>5, <1>6, <1>7, <1>8 DEF SystemNext, JsStep

LEMMA KnownFacts == Known \subseteq Users
BY DEF Known

LEMMA EngineStep ==
  ASSUME QueueInv, [SystemNext]_systemVars
  PROVE  EngineInv'
<1> USE DEF QueueInv, EngineInv
<1>1. CASE Poll \/ PollEnd \/ Begin \/ BatchEnd
  BY <1>1 DEF Poll, PollEnd, Begin, BatchEnd, engineVars, restVars
<1>2. CASE Handle
  BY <1>2 DEF Handle, OnEvent, engineVars, restVars
<1>3. CASE Skip \/ DrawGl \/ DrawSoft
  BY <1>3 DEF Skip, DrawGl, DrawSoft, DrawFrame, engineVars, restVars
<1>4. ASSUME NEW key \in Keys, NEW v, Setup(key, v), UNCHANGED <<engineVars, renderMode>>
      PROVE  EngineInv'
  BY <1>4 DEF Setup, engineVars
<1>5. CASE Emit
  <2>1. Event(Head(immediates)).uid \in Keys
    BY <1>5, HeadTold, EventFacts, SystemConstants DEF Emit
  <2> QED BY <1>4, <1>5, <2>1 DEF Emit, engineVars
<1>6. CASE AppSetup
  BY <1>4, <1>6, KnownFacts, SystemConstants DEF AppSetup
<1>7. CASE AppDestroy \/ SetRenderMode \/ EmptyView
  BY <1>7 DEF AppDestroy, SetRenderMode, EmptyView, engineVars
<1>8. CASE Report
  BY <1>8 DEF Report, Reports, restVars
<1>9. CASE Flush
  BY <1>9 DEF Flush, engineVars, restVars
<1>10. ASSUME NEW p \in Producers, Send(p)
       PROVE  EngineInv'
  BY <1>10 DEF Send, engineVars, restVars
<1>11. CASE UNCHANGED systemVars
  BY <1>11 DEF systemVars, engineVars, restVars
<1> QED BY <1>1, <1>2, <1>3, <1>5, <1>6, <1>7, <1>8, <1>9, <1>10, <1>11 DEF SystemNext, JsStep

LEMMA QueueInvInit == SystemInit => QueueInv
<1> SUFFICES ASSUME SystemInit
             PROVE  QueueInv
  OBVIOUS
<1>1. TypeInv
  BY TypeInductive DEF SystemInit
<1>2. EventInv
  BY SystemConstants DEF SystemInit, Init, EventInv
<1> QED BY <1>1, <1>2 DEF SystemInit, QueueInv, DrawInv, EngineInv

LEMMA QueueInvStep == QueueInv /\ [SystemNext]_systemVars => QueueInv'
<1>1. QueueInv /\ [SystemNext]_systemVars => TypeInv'
  BY QueueStep, TypeInductive DEF QueueInv
<1> QED BY <1>1, EventStep, DrawStep, EngineStep DEF QueueInv

----------------------------------------------------------------------------
(* The page *)

LEMMA UiGood == PageInv <=> Good(Ui, {})
BY DEF PageInv, Good, IsUi, Ui

LEMMA SetUiGood ==
  ASSUME NEW ui, Good(ui, {}), SetUi(ui)
  PROVE  PageInv'
BY DEF Good, SetUi, PageInv, UiInv, UiType, PageMatch, Softs

LEMMA OutcomeFacts ==
  ASSUME NEW kind, NEW made \in Outcomes(kind)
  PROVE  made \in BOOLEAN /\ (kind = "soft" => made)
BY DEF Outcomes

LEMMA SetupPage ==
  ASSUME PageInv, renderMode \in Modes, NEW key \in Keys, NEW view \in Views,
         Setup(key, view)
  PROVE  PageInv'
<1>1. PICK made \in Outcomes(renderMode) : SetUi(InitRender(Ui, key, view, made))
  BY DEF Setup
<1>2. Good(DestroyRender(Ui, key), {key})
  BY UiGood, DestroyFacts
<1>3. Good(InitRender(Ui, key, view, made), {})
  BY <1>2, OutcomeFacts, ShownFacts DEF InitRender
<1> QED BY <1>1, <1>3, SetUiGood

LEMMA DestroyPage ==
  ASSUME PageInv, NEW key, SetUi(DestroyRender(Ui, key))
  PROVE  PageInv'
BY UiGood, DestroyFacts, SetUiGood

\* A frame of a new size gives the renderer a new container in its own view.
LEMMA GlPage ==
  ASSUME PageInv, DrawInv, DrawGl
  PROVE  PageInv'
<1> DEFINE r == streams[frame.stream]
<1>1. CASE UNCHANGED uiVars
  BY <1>1 DEF uiVars, PageInv, UiInv, UiType, PageMatch, Softs
<1>2. ASSUME NEW made \in Outcomes("gl"),
             SetUi(Shown(Cleared(Ui, r), frame.stream, "gl", r.view, frame.size, made))
      PROVE  PageInv'
  <2>1. frame.stream \in DOMAIN Ui.streams /\ Ui.streams = streams
    BY DEF DrawGl, DrawFrame, Ui
  <2>2. Good(Cleared(Ui, r), {frame.stream})
    BY <2>1, UiGood, ClearedFacts
  <2>3. frame \in Frame
    BY HeadTailProperties DEF DrawGl, DrawFrame, Drawing, frame, DrawInv
  <2>4. frame.stream \in Keys /\ frame.size \in Sizes
    BY <2>3 DEF Frame
  <2>5. r.view \in Views
    BY <2>1 DEF PageInv, UiInv, UiType, Renderer
  <2>6. Good(Shown(Cleared(Ui, r), frame.stream, "gl", r.view, frame.size, made), {})
    BY <1>2, <2>2, <2>4, <2>5, OutcomeFacts, ShownFacts DEF Modes
  <2> QED BY <1>2, <2>6, SetUiGood
<1> QED BY <1>1, <1>2 DEF DrawGl

LEMMA SoftPage ==
  ASSUME PageInv, DrawInv, DrawSoft
  PROVE  PageInv'
<1> DEFINE key == frame.stream
<1>1. /\ key \in DOMAIN streams
      /\ streams' = [streams EXCEPT ![key].size = frame.size]
      /\ UNCHANGED <<page, contexts>>
  BY DEF DrawSoft, DrawFrame
<1>2. frame \in Frame
  BY HeadTailProperties DEF DrawSoft, DrawFrame, Drawing, frame, DrawInv
<1>3. frame.size \in Sizes
  BY <1>2 DEF Frame
<1> HIDE DEF key
<1>4. streams[key] \in Renderer
  BY <1>1 DEF PageInv, UiInv, UiType
<1>5. /\ DOMAIN streams' = DOMAIN streams
      /\ \A k \in DOMAIN streams :
           /\ streams'[k].box = streams[k].box /\ streams'[k].view = streams[k].view
           /\ streams'[k].kind = streams[k].kind /\ streams'[k].live = streams[k].live
           /\ streams'[k].whole = streams[k].whole /\ streams'[k] \in Renderer
  BY <1>1, <1>3, <1>4 DEF PageInv, UiInv, UiType, Renderer
<1>6. UiType(streams', page', contexts')
  BY <1>1, <1>5 DEF PageInv, UiInv, UiType
<1>7. {streams'[k].box : k \in {j \in DOMAIN streams' \ {} :
                                  streams'[j].kind = "gl" /\ streams'[j].live}}
        = {streams[k].box : k \in {j \in DOMAIN streams \ {} :
                                     streams[j].kind = "gl" /\ streams[j].live}}
  BY <1>5
<1>8. PageMatch(streams', page', contexts', {})
  BY <1>1, <1>5, <1>7 DEF PageInv, UiInv, PageMatch
<1>9. Softs(streams', page', {})
  BY <1>1, <1>5 DEF PageInv, UiInv, Softs
<1> QED BY <1>6, <1>8, <1>9 DEF PageInv, UiInv

LEMMA EmptyPage ==
  ASSUME PageInv, EmptyView
  PROVE  PageInv'
<1>1. PICK v \in Views : page' = [b \in Boxes |-> IF page[b] = v THEN Unset ELSE page[b]]
  BY DEF EmptyView
<1>2. /\ UNCHANGED <<streams, contexts>>
      /\ page' \in [Boxes -> Views \cup {Unset}]
      /\ \A b \in Boxes : page'[b] = page[b] \/ page'[b] = Unset
  BY <1>1 DEF EmptyView, PageInv, UiInv, UiType
<1>3. UiType(streams', page', contexts')
  BY <1>2 DEF PageInv, UiInv, UiType
<1>4. PageMatch(streams', page', contexts', {})
  BY <1>2 DEF PageInv, UiInv, PageMatch
<1>5. \A k \in DOMAIN streams : streams[k].box \in Boxes
  BY DEF PageInv, UiInv, UiType, Renderer
<1>6. Softs(streams', page', {})
  BY <1>2, <1>5 DEF PageInv, UiInv, Softs
<1> QED BY <1>3, <1>4, <1>6 DEF PageInv, UiInv

LEMMA PageStep ==
  ASSUME QueueInv, PageInv, [SystemNext]_systemVars
  PROVE  PageInv'
<1> USE DEF QueueInv
<1>0. ASSUME UNCHANGED uiVars
      PROVE  PageInv'
  BY <1>0 DEF uiVars, PageInv, UiInv, UiType, PageMatch, Softs
<1>1. CASE Poll \/ PollEnd \/ Begin \/ BatchEnd \/ Skip
  BY <1>0, <1>1 DEF Poll, PollEnd, Begin, BatchEnd, Skip
<1>2. CASE Handle
  BY <1>0, <1>2, DestroyPage DEF Handle, OnEvent, uiVars
<1>3. CASE DrawGl \/ DrawSoft
  BY <1>3, GlPage, SoftPage
<1>4. CASE Emit
  <2>1. Event(Head(immediates)).uid \in Users
    BY <1>4, HeadTold, EventFacts DEF Emit
  <2>2. Home[Event(Head(immediates)).uid] \in Views
    BY <2>1, RenderersAssumption
  <2>3. renderMode \in Modes
    BY DEF EngineInv
  <2> QED BY <1>4, <2>1, <2>2, <2>3, SetupPage, DestroyPage, SystemConstants DEF Emit
<1>5. CASE AppSetup
  BY <1>5, SetupPage, KnownFacts, SystemConstants DEF AppSetup, EngineInv
<1>6. CASE AppDestroy
  BY <1>6, DestroyPage DEF AppDestroy
<1>7. CASE EmptyView
  BY <1>7, EmptyPage
<1>8. CASE SetRenderMode \/ Report \/ Flush
  BY <1>0, <1>8 DEF SetRenderMode, Report, Flush
<1>9. ASSUME NEW p \in Producers, Send(p)
      PROVE  PageInv'
  BY <1>0, <1>9 DEF Send
<1>10. CASE UNCHANGED systemVars
  BY <1>0, <1>10 DEF systemVars
<1> QED BY <1>1, <1>2, <1>3, <1>4, <1>5, <1>6, <1>7, <1>8, <1>9, <1>10 DEF SystemNext, JsStep

LEMMA PageInit == SystemInit => PageInv
BY SystemConstants DEF SystemInit, PageInv, UiInv, UiType, PageMatch, Softs

LEMMA SystemInvariant == SystemSpec => [](QueueInv /\ PageInv)
<1>1. SystemInit => QueueInv /\ PageInv
  BY QueueInvInit, PageInit
<1>2. QueueInv /\ PageInv /\ [SystemNext]_systemVars => (QueueInv /\ PageInv)'
  BY QueueInvStep, PageStep
<1> QED BY <1>1, <1>2, PTL DEF SystemSpec

\* Every variable of the JavaScript side keeps its type, for any users, views
\* and sizes of frames.
THEOREM RenderersTypeCorrect == SystemSpec => []RenderersTypeOK
<1>1. QueueInv /\ PageInv => RenderersTypeOK
  <2> SUFFICES ASSUME QueueInv, PageInv
               PROVE  RenderersTypeOK
    OBVIOUS
  <2>1. immediates \in Seq(Tasks) /\ heard \in Seq(Tasks)
    BY SeqMonotonic DEF QueueInv, EventInv, Told
  <2>2. TypeOK
    BY DEF QueueInv, TypeInv
  <2> QED BY <2>1, <2>2 DEF RenderersTypeOK, QueueInv, EventInv, DrawInv, EngineInv, PageInv,
                            UiInv, UiType
<1> QED BY <1>1, SystemInvariant, PTL

\* The page shows the containers of the renderers in `streams', each its own and
\* in its view, and the live contexts are those of renderers that draw with
\* one: whatever the engine reports and the application does.
THEOREM PageMatchesStreamsHolds == SystemSpec => []PageMatchesStreams
<1>1. PageInv => PageMatchesStreams
  <2> SUFFICES ASSUME PageInv
               PROVE  PageMatchesStreams
    OBVIOUS
  <2>1. {j \in DOMAIN streams \ {} : streams[j].kind = "gl" /\ streams[j].live}
          = {j \in DOMAIN streams : streams[j].kind = "gl" /\ streams[j].live}
    OBVIOUS
  <2> QED BY <2>1 DEF PageInv, UiInv, PageMatch, PageMatchesStreams
<1> QED BY <1>1, SystemInvariant, PTL

----------------------------------------------------------------------------
(* Exceptions *)

LEMMA Halving ==
  ASSUME NEW n \in Nat
  PROVE  \E a \in Nat, r \in {0, 1} : n = 2 * a + r /\ n \div 2 = a /\ n % 2 = r
OBVIOUS

LEMMA Distributes ==
  ASSUME NEW a \in Nat, NEW r \in {0, 1}, NEW b \in Nat, NEW q \in {0, 1}
  PROVE  /\ a * b \in Nat
         /\ (2 * a + r) * (2 * b + q)
              = 4 * (a * b) + (IF q = 1 THEN 2 * a ELSE 0) + (IF r = 1 THEN 2 * b ELSE 0)
                  + (IF r = 1 /\ q = 1 THEN 1 ELSE 0)
<1>1. a * b \in Nat
  OBVIOUS
<1>2. CASE r = 0 /\ q = 0
  BY <1>1, <1>2
<1>3. CASE r = 1 /\ q = 0
  BY <1>1, <1>3
<1>4. CASE r = 0 /\ q = 1
  BY <1>1, <1>4
<1>5. CASE r = 1 /\ q = 1
  BY <1>1, <1>5
<1> QED BY <1>1, <1>2, <1>3, <1>4, <1>5

\* The planes of a frame that is not a video source's have the sizes that
\* _checkData asks for only if both sides are even.
LEMMA EvenPlanes ==
  ASSUME NEW f \in Frame, CheckData(f), f.stream # "videosource"
  PROVE  Halves(f)
<1> DEFINE w == f.size[1]
           h == f.size[2]
<1>1. w \in Nat \ {0} /\ h \in Nat \ {0}
  BY RenderersAssumption DEF Frame
<1>2. w * h = 4 * ((w \div 2) * (h \div 2))
  BY DEF CheckData, Luma, Chroma
<1>3. Halves(f) <=> w % 2 = 0 /\ h % 2 = 0
  BY DEF Halves
<1> HIDE DEF w, h
<1>4. PICK a \in Nat, r \in {0, 1} : w = 2 * a + r /\ w \div 2 = a /\ w % 2 = r
  BY <1>1, Halving
<1>5. PICK b \in Nat, q \in {0, 1} : h = 2 * b + q /\ h \div 2 = b /\ h % 2 = q
  BY <1>1, Halving
<1> DEFINE p == a * b
<1>6. /\ p \in Nat
      /\ w * h = 4 * p + (IF q = 1 THEN 2 * a ELSE 0) + (IF r = 1 THEN 2 * b ELSE 0)
                      + (IF r = 1 /\ q = 1 THEN 1 ELSE 0)
  BY <1>4, <1>5, Distributes
<1>7. w * h = 4 * p
  BY <1>2, <1>4, <1>5
<1> HIDE DEF p
<1>8. /\ (IF q = 1 THEN 2 * a ELSE 0) + (IF r = 1 THEN 2 * b ELSE 0)
           + (IF r = 1 /\ q = 1 THEN 1 ELSE 0) = 0
  BY <1>6, <1>7
<1>9. r = 0 /\ q = 0
  BY <1>1, <1>4, <1>5, <1>8
<1> QED BY <1>3, <1>4, <1>5, <1>9

LEMMA ThrowStep ==
  ASSUME QueueInv, PageInv, ThrowsExplained, [SystemNext]_systemVars
  PROVE  ThrowsExplained'
<1> USE DEF ThrowsExplained
<1>0. ASSUME UNCHANGED thrown
      PROVE  ThrowsExplained'
  BY <1>0
<1>1. CASE BatchEnd
  BY <1>1 DEF BatchEnd
<1>2. CASE DrawGl
  <2>1. CASE UNCHANGED thrown
    BY <1>0, <2>1
  <2>2. CASE ~ UNCHANGED thrown
    <3>1. PICK made \in Outcomes("gl") : ~made /\ Throw(streams[frame.stream], made)
      BY <1>2, <2>2 DEF DrawGl, Drawn
    <3>2. streams[frame.stream].kind = "gl"
      BY <1>2 DEF DrawGl, DrawFrame
    <3>3. thrown'.kind = "gl" /\ ~thrown'.made
      BY <3>1, <3>2 DEF Throw
    <3> QED BY <3>3
  <2> QED BY <2>1, <2>2
<1>3. CASE DrawSoft
  <2> DEFINE r == streams[frame.stream]
  <2>1. CASE UNCHANGED thrown
    BY <1>0, <2>1
  <2>2. CASE ~ UNCHANGED thrown
    <3>1. ~(Halves(frame) /\ r.live) /\ Throw(r, r.live)
      BY <1>3, <2>2 DEF DrawSoft, Drawn
    <3>2. CheckData(frame) /\ frame.stream \in DOMAIN streams /\ r.kind = "soft"
      BY <1>3 DEF DrawSoft, DrawFrame
    <3>3. r.live
      BY <3>2 DEF PageInv, UiInv, Softs
    <3>4. frame \in Frame
      BY <1>3, HeadTailProperties
         DEF DrawSoft, DrawFrame, Drawing, frame, QueueInv, DrawInv
    <3>5. frame.stream = "videosource"
      BY <3>1, <3>2, <3>3, <3>4, EvenPlanes
    <3>6. /\ thrown'.kind = "soft" /\ thrown'.made /\ thrown'.frame = frame
      BY <3>1, <3>2, <3>3 DEF Throw
    <3>7. thrown'.frame.stream = "videosource" /\ ~Halves(thrown'.frame)
      BY <3>1, <3>3, <3>5, <3>6
    <3> QED BY <3>6, <3>7 DEF Halves
  <2> QED BY <2>1, <2>2
<1>4. CASE Poll \/ PollEnd \/ Begin \/ Handle \/ Skip
  BY <1>0, <1>4 DEF Poll, PollEnd, Begin, Handle, Skip, restVars
<1>5. CASE Emit \/ AppSetup \/ AppDestroy \/ SetRenderMode \/ EmptyView
  BY <1>0, <1>5 DEF Emit, AppSetup, AppDestroy, SetRenderMode, EmptyView
<1>6. CASE Report \/ Flush
  BY <1>0, <1>6 DEF Report, Flush, restVars
<1>7. ASSUME NEW p \in Producers, Send(p)
      PROVE  ThrowsExplained'
  BY <1>0, <1>7 DEF Send, restVars
<1>8. CASE UNCHANGED systemVars
  BY <1>0, <1>8 DEF systemVars, restVars
<1> QED BY <1>1, <1>2, <1>3, <1>4, <1>5, <1>6, <1>7, <1>8 DEF SystemNext, JsStep

\* An exception takes a batch along only for a context that was refused or a
\* video source of odd height: an unbound renderer is never drawn on, and
\* frames of users have whole planes or are refused, whatever their size.
THEOREM ThrowsExplainedHolds == SystemSpec => []ThrowsExplained
<1>1. SystemInit => ThrowsExplained
  BY DEF SystemInit, ThrowsExplained
<1>2. QueueInv /\ PageInv /\ ThrowsExplained /\ [SystemNext]_systemVars => ThrowsExplained'
  BY ThrowStep
<1> QED BY <1>1, <1>2, SystemInvariant, PTL DEF SystemSpec

----------------------------------------------------------------------------
(***************************************************************************)
(* The order of events.  The engine's tasks are numbered in the order of   *)
(* their reports; the application has been told the first of them, the     *)
(* immediates are the next, and those that wait in the task queue follow   *)
(* in the order of their numbers, with no gap.                             *)
(***************************************************************************)

\* A queue of tasks has those of the engine from number lo to hi, in order.
InOrder(s, lo, hi) ==
  /\ s \in Seq(Tasks)
  /\ \A k \in EngineAt(s) : s[k][2] \in lo .. hi
  /\ \A n \in lo .. hi : \E k \in EngineAt(s) : s[k][2] = n
  /\ \A j, k \in EngineAt(s) : j < k => s[j][2] < s[k][2]

Handled == Len(heard) + Len(immediates)

OrderInv ==
  /\ Handled <= Len(events)
  /\ \A i \in 1 .. Len(immediates) : immediates[i] = <<"engine", Len(heard) + i>>
  /\ InOrder(Waiting, Handled + 1, Len(events))

\* The queue of AppFifo, by the numbers of the events in it.
Untold == [i \in 1 .. Len(events) - Len(heard) |-> <<"engine", Len(heard) + i>>]

\* A task of the engine, by its number.
LEMMA EngineTask ==
  ASSUME NEW t \in Tasks, t[1] = "engine"
  PROVE  t[2] \in Nat \ {0} /\ t = <<"engine", t[2]>>
BY QueueAssumption DEF Tasks

\* The first of a queue in order is the number that is due, or not of the
\* engine; what follows it is in order.
LEMMA InOrderTail ==
  ASSUME NEW lo \in Nat, NEW hi \in Nat,
         NEW t \in Tasks, NEW s \in Seq(Tasks), InOrder(<<t>> \o s, lo, hi)
  PROVE  /\ t[1] = "engine" => /\ t = <<"engine", lo>> /\ lo <= hi
                               /\ InOrder(s, lo + 1, hi)
         /\ t[1] # "engine" => InOrder(s, lo, hi)
<1> DEFINE u == <<t>> \o s
           n == Len(s)
<1>1. /\ u \in Seq(Tasks) /\ Len(u) = n + 1 /\ n \in Nat
      /\ u[1] = t
      /\ \A k \in 1 .. n : u[k + 1] = s[k]
      /\ DOMAIN u = 1 .. n + 1 /\ DOMAIN s = 1 .. n
  OBVIOUS
<1>2. \A k \in 1 .. n + 1 : u[k] \in Tasks
  BY <1>1
<1>3. /\ \A k \in EngineAt(u) : u[k][2] \in lo .. hi
      /\ \A m \in lo .. hi : \E k \in EngineAt(u) : u[k][2] = m
      /\ \A j, k \in EngineAt(u) : j < k => u[j][2] < u[k][2]
  BY DEF InOrder
<1> HIDE DEF u, n
<1>4. \A k \in EngineAt(s) : k \in 1 .. n /\ k + 1 \in EngineAt(u) /\ u[k + 1] = s[k]
  BY <1>1 DEF EngineAt
<1>5. \A k \in EngineAt(u) : \/ k = 1 /\ t[1] = "engine"
                             \/ k - 1 \in EngineAt(s) /\ u[k] = s[k - 1]
  <2> TAKE k \in EngineAt(u)
  <2>1. k \in 1 .. n + 1 /\ u[k][1] = "engine"
    BY <1>1 DEF EngineAt
  <2>2. CASE k = 1
    BY <1>1, <2>1, <2>2
  <2>3. CASE k # 1
    <3>1. k - 1 \in 1 .. n /\ (k - 1) + 1 = k
      BY <1>1, <2>1, <2>3
    <3>2. u[k] = s[k - 1]
      BY <1>1, <3>1
    <3> QED BY <1>1, <2>1, <3>1, <3>2 DEF EngineAt
  <2> QED BY <2>2, <2>3
<1>6. \A j, k \in EngineAt(s) : j < k => s[j][2] < s[k][2]
  <2> TAKE j, k \in EngineAt(s)
  <2> HAVE j < k
  <2>1. j + 1 < k + 1
    BY <1>1, <1>4
  <2>2. u[j + 1][2] < u[k + 1][2]
    BY <1>3, <1>4, <2>1
  <2> QED BY <1>4, <2>2
<1>7. CASE t[1] = "engine"
  <2>1. 1 \in EngineAt(u)
    BY <1>1, <1>7 DEF EngineAt
  <2>2. t[2] \in lo .. hi
    BY <1>1, <1>3, <2>1
  <2>3. \A k \in EngineAt(s) : t[2] < s[k][2]
    <3> TAKE k \in EngineAt(s)
    <3>1. k + 1 \in EngineAt(u) /\ 1 < k + 1
      BY <1>1, <1>4
    <3>2. u[1][2] < u[k + 1][2]
      BY <1>3, <2>1, <3>1
    <3> QED BY <1>1, <1>4, <3>2
  <2>4. t[2] = lo
    <3>1. PICK k \in EngineAt(u) : u[k][2] = lo
      BY <1>3, <2>2
    <3>2. CASE k = 1
      BY <1>1, <3>1, <3>2
    <3>3. CASE k - 1 \in EngineAt(s) /\ u[k] = s[k - 1]
      BY <2>2, <2>3, <3>1, <3>3
    <3> QED BY <1>5, <3>2, <3>3
  <2>5. \A k \in EngineAt(s) : s[k][2] \in lo + 1 .. hi
    <3> TAKE k \in EngineAt(s)
    <3>1. s[k][2] \in lo .. hi
      BY <1>3, <1>4
    <3> QED BY <2>3, <2>4, <3>1
  <2>6. \A m \in lo + 1 .. hi : \E k \in EngineAt(s) : s[k][2] = m
    <3> TAKE m \in lo + 1 .. hi
    <3>1. m \in lo .. hi /\ m # lo
      OBVIOUS
    <3>2. PICK k \in EngineAt(u) : u[k][2] = m
      BY <1>3, <3>1
    <3>3. k # 1
      BY <1>1, <2>4, <3>1, <3>2
    <3> QED BY <1>5, <3>2, <3>3
  <2>7. InOrder(s, lo + 1, hi)
    BY <1>6, <2>5, <2>6 DEF InOrder
  <2> QED BY <1>7, <2>2, <2>4, <2>7, EngineTask
<1>8. CASE t[1] # "engine"
  <2>1. \A k \in EngineAt(s) : s[k][2] \in lo .. hi
    BY <1>3, <1>4
  <2>2. \A m \in lo .. hi : \E k \in EngineAt(s) : s[k][2] = m
    <3> TAKE m \in lo .. hi
    <3>1. PICK k \in EngineAt(u) : u[k][2] = m
      BY <1>3
    <3> QED BY <1>5, <1>8, <3>1
  <2> QED BY <1>6, <1>8, <2>1, <2>2 DEF InOrder
<1> QED
  BY <1>7, <1>8

\* A task at the end keeps the order if it is the engine's next, or not of the
\* engine.
LEMMA InOrderAppend ==
  ASSUME NEW lo \in Nat, NEW hi \in Nat, lo <= hi + 1,
         NEW s, NEW t \in Tasks, InOrder(s, lo, hi)
  PROVE  /\ t = <<"engine", hi + 1>> => InOrder(Append(s, t), lo, hi + 1)
         /\ t[1] # "engine" => InOrder(Append(s, t), lo, hi)
<1> DEFINE u == Append(s, t)
           n == Len(s)
<1>1. /\ s \in Seq(Tasks) /\ u \in Seq(Tasks) /\ Len(u) = n + 1 /\ n \in Nat
      /\ u[n + 1] = t
      /\ \A k \in 1 .. n : u[k] = s[k]
      /\ DOMAIN u = 1 .. n + 1 /\ DOMAIN s = 1 .. n
  BY AppendProperties DEF InOrder
<1>2. /\ \A k \in EngineAt(s) : s[k][2] \in lo .. hi
      /\ \A m \in lo .. hi : \E k \in EngineAt(s) : s[k][2] = m
      /\ \A j, k \in EngineAt(s) : j < k => s[j][2] < s[k][2]
  BY DEF InOrder
<1> HIDE DEF u, n
<1>3. \A k \in EngineAt(s) : k \in 1 .. n /\ k \in EngineAt(u) /\ u[k] = s[k]
  BY <1>1 DEF EngineAt
<1>4. \A k \in EngineAt(u) : \/ k = n + 1 /\ u[k] = t /\ t[1] = "engine"
                             \/ k \in EngineAt(s) /\ u[k] = s[k]
  <2> TAKE k \in EngineAt(u)
  <2>1. k \in 1 .. n + 1 /\ u[k][1] = "engine"
    BY <1>1 DEF EngineAt
  <2>2. k = n + 1 \/ k \in 1 .. n
    BY <1>1, <2>1
  <2> QED BY <1>1, <2>1, <2>2 DEF EngineAt
<1>5. CASE t = <<"engine", hi + 1>>
  <2>1. n + 1 \in EngineAt(u) /\ u[n + 1] = t /\ t[2] = hi + 1
    BY <1>1, <1>5 DEF EngineAt
  <2>2. \A k \in EngineAt(u) : u[k][2] \in lo .. hi + 1
    <3> TAKE k \in EngineAt(u)
    <3>1. CASE k = n + 1
      BY <2>1, <3>1
    <3>2. CASE k \in EngineAt(s) /\ u[k] = s[k]
      BY <1>2, <3>2
    <3> QED BY <1>4, <3>1, <3>2
  <2>3. \A m \in lo .. hi + 1 : \E k \in EngineAt(u) : u[k][2] = m
    <3> TAKE m \in lo .. hi + 1
    <3>1. CASE m = hi + 1
      BY <2>1, <3>1
    <3>2. CASE m \in lo .. hi
      BY <1>2, <1>3, <3>2
    <3> QED BY <3>1, <3>2
  <2>4. \A j, k \in EngineAt(u) : j < k => u[j][2] < u[k][2]
    <3> TAKE j, k \in EngineAt(u)
    <3> HAVE j < k
    <3>1. j \in EngineAt(s) /\ u[j] = s[j] /\ s[j][2] \in lo .. hi
      BY <1>1, <1>2, <1>3, <1>4
    <3>2. CASE k = n + 1
      BY <2>1, <3>1, <3>2
    <3>3. CASE k \in EngineAt(s) /\ u[k] = s[k]
      BY <1>2, <3>1, <3>3
    <3> QED BY <1>4, <3>2, <3>3
  <2>5. InOrder(u, lo, hi + 1)
    BY <1>1, <2>2, <2>3, <2>4 DEF InOrder
  <2> QED BY <1>5, <2>5 DEF u
<1>6. CASE t[1] # "engine"
  <2>1. \A k \in EngineAt(u) : k \in EngineAt(s) /\ u[k] = s[k]
    BY <1>4, <1>6
  <2>2. InOrder(u, lo, hi)
    BY <1>1, <1>2, <1>3, <2>1 DEF InOrder
  <2> QED BY <1>6, <2>2 DEF u
<1> QED
  BY <1>5, <1>6

\* The places of the engine's tasks up to number m ...
PlacesTo(s, m) == {j \in EngineAt(s) : s[j][2] <= m}

\* ... are as many as the numbers.
LEMMA PlacesCount ==
  ASSUME NEW lo \in Nat, NEW hi \in Nat, NEW s, InOrder(s, lo, hi),
         NEW m \in lo .. hi
  PROVE  IsFiniteSet(PlacesTo(s, m)) /\ Cardinality(PlacesTo(s, m)) = m - lo + 1
<1> DEFINE at == {j \in EngineAt(s) : s[j][2] <= m}
           g == [j \in at |-> s[j][2]]
<1>1. /\ \A k \in EngineAt(s) : s[k][2] \in lo .. hi
      /\ \A i \in lo .. hi : \E k \in EngineAt(s) : s[k][2] = i
      /\ \A j, k \in EngineAt(s) : j < k => s[j][2] < s[k][2]
      /\ EngineAt(s) \subseteq Nat
  BY DEF InOrder, EngineAt
<1>2. \A j \in at : g[j] = s[j][2] /\ j \in EngineAt(s) /\ g[j] \in lo .. m
  BY <1>1
<1>3. g \in [at -> lo .. m]
  BY <1>2
<1>4. \A i \in lo .. m : \E j \in at : g[j] = i
  <2> TAKE i \in lo .. m
  <2>1. PICK k \in EngineAt(s) : s[k][2] = i
    BY <1>1
  <2>2. k \in at
    BY <2>1
  <2> QED BY <1>2, <2>1, <2>2
<1> HIDE DEF g, at
<1>5. \A j, k \in at : g[j] = g[k] => j = k
  <2> TAKE j, k \in at
  <2> HAVE g[j] = g[k]
  <2>1. j \in Nat /\ k \in Nat /\ g[j] \in Nat /\ ~(g[j] < g[k]) /\ ~(g[k] < g[j])
    BY <1>1, <1>2
  <2>2. ~(j < k) /\ ~(k < j)
    BY <1>1, <1>2, <2>1
  <2> QED BY <2>1, <2>2
<1>6. g \in Bijection(at, lo .. m)
  BY <1>3, <1>4, <1>5 DEF Bijection, Injection, Surjection, IsInjective
<1>7. IsFiniteSet(lo .. m) /\ Cardinality(lo .. m) = m - lo + 1
  BY FS_Interval
<1>8. ExistsBijection(at, lo .. m)
  BY <1>6 DEF ExistsBijection
<1>9. IsFiniteSet(at)
  <2>1. at \subseteq 1 .. Len(s) /\ Len(s) \in Nat
    BY DEF at, EngineAt, InOrder
  <2>2. IsFiniteSet(1 .. Len(s))
    BY <2>1, FS_Interval
  <2> QED BY <2>1, <2>2, FS_Subset
<1>10. Cardinality(at) = m - lo + 1
  BY <1>7, <1>8, <1>9, FS_Bijection
<1>11. at = PlacesTo(s, m)
  BY DEF at, PlacesTo
<1> QED
  BY <1>9, <1>10, <1>11

\* The engine's tasks of a queue in order.
LEMMA EngineTasksInOrder ==
  ASSUME NEW lo \in Nat, NEW hi \in Nat, lo <= hi + 1, NEW s, InOrder(s, lo, hi)
  PROVE  EngineTasks(s) = [i \in 1 .. hi - lo + 1 |-> <<"engine", lo + i - 1>>]
<1> DEFINE at == EngineAt(s)
           upTo(k) == {j \in at : j <= k}
           n == hi - lo + 1
<1>1. /\ s \in Seq(Tasks)
      /\ \A k \in at : s[k][2] \in lo .. hi
      /\ \A i \in lo .. hi : \E k \in at : s[k][2] = i
      /\ \A j, k \in at : j < k => s[j][2] < s[k][2]
      /\ at \subseteq Nat
  BY DEF InOrder, EngineAt
<1>2. \A k \in at : s[k] = <<"engine", s[k][2]>>
  <2> TAKE k \in at
  <2>1. s[k] \in Tasks /\ s[k][1] = "engine"
    BY <1>1, ElementOfSeq DEF EngineAt
  <2> QED BY <2>1, EngineTask
<1>3. \A k \in at : upTo(k) = PlacesTo(s, s[k][2])
  <2> TAKE k \in at
  <2>1. ASSUME NEW j \in at PROVE j <= k <=> s[j][2] <= s[k][2]
    <3>1. j \in Nat /\ k \in Nat /\ s[j][2] \in Nat /\ s[k][2] \in Nat
      BY <1>1
    <3>2. j < k => s[j][2] < s[k][2]
      BY <1>1
    <3>3. k < j => s[k][2] < s[j][2]
      BY <1>1
    <3>4. j = k => s[j][2] = s[k][2]
      OBVIOUS
    <3> HIDE DEF at
    <3> QED BY <3>1, <3>2, <3>3, <3>4
  <2> QED BY <2>1 DEF PlacesTo
<1>4. \A k \in at : Cardinality(upTo(k)) = s[k][2] - lo + 1
  <2> TAKE k \in at
  <2>1. s[k][2] \in lo .. hi
    BY <1>1
  <2>2. upTo(k) = PlacesTo(s, s[k][2])
    BY <1>3
  <2> HIDE DEF upTo, at
  <2> QED BY <2>1, <2>2, PlacesCount
<1>5. Cardinality(at) = n
  <2>1. CASE lo <= hi
    <3>1. at = PlacesTo(s, hi) /\ hi \in lo .. hi
      BY <1>1, <2>1 DEF PlacesTo
    <3> HIDE DEF at
    <3> QED BY <3>1, PlacesCount
  <2>2. CASE lo = hi + 1
    <3>1. at = {}
      BY <1>1, <2>2
    <3> QED BY <2>2, <3>1, FS_EmptySet
  <2> QED BY <2>1, <2>2
<1>6. EngineTasks(s) = [i \in 1 .. n |-> s[CHOOSE k \in at : Cardinality(upTo(k)) = i]]
  BY <1>5 DEF EngineTasks
<1> HIDE DEF at, upTo, n
<1>7. ASSUME NEW i \in 1 .. n
      PROVE  s[CHOOSE k \in at : Cardinality(upTo(k)) = i] = <<"engine", lo + i - 1>>
  <2> DEFINE c == CHOOSE k \in at : Cardinality(upTo(k)) = i
  <2>1. lo + i - 1 \in lo .. hi
    BY DEF n
  <2>2. PICK k \in at : s[k][2] = lo + i - 1
    BY <1>1, <2>1
  <2>3. Cardinality(upTo(k)) = i
    <3>1. Cardinality(upTo(k)) = (lo + i - 1) - lo + 1
      BY <1>4, <2>2
    <3> QED BY <3>1
  <2>4. c \in at /\ Cardinality(upTo(c)) = i
    BY <2>3
  <2> HIDE DEF c
  <2>5. s[c][2] = lo + i - 1
    <3>1. s[c][2] \in Nat /\ s[c][2] - lo + 1 = i
      BY <1>1, <1>4, <2>4
    <3> QED BY <3>1
  <2> QED BY <1>2, <2>4, <2>5 DEF c
<1>8. EngineTasks(s) = [i \in 1 .. n |-> <<"engine", lo + i - 1>>]
  BY <1>6, <1>7
<1> QED
  BY <1>8 DEF n

\* The numbers of the events that were reported and told.
LEMMA EventNumbers ==
  ASSUME QueueInv, OrderInv
  PROVE  /\ Len(heard) \in Nat /\ Len(immediates) \in Nat /\ Len(events) \in Nat
         /\ Handled = Len(heard) + Len(immediates)
         /\ Handled <= Len(events)
BY DEF QueueInv, EventInv, OrderInv, Handled

\* The immediates and the engine's tasks in the queue are the events that the
\* application has still to be told.
AppQueue == immediates \o EngineTasks(Waiting)

LEMMA UntoldWaits == QueueInv /\ OrderInv => AppQueue = Untold
<1> SUFFICES ASSUME QueueInv, OrderInv
             PROVE  immediates \o EngineTasks(Waiting) = Untold
  BY DEF AppQueue
<1> DEFINE h == Len(heard)
           m == Len(immediates)
           n == Len(events)
           q == EngineTasks(Waiting)
<1>1. h \in Nat /\ m \in Nat /\ n \in Nat /\ h + m <= n
  BY EventNumbers
<1>2. q = [i \in 1 .. n - (h + m + 1) + 1 |-> <<"engine", (h + m + 1) + i - 1>>]
  <2>1. InOrder(Waiting, h + m + 1, n)
    BY DEF OrderInv, Handled
  <2> QED BY <1>1, <2>1, EngineTasksInOrder
<1>3. \A i \in 1 .. m : immediates[i] = <<"engine", h + i>>
  BY DEF OrderInv
<1>4. immediates \in Seq(Tasks)
  BY SeqMonotonic DEF QueueInv, EventInv, Told
<1> HIDE DEF h, n, q
<1>5. n - (h + m + 1) + 1 = n - (h + m) /\ n - (h + m) \in Nat
  BY <1>1
<1>6. /\ q = [i \in 1 .. n - (h + m) |-> <<"engine", (h + m + 1) + i - 1>>]
      /\ DOMAIN q = 1 .. n - (h + m)
  BY <1>2, <1>5
<1> DEFINE S == Tasks \cup ({"engine"} \X Nat)
           u == immediates \o q
<1>7. /\ q \in Seq(S) /\ Len(q) = n - (h + m)
      /\ immediates \in Seq(S)
  <2>1. \A i \in 1 .. n - (h + m) : <<"engine", (h + m + 1) + i - 1>> \in S
    BY <1>1
  <2> HIDE DEF S
  <2>2. q \in Seq(S) /\ Len(q) = n - (h + m)
    BY <1>5, <1>6, <2>1
  <2>3. Tasks \subseteq S
    BY DEF S
  <2> QED BY <1>4, <2>2, <2>3, SeqMonotonic
<1>8. /\ u \in [1 .. n - h -> S]
      /\ \A i \in 1 .. n - h : u[i] = IF i <= m THEN immediates[i] ELSE q[i - m]
  <2> HIDE DEF S
  <2>1. /\ u \in Seq(S)
        /\ Len(u) = m + Len(q)
        /\ \A i \in 1 .. m + Len(q) : u[i] = IF i <= m THEN immediates[i] ELSE q[i - m]
    <3>1. u \in Seq(S)
      BY <1>7, ConcatProperties
    <3>2. Len(u) = m + Len(q)
      BY <1>7, ConcatProperties
    <3>3. \A i \in 1 .. m + Len(q) : u[i] = IF i <= m THEN immediates[i] ELSE q[i - m]
      BY <1>7, ConcatProperties
    <3> QED BY <3>1, <3>2, <3>3
  <2> HIDE DEF u, m
  <2>2. Len(u) = n - h
    BY <1>1, <1>7, <2>1
  <2>3. u \in [1 .. Len(u) -> S]
    BY <2>1, LenProperties
  <2> QED BY <2>1, <2>2, <2>3
<1> HIDE DEF u, S
<1>9. ASSUME NEW i \in 1 .. n - h
      PROVE  (IF i <= m THEN immediates[i] ELSE q[i - m]) = <<"engine", h + i>>
  <2>1. CASE i <= m
    BY <1>1, <1>3, <2>1
  <2>2. CASE ~(i <= m)
    <3>1. i - m \in 1 .. n - (h + m) /\ (h + m + 1) + (i - m) - 1 = h + i
      BY <1>1, <2>2
    <3> QED BY <1>6, <2>2, <3>1
  <2> QED BY <2>1, <2>2
<1>10. u = [i \in 1 .. n - h |-> <<"engine", h + i>>]
  BY <1>8, <1>9
<1> QED
  BY <1>10 DEF Untold, h, n, q, u

----------------------------------------------------------------------------
(* The steps that keep the order, and what AppFifo sees of them *)

\* The events of the engine that were posted.
EngineAccepted == {t \in accepted : t[1] = "engine"}

AppVars == <<Untold, EngineAccepted, heard>>

\* A step that neither reports nor handles nor tells an event.
LEMMA OrderQuiet ==
  ASSUME OrderInv, UNCHANGED <<events, heard, immediates, accepted, Waiting>>
  PROVE  OrderInv' /\ UNCHANGED AppVars
BY DEF OrderInv, Handled, InOrder, EngineAt, AppVars, Untold, EngineAccepted

\* The queue and the task that runs are left alone.
LEMMA WaitingKept ==
  ASSUME TypeInv,
         \/ UNCHANGED vars \/ Wake \/ Take \/ Drained
         \/ \E p \in Producers : AsyncSend(p)
  PROVE  UNCHANGED <<Waiting, accepted>>
<1>1. CASE Take
  BY <1>1, TakeHides DEF Take
<1>2. CASE UNCHANGED vars \/ Wake \/ Drained \/ \E p \in Producers : AsyncSend(p)
  BY <1>2 DEF vars, Wake, Drained, AsyncSend, Waiting
<1> QED
  BY <1>1, <1>2

LEMMA ReportOrder ==
  ASSUME QueueInv, OrderInv, Report
  PROVE  OrderInv'
<1> DEFINE n == Len(events)
           t == <<"engine", n + 1>>
<1>1. /\ calls["engine"] = n /\ n \in Nat
      /\ UNCHANGED <<immediates, heard, loop, task>>
      /\ queue' = Append(queue, t)
      /\ "engine" \in Producers /\ calls["engine"] < MaxCalls
  BY SystemConstants DEF Report, Push, restVars, QueueInv, EventInv
<1>2. t \in Tasks
  BY <1>1, NextTask DEF QueueInv
<1>3. Len(events') = n + 1
  <2>1. PICK e : events' = Append(events, e)
    BY DEF Report
  <2> QED BY <2>1 DEF QueueInv, EventInv
<1>4. Waiting' = Append(Waiting, t)
  BY <1>1, <1>2 DEF Waiting, QueueInv, TypeInv, TypeOK, Counted
<1>5. Handled' = Handled /\ Handled \in Nat /\ Handled <= n
  BY <1>1, EventNumbers DEF Handled
<1>6. InOrder(Waiting, Handled + 1, n)
  BY DEF OrderInv
<1> HIDE DEF n
<1>7. InOrder(Append(Waiting, t), Handled + 1, n + 1)
  BY <1>1, <1>2, <1>5, <1>6, InOrderAppend
<1>8. Handled' <= Len(events')
  BY <1>1, <1>3, <1>5
<1>9. \A i \in 1 .. Len(immediates') : immediates'[i] = <<"engine", Len(heard') + i>>
  BY <1>1 DEF OrderInv
<1>10. InOrder(Waiting', Handled' + 1, Len(events'))
  BY <1>3, <1>4, <1>5, <1>7
<1> QED
  BY <1>8, <1>9, <1>10 DEF OrderInv, InOrder, EngineAt, Handled

LEMMA FlushOrder ==
  ASSUME QueueInv, OrderInv, Flush
  PROVE  OrderInv' /\ UNCHANGED AppVars
<1> DEFINE t == <<"flush", calls["flush"] + 1>>
<1>1. /\ UNCHANGED <<immediates, heard, loop, task, events>>
      /\ queue' = Append(queue, t)
      /\ accepted' = accepted \cup {t}
      /\ t \in Tasks
  BY NextTask, SystemConstants DEF Flush, Push, restVars, engineVars, QueueInv
<1>2. Waiting' = Append(Waiting, t)
  BY <1>1 DEF Waiting, QueueInv, TypeInv, TypeOK, Counted
<1>3. EngineAccepted' = EngineAccepted
  BY <1>1 DEF EngineAccepted
<1>4. Handled \in Nat /\ Len(events) \in Nat /\ Handled <= Len(events)
  BY EventNumbers
<1>5. InOrder(Waiting, Handled + 1, Len(events)) /\ t[1] # "engine"
  BY DEF OrderInv
<1> HIDE DEF t
<1>6. InOrder(Waiting', Handled + 1, Len(events))
  BY <1>1, <1>2, <1>4, <1>5, InOrderAppend
<1> QED
  BY <1>1, <1>3, <1>6
  DEF OrderInv, InOrder, EngineAt, Handled, AppVars, Untold

\* Handle makes the first of the waiting events the last of the immediates.
LEMMA HandleOrder ==
  ASSUME QueueInv, OrderInv, Handle
  PROVE  OrderInv' /\ UNCHANGED AppVars
<1> DEFINE h == Len(heard)
           m == Len(immediates)
           n == Len(events)
<1>1. /\ loop = "run" /\ task[1] = "engine" /\ loop' = "drain"
      /\ immediates' = Append(immediates, task)
      /\ UNCHANGED <<events, queue, heard, accepted>>
  BY DEF Handle, Run, OnEvent, engineVars, restVars
<1>2. task \in Tasks /\ queue \in Seq(Tasks)
  BY <1>1 DEF QueueInv, TypeInv, TypeOK, Counted
<1>3. Waiting = <<task>> \o queue /\ Waiting' = queue
  BY <1>1 DEF Waiting
<1>4. h \in Nat /\ m \in Nat /\ n \in Nat /\ Handled = h + m
  BY EventNumbers
<1>5. InOrder(<<task>> \o queue, Handled + 1, n)
  BY <1>3 DEF OrderInv
<1>6. /\ task = <<"engine", Handled + 1>> /\ Handled + 1 <= n
      /\ InOrder(queue, Handled + 2, n)
  <2>1. Handled + 1 \in Nat /\ (Handled + 1) + 1 = Handled + 2
    BY <1>4
  <2> QED BY <1>1, <1>2, <1>4, <1>5, <2>1, InOrderTail
<1>7. Len(immediates') = m + 1
  BY <1>1, <1>2 DEF QueueInv, EventInv
<1>8. Handled' = Handled + 1
  BY <1>1, <1>4, <1>7 DEF Handled
<1>9. ASSUME NEW i \in 1 .. m + 1
      PROVE  immediates'[i] = <<"engine", h + i>>
  <2>1. immediates \in Seq(Told) /\ task \in Told
    BY <1>1, TaskTold DEF QueueInv, EventInv
  <2>2. CASE i = m + 1
    <3>1. immediates'[m + 1] = task /\ Handled + 1 = h + (m + 1)
      BY <1>1, <1>4, <2>1
    <3> QED BY <1>6, <2>2, <3>1
  <2>3. CASE i \in 1 .. m
    <3>1. immediates'[i] = immediates[i]
      BY <1>1, <2>1, <2>3
    <3> QED BY <2>3, <3>1 DEF OrderInv
  <2> QED BY <1>4, <2>2, <2>3
<1>10. InOrder(Waiting', Handled' + 1, n)
  <2>1. Handled' + 1 = Handled + 2
    BY <1>4, <1>8
  <2> QED BY <1>3, <1>6, <2>1
<1>11. OrderInv'
  <2>1. Handled' <= Len(events')
    BY <1>1, <1>6, <1>8
  <2>2. \A i \in 1 .. Len(immediates') : immediates'[i] = <<"engine", Len(heard') + i>>
    BY <1>1, <1>7, <1>9
  <2>3. InOrder(Waiting', Handled' + 1, Len(events'))
    BY <1>1, <1>10
  <2> QED BY <2>1, <2>2, <2>3 DEF OrderInv, InOrder, EngineAt, Handled
<1> QED
  BY <1>1, <1>11 DEF AppVars, Untold, EngineAccepted

\* A batch that was drawn is not an event.
LEMMA BatchOrder ==
  ASSUME QueueInv, OrderInv, BatchEnd
  PROVE  OrderInv' /\ UNCHANGED AppVars
<1>1. /\ loop = "run" /\ task[1] = "flush" /\ loop' = "drain"
      /\ UNCHANGED <<events, queue, heard, immediates, accepted>>
  BY DEF BatchEnd, Run, engineVars
<1>2. task \in Tasks /\ queue \in Seq(Tasks)
  BY <1>1 DEF QueueInv, TypeInv, TypeOK, Counted
<1>3. Waiting = <<task>> \o queue /\ Waiting' = queue
  BY <1>1 DEF Waiting
<1>4. Handled + 1 \in Nat /\ Len(events) \in Nat
  BY EventNumbers
<1>5. InOrder(<<task>> \o queue, Handled + 1, Len(events)) /\ task[1] # "engine"
  BY <1>1, <1>3 DEF OrderInv
<1>6. InOrder(queue, Handled + 1, Len(events))
  BY <1>2, <1>4, <1>5, InOrderTail
<1>7. OrderInv'
  BY <1>1, <1>3, <1>6 DEF OrderInv, InOrder, EngineAt, Handled
<1> QED
  BY <1>1, <1>7 DEF AppVars, Untold, EngineAccepted

\* Emit tells the first of the immediates.
LEMMA EmitOrder ==
  ASSUME QueueInv, OrderInv, Emit
  PROVE  /\ OrderInv'
         /\ heard' = Append(heard, <<"engine", Len(heard) + 1>>)
         /\ Len(heard) < Len(events)
         /\ UNCHANGED <<events, accepted>>
<1> DEFINE h == Len(heard)
           m == Len(immediates)
           n == Len(events)
<1>1. /\ immediates # <<>>
      /\ heard' = Append(heard, Head(immediates))
      /\ immediates' = Tail(immediates)
      /\ UNCHANGED <<events, queue, loop, task, accepted>>
  BY DEF Emit, vars, engineVars
<1>2. h \in Nat /\ m \in Nat /\ n \in Nat /\ Handled = h + m /\ Handled <= n
  BY EventNumbers
<1>3. /\ immediates \in Seq(Told) /\ heard \in Seq(Told)
      /\ Head(immediates) \in Told
      /\ m # 0 /\ Head(immediates) = immediates[1]
  BY <1>1, HeadTold DEF QueueInv, EventInv
<1>4. Head(immediates) = <<"engine", h + 1>>
  BY <1>2, <1>3 DEF OrderInv
<1>5. Len(heard') = h + 1 /\ Len(immediates') = m - 1
  BY <1>1, <1>3
<1>6. Handled' = Handled
  BY <1>2, <1>5 DEF Handled
<1>7. Waiting' = Waiting
  BY <1>1 DEF Waiting
<1>8. ASSUME NEW i \in 1 .. m - 1
      PROVE  immediates'[i] = <<"engine", (h + 1) + i>>
  <2>1. immediates'[i] = immediates[i + 1] /\ i + 1 \in 1 .. m /\ h + (i + 1) = (h + 1) + i
    BY <1>1, <1>2, <1>3
  <2> QED BY <2>1 DEF OrderInv
<1>9. OrderInv'
  <2>1. \A i \in 1 .. Len(immediates') : immediates'[i] = <<"engine", Len(heard') + i>>
    BY <1>5, <1>8
  <2>2. Handled' <= Len(events')
    BY <1>1, <1>2, <1>6
  <2>3. InOrder(Waiting', Handled' + 1, Len(events'))
    BY <1>1, <1>6, <1>7 DEF OrderInv
  <2> QED BY <2>1, <2>2, <2>3 DEF OrderInv, InOrder, EngineAt, Handled
<1>10. h < n
  BY <1>2, <1>3
<1> QED
  BY <1>1, <1>4, <1>9, <1>10

\* A report is a Put at the end of what the application has still to be told.
LEMMA ReportPuts ==
  ASSUME QueueInv, OrderInv, Report
  PROVE  \E t \in Tasks :
           /\ t \notin EngineAccepted
           /\ Len(Untold) < MaxEvents
           /\ Untold' = Append(Untold, t)
           /\ EngineAccepted' = EngineAccepted \cup {t}
           /\ heard' = heard
<1> DEFINE h == Len(heard)
           n == Len(events)
           t == <<"engine", n + 1>>
<1>1. /\ n < MaxEvents
      /\ calls["engine"] = n
      /\ accepted' = accepted \cup {t}
      /\ heard' = heard
      /\ "engine" \in Producers /\ calls["engine"] < MaxCalls
  BY SystemConstants DEF Report, Push, restVars, QueueInv, EventInv
<1>2. t \in Tasks /\ t \notin accepted
  BY <1>1, NextTask DEF QueueInv
<1>3. h \in Nat /\ n \in Nat /\ h <= n
  BY EventNumbers
<1>4. Len(events') = n + 1
  <2>1. PICK e : events' = Append(events, e)
    BY DEF Report
  <2> QED BY <2>1 DEF QueueInv, EventInv
<1>5. EngineAccepted' = EngineAccepted \cup {t} /\ t \notin EngineAccepted
  BY <1>1, <1>2 DEF EngineAccepted
<1>6. Untold' = [i \in 1 .. (n + 1) - h |-> <<"engine", h + i>>]
  BY <1>1, <1>4 DEF Untold
<1> DEFINE S == {"engine"} \X Nat
<1>7. Untold = [i \in 1 .. n - h |-> <<"engine", h + i>>]
  BY DEF Untold
<1> HIDE DEF h, n
<1>8. Untold \in Seq(S) /\ Len(Untold) = n - h /\ t \in S
  BY <1>3, <1>7
<1> DEFINE u == Append(Untold, t)
<1>9. u = [i \in 1 .. (n + 1) - h |-> <<"engine", h + i>>]
  <2>1. /\ u \in Seq(S)
        /\ Len(u) = (n - h) + 1
        /\ \A i \in 1 .. n - h : u[i] = Untold[i]
        /\ u[(n - h) + 1] = t
    BY <1>8, AppendProperties
  <2> HIDE DEF u
  <2>2. u \in [1 .. (n - h) + 1 -> S]
    BY <2>1, LenProperties
  <2>3. (n - h) + 1 = (n + 1) - h /\ h + ((n - h) + 1) = n + 1
    BY <1>3
  <2>4. \A i \in 1 .. (n - h) + 1 : u[i] = <<"engine", h + i>>
    <3> TAKE i \in 1 .. (n - h) + 1
    <3>1. CASE i = (n - h) + 1
      BY <2>1, <2>3, <3>1
    <3>2. CASE i \in 1 .. n - h
      BY <1>7, <2>1, <3>2
    <3> QED BY <1>3, <3>1, <3>2
  <2> QED BY <2>2, <2>3, <2>4
<1>10. Untold' = Append(Untold, t)
  BY <1>6, <1>9
<1>11. Len(Untold) < MaxEvents
  BY <1>1, <1>3, <1>8, RenderersAssumption, QueueAssumption DEF n
<1> QED
  BY <1>1, <1>2, <1>5, <1>10, <1>11

\* Emit is a Get.
LEMMA EmitGets ==
  ASSUME QueueInv, OrderInv, Emit
  PROVE  /\ Untold # <<>>
         /\ heard' = Append(heard, Head(Untold))
         /\ Untold' = Tail(Untold)
         /\ EngineAccepted' = EngineAccepted
<1> DEFINE h == Len(heard)
           n == Len(events)
           S == {"engine"} \X Nat
<1>1. /\ heard' = Append(heard, <<"engine", h + 1>>)
      /\ h < n
      /\ UNCHANGED <<events, accepted>>
  BY EmitOrder
<1>2. h \in Nat /\ n \in Nat
  BY EventNumbers
<1>3. Len(heard') = h + 1
  <2>1. heard \in Seq(Told)
    BY DEF QueueInv, EventInv
  <2> QED BY <1>1, <2>1
<1>4. /\ Untold = [i \in 1 .. n - h |-> <<"engine", h + i>>]
      /\ Untold' = [i \in 1 .. n - (h + 1) |-> <<"engine", (h + 1) + i>>]
  BY <1>1, <1>3 DEF Untold
<1> HIDE DEF h, n
<1>5. /\ Untold \in Seq(S) /\ Len(Untold) = n - h
      /\ Untold # <<>>
      /\ \A i \in 1 .. n - h : Untold[i] = <<"engine", h + i>>
  <2>1. n - h \in Nat \ {0}
    BY <1>1, <1>2
  <2>2. \A i \in 1 .. n - h : <<"engine", h + i>> \in S
    BY <1>2
  <2> HIDE DEF S
  <2>3. Untold \in Seq(S) /\ Len(Untold) = n - h
    BY <1>4, <2>1, <2>2
  <2>4. \A i \in 1 .. n - h : Untold[i] = <<"engine", h + i>>
    BY <1>4
  <2> QED BY <2>1, <2>3, <2>4
<1>6. Head(Untold) = <<"engine", h + 1>>
  BY <1>1, <1>2, <1>5
<1> DEFINE u == Tail(Untold)
<1>7. u = [i \in 1 .. n - (h + 1) |-> <<"engine", (h + 1) + i>>]
  <2>1. /\ u \in Seq(S) /\ Len(u) = (n - h) - 1
        /\ \A i \in 1 .. Len(u) : u[i] = Untold[i + 1]
    BY <1>5, HeadTailProperties
  <2> HIDE DEF u
  <2>2. u \in [1 .. Len(u) -> S]
    BY <2>1, LenProperties
  <2>3. Len(u) = n - (h + 1)
    BY <1>2, <2>1
  <2>4. \A i \in 1 .. n - (h + 1) : u[i] = <<"engine", (h + 1) + i>>
    <3> TAKE i \in 1 .. n - (h + 1)
    <3>1. i + 1 \in 1 .. n - h /\ h + (i + 1) = (h + 1) + i
      BY <1>1, <1>2
    <3>2. u[i] = Untold[i + 1]
      BY <2>1, <2>3
    <3> QED BY <1>5, <3>1, <3>2
  <2> QED BY <2>2, <2>3, <2>4
<1> QED
  BY <1>1, <1>4, <1>5, <1>6, <1>7 DEF EngineAccepted, h

\* Every other step is hidden from AppFifo.
LEMMA AppStep ==
  ASSUME QueueInv, OrderInv, [SystemNext]_systemVars
  PROVE  OrderInv' /\ (Report \/ Emit \/ UNCHANGED AppVars)
<1> DEFINE Quiet == OrderInv' /\ UNCHANGED AppVars
<1>0. ASSUME \/ UNCHANGED vars \/ Wake \/ Take \/ Drained
             \/ \E p \in Producers : AsyncSend(p),
             UNCHANGED <<events, heard, immediates>>
      PROVE  Quiet
  BY <1>0, WaitingKept, OrderQuiet DEF QueueInv
<1> HIDE DEF Quiet
<1>1. CASE Poll \/ PollEnd \/ Begin
  BY <1>0, <1>1 DEF Poll, PollEnd, Begin, engineVars, restVars, Quiet
<1>2. CASE Handle
  BY <1>2, HandleOrder DEF Quiet
<1>3. CASE BatchEnd
  BY <1>3, BatchOrder DEF Quiet
<1>4. CASE Skip \/ DrawGl \/ DrawSoft
  BY <1>0, <1>4 DEF Skip, DrawGl, DrawSoft, DrawFrame, engineVars, restVars,
                       Quiet
<1>5. CASE Flush
  BY <1>5, FlushOrder DEF Quiet
<1>6. ASSUME NEW p \in Producers, Send(p)
      PROVE  Quiet
  BY <1>0, <1>6 DEF Send, engineVars, restVars
<1>7. CASE AppSetup \/ AppDestroy \/ SetRenderMode \/ EmptyView
  BY <1>0, <1>7 DEF AppSetup, AppDestroy, SetRenderMode, EmptyView, engineVars, Quiet
<1>8. CASE UNCHANGED systemVars
  BY <1>0, <1>8 DEF systemVars, engineVars, restVars, Quiet
<1>9. CASE Report
  BY <1>9, ReportOrder
<1>10. CASE Emit
  BY <1>10, EmitOrder
<1> QED
  BY <1>1, <1>2, <1>3, <1>4, <1>5, <1>6, <1>7, <1>8, <1>9, <1>10
  DEF SystemNext, JsStep, Quiet

LEMMA OrderInit == SystemInit => OrderInv
<1> SUFFICES ASSUME SystemInit PROVE OrderInv
  OBVIOUS
<1>1. /\ Len(heard) = 0 /\ Len(immediates) = 0 /\ Len(events) = 0
      /\ Waiting = <<>>
  BY DEF SystemInit, Init, Waiting
<1>2. InOrder(<<>>, 1, 0)
  BY DEF InOrder, EngineAt
<1> QED
  BY <1>1, <1>2 DEF OrderInv, Handled

\* From the engine's callback to the application's handler an event is neither
\* lost nor doubled nor overtaken, although it waits twice on the way, among
\* the tasks of the flush threads and among the immediates.
THEOREM ImplementsAppFifo == SystemSpec => AppFifoSpec
<1> DEFINE Inv == QueueInv /\ OrderInv
<1>1. SystemInit => Inv /\ AppFifo!Init
  <2> SUFFICES ASSUME SystemInit PROVE Inv /\ AppFifo!Init
    OBVIOUS
  <2>1. Inv
    BY QueueInvInit, OrderInit
  <2>2. AppQueue = Untold
    BY <2>1, UntoldWaits
  <2>3. Untold = <<>>
    BY DEF SystemInit, Init, Untold
  <2> QED BY <2>1, <2>2, <2>3 DEF SystemInit, Init, AppFifo!Init, AppQueue, Waiting
<1>2. Inv /\ [SystemNext]_systemVars => Inv'
  BY QueueInvStep, AppStep
<1>3. Inv /\ Inv' /\ [SystemNext]_systemVars
        => [AppFifo!Next]_<<AppQueue, EngineAccepted, heard>>
  <2> SUFFICES ASSUME Inv, Inv', [SystemNext]_systemVars
               PROVE  \/ AppFifo!Next
                      \/ UNCHANGED <<AppQueue, EngineAccepted, heard>>
    OBVIOUS
  <2>1. AppQueue = Untold
    BY UntoldWaits
  <2>2. AppQueue' = Untold'
    <3>1. (QueueInv /\ OrderInv => AppQueue = Untold)'
      BY UntoldWaits, PTL
    <3> QED BY <3>1
  <2>3. CASE Report
    BY <2>1, <2>2, <2>3, ReportPuts
    DEF AppFifo!Next, AppFifo!Put, AppQueue, Waiting, EngineAccepted
  <2>4. CASE Emit
    BY <2>1, <2>2, <2>4, EmitGets
    DEF AppFifo!Next, AppFifo!Get, AppQueue, Waiting, EngineAccepted
  <2>5. CASE UNCHANGED AppVars
    BY <2>1, <2>2, <2>5 DEF AppVars
  <2> QED BY <2>3, <2>4, <2>5, AppStep
<1> HIDE DEF Inv
<1> QED
  BY <1>1, <1>2, <1>3, PTL
  DEF SystemSpec, AppFifoSpec, AppFifo!Spec, AppQueue, Waiting, EngineAccepted

=============================================================================
