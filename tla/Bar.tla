-------------------------------- MODULE Bar --------------------------------
(* emskin-bar and the compositor around it: the ext-workspace-v1 server     *)
(* (protocols/workspace.rs), which once per tick sends what has changed,    *)
(* and the layer surface on which the bar draws the workspaces and for      *)
(* which every Emacs frame gives up a strip of the output.  Both sides only *)
(* know of each other what has arrived.                                     *)
(*                                                                          *)
(* The workspaces themselves come and go as Workspaces says; here that is   *)
(* the environment.  A handle is the workspace's id, which is never used    *)
(* again.  The manager's commit, which the server only logs, is left out.   *)
EXTENDS Integers, Sequences, SequencesExt

CONSTANTS
  MaxWs,        \* workspaces made in one run
  Titles,       \* names that Emacs gives its frames; a new one has none
  MaxChanges,   \* bound on what happens to the workspaces or ends the bar,
  MaxClicks,    \* on the user's clicks,
  MaxLayers,    \* and on the layer surfaces of the bar
  PillWidth,    \* the width of a tile: of its name as measured, and padding
  PillGap,      \* between two tiles,
  BarPad,       \* and before the first
  None

Ids   == 1..MaxWs
Names == Titles \cup {None}     \* None: "Workspace" and the number

ASSUME BarAssumption ==
  /\ MaxWs \in Nat \ {0} /\ None \notin Titles
  /\ MaxChanges \in Nat /\ MaxClicks \in Nat /\ MaxLayers \in Nat

ASSUME PillAssumption ==
  PillWidth \in [Ids \X Names -> Nat \ {0}] /\ PillGap \in Nat /\ BarPad \in Nat

VARIABLES
  phase,          \* "dispatch", or within the tick "actions", "refresh"
  live, activeId, nextId,     \* WorkspaceState
  dead,           \* of the live ones, those whose Emacs frame is dead
  name,           \* WorkspaceInfo::name
  strip,          \* strip[i]: frame i was last configured to leave the bar's strip
  bound,          \* ManagerInstance: is it there,
  handles,        \*   workspaces,
  snapshot,       \*   last_snapshot,
  actions,        \*   actions
  layer,          \* the bar's layer surface in the LayerMap, or 0
  zone,           \* the LayerMap leaves a strip to it
  screen,         \* the frame of the bar that is shown, or None
  toBar, toServer,  \* events and requests on their way
  running,        \* the bar has not exited
  pending,        \* BarState::pending_workspaces,
  entries,        \*   workspaces,
  mine,           \*   layer, or 0,
  surfaceSize,    \*   surface_size,
  configuredOnce, \*   configured_once
  layers,         \* layer surfaces made so far
  changes, clicks

wsVars     == <<live, activeId, nextId, dead, name>>
instVars   == <<bound, handles, snapshot, actions>>
mapVars    == <<layer, zone, screen, strip>>
barVars    == <<pending, entries, mine, surfaceSize, configuredOnce, layers>>
vars == <<phase, wsVars, instVars, mapVars, toBar, toServer, running, barVars, changes, clicks>>

-----------------------------------------------------------------------------
Info(i)  == [name |-> name[i], active |-> i = activeId]
Unknown  == [name |-> None, active |-> FALSE]

(* An entry has no place before it is drawn; a tile is an entry as drawn.   *)
Entry(i, n, a) == [id |-> i, name |-> n, active |-> a, left |-> 0, width |-> 0]
Frame(size, tiles) == [size |-> size, tiles |-> tiles]

Event(kind, i)     == [kind |-> kind, id |-> i]
Configure(i, size) == [kind |-> "configure", id |-> i, size |-> size]
Commit(i, frame)   == [kind |-> "commit", id |-> i, frame |-> frame]

-----------------------------------------------------------------------------
(* The workspaces *)

NewFrame ==
  /\ phase = "dispatch" /\ changes < MaxChanges /\ changes' = changes + 1
  /\ nextId <= MaxWs
  /\ live' = live \cup {nextId} /\ activeId' = nextId /\ nextId' = nextId + 1
  /\ strip' = [strip EXCEPT ![nextId] = zone]
  /\ UNCHANGED <<phase, dead, name, instVars, layer, zone, screen, toBar, toServer, running,
                 barVars, clicks>>

(* An Emacs frame's surface dies; the last one stops the compositor.        *)
FrameDies(i) ==
  /\ phase = "dispatch" /\ changes < MaxChanges /\ changes' = changes + 1
  /\ i \in live \ dead /\ dead' = dead \cup {i} /\ live # dead'
  /\ UNCHANGED <<phase, live, activeId, nextId, name, instVars, mapVars, toBar, toServer, running,
                 barVars, clicks>>

IpcSwitch(i) ==
  /\ phase = "dispatch" /\ changes < MaxChanges /\ changes' = changes + 1
  /\ i \in live \ {activeId} /\ activeId' = i
  /\ UNCHANGED <<phase, live, nextId, dead, name, instVars, mapVars, toBar, toServer, running,
                 barVars, clicks>>

TitleChanged(i, title) ==
  /\ phase = "dispatch" /\ changes < MaxChanges /\ changes' = changes + 1
  /\ i \in live /\ name[i] # title /\ name' = [name EXCEPT ![i] = title]
  /\ UNCHANGED <<phase, live, activeId, nextId, dead, instVars, mapVars, toBar, toServer, running,
                 barVars, clicks>>

-----------------------------------------------------------------------------
(* The tick *)

BeginTick ==
  /\ phase = "dispatch" /\ phase' = "actions"
  /\ UNCHANGED <<wsVars, instVars, mapVars, toBar, toServer, running, barVars, changes, clicks>>

(* process_workspace_actions: the bar asks for nothing but activation.      *)
ProcessAction ==
  /\ phase = "actions" /\ actions # <<>>
  /\ activeId' = IF Head(actions) \in live THEN Head(actions) ELSE activeId
  /\ actions' = Tail(actions)
  /\ UNCHANGED <<phase, live, nextId, dead, name, bound, handles, snapshot, mapVars, toBar,
                 toServer, running, barVars, changes, clicks>>

(* detect_dead_workspaces: the ones not shown whose frame is dead go; if it *)
(* is the shown one's, another takes its place, and it goes the next time.  *)
DetectDead ==
  /\ phase = "actions" /\ actions = <<>> /\ phase' = "refresh"
  /\ live' = live \ (dead \ {activeId}) /\ dead' = dead \cap {activeId}
  /\ IF activeId \in dead THEN activeId' \in live \ dead ELSE activeId' = activeId
  /\ UNCHANGED <<nextId, name, instVars, mapVars, toBar, toServer, running, barVars, changes,
                 clicks>>

(* refresh_instance, for one workspace: its handle goes with it, a new one  *)
(* is announced in full, and what the snapshot knows is compared.           *)
Update(i) ==
  IF i \notin live
  THEN IF i \in handles THEN <<Event("removed", i)>> ELSE <<>>
  ELSE IF i \notin handles
  THEN <<[kind |-> "workspace", id |-> i, name |-> name[i], active |-> i = activeId]>>
  ELSE (IF snapshot[i].name # name[i]
        THEN <<[kind |-> "name", id |-> i, name |-> name[i]]>> ELSE <<>>)
       \o (IF snapshot[i].active # (i = activeId)
           THEN <<[kind |-> "state", id |-> i, active |-> i = activeId]>> ELSE <<>>)

(* What there is to tell of each workspace, in the order of the numbers.    *)
InTurn(news) ==
  LET upTo[i \in 0..MaxWs] == IF i = 0 THEN <<>> ELSE upTo[i - 1] \o news[i] IN upTo[MaxWs]

(* The removed ones come first, then the workspaces in order.               *)
Updates ==
  InTurn([i \in Ids |-> IF i \in live THEN <<>> ELSE Update(i)])
    \o InTurn([i \in Ids |-> IF i \in live THEN Update(i) ELSE <<>>])

BatchEach(updates) ==                       \* wrong: a done after each
  [k \in 1..2 * Len(updates) |->
     IF k % 2 = 0 THEN Event("done", 0) ELSE updates[(k + 1) \div 2]]

Batch(updates) == IF updates = <<>> THEN <<>> ELSE Append(updates, Event("done", 0))

(* refresh_workspace_state                                                  *)
Refresh ==
  /\ phase = "refresh" /\ phase' = "dispatch"
  /\ IF bound
     THEN /\ toBar' = IF running THEN toBar \o Batch(Updates) ELSE toBar
          /\ handles' = live
          /\ snapshot' = [i \in Ids |-> IF i \in live THEN Info(i) ELSE Unknown]
     ELSE UNCHANGED <<toBar, handles, snapshot>>
  /\ UNCHANGED <<wsVars, bound, actions, mapVars, toServer, running, barVars, changes, clicks>>

-----------------------------------------------------------------------------
(* The compositor handles the bar's requests *)

Send(e) == toBar' = IF running THEN Append(toBar, e) ELSE toBar

(* relayout_emacs, when the zone has changed: the frames of all workspaces  *)
RelayoutActive(was, is) ==                  \* wrong: the frames not shown are forgotten
  IF was = is THEN strip ELSE [strip EXCEPT ![activeId] = is]

Relayout(was, is) ==
  IF was = is THEN strip ELSE [i \in Ids |-> IF i \in live THEN is ELSE strip[i]]

(* new_layer_surface: it has no zone yet, and is configured as large as the *)
(* output.                                                                  *)
NewLayerSurface(r) ==
  /\ layer' = r.id /\ Send(Configure(r.id, "output"))
  /\ UNCHANGED <<zone, strip, screen, actions>>

(* CompositorHandler::commit: the first one arranges the strip.             *)
LayerCommit(r) ==
  /\ zone' = TRUE /\ strip' = Relayout(zone, TRUE)
  /\ IF r.frame = None
     THEN Send(Configure(r.id, "strip")) /\ screen' = screen
     ELSE screen' = r.frame /\ toBar' = toBar
  /\ UNCHANGED <<layer, actions>>

LayerDestroyed ==
  /\ layer' = 0 /\ screen' = None
  /\ zone' = FALSE /\ strip' = Relayout(zone, FALSE)
  /\ UNCHANGED toBar

ActivateFirst(r) ==                         \* wrong: one activation per tick
  /\ actions' = IF r.id \in handles /\ actions = <<>> THEN <<r.id>> ELSE actions
  /\ UNCHANGED <<mapVars, toBar>>

(* A handle whose workspace is gone has no id any more.                     *)
Activate(r) ==
  /\ actions' = IF r.id \in handles THEN Append(actions, r.id) ELSE actions
  /\ UNCHANGED <<mapVars, toBar>>

HandleRequest ==
  /\ phase = "dispatch" /\ toServer # <<>>
  /\ LET r == Head(toServer)
     IN \/ r.kind = "layer" /\ NewLayerSurface(r)
        \/ r.kind = "commit" /\ LayerCommit(r)
        \/ r.kind = "destroy" /\ LayerDestroyed /\ UNCHANGED actions
        \/ r.kind = "activate" /\ Activate(r)
  /\ toServer' = Tail(toServer)
  /\ UNCHANGED <<phase, wsVars, bound, handles, snapshot, running, barVars, changes, clicks>>

(* The bar's connection ends: its ManagerInstance goes, with its actions.   *)
(* layer_destroyed finds the layer surface in the LayerMap only if its      *)
(* wl_surface is not gone before it.                                        *)
ClientGone ==
  /\ phase = "dispatch" /\ bound /\ ~running /\ toServer = <<>>
  /\ bound' = FALSE /\ handles' = {} /\ actions' = <<>>
  /\ snapshot' = [i \in Ids |-> Unknown]
  /\ \/ LayerDestroyed
     \/ layer # 0 /\ screen' = None /\ UNCHANGED <<layer, zone, strip, toBar>>
  /\ UNCHANGED <<phase, wsVars, toServer, running, barVars, changes, clicks>>

(* LayerMap::cleanup after a redraw takes it out later.                     *)
Cleanup ==
  /\ phase = "dispatch" /\ ~bound /\ layer # 0
  /\ layer' = 0 /\ zone' = FALSE
  /\ UNCHANGED <<phase, wsVars, instVars, strip, screen, toBar, toServer, running, barVars,
                 changes, clicks>>

-----------------------------------------------------------------------------
(* The bar handles its events *)

(* The tiles lie side by side, each as wide as its name.                    *)
Edges(width) ==
  LET left[k \in DOMAIN width] == IF k = 1 THEN BarPad ELSE left[k - 1] + width[k - 1] + PillGap
  IN left

Laid(es) ==
  LET width == [k \in DOMAIN es |-> PillWidth[<<es[k].id, es[k].name>>]]
  IN [k \in DOMAIN es |-> [es[k] EXCEPT !.left = Edges(width)[k], !.width = width[k]]]

(* draw: each entry remembers its hit_rect.                                 *)
Draw(es, requests) ==
  /\ entries' = Laid(es)
  /\ toServer' = Append(requests, Commit(mine, Frame(surfaceSize', entries')))

CreateLayer ==
  /\ layers < MaxLayers /\ layers' = layers + 1
  /\ mine' = layers + 1 /\ configuredOnce' = FALSE
  /\ toServer' = toServer \o <<Event("layer", layers + 1), Commit(layers + 1, None)>>
  /\ UNCHANGED surfaceSize

DestroyLayer ==
  /\ mine' = 0 /\ surfaceSize' = None /\ configuredOnce' = FALSE
  /\ toServer' = Append(toServer, Event("destroy", mine))
  /\ UNCHANGED layers

VisibilityOnly(es) ==                       \* wrong: what is shown is not drawn again
  \/ mine = 0 /\ Len(es) >= 2 /\ CreateLayer /\ entries' = es
  \/ mine # 0 /\ Len(es) < 2 /\ DestroyLayer /\ entries' = es
  \/ /\ (mine # 0) = (Len(es) >= 2) /\ entries' = es
     /\ UNCHANGED <<toServer, mine, surfaceSize, configuredOnce, layers>>

(* update_visibility                                                        *)
UpdateVisibility(es) ==
  \/ mine = 0 /\ Len(es) >= 2 /\ CreateLayer /\ entries' = es
  \/ mine # 0 /\ Len(es) < 2 /\ DestroyLayer /\ entries' = es
  \/ /\ mine # 0 /\ Len(es) >= 2 /\ configuredOnce
     /\ UNCHANGED <<mine, surfaceSize, configuredOnce, layers>> /\ Draw(es, toServer)
  \/ /\ \/ mine # 0 /\ Len(es) >= 2 /\ ~configuredOnce
        \/ mine = 0 /\ Len(es) < 2
     /\ entries' = es /\ UNCHANGED <<toServer, mine, surfaceSize, configuredOnce, layers>>

OnWorkspace(e) ==
  /\ pending' = Append(pending, Entry(e.id, e.name, e.active))
  /\ UNCHANGED <<entries, toServer, mine, surfaceSize, configuredOnce, layers>>

(* Later events reach an entry in either list.                              *)
Renamed(es, e)  == [k \in DOMAIN es |-> IF es[k].id = e.id THEN [es[k] EXCEPT !.name = e.name]
                                        ELSE es[k]]
Restated(es, e) == [k \in DOMAIN es |-> IF es[k].id = e.id
                                        THEN [es[k] EXCEPT !.active = e.active] ELSE es[k]]
(* retain: a handle has at most one entry.                                  *)
Without(es, i)  == LET at == {k \in DOMAIN es : es[k].id = i}
                   IN IF at = {} THEN es ELSE RemoveAt(es, CHOOSE k \in at : TRUE)

OnHandleEvent(e) ==
  /\ \/ /\ e.kind = "name"
        /\ pending' = Renamed(pending, e) /\ entries' = Renamed(entries, e)
     \/ /\ e.kind = "state"
        /\ pending' = Restated(pending, e) /\ entries' = Restated(entries, e)
     \/ /\ e.kind = "removed"
        /\ pending' = Without(pending, e.id) /\ entries' = Without(entries, e.id)
  /\ UNCHANGED <<toServer, mine, surfaceSize, configuredOnce, layers>>

Prepended(new, old) == new \o old           \* wrong: the new ones come first

(* sort_by_key: the place of an entry is the number of ids up to its own.   *)
Place(es, k) == Cardinality({j \in DOMAIN es : es[j].id <= es[k].id})
Sorted(new, old) ==
  LET es == old \o new
  IN [n \in DOMAIN es |-> es[CHOOSE k \in DOMAIN es : Place(es, k) = n]]

OnDone == pending' = <<>> /\ UpdateVisibility(Sorted(pending, entries))

(* A configure of a layer surface that is gone is not delivered.            *)
OnConfigure(e) ==
  IF e.id # mine
  THEN UNCHANGED <<toServer, barVars>>
  ELSE /\ surfaceSize' = e.size /\ configuredOnce' = TRUE
       /\ Draw(entries, toServer) /\ UNCHANGED <<pending, mine, layers>>

Lowest(S) == CHOOSE i \in S : \A j \in S : i <= j

(* handle_click, hit_test: where the entries were drawn last                *)
Within(e, x) == e.left <= x /\ x < e.left + e.width
Hit(x) == {n \in DOMAIN entries : Within(entries[n], x)}

OnPress(e) ==
  /\ toServer' = IF e.id = mine /\ Hit(e.at) # {}
                 THEN Append(toServer, Event("activate", entries[Lowest(Hit(e.at))].id))
                 ELSE toServer
  /\ UNCHANGED barVars

HandleEvent ==
  /\ running /\ toBar # <<>>
  /\ LET e == Head(toBar)
     IN \/ e.kind = "workspace" /\ OnWorkspace(e)
        \/ e.kind \in {"name", "state", "removed"} /\ OnHandleEvent(e)
        \/ e.kind = "done" /\ OnDone
        \/ e.kind = "configure" /\ OnConfigure(e)
        \/ e.kind = "press" /\ OnPress(e)
  /\ toBar' = Tail(toBar)
  /\ UNCHANGED <<phase, wsVars, instVars, mapVars, running, changes, clicks>>

BarExits ==
  /\ changes < MaxChanges /\ changes' = changes + 1
  /\ running /\ running' = FALSE /\ toBar' = <<>>
  /\ UNCHANGED <<phase, wsVars, instVars, mapVars, toServer, barVars, clicks>>

(* The user presses somewhere on the k-th tile that is shown.  What was     *)
(* shown and seen is not in the event; it is kept for the property.         *)
Click(k) ==
  /\ phase = "dispatch" /\ running /\ clicks < MaxClicks /\ clicks' = clicks + 1
  /\ screen # None /\ k \in DOMAIN screen.tiles
  /\ \E x \in 0..screen.tiles[k].left + screen.tiles[k].width :
       /\ Within(screen.tiles[k], x)
       /\ Send([kind |-> "press", id |-> layer, at |-> x, saw |-> k, tiles |-> screen.tiles])
  /\ UNCHANGED <<phase, wsVars, instVars, mapVars, toServer, running, barVars, changes>>

-----------------------------------------------------------------------------
(* The bar has bound the manager,                                           *)
ServerInit ==
  /\ bound = TRUE /\ handles = {} /\ actions = <<>>
  /\ snapshot = [i \in Ids |-> Unknown]

(* and has no layer surface before it hears of a second workspace.          *)
BarInit ==
  /\ pending = <<>> /\ entries = <<>> /\ mine = 0 /\ surfaceSize = None
  /\ configuredOnce = FALSE /\ layers = 0

Init ==
  /\ ServerInit /\ BarInit
  /\ phase = "dispatch" /\ live = {1} /\ activeId = 1 /\ nextId = 2 /\ dead = {}
  /\ name = [i \in Ids |-> None] /\ strip = [i \in Ids |-> FALSE]
  /\ layer = 0 /\ zone = FALSE /\ screen = None
  /\ toBar = <<>> /\ toServer = <<>> /\ running = TRUE
  /\ changes = 0 /\ clicks = 0

Next ==
  \/ NewFrame \/ \E i \in Ids : FrameDies(i) \/ IpcSwitch(i)
  \/ \E i \in Ids, title \in Titles : TitleChanged(i, title)
  \/ BeginTick \/ ProcessAction \/ DetectDead \/ Refresh
  \/ HandleRequest \/ ClientGone \/ Cleanup
  \/ HandleEvent \/ BarExits
  \/ \E k \in Ids : Click(k)

(* The loop ticks after each dispatch, in which it reads what clients have  *)
(* sent; the bar reads when there is something.                             *)
Fairness ==
  /\ WF_vars(BeginTick) /\ WF_vars(ProcessAction) /\ WF_vars(DetectDead) /\ WF_vars(Refresh)
  /\ SF_vars(HandleRequest) /\ WF_vars(HandleEvent)

Spec == Init /\ [][Next]_vars
FairSpec == Spec /\ Fairness

-----------------------------------------------------------------------------
(* Properties *)

Infos   == [name : Names, active : BOOLEAN]
Entries == [id : Ids, name : Names, active : BOOLEAN, left : Nat, width : Nat]

TypeOK ==
  /\ phase \in {"dispatch", "actions", "refresh"}
  /\ live \in SUBSET Ids /\ activeId \in live /\ dead \subseteq live /\ live # dead
  /\ nextId \in 1..MaxWs + 1
  /\ name \in [Ids -> Names] /\ strip \in [Ids -> BOOLEAN]
  /\ bound \in BOOLEAN /\ handles \subseteq Ids /\ snapshot \in [Ids -> Infos]
  /\ actions \in Seq(Ids) /\ layer \in 0..MaxLayers /\ zone \in BOOLEAN
  /\ pending \in Seq(Entries) /\ entries \in Seq(Entries)
  /\ mine \in 0..MaxLayers /\ layers \in 0..MaxLayers
  /\ surfaceSize \in {None, "output", "strip"} /\ configuredOnce \in BOOLEAN
  /\ running \in BOOLEAN

(* While the bar is there, every Emacs frame, shown or not, has the size    *)
(* that the bar's strip leaves to it.                                       *)
EmacsFits == bound => \A i \in live : strip[i] = zone

(* Every frame the bar draws is a whole state of the workspaces: one tile   *)
(* is active, although the change of the active one comes as two events and *)
(* a configure draws at any time.                                           *)
WholeFrame(frame) ==
  frame # None => Cardinality({k \in DOMAIN frame.tiles : frame.tiles[k].active}) = 1

FramesAreWhole ==
  \A k \in DOMAIN toServer : toServer[k].kind = "commit" => WholeFrame(toServer[k].frame)

(* When the workspaces change no more, the bar comes to show all of them,   *)
(* in a strip, or nothing if there is only one.                             *)
Shown ==
  IF Cardinality(live) < 2 THEN screen = None
  ELSE /\ screen # None /\ screen.size = "strip"
       /\ {[id |-> t.id, name |-> t.name, active |-> t.active] : t \in Range(screen.tiles)}
            = {[id |-> i, name |-> name[i], active |-> i = activeId] : i \in live}

BarFollows == <>[](running /\ layers < MaxLayers => Shown)

(* A click goes to the workspace that the user saw, although the list may   *)
(* have changed and the bar have drawn again since, unless that tile or one *)
(* before it has gone, or is now drawn with a name of another width: tiles  *)
(* that only come, are renamed behind it or change their colour move none.  *)
Moved(press) ==
  \/ \E i \in Ids : i <= press.tiles[press.saw].id /\ i \notin handles
  \/ \E n \in DOMAIN entries, k \in 1..press.saw :
       entries[n].id = press.tiles[k].id /\ entries[n].width # press.tiles[k].width

ClickHitsSeen ==
  [][running /\ toBar # <<>> /\ toBar' = Tail(toBar) /\ Head(toBar).kind = "press"
       /\ toServer' # toServer
     => LET press == Head(toBar)
        IN toServer'[Len(toServer')].id = press.tiles[press.saw].id \/ Moved(press)]_vars

(* An activation that was sent takes effect, unless its workspace or the    *)
(* bar is gone by then.                                                     *)
ActivationsArrive ==
  \A i \in Ids :
    (\E k \in DOMAIN toServer : toServer[k] = Event("activate", i))
      ~> (activeId = i \/ i \notin live \/ ~running)
=============================================================================
