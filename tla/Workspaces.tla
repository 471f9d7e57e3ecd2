---------------------------- MODULE Workspaces ----------------------------
(***************************************************************************)
(* Where every window of the nested compositor is: workspaces (one smithay *)
(* Space each), Emacs frames, embedded apps, mirrors, and what Emacs has   *)
(* been told about them over IPC.                                          *)
(*                                                                         *)
(* The compositor is one thread.  calloop first dispatches the sources     *)
(* that are ready (Wayland clients, the winit redraw, ...), in any order:  *)
(* that is phase "dispatch".  Then it calls event_loop_tick, whose         *)
(* handlers run in a fixed order: the other phases.  A handler that loops  *)
(* over a batch (pending toplevels, protocol actions, IPC messages) is one *)
(* action per element of the batch, and nothing else can run in between.   *)
(*                                                                         *)
(* Abstractions: a Space is the set of its elements (the stacking order    *)
(* and the coordinates are left out); a geometry is present or absent; the *)
(* u64 window_id that AppManager allocates is the window itself, so ids    *)
(* are never reused by construction; titles are left out.                  *)
(***************************************************************************)
EXTENDS Naturals, Sequences, FiniteSets

CONSTANTS
  Windows,      \* every xdg_toplevel a client may ever create
  Clients,      \* Wayland clients
  Owner,        \* Owner[w] is the client that creates w
  Views,        \* ids of mirror views
  Verbs,        \* the IPC message types that Emacs sends
  MaxWs,        \* bound on the workspaces allocated in one run
  MaxBatch,     \* bound on the toplevels that wait for one tick
  None          \* no surface, no workspace

WsIds == 1 .. MaxWs

ASSUME ConstantsAssumption ==
  /\ Owner \in [Windows -> Clients]
  /\ MaxWs \in Nat \ {0}
  /\ MaxBatch \in Nat
  /\ None \notin Windows
  /\ None \notin WsIds

VARIABLES
  phase,            \* the handler of event_loop_tick that runs next, or "dispatch"
  stopping,         \* loop_signal.stop() was called
  status,           \* status[w]: the toplevel's wl_surface is unborn, alive or dead
  settled,          \* EmacsState::initial_size_settled
  activeId,         \* WorkspaceState::active_id
  inactive,         \* the keys of WorkspaceState::inactive
  nextId,           \* WorkspaceState::next_id
  frame,            \* frame[i]: the Emacs surface of workspace i
  space,            \* space[i]: the elements of workspace i's Space
  pendingEmacs,     \* WorkspaceState::pending_emacs_toplevels
  pendingApps,      \* WorkspaceState::pending_app_toplevels
  apps,             \* the keys of AppManager::windows
  appWs,            \* AppWindow::workspace_id
  geometry,         \* AppWindow::geometry is Some
  pendingGeometry,  \* AppWindow::pending_geometry: "none", "fresh" (set by this tick), "waiting"
  visible,          \* AppWindow::visible
  mirrors,          \* mirrors[w][v]: MirrorView::workspace_id, or None
  handles,          \* the workspaces a bound ext-workspace client has a handle of
  winTold,          \* the last of WindowCreated, WindowDestroyed sent for w
  wsTold            \* the last of WorkspaceCreated, WorkspaceDestroyed sent for i

appVars   == <<apps, appWs, geometry, pendingGeometry, visible, mirrors>>
wsVars    == <<activeId, inactive, nextId, frame>>
queueVars == <<pendingEmacs, pendingApps>>
vars == <<phase, stopping, status, settled, wsVars, space, queueVars, appVars,
          handles, winTold, wsTold>>

Phases == {"dispatch", "frames", "apps", "actions", "deadws", "refresh",
           "deadapps", "dialogs", "ipc", "timeouts", "stopped"}

TypeOK ==
  /\ phase \in Phases
  /\ stopping \in BOOLEAN
  /\ status \in [Windows -> {"unborn", "alive", "dead"}]
  /\ settled \in BOOLEAN
  /\ activeId \in WsIds
  /\ inactive \in SUBSET WsIds
  /\ nextId \in 1 .. MaxWs + 1
  /\ frame \in [WsIds -> Windows \cup {None}]
  /\ space \in [WsIds -> SUBSET Windows]
  /\ pendingEmacs \in Seq(Windows)
  /\ pendingApps \in Seq(Windows)
  /\ apps \in SUBSET Windows
  /\ appWs \in [Windows -> WsIds \cup {None}]
  /\ geometry \in [Windows -> BOOLEAN]
  /\ pendingGeometry \in [Windows -> {"none", "fresh", "waiting"}]
  /\ visible \in [Windows -> BOOLEAN]
  /\ mirrors \in [Windows -> [Views -> WsIds \cup {None}]]
  /\ handles \in SUBSET WsIds
  /\ winTold \in [Windows -> {"none", "created", "destroyed"}]
  /\ wsTold \in [WsIds -> {"none", "created", "destroyed"}]

Init ==
  /\ phase = "dispatch"
  /\ stopping = FALSE
  /\ status = [w \in Windows |-> "unborn"]
  /\ settled = FALSE
  /\ activeId = 1
  /\ inactive = {}
  /\ nextId = 2
  /\ frame = [i \in WsIds |-> None]
  /\ space = [i \in WsIds |-> {}]
  /\ pendingEmacs = << >>
  /\ pendingApps = << >>
  /\ apps = {}
  /\ appWs = [w \in Windows |-> None]
  /\ geometry = [w \in Windows |-> FALSE]
  /\ pendingGeometry = [w \in Windows |-> "none"]
  /\ visible = [w \in Windows |-> FALSE]
  /\ mirrors = [w \in Windows |-> [v \in Views |-> None]]
  /\ handles = {}
  /\ winTold = [w \in Windows |-> "none"]
  /\ wsTold = [i \in WsIds |-> IF i = 1 THEN "created" ELSE "none"]

-----------------------------------------------------------------------------
(* Helpers *)

Live == inactive \cup {activeId}

Alive(w) == w \in Windows /\ status[w] = "alive"

Dead(w) == w \in Windows /\ status[w] = "dead"

(* WorkspaceState::space_for_mut(i)?.map_element(w): nothing if i is gone. *)
Map(sp, i, w) ==
  IF i \in Live THEN [sp EXCEPT ![i] = @ \cup {w}] ELSE sp

(* WorkspaceState::space_for_mut(i)?.unmap_elem(w). *)
Unmap(sp, i, w) ==
  IF i \in Live THEN [sp EXCEPT ![i] = @ \ {w}] ELSE sp

(* EmskinState::is_emacs_client: the client of the ACTIVE Emacs surface. *)
IsEmacsClient(w) ==
  /\ frame[activeId] # None
  /\ Owner[w] = Owner[frame[activeId]]

(* EmacsState::should_claim_main *)
ShouldClaimMain == frame[activeId] = None /\ ~settled

(* EmacsState::main_died *)
MainDied == settled /\ Dead(frame[activeId])

(* switch_workspace swaps the active slot with an inactive one.  Here both *)
(* are indexed by id, so only the ids move; apps are not migrated.         *)
SwitchWorkspace(target) ==
  IF target \in inactive
  THEN /\ activeId' = target
       /\ inactive' = (inactive \ {target}) \cup {activeId}
  ELSE UNCHANGED <<activeId, inactive>>

(* WorkspaceState::alloc_id, before the counter moves on. *)
AllocId == nextId

(* The apps that destroy_workspace takes with the workspaces in gone. *)
NoLost(gone) == {}                                    \* wrong: takes none

Lost(gone) == {w \in apps : appWs[w] \in gone}

(* A WindowDestroyed for each w in ws. *)
ToldIfHoused(ws) ==                                   \* wrong: not if stranded
  [w \in Windows |-> IF w \in ws /\ appWs[w] \in Live THEN "destroyed" ELSE winTold[w]]

TellDestroyed(ws) ==
  [w \in Windows |-> IF w \in ws THEN "destroyed" ELSE winTold[w]]

(* destroy_workspace, of all workspaces in gone: their frames, their Spaces *)
(* and their apps go.  The clients of those apps are not closed.           *)
DropContents(gone) ==
  /\ frame' = [i \in WsIds |-> IF i \in gone THEN None ELSE frame[i]]
  /\ space' = [i \in WsIds |-> IF i \in gone THEN {} ELSE space[i]]
  /\ apps' = apps \ Lost(gone)
  /\ winTold' = TellDestroyed(Lost(gone))

(* What space.refresh() or cleanup_dead_dialogs leaves in workspace i's Space. *)
WithoutDeadIfActive(i) == {w \in space[i] : i = activeId => ~Dead(w)}   \* wrong

WithoutDead(i) == {w \in space[i] : ~Dead(w)}

-----------------------------------------------------------------------------
(* Phase "dispatch": what the clients do, and the redraw *)

(* A client creates a toplevel: the first one ever is claimed as Emacs, one *)
(* of the Emacs client waits for its set_parent, any other waits to be     *)
(* classified.  All are mapped in the active space at once.                *)
NewToplevel(w) ==
  /\ phase = "dispatch"
  /\ status[w] = "unborn"
  /\ status' = [status EXCEPT ![w] = "alive"]
  /\ space' = [space EXCEPT ![activeId] = @ \cup {w}]
  /\ \/ /\ ShouldClaimMain
        /\ frame' = [frame EXCEPT ![activeId] = w]
        /\ settled' = TRUE
        /\ UNCHANGED queueVars
     \/ /\ ~ShouldClaimMain
        /\ IsEmacsClient(w)
        /\ Len(pendingEmacs) < MaxBatch
        /\ nextId + Len(pendingEmacs) <= MaxWs
        /\ pendingEmacs' = Append(pendingEmacs, w)
        /\ UNCHANGED <<frame, settled, pendingApps>>
     \/ /\ ~ShouldClaimMain
        /\ ~IsEmacsClient(w)
        /\ Len(pendingApps) < MaxBatch
        /\ pendingApps' = Append(pendingApps, w)
        /\ UNCHANGED <<frame, settled, pendingEmacs>>
  /\ UNCHANGED <<phase, stopping, activeId, inactive, nextId, appVars, handles,
                 winTold, wsTold>>

(* A client destroys its toplevel, exits or crashes. *)
ToplevelDies(w) ==
  /\ phase = "dispatch"
  /\ status[w] = "alive"
  /\ status' = [status EXCEPT ![w] = "dead"]
  /\ UNCHANGED <<phase, stopping, settled, wsVars, space, queueVars, appVars,
                 handles, winTold, wsTold>>

(* An app commits a buffer while a geometry is pending: the geometry takes *)
(* effect and the window is mapped in the ACTIVE space.                    *)
Commit(w) ==
  /\ phase = "dispatch"
  /\ Alive(w)
  /\ w \in apps
  /\ pendingGeometry[w] # "none"
  /\ geometry' = [geometry EXCEPT ![w] = TRUE]
  /\ pendingGeometry' = [pendingGeometry EXCEPT ![w] = "none"]
  /\ space' = [space EXCEPT ![activeId] = @ \cup {w}]
  /\ UNCHANGED <<phase, stopping, status, settled, wsVars, queueVars, apps, appWs,
                 visible, mirrors, handles, winTold, wsTold>>

(* post_render ends with active_space.refresh(), which drops dead elements. *)
Redraw ==
  /\ phase = "dispatch"
  /\ space' = [space EXCEPT ![activeId] = WithoutDead(activeId)]
  /\ UNCHANGED <<phase, stopping, status, settled, wsVars, queueVars, appVars,
                 handles, winTold, wsTold>>

(* The host closes the window, or the Emacs child exits: the loop ends     *)
(* after this iteration.                                                   *)
StopLoop ==
  /\ phase = "dispatch"
  /\ stopping' = TRUE
  /\ UNCHANGED <<phase, status, settled, wsVars, space, queueVars, appVars,
                 handles, winTold, wsTold>>

BeginTick ==
  /\ phase = "dispatch"
  /\ phase' = "frames"
  /\ UNCHANGED <<stopping, status, settled, wsVars, space, queueVars, appVars,
                 handles, winTold, wsTold>>

-----------------------------------------------------------------------------
(* event_loop_tick *)

(* process_pending_toplevels, one toplevel with a parent: a child frame,    *)
(* left where it is.                                                       *)
ChildFrame ==
  /\ phase = "frames"
  /\ pendingEmacs # << >>
  /\ pendingEmacs' = Tail(pendingEmacs)
  /\ UNCHANGED <<phase, stopping, status, settled, wsVars, space, pendingApps,
                 appVars, handles, winTold, wsTold>>

(* process_pending_toplevels, one toplevel without a parent: a new Emacs   *)
(* frame.  It leaves the ACTIVE space for a workspace of its own, which    *)
(* becomes active at once, before the rest of the batch is looked at.      *)
(* Nothing asks whether the toplevel is still alive.                       *)
UnmapAfterMap(w, i) == [space EXCEPT ![i] = {}, ![activeId] = @ \ {w}]   \* wrong

MoveToNewSpace(w, i) == [space EXCEPT ![activeId] = @ \ {w}, ![i] = {w}]

NewFrame ==
  /\ phase = "frames"
  /\ pendingEmacs # << >>
  /\ frame' = [frame EXCEPT ![AllocId] = Head(pendingEmacs)]
  /\ space' = MoveToNewSpace(Head(pendingEmacs), AllocId)
  /\ pendingEmacs' = Tail(pendingEmacs)
  /\ nextId' = nextId + 1
  /\ activeId' = AllocId
  /\ inactive' = inactive \cup {activeId}
  /\ wsTold' = [wsTold EXCEPT ![AllocId] = "created"]
  /\ UNCHANGED <<phase, stopping, status, settled, pendingApps, appVars, handles,
                 winTold>>

FramesDone ==
  /\ phase = "frames"
  /\ pendingEmacs = << >>
  /\ phase' = "apps"
  /\ UNCHANGED <<stopping, status, settled, wsVars, space, queueVars, appVars,
                 handles, winTold, wsTold>>

(* process_pending_app_toplevels, one toplevel that is dead already, or     *)
(* that wants_floating (a dialog): it stays in the Space it was mapped in   *)
(* and AppManager never knows of it.                                       *)
SkipOrFloat ==
  /\ phase = "apps"
  /\ pendingApps # << >>
  /\ pendingApps' = Tail(pendingApps)
  /\ UNCHANGED <<phase, stopping, status, settled, wsVars, space, pendingEmacs,
                 appVars, handles, winTold, wsTold>>

(* process_pending_app_toplevels, one embedded app: register_embedded_app.  *)
(* It belongs to the workspace that is active NOW.                         *)
RegisterApp ==
  /\ phase = "apps"
  /\ pendingApps # << >>
  /\ LET w == Head(pendingApps) IN
       /\ Alive(w)
       /\ apps' = apps \cup {w}
       /\ appWs' = [appWs EXCEPT ![w] = activeId]
       /\ geometry' = [geometry EXCEPT ![w] = FALSE]
       /\ pendingGeometry' = [pendingGeometry EXCEPT ![w] = "none"]
       /\ visible' = [visible EXCEPT ![w] = FALSE]
       /\ mirrors' = [mirrors EXCEPT ![w] = [v \in Views |-> None]]
       /\ winTold' = [winTold EXCEPT ![w] = "created"]
  /\ pendingApps' = Tail(pendingApps)
  /\ UNCHANGED <<phase, stopping, status, settled, wsVars, space, pendingEmacs,
                 handles, wsTold>>

AppsDone ==
  /\ phase = "apps"
  /\ pendingApps = << >>
  /\ phase' = "actions"
  /\ UNCHANGED <<stopping, status, settled, wsVars, space, queueVars, appVars,
                 handles, winTold, wsTold>>

(* process_workspace_actions, one Activate that an ext-workspace client    *)
(* queued on a handle.                                                     *)
ProtocolActivate(i) ==
  /\ phase = "actions"
  /\ i \in handles
  /\ SwitchWorkspace(i)
  /\ UNCHANGED <<phase, stopping, status, settled, nextId, frame, space, queueVars,
                 appVars, handles, winTold, wsTold>>

(* process_workspace_actions, one Remove: ignored on the active workspace.  *)
(* WorkspaceDestroyed is sent even if there is nothing left to destroy.    *)
Removable(i) == i \in handles /\ i # activeId

ProtocolRemove(i) ==
  /\ phase = "actions"
  /\ Removable(i)
  /\ inactive' = inactive \ {i}
  /\ DropContents({i} \cap inactive)
  /\ wsTold' = [wsTold EXCEPT ![i] = "destroyed"]
  /\ UNCHANGED <<phase, stopping, status, settled, activeId, nextId, queueVars, appWs,
                 geometry, pendingGeometry, visible, mirrors, handles>>

ActionsDone ==
  /\ phase = "actions"
  /\ phase' = "deadws"
  /\ UNCHANGED <<stopping, status, settled, wsVars, space, queueVars, appVars,
                 handles, winTold, wsTold>>

(* detect_dead_workspaces: destroy the inactive workspaces whose frame is   *)
(* gone; then, if the active frame is dead, switch to any workspace that   *)
(* is left, or stop.  The dead workspace itself becomes inactive: it is    *)
(* destroyed by the next tick.                                             *)
MissingFrames == {i \in inactive : frame[i] = None}   \* wrong: a dead surface is kept

DeadFrames == {i \in inactive : frame[i] = None \/ Dead(frame[i])}

DetectDeadWorkspaces ==
  /\ phase = "deadws"
  /\ DropContents(DeadFrames)
  /\ wsTold' = [i \in WsIds |-> IF i \in DeadFrames THEN "destroyed" ELSE wsTold[i]]
  /\ LET left == inactive \ DeadFrames IN
       \/ /\ ~MainDied
          /\ inactive' = left
          /\ UNCHANGED <<activeId, stopping>>
       \/ /\ MainDied
          /\ \E fallback \in left :
               /\ activeId' = fallback
               /\ inactive' = (left \ {fallback}) \cup {activeId}
          /\ UNCHANGED stopping
       \/ /\ MainDied
          /\ left = {}
          /\ stopping' = TRUE
          /\ inactive' = left
          /\ UNCHANGED activeId
  /\ phase' = "refresh"
  /\ UNCHANGED <<status, settled, nextId, queueVars, appWs, geometry, pendingGeometry,
                 visible, mirrors, handles>>

(* refresh_workspace_state: ext-workspace clients get a handle of every     *)
(* workspace there is, and lose the handles of those there are no more.    *)
RefreshWorkspaceState ==
  /\ phase = "refresh"
  /\ handles' = Live
  /\ phase' = "deadapps"
  /\ UNCHANGED <<stopping, status, settled, wsVars, space, queueVars, appVars, winTold,
                 wsTold>>

(* cleanup_dead_apps: an app whose toplevel died leaves AppManager and the  *)
(* Space of the workspace it belongs to.                                   *)
CleanupDeadApps ==
  /\ phase = "deadapps"
  /\ LET dead == {w \in apps : Dead(w)} IN
       /\ apps' = apps \ dead
       /\ space' = [i \in WsIds |-> IF i \in Live
                                   THEN space[i] \ {w \in dead : appWs[w] = i}
                                   ELSE space[i]]
       /\ winTold' = TellDestroyed(dead)
  /\ phase' = "dialogs"
  /\ UNCHANGED <<stopping, status, settled, wsVars, queueVars, appWs, geometry,
                 pendingGeometry, visible, mirrors, handles, wsTold>>

(* cleanup_dead_dialogs: whatever is still dead in any Space goes.          *)
CleanupDeadDialogs ==
  /\ phase = "dialogs"
  /\ space' = [i \in WsIds |-> WithoutDead(i)]
  /\ phase' = "ipc"
  /\ UNCHANGED <<stopping, status, settled, wsVars, queueVars, appVars, handles, winTold,
                 wsTold>>

-----------------------------------------------------------------------------
(* handle_ipc_message, one message of the batch that recv_all returns.      *)
(* Emacs may send any message about any window it was ever told about, in   *)
(* any order; one about a window that is gone returns early, which is no    *)
(* step at all.                                                            *)

(* migrate_app_to_active, as the values it leaves in space and appWs.       *)
Migrates(w) == appWs[w] # activeId

SpaceAfterMigrate(w) == IF Migrates(w) THEN Unmap(space, appWs[w], w) ELSE space

(* ipc_set_geometry: migrate; an app without geometry is mapped at once,    *)
(* otherwise the geometry waits for the client's next commit.              *)
Immediate(w) == ~geometry[w] \/ Migrates(w)

IpcSetGeometry(w) ==
  /\ phase = "ipc"
  /\ "set_geometry" \in Verbs
  /\ w \in apps
  /\ visible' = [visible EXCEPT ![w] = TRUE]
  /\ appWs' = [appWs EXCEPT ![w] = activeId]
  /\ \/ /\ Immediate(w)
        /\ geometry' = [geometry EXCEPT ![w] = TRUE]
        /\ pendingGeometry' =
             [pendingGeometry EXCEPT ![w] = IF Migrates(w) THEN "none" ELSE @]
        /\ space' = [SpaceAfterMigrate(w) EXCEPT ![activeId] = @ \cup {w}]
     \/ /\ ~Immediate(w)
        /\ pendingGeometry' = [pendingGeometry EXCEPT ![w] = "fresh"]
        /\ UNCHANGED <<geometry, space>>
  /\ UNCHANGED <<phase, stopping, status, settled, wsVars, queueVars, apps, mirrors,
                 handles, winTold, wsTold>>

(* ipc_set_visibility(false): unmap from the Space of workspace_id.         *)
IpcHide(w) ==
  /\ phase = "ipc"
  /\ "set_visibility" \in Verbs
  /\ w \in apps
  /\ visible' = [visible EXCEPT ![w] = FALSE]
  /\ space' = Unmap(space, appWs[w], w)
  /\ UNCHANGED <<phase, stopping, status, settled, wsVars, queueVars, apps, appWs,
                 geometry, pendingGeometry, mirrors, handles, winTold, wsTold>>

(* ipc_set_visibility(true): if the app has a geometry, migrate, write the  *)
(* geometry back and map in the active space.                              *)
IpcShow(w) ==
  /\ phase = "ipc"
  /\ "set_visibility" \in Verbs
  /\ w \in apps
  /\ visible' = [visible EXCEPT ![w] = TRUE]
  /\ \/ /\ geometry[w]
        /\ space' = [SpaceAfterMigrate(w) EXCEPT ![activeId] = @ \cup {w}]
        /\ appWs' = [appWs EXCEPT ![w] = activeId]
        /\ pendingGeometry' =
             [pendingGeometry EXCEPT ![w] = IF Migrates(w) THEN "none" ELSE @]
     \/ /\ ~geometry[w]
        /\ UNCHANGED <<space, appWs, pendingGeometry>>
  /\ UNCHANGED <<phase, stopping, status, settled, wsVars, queueVars, apps, geometry,
                 mirrors, handles, winTold, wsTold>>

(* ipc_add_mirror: the mirror is bound to the active workspace.             *)
IpcAddMirror(w, v) ==
  /\ phase = "ipc"
  /\ "add_mirror" \in Verbs
  /\ w \in apps
  /\ mirrors' = [mirrors EXCEPT ![w][v] = activeId]
  /\ UNCHANGED <<phase, stopping, status, settled, wsVars, space, queueVars, apps, appWs,
                 geometry, pendingGeometry, visible, handles, winTold, wsTold>>

(* ipc_remove_mirror *)
IpcRemoveMirror(w, v) ==
  /\ phase = "ipc"
  /\ "remove_mirror" \in Verbs
  /\ w \in apps
  /\ mirrors' = [mirrors EXCEPT ![w][v] = None]
  /\ UNCHANGED <<phase, stopping, status, settled, wsVars, space, queueVars, apps, appWs,
                 geometry, pendingGeometry, visible, handles, winTold, wsTold>>

(* ipc_promote_mirror: the app moves to the workspace the mirror was bound  *)
(* to, whether or not that workspace still exists.                         *)
IpcPromoteMirror(w, v) ==
  /\ phase = "ipc"
  /\ "promote_mirror" \in Verbs
  /\ w \in apps
  /\ mirrors[w][v] # None
  /\ LET target == mirrors[w][v] IN
       \/ /\ appWs[w] # target
          /\ appWs' = [appWs EXCEPT ![w] = target]
          /\ space' = Map(Unmap(space, appWs[w], w), target, w)
       \/ /\ appWs[w] = target
          /\ space' = [space EXCEPT ![activeId] = @ \cup {w}]
          /\ UNCHANGED appWs
  /\ mirrors' = [mirrors EXCEPT ![w][v] = None]
  /\ geometry' = [geometry EXCEPT ![w] = TRUE]
  /\ UNCHANGED <<phase, stopping, status, settled, wsVars, queueVars, apps,
                 pendingGeometry, visible, handles, winTold, wsTold>>

(* The switch_workspace message: the user selected another frame.           *)
IpcSwitchWorkspace(i) ==
  /\ phase = "ipc"
  /\ "switch_workspace" \in Verbs
  /\ wsTold[i] # "none"
  /\ SwitchWorkspace(i)
  /\ UNCHANGED <<phase, stopping, status, settled, nextId, frame, space, queueVars,
                 appVars, handles, winTold, wsTold>>

IpcDone ==
  /\ phase = "ipc"
  /\ phase' = "timeouts"
  /\ UNCHANGED <<stopping, status, settled, wsVars, space, queueVars, appVars, handles,
                 winTold, wsTold>>

-----------------------------------------------------------------------------
(* The end of the tick: collect_timed_out takes the geometries in timedOut, *)
(* which have been pending for more than 100 ms (never one that this very  *)
(* tick set), and each app is mapped in the Space of its own workspace.    *)
WaitingInActive ==                                    \* wrong: other workspaces wait on
  {w \in apps : pendingGeometry[w] = "waiting" /\ appWs[w] = activeId}

Waiting == {w \in apps : pendingGeometry[w] = "waiting"}

Timeouts(timedOut) ==
  /\ phase = "timeouts"
  /\ geometry' = [w \in Windows |-> geometry[w] \/ w \in timedOut]
  /\ pendingGeometry' = [w \in Windows |->
       IF w \in timedOut THEN "none"
       ELSE IF pendingGeometry[w] = "fresh" THEN "waiting" ELSE pendingGeometry[w]]
  /\ space' = [i \in WsIds |->
       IF i \in Live THEN space[i] \cup {w \in timedOut : appWs[w] = i} ELSE space[i]]
  /\ phase' = IF stopping THEN "stopped" ELSE "dispatch"
  /\ UNCHANGED <<stopping, status, settled, wsVars, queueVars, apps, appWs, visible,
                 mirrors, handles, winTold, wsTold>>

Dispatch ==
  \/ \E w \in Windows : NewToplevel(w) \/ ToplevelDies(w) \/ Commit(w)
  \/ Redraw \/ StopLoop

Ipc ==
  \/ \E w \in Windows : IpcSetGeometry(w) \/ IpcHide(w) \/ IpcShow(w)
  \/ \E w \in Windows, v \in Views :
       IpcAddMirror(w, v) \/ IpcRemoveMirror(w, v) \/ IpcPromoteMirror(w, v)
  \/ \E i \in WsIds : IpcSwitchWorkspace(i)

Tick ==
  \/ BeginTick
  \/ ChildFrame \/ NewFrame \/ FramesDone
  \/ SkipOrFloat \/ RegisterApp \/ AppsDone
  \/ ActionsDone
  \/ DetectDeadWorkspaces \/ RefreshWorkspaceState
  \/ CleanupDeadApps \/ CleanupDeadDialogs
  \/ IpcDone
  \/ \E timedOut \in SUBSET Waiting : Timeouts(timedOut)

Protocol == \E i \in WsIds : ProtocolActivate(i) \/ ProtocolRemove(i)

Next == Dispatch \/ Tick \/ Protocol \/ Ipc

Spec == Init /\ [][Next]_vars

(* The loop keeps iterating: post_render asks the host for the next redraw  *)
(* on every redraw, so a dispatch always ends and a tick always follows.   *)
(* Time passes: a geometry that stays pending is some day 100 ms old.       *)
Fairness ==
  /\ WF_vars(Tick)
  /\ \A w \in Windows :
       SF_vars(\E timedOut \in SUBSET Waiting : w \in timedOut /\ Timeouts(timedOut))

FairSpec == Spec /\ Fairness

-----------------------------------------------------------------------------
(* Safety *)

(* The bookkeeping of ids that the other invariants rest on: a new frame    *)
(* always finds an id that no workspace has, and the active workspace is     *)
(* not in the inactive map.                                                *)
IdsInOrder ==
  /\ nextId >= 2
  /\ nextId + Len(pendingEmacs) <= MaxWs + 1
  /\ activeId \notin inactive
  /\ \A i \in Live : i < nextId

TypeInv == TypeOK /\ IdsInOrder

(* Every registered app belongs to a workspace that exists, so a later     *)
(* space_for_mut(app.workspace_id) finds its Space: destroy_workspace      *)
(* takes the apps of a workspace with it.  Only promote_mirror, which the  *)
(* elisp never sends, can break this.                                      *)
AppsHaveWorkspace == \A w \in apps : appWs[w] \in Live

(* Emacs has a buffer for exactly the apps AppManager knows: on every path *)
(* an insert comes with WindowCreated and a removal with WindowDestroyed.  *)
EmacsKnowsApps == \A w \in Windows : w \in apps <=> winTold[w] = "created"

(* Emacs knows exactly the workspaces there are.                           *)
EmacsKnowsWorkspaces == \A i \in WsIds : i \in Live <=> wsTold[i] = "created"

(* A live frame is an element of its own workspace's Space, so             *)
(* emacs_window() and emacs_focus_target() find it after any switch.       *)
FrameInOwnSpace ==
  \A i \in Live : Alive(frame[i]) => frame[i] \in space[i]

(* Once a tick has cleaned up, no Space holds a dead toplevel, and no       *)
(* message or timeout of that tick maps one again.                         *)
DeadNeverShown ==
  phase \in {"ipc", "timeouts"} =>
    \A i \in WsIds : \A w \in space[i] : ~Dead(w)

(* After detect_dead_workspaces the active frame is not dead: the           *)
(* workspace fallen back to is never one whose own frame died too.         *)
ActiveFrameAlive ==
  phase \in {"refresh", "deadapps", "dialogs"} /\ settled /\ ~stopping =>
    Alive(frame[activeId])

(* A geometry waits for a commit only on top of one that was committed      *)
(* before; migrating resets both, or the app would wait for a commit it    *)
(* cannot make because it is in no Space.                                  *)
PendingOnTopOfCommitted ==
  \A w \in apps : pendingGeometry[w] # "none" => geometry[w]

-----------------------------------------------------------------------------
(* What a step may never do *)

(* WindowDestroyed and WorkspaceDestroyed are final: Emacs kills the buffer *)
(* and forgets the frame, so neither id may ever come back.                *)
DestroyedIsFinal ==
  [][/\ \A w \in Windows : winTold[w] = "destroyed" => winTold'[w] = "destroyed"
     /\ \A i \in WsIds : wsTold[i] = "destroyed" => wsTold'[i] = "destroyed"]_vars

(* An app is taken from Emacs only because it died or because its whole     *)
(* workspace went.                                                         *)
AppsDropOnlyWithCause ==
  [][\A w \in apps \ apps' : Dead(w) \/ appWs[w] \notin Live']_vars

-----------------------------------------------------------------------------
(* Liveness *)

(* A pending geometry is applied or its app goes away: the client commits   *)
(* or 100 ms pass, unless Emacs keeps setting geometries for ever (each    *)
(* one restarts the 100 ms).                                               *)
PendingResolves ==
  \A w \in Windows :
    <>[][~IpcSetGeometry(w)]_vars =>
      ((w \in apps /\ pendingGeometry[w] # "none")
         ~> (w \notin apps \/ pendingGeometry[w] = "none" \/ phase = "stopped"))

(* A workspace whose frame died goes away, unless someone activates it for  *)
(* ever; if it is the last one the compositor stops.                       *)
DeadFrameLeaves ==
  \A i \in WsIds :
    <>[][~IpcSwitchWorkspace(i) /\ ~ProtocolActivate(i)]_vars =>
      ((i \in Live /\ Dead(frame[i])) ~> (i \notin Live \/ phase = "stopped"))

-----------------------------------------------------------------------------
(* What comments of the source say, and the code does not do: no run checks  *)
(* these, and the README says how they come to be false.                    *)

(* dispatch.rs:227 "Unmap from whichever space it's in."                    *)
HideUnmapsEverywhere ==
  [][\A w \in Windows : IpcHide(w) => \A i \in WsIds : w \notin space'[i]]_vars

(* state/mod.rs:725 "the source window may be unmapped (visible=false)": an *)
(* app that Emacs hid stays out of every Space until Emacs shows it.       *)
HiddenStaysUnmapped ==
  [][\A w \in apps \cap apps' :
       /\ ~visible[w] /\ ~visible'[w]
       /\ geometry[w]
       /\ \A i \in WsIds : w \notin space[i]
       => \A i \in WsIds : w \notin space'[i]]_vars

(* workspace.rs:1 "each Emacs frame = one workspace".                       *)
FrameInOneSpace ==
  \A i, j \in Live : i # j => frame[i] \notin space[j]

(* messages.rs:188 "A workspace was destroyed (Emacs frame closed)."        *)
DestroyedMeansFrameClosed ==
  [][\A i \in WsIds :
       wsTold[i] = "created" /\ wsTold'[i] = "destroyed" => ~Alive(frame[i])]_vars

=============================================================================
