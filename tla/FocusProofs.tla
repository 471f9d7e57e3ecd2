---------------------------- MODULE FocusProofs ----------------------------
(* Theorems about Workspaces, and about Focus, which extends it: for every  *)
(* set of windows, clients and layer surfaces, every assignment of windows  *)
(* to clients, every combination of inputs and every bound.                 *)
EXTENDS Focus, TLAPS

USE DEF vars, appVars, wsVars, queueVars, AllocId, Removable, Lost, TellDestroyed,
        WithoutDead, MoveToNewSpace, Immediate

LEMMA InitTypeInv == Init => TypeInv
<1> SUFFICES ASSUME Init PROVE TypeInv
  OBVIOUS
<1>1. 1 \in WsIds /\ nextId \in 1 .. MaxWs + 1 /\ IdsInOrder
  BY ConstantsAssumption DEF Init, IdsInOrder, WsIds, Live, ConstantsAssumption
<1>2. mirrors \in [Windows -> [Views -> WsIds \cup {None}]]
  BY DEF Init
<1>3. pendingEmacs \in Seq(Windows) /\ pendingApps \in Seq(Windows)
  BY DEF Init
<1>4. frame \in [WsIds -> Windows \cup {None}] /\ appWs \in [Windows -> WsIds \cup {None}]
  BY DEF Init
<1> QED
  BY <1>1, <1>2, <1>3, <1>4 DEF Init, TypeInv, TypeOK, Phases

(* A new toplevel may become the first workspace's frame and end the start. *)
LEMMA NewToplevelTyped ==
  ASSUME NEW w \in Windows, NewToplevel(w), activeId \in WsIds, settled \in BOOLEAN,
         frame \in [WsIds -> Windows \cup {None}]
  PROVE  frame' \in [WsIds -> Windows \cup {None}] /\ settled' \in BOOLEAN
<1>1. CASE ShouldClaimMain
  BY <1>1 DEF NewToplevel
<1>2. CASE ~ShouldClaimMain
  BY <1>2 DEF NewToplevel
<1> QED
  BY <1>1, <1>2

LEMMA DispatchTypeInv == TypeInv /\ Dispatch => TypeInv'
<1> SUFFICES ASSUME TypeInv, Dispatch PROVE TypeInv'
  OBVIOUS
<1> USE DEF TypeInv, TypeOK, IdsInOrder, Phases, Live
<1>1. ASSUME NEW w \in Windows, NewToplevel(w) PROVE TypeInv'
  <2>1. /\ nextId' + Len(pendingEmacs') <= MaxWs + 1
        /\ pendingEmacs' \in Seq(Windows)
        /\ pendingApps' \in Seq(Windows)
    <3>1. CASE ShouldClaimMain
      BY <1>1, <3>1 DEF NewToplevel
    <3>2. CASE ~ShouldClaimMain /\ IsEmacsClient(w)
      <4>1. /\ nextId + Len(pendingEmacs) <= MaxWs
            /\ pendingEmacs' = Append(pendingEmacs, w)
            /\ UNCHANGED <<nextId, pendingApps>>
        BY <1>1, <3>2 DEF NewToplevel
      <4>2. Len(pendingEmacs') = Len(pendingEmacs) + 1 /\ pendingEmacs' \in Seq(Windows)
        BY <4>1
      <4> QED
        BY <4>1, <4>2, ConstantsAssumption DEF ConstantsAssumption
    <3>3. CASE ~ShouldClaimMain /\ ~IsEmacsClient(w)
      <4>1. pendingApps' = Append(pendingApps, w) /\ UNCHANGED <<nextId, pendingEmacs>>
        BY <1>1, <3>3 DEF NewToplevel
      <4> QED
        BY <4>1
    <3> QED
      BY <3>1, <3>2, <3>3
  <2>2. /\ frame' \in [WsIds -> Windows \cup {None}]
        /\ settled' \in BOOLEAN
    BY <1>1, NewToplevelTyped
  <2> QED
    BY <1>1, <2>1, <2>2 DEF NewToplevel
<1>2. ASSUME NEW w \in Windows, ToplevelDies(w) PROVE TypeInv'
  BY <1>2 DEF ToplevelDies
<1>3. ASSUME NEW w \in Windows, Commit(w) PROVE TypeInv'
  BY <1>3 DEF Commit
<1>4. CASE Redraw
  BY <1>4 DEF Redraw
<1>5. CASE StopLoop
  BY <1>5 DEF StopLoop
<1> QED
  BY <1>1, <1>2, <1>3, <1>4, <1>5 DEF Dispatch

LEMMA TickTypeInv == TypeInv /\ Tick => TypeInv'
<1> SUFFICES ASSUME TypeInv, Tick PROVE TypeInv'
  OBVIOUS
<1> USE DEF TypeInv, TypeOK, IdsInOrder, Phases, Live
<1>1. CASE BeginTick
  BY <1>1 DEF BeginTick
<1>2. CASE ChildFrame
  <2>1. pendingEmacs' \in Seq(Windows) /\ Len(pendingEmacs') = Len(pendingEmacs) - 1
    BY <1>2 DEF ChildFrame
  <2> QED
    BY <1>2, <2>1, ConstantsAssumption DEF ChildFrame, ConstantsAssumption
<1>3. CASE NewFrame
  <2>1. /\ pendingEmacs' \in Seq(Windows)
        /\ Len(pendingEmacs') = Len(pendingEmacs) - 1
        /\ Len(pendingEmacs) \in Nat \ {0}
        /\ Head(pendingEmacs) \in Windows
    BY <1>3 DEF NewFrame
  <2>2. nextId \in WsIds
    BY <2>1, ConstantsAssumption DEF WsIds, ConstantsAssumption
  <2>3. nextId' + Len(pendingEmacs') <= MaxWs + 1 /\ nextId' \in 1 .. MaxWs + 1 /\ nextId' >= 2
    BY <1>3, <2>1, ConstantsAssumption DEF NewFrame, ConstantsAssumption
  <2>4. nextId \notin inactive /\ nextId # activeId
    BY <1>3
  <2> QED
    <3>1. /\ frame' \in [WsIds -> Windows \cup {None}]
          /\ space' \in [WsIds -> SUBSET Windows]
          /\ wsTold' \in [WsIds -> {"none", "created", "destroyed"}]
      BY <1>3, <2>1, <2>2 DEF NewFrame
    <3>2. /\ activeId' \in WsIds /\ inactive' \in SUBSET WsIds
          /\ activeId' \notin inactive'
          /\ \A i \in Live' : i < nextId'
      <4>1. activeId' = nextId /\ inactive' = inactive \cup {activeId} /\ nextId' = nextId + 1
        BY <1>3 DEF NewFrame
      <4>2. \A i \in inactive \cup {activeId} : i \in Nat /\ i < nextId
        BY DEF WsIds
      <4> QED
        BY <2>2, <2>4, <4>1, <4>2
    <3> QED
      BY <1>3, <2>1, <2>3, <3>1, <3>2 DEF NewFrame
<1>4. CASE FramesDone
  BY <1>4 DEF FramesDone
<1>5. CASE SkipOrFloat
  BY <1>5 DEF SkipOrFloat
<1>6. CASE RegisterApp
  BY <1>6 DEF RegisterApp, Alive
<1>7. CASE AppsDone
  BY <1>7 DEF AppsDone
<1>8. CASE ActionsDone
  BY <1>8 DEF ActionsDone
<1>9. CASE DetectDeadWorkspaces
  BY <1>9 DEF DetectDeadWorkspaces, DropContents, DeadFrames
<1>10. CASE RefreshWorkspaceState
  BY <1>10 DEF RefreshWorkspaceState, Live
<1>11. CASE CleanupDeadApps
  BY <1>11 DEF CleanupDeadApps
<1>12. CASE CleanupDeadDialogs
  BY <1>12 DEF CleanupDeadDialogs
<1>13. CASE IpcDone
  BY <1>13 DEF IpcDone
<1>14. ASSUME NEW timedOut \in SUBSET Waiting, Timeouts(timedOut) PROVE TypeInv'
  BY <1>14 DEF Timeouts, Waiting
<1> QED
  BY <1>1, <1>2, <1>3, <1>4, <1>5, <1>6, <1>7, <1>8, <1>9, <1>10, <1>11, <1>12,
     <1>13, <1>14 DEF Tick

LEMMA ProtocolTypeInv == TypeInv /\ Protocol => TypeInv'
<1> SUFFICES ASSUME TypeInv, Protocol PROVE TypeInv'
  OBVIOUS
<1> USE DEF TypeInv, TypeOK, IdsInOrder, Phases, Live
<1>1. ASSUME NEW i \in WsIds, ProtocolActivate(i) PROVE TypeInv'
  BY <1>1 DEF ProtocolActivate, SwitchWorkspace
<1>2. ASSUME NEW i \in WsIds, ProtocolRemove(i) PROVE TypeInv'
  BY <1>2 DEF ProtocolRemove, DropContents
<1> QED
  BY <1>1, <1>2 DEF Protocol

(* The two fields of an app that set_geometry writes keep their types.      *)
LEMMA SetGeometryTyped ==
  ASSUME NEW w \in Windows, IpcSetGeometry(w),
         geometry \in [Windows -> BOOLEAN],
         pendingGeometry \in [Windows -> {"none", "fresh", "waiting"}]
  PROVE  /\ geometry' \in [Windows -> BOOLEAN]
         /\ pendingGeometry' \in [Windows -> {"none", "fresh", "waiting"}]
<1>1. CASE Immediate(w)
  <2>1. /\ geometry' = [geometry EXCEPT ![w] = TRUE]
        /\ \/ pendingGeometry' = [pendingGeometry EXCEPT ![w] = "none"]
           \/ pendingGeometry' = [pendingGeometry EXCEPT ![w] = @]
    BY <1>1 DEF IpcSetGeometry
  <2> QED
    BY <2>1
<1>2. CASE ~Immediate(w)
  <2>1. geometry' = geometry /\ pendingGeometry' = [pendingGeometry EXCEPT ![w] = "fresh"]
    BY <1>2 DEF IpcSetGeometry
  <2> QED
    BY <2>1
<1> QED
  BY <1>1, <1>2

(* The same for set_visibility(true).                                       *)
LEMMA ShowTyped ==
  ASSUME NEW w \in Windows, IpcShow(w), activeId \in WsIds,
         appWs \in [Windows -> WsIds \cup {None}],
         pendingGeometry \in [Windows -> {"none", "fresh", "waiting"}]
  PROVE  /\ appWs' \in [Windows -> WsIds \cup {None}]
         /\ pendingGeometry' \in [Windows -> {"none", "fresh", "waiting"}]
<1>1. CASE geometry[w]
  <2>1. /\ appWs' = [appWs EXCEPT ![w] = activeId]
        /\ \/ pendingGeometry' = [pendingGeometry EXCEPT ![w] = "none"]
           \/ pendingGeometry' = [pendingGeometry EXCEPT ![w] = @]
    BY <1>1 DEF IpcShow
  <2> QED
    BY <2>1
<1>2. CASE ~geometry[w]
  BY <1>2 DEF IpcShow
<1> QED
  BY <1>1, <1>2

LEMMA IpcTypeInv == TypeInv /\ Ipc => TypeInv'
<1> SUFFICES ASSUME TypeInv, Ipc PROVE TypeInv'
  OBVIOUS
<1> USE DEF TypeInv, TypeOK, IdsInOrder, Phases, Live
<1>1. ASSUME NEW w \in Windows, IpcSetGeometry(w) PROVE TypeInv'
  <2>1. SpaceAfterMigrate(w) \in [WsIds -> SUBSET Windows]
    BY DEF SpaceAfterMigrate, Unmap
  <2>2. space' \in [WsIds -> SUBSET Windows]
    <3>1. [SpaceAfterMigrate(w) EXCEPT ![activeId] = @ \cup {w}] \in [WsIds -> SUBSET Windows]
      BY <2>1
    <3> QED
      BY <1>1, <3>1 DEF IpcSetGeometry
  <2>3. /\ geometry' \in [Windows -> BOOLEAN]
        /\ pendingGeometry' \in [Windows -> {"none", "fresh", "waiting"}]
    BY <1>1, SetGeometryTyped
  <2> QED
    BY <1>1, <2>2, <2>3 DEF IpcSetGeometry
<1>2. ASSUME NEW w \in Windows, IpcHide(w) PROVE TypeInv'
  BY <1>2 DEF IpcHide, Unmap
<1>3. ASSUME NEW w \in Windows, IpcShow(w) PROVE TypeInv'
  <2>1. SpaceAfterMigrate(w) \in [WsIds -> SUBSET Windows]
    BY DEF SpaceAfterMigrate, Unmap
  <2>2. space' \in [WsIds -> SUBSET Windows]
    <3>1. [SpaceAfterMigrate(w) EXCEPT ![activeId] = @ \cup {w}] \in [WsIds -> SUBSET Windows]
      BY <2>1
    <3> QED
      BY <1>3, <3>1 DEF IpcShow
  <2>3. /\ appWs' \in [Windows -> WsIds \cup {None}]
        /\ pendingGeometry' \in [Windows -> {"none", "fresh", "waiting"}]
    BY <1>3, ShowTyped
  <2> QED
    BY <1>3, <2>2, <2>3 DEF IpcShow
<1>4. ASSUME NEW w \in Windows, NEW v \in Views, IpcAddMirror(w, v) PROVE TypeInv'
  BY <1>4 DEF IpcAddMirror
<1>5. ASSUME NEW w \in Windows, NEW v \in Views, IpcRemoveMirror(w, v) PROVE TypeInv'
  BY <1>5 DEF IpcRemoveMirror
<1>6. ASSUME NEW w \in Windows, NEW v \in Views, IpcPromoteMirror(w, v) PROVE TypeInv'
  <2>1. mirrors[w][v] \in WsIds
    BY <1>6 DEF IpcPromoteMirror
  <2>2. Unmap(space, appWs[w], w) \in [WsIds -> SUBSET Windows]
    BY DEF Unmap
  <2>3. Map(Unmap(space, appWs[w], w), mirrors[w][v], w) \in [WsIds -> SUBSET Windows]
    BY <2>2 DEF Map
  <2>4. space' \in [WsIds -> SUBSET Windows]
    <3>1. [space EXCEPT ![activeId] = @ \cup {w}] \in [WsIds -> SUBSET Windows]
      OBVIOUS
    <3> QED
      BY <1>6, <2>3, <3>1 DEF IpcPromoteMirror
  <2>5. appWs' \in [Windows -> WsIds \cup {None}]
    BY <1>6, <2>1 DEF IpcPromoteMirror
  <2>6. mirrors' \in [Windows -> [Views -> WsIds \cup {None}]]
    BY <1>6 DEF IpcPromoteMirror
  <2> QED
    BY <1>6, <2>4, <2>5, <2>6 DEF IpcPromoteMirror
<1>7. ASSUME NEW i \in WsIds, IpcSwitchWorkspace(i) PROVE TypeInv'
  BY <1>7 DEF IpcSwitchWorkspace, SwitchWorkspace
<1> QED
  BY <1>1, <1>2, <1>3, <1>4, <1>5, <1>6, <1>7 DEF Ipc

(* Every variable keeps its type, and ids stay in order: what is waiting to *)
(* become a workspace always finds an id, and the active workspace is never *)
(* one of the inactive ones.                                               *)
THEOREM TypeCorrect == Spec => []TypeInv
<1>1. Init => TypeInv
  BY InitTypeInv
<1>2. TypeInv /\ [Next]_vars => TypeInv'
  <2>1. CASE UNCHANGED vars
    BY <2>1 DEF TypeInv, TypeOK, IdsInOrder, Live
  <2> QED
    BY <2>1, DispatchTypeInv, TickTypeInv, ProtocolTypeInv, IpcTypeInv DEF Next
<1> QED
  BY <1>1, <1>2, PTL DEF Spec

-----------------------------------------------------------------------------
(* What Emacs has been told is what is there. *)

(* The steps that leave AppManager and the window messages alone.           *)
LEMMA OtherStepsKeepApps ==
  ASSUME Next, ~RegisterApp, ~DetectDeadWorkspaces, ~CleanupDeadApps,
         \A i \in WsIds : ~ProtocolRemove(i)
  PROVE  UNCHANGED <<apps, winTold>>
<1>1. Dispatch => UNCHANGED <<apps, winTold>>
  BY DEF Dispatch, NewToplevel, ToplevelDies, Commit, Redraw, StopLoop
<1>2. Tick => UNCHANGED <<apps, winTold>>
  BY DEF Tick, BeginTick, ChildFrame, NewFrame, FramesDone, SkipOrFloat, AppsDone,
         ActionsDone, RefreshWorkspaceState, CleanupDeadDialogs, IpcDone, Timeouts
<1>3. Protocol => UNCHANGED <<apps, winTold>>
  BY DEF Protocol, ProtocolActivate
<1>4. Ipc => UNCHANGED <<apps, winTold>>
  BY DEF Ipc, IpcSetGeometry, IpcHide, IpcShow, IpcAddMirror, IpcRemoveMirror,
         IpcPromoteMirror, IpcSwitchWorkspace
<1> QED
  BY <1>1, <1>2, <1>3, <1>4 DEF Next

(* The steps that leave the set of workspaces and the workspace messages    *)
(* alone; switch_workspace moves ids between the two slots only.           *)
LEMMA OtherStepsKeepWorkspaces ==
  ASSUME TypeInv, Next, ~NewFrame, ~DetectDeadWorkspaces,
         \A i \in WsIds : ~ProtocolRemove(i)
  PROVE  Live' = Live /\ UNCHANGED wsTold
<1>1. Dispatch => UNCHANGED <<activeId, inactive, wsTold>>
  BY DEF Dispatch, NewToplevel, ToplevelDies, Commit, Redraw, StopLoop
<1>2. Tick => UNCHANGED <<activeId, inactive, wsTold>>
  BY DEF Tick, BeginTick, ChildFrame, FramesDone, SkipOrFloat, RegisterApp, AppsDone,
         ActionsDone, RefreshWorkspaceState, CleanupDeadApps, CleanupDeadDialogs,
         IpcDone, Timeouts
<1>3. ASSUME NEW i \in WsIds, SwitchWorkspace(i)
      PROVE  Live' = Live
  BY <1>3 DEF SwitchWorkspace, Live
<1>4. Protocol => Live' = Live /\ UNCHANGED wsTold
  BY <1>3 DEF Protocol, ProtocolActivate
<1>5. Ipc => Live' = Live /\ UNCHANGED wsTold
  <2>1. ASSUME NEW w \in Windows, IpcSetGeometry(w) \/ IpcHide(w) \/ IpcShow(w)
        PROVE  UNCHANGED <<activeId, inactive, wsTold>>
    BY <2>1 DEF IpcSetGeometry, IpcHide, IpcShow
  <2>2. ASSUME NEW w \in Windows, NEW v \in Views,
               IpcAddMirror(w, v) \/ IpcRemoveMirror(w, v) \/ IpcPromoteMirror(w, v)
        PROVE  UNCHANGED <<activeId, inactive, wsTold>>
    BY <2>2 DEF IpcAddMirror, IpcRemoveMirror, IpcPromoteMirror
  <2>3. ASSUME NEW i \in WsIds, IpcSwitchWorkspace(i)
        PROVE  Live' = Live /\ UNCHANGED wsTold
    BY <2>3, <1>3 DEF IpcSwitchWorkspace
  <2> QED
    BY <2>1, <2>2, <2>3 DEF Ipc, Live
<1> QED
  BY <1>1, <1>2, <1>4, <1>5 DEF Next, Live

LEMMA StepKeepsAppsView == TypeInv /\ EmacsKnowsApps /\ Next => EmacsKnowsApps'
<1> SUFFICES ASSUME TypeInv, EmacsKnowsApps, Next PROVE EmacsKnowsApps'
  OBVIOUS
<1> USE DEF TypeInv, TypeOK, EmacsKnowsApps
<1>1. CASE RegisterApp
  BY <1>1 DEF RegisterApp, Alive
<1>2. CASE DetectDeadWorkspaces
  BY <1>2 DEF DetectDeadWorkspaces, DropContents
<1>3. CASE CleanupDeadApps
  BY <1>3 DEF CleanupDeadApps
<1>4. ASSUME NEW i \in WsIds, ProtocolRemove(i) PROVE EmacsKnowsApps'
  BY <1>4 DEF ProtocolRemove, DropContents
<1> QED
  BY <1>1, <1>2, <1>3, <1>4, OtherStepsKeepApps

LEMMA StepKeepsWorkspacesView ==
  TypeInv /\ EmacsKnowsWorkspaces /\ Next => EmacsKnowsWorkspaces'
<1> SUFFICES ASSUME TypeInv, EmacsKnowsWorkspaces, Next PROVE EmacsKnowsWorkspaces'
  OBVIOUS
<1> USE DEF EmacsKnowsWorkspaces
<1>1. CASE NewFrame
  <2>1. Live' = Live \cup {nextId} /\ wsTold' = [wsTold EXCEPT ![nextId] = "created"]
    BY <1>1 DEF NewFrame, Live
  <2> QED
    BY <2>1 DEF TypeInv, TypeOK
<1>2. CASE DetectDeadWorkspaces
  <2>1. Live' = Live \ DeadFrames
    BY <1>2 DEF DetectDeadWorkspaces, Live, DeadFrames, TypeInv, IdsInOrder
  <2> QED
    BY <1>2, <2>1 DEF DetectDeadWorkspaces
<1>3. ASSUME NEW i \in WsIds, ProtocolRemove(i) PROVE EmacsKnowsWorkspaces'
  <2>1. Live' = Live \ {i} /\ wsTold' = [wsTold EXCEPT ![i] = "destroyed"]
    BY <1>3 DEF ProtocolRemove, Live
  <2> QED
    BY <2>1 DEF TypeInv, TypeOK
<1> QED
  BY <1>1, <1>2, <1>3, OtherStepsKeepWorkspaces

EmacsViewInv == TypeInv /\ EmacsKnowsApps /\ EmacsKnowsWorkspaces

(* Emacs's picture is never wrong in what the compositor has sent: it has a *)
(* buffer for exactly the apps that AppManager holds, and an entry for      *)
(* exactly the workspaces that exist.                                      *)
THEOREM EmacsViewCorrect == Spec => [](EmacsKnowsApps /\ EmacsKnowsWorkspaces)
<1>1. Init => EmacsViewInv
  BY InitTypeInv DEF Init, EmacsViewInv, EmacsKnowsApps, EmacsKnowsWorkspaces, Live
<1>2. EmacsViewInv /\ [Next]_vars => EmacsViewInv'
  <2>1. CASE UNCHANGED vars
    BY <2>1 DEF EmacsViewInv, TypeInv, TypeOK, IdsInOrder, EmacsKnowsApps,
                EmacsKnowsWorkspaces, Live
  <2>2. CASE EmacsViewInv /\ Next
    BY <2>2, StepKeepsAppsView, StepKeepsWorkspacesView, DispatchTypeInv, TickTypeInv,
       ProtocolTypeInv, IpcTypeInv DEF EmacsViewInv, Next
  <2> QED
    BY <2>1, <2>2
<1>3. EmacsViewInv => EmacsKnowsApps /\ EmacsKnowsWorkspaces
  BY DEF EmacsViewInv
<1> QED
  BY <1>1, <1>2, <1>3, PTL DEF Spec

-----------------------------------------------------------------------------
(* Apps never outlive their workspace. *)

NoPromotion == "promote_mirror" \notin Verbs

LEMMA StepKeepsAppsHome ==
  ASSUME NoPromotion
  PROVE  TypeInv /\ AppsHaveWorkspace /\ Next => AppsHaveWorkspace'
<1> SUFFICES ASSUME TypeInv, AppsHaveWorkspace, Next PROVE AppsHaveWorkspace'
  OBVIOUS
<1> USE DEF AppsHaveWorkspace, TypeInv, TypeOK
<1>1. CASE Dispatch
  BY <1>1 DEF Dispatch, NewToplevel, ToplevelDies, Commit, Redraw, StopLoop, Live
<1>2. CASE NewFrame
  <2>1. Live' = Live \cup {nextId} /\ UNCHANGED <<apps, appWs>>
    BY <1>2 DEF NewFrame, Live
  <2> QED
    BY <2>1
<1>3. CASE RegisterApp
  BY <1>3 DEF RegisterApp, Alive, Live
<1>4. CASE DetectDeadWorkspaces
  <2>1. Live' = Live \ DeadFrames
    BY <1>4 DEF DetectDeadWorkspaces, Live, DeadFrames, IdsInOrder
  <2>2. apps' = {w \in apps : appWs[w] \notin DeadFrames} /\ UNCHANGED appWs
    BY <1>4 DEF DetectDeadWorkspaces, DropContents
  <2> QED
    BY <2>1, <2>2
<1>5. CASE CleanupDeadApps
  BY <1>5 DEF CleanupDeadApps, Live
<1>6. CASE Tick /\ ~NewFrame /\ ~RegisterApp /\ ~DetectDeadWorkspaces /\ ~CleanupDeadApps
  BY <1>6 DEF Tick, BeginTick, ChildFrame, FramesDone, SkipOrFloat, AppsDone, ActionsDone,
              RefreshWorkspaceState, CleanupDeadDialogs, IpcDone, Timeouts, Live
<1>7. ASSUME NEW i \in WsIds, ProtocolRemove(i) PROVE AppsHaveWorkspace'
  <2>1. Live' = Live \ {i} /\ UNCHANGED appWs
    BY <1>7 DEF ProtocolRemove, Live
  <2>2. apps' = {w \in apps : appWs[w] \notin {i} \cap inactive}
    BY <1>7 DEF ProtocolRemove, DropContents
  <2> QED
    BY <1>7, <2>1, <2>2 DEF ProtocolRemove, Live
<1>8. ASSUME NEW i \in WsIds, SwitchWorkspace(i) PROVE Live' = Live
  BY <1>8 DEF SwitchWorkspace, Live
<1>9. ASSUME NEW i \in WsIds, ProtocolActivate(i) PROVE AppsHaveWorkspace'
  BY <1>8, <1>9 DEF ProtocolActivate
<1>10. CASE Ipc
  <2>1. ASSUME NEW w \in Windows, IpcSetGeometry(w) \/ IpcHide(w) \/ IpcShow(w)
        PROVE  AppsHaveWorkspace'
    BY <2>1 DEF IpcSetGeometry, IpcHide, IpcShow, Live
  <2>2. ASSUME NEW w \in Windows, NEW v \in Views,
               IpcAddMirror(w, v) \/ IpcRemoveMirror(w, v) \/ IpcPromoteMirror(w, v)
        PROVE  AppsHaveWorkspace'
    BY <2>2, NoPromotion DEF IpcAddMirror, IpcRemoveMirror, IpcPromoteMirror, NoPromotion, Live
  <2>3. ASSUME NEW i \in WsIds, IpcSwitchWorkspace(i)
        PROVE  AppsHaveWorkspace'
    BY <2>3, <1>8 DEF IpcSwitchWorkspace
  <2> QED
    BY <1>10, <2>1, <2>2, <2>3 DEF Ipc
<1> QED
  BY <1>1, <1>2, <1>3, <1>4, <1>5, <1>6, <1>7, <1>9, <1>10 DEF Next, Protocol

(* As long as Emacs sends no promote_mirror (the elisp never does), every   *)
(* app AppManager holds belongs to a workspace that exists.                *)
THEOREM AppsAlwaysHaveWorkspace ==
  ASSUME NoPromotion
  PROVE  Spec => []AppsHaveWorkspace
<1> DEFINE Inv == TypeInv /\ AppsHaveWorkspace
<1>1. Init => Inv
  BY InitTypeInv DEF Init, AppsHaveWorkspace
<1>2. Inv /\ [Next]_vars => Inv'
  <2>1. CASE UNCHANGED vars
    BY <2>1 DEF TypeInv, TypeOK, IdsInOrder, AppsHaveWorkspace, Live
  <2>2. CASE Inv /\ Next
    BY <2>2, NoPromotion, StepKeepsAppsHome, DispatchTypeInv, TickTypeInv,
       ProtocolTypeInv, IpcTypeInv DEF Next
  <2> QED
    BY <2>1, <2>2
<1>3. Inv => AppsHaveWorkspace
  OBVIOUS
<1> QED
  BY <1>1, <1>2, <1>3, PTL DEF Spec

-----------------------------------------------------------------------------
(* A pending geometry, and what may never happen to apps and ids. *)

LEMMA StepKeepsPendingOnTop ==
  TypeInv /\ PendingOnTopOfCommitted /\ Next => PendingOnTopOfCommitted'
<1> SUFFICES ASSUME TypeInv, PendingOnTopOfCommitted, Next PROVE PendingOnTopOfCommitted'
  OBVIOUS
<1> USE DEF TypeInv, TypeOK, PendingOnTopOfCommitted
<1>1. CASE Dispatch
  <2>1. ASSUME NEW w \in Windows, NewToplevel(w) \/ ToplevelDies(w)
        PROVE  UNCHANGED <<apps, geometry, pendingGeometry>>
    BY <2>1 DEF NewToplevel, ToplevelDies
  <2>2. ASSUME NEW w \in Windows, Commit(w) PROVE PendingOnTopOfCommitted'
    BY <2>2 DEF Commit
  <2>3. Redraw \/ StopLoop => UNCHANGED <<apps, geometry, pendingGeometry>>
    BY DEF Redraw, StopLoop
  <2> QED
    BY <1>1, <2>1, <2>2, <2>3 DEF Dispatch
<1>2. ASSUME NEW timedOut \in SUBSET Waiting, Timeouts(timedOut)
      PROVE  PendingOnTopOfCommitted'
  BY <1>2 DEF Timeouts
<1>3. CASE RegisterApp
  BY <1>3 DEF RegisterApp, Alive
<1>4. CASE Tick /\ ~RegisterApp /\ \A timedOut \in SUBSET Waiting : ~Timeouts(timedOut)
  BY <1>4 DEF Tick, BeginTick, ChildFrame, NewFrame, FramesDone, SkipOrFloat, AppsDone,
              ActionsDone, DetectDeadWorkspaces, DropContents, RefreshWorkspaceState,
              CleanupDeadApps, CleanupDeadDialogs, IpcDone
<1>5. CASE Protocol
  BY <1>5 DEF Protocol, ProtocolActivate, ProtocolRemove, DropContents
<1>6. ASSUME NEW w \in Windows, IpcSetGeometry(w) \/ IpcHide(w) \/ IpcShow(w)
      PROVE  PendingOnTopOfCommitted'
  <2>1. CASE IpcSetGeometry(w)
    BY <2>1 DEF IpcSetGeometry
  <2>2. CASE IpcHide(w)
    BY <2>2 DEF IpcHide
  <2>3. CASE IpcShow(w)
    BY <2>3 DEF IpcShow
  <2> QED
    BY <1>6, <2>1, <2>2, <2>3
<1>7. ASSUME NEW w \in Windows, NEW v \in Views,
             IpcAddMirror(w, v) \/ IpcRemoveMirror(w, v) \/ IpcPromoteMirror(w, v)
      PROVE  PendingOnTopOfCommitted'
  BY <1>7 DEF IpcAddMirror, IpcRemoveMirror, IpcPromoteMirror
<1>8. ASSUME NEW i \in WsIds, IpcSwitchWorkspace(i) PROVE PendingOnTopOfCommitted'
  BY <1>8 DEF IpcSwitchWorkspace
<1>9. CASE Ipc
  BY <1>6, <1>7, <1>8, <1>9 DEF Ipc
<1> QED
  BY <1>1, <1>2, <1>3, <1>4, <1>5, <1>9 DEF Next

(* An app never waits for a commit that it cannot make: a geometry is       *)
(* pending only on top of one that was committed.                          *)
THEOREM PendingGeometriesOnTop == Spec => []PendingOnTopOfCommitted
<1> DEFINE Inv == TypeInv /\ PendingOnTopOfCommitted
<1>1. Init => Inv
  BY InitTypeInv DEF Init, PendingOnTopOfCommitted
<1>2. Inv /\ [Next]_vars => Inv'
  <2>1. CASE UNCHANGED vars
    BY <2>1 DEF TypeInv, TypeOK, IdsInOrder, PendingOnTopOfCommitted, Live
  <2>2. CASE Inv /\ Next
    BY <2>2, StepKeepsPendingOnTop, DispatchTypeInv, TickTypeInv, ProtocolTypeInv,
       IpcTypeInv DEF Next
  <2> QED
    BY <2>1, <2>2
<1>3. Inv => PendingOnTopOfCommitted
  OBVIOUS
<1> QED
  BY <1>1, <1>2, <1>3, PTL DEF Spec

(* An app is taken from Emacs only because its toplevel died or because its *)
(* workspace went with it.                                                 *)
THEOREM AppsGoWithCause == Spec => AppsDropOnlyWithCause
<1> DEFINE Caused == \A w \in apps \ apps' : Dead(w) \/ appWs[w] \notin Live'
<1>1. TypeInv /\ [Next]_vars => [Caused]_vars
  <2> SUFFICES ASSUME TypeInv, Next PROVE Caused
    OBVIOUS
  <2>1. CASE RegisterApp
    BY <2>1 DEF RegisterApp
  <2>2. CASE DetectDeadWorkspaces
    <3>1. Live' = Live \ DeadFrames
      BY <2>2 DEF DetectDeadWorkspaces, Live, DeadFrames, TypeInv, IdsInOrder
    <3> QED
      BY <2>2, <3>1 DEF DetectDeadWorkspaces, DropContents
  <2>3. CASE CleanupDeadApps
    BY <2>3 DEF CleanupDeadApps
  <2>4. ASSUME NEW i \in WsIds, ProtocolRemove(i) PROVE Caused
    <3>1. Live' = Live \ {i}
      BY <2>4 DEF ProtocolRemove, Live
    <3> QED
      BY <2>4, <3>1 DEF ProtocolRemove, DropContents
  <2> QED
    BY <2>1, <2>2, <2>3, <2>4, OtherStepsKeepApps
<1>2. Spec => [][Caused]_vars
  BY <1>1, TypeCorrect, PTL DEF Spec
<1> QED
  BY <1>2 DEF AppsDropOnlyWithCause

(* Why no id comes back: a toplevel waits at most once, before Emacs has    *)
(* heard of it, and ids that a client may name are below the next one.      *)
Waits == {pendingApps[k] : k \in DOMAIN pendingApps}

NewsOfTheNew ==
  /\ \A w \in Windows : status[w] = "unborn" => winTold[w] = "none"
  /\ \A w \in Waits : status[w] # "unborn" /\ winTold[w] = "none"
  /\ \A j, k \in DOMAIN pendingApps : pendingApps[j] = pendingApps[k] => j = k
  /\ \A i \in handles : i < nextId
  /\ \A i \in WsIds : i >= nextId => wsTold[i] = "none"

(* A toplevel that appears waits behind the others, or does not wait.       *)
LEMMA NewToplevelIsNews ==
  ASSUME TypeInv, NewsOfTheNew, NEW w \in Windows, NewToplevel(w)
  PROVE  NewsOfTheNew'
<1> USE DEF TypeInv, TypeOK
<1>1. /\ status[w] = "unborn" /\ status' = [status EXCEPT ![w] = "alive"]
      /\ UNCHANGED <<winTold, handles, nextId, wsTold>>
  BY DEF NewToplevel
<1>2. pendingApps' = pendingApps \/ pendingApps' = Append(pendingApps, w)
  BY DEF NewToplevel
<1>3. \A v \in Waits : v \in Windows /\ v # w
  BY <1>1 DEF Waits, NewsOfTheNew
<1>4. CASE pendingApps' = pendingApps
  BY <1>1, <1>3, <1>4 DEF NewsOfTheNew, Waits
<1>5. CASE pendingApps' = Append(pendingApps, w)
  <2>1. /\ DOMAIN pendingApps = 1 .. Len(pendingApps) /\ Len(pendingApps) \in Nat
        /\ DOMAIN pendingApps' = 1 .. Len(pendingApps) + 1
        /\ \A k \in DOMAIN pendingApps : pendingApps'[k] = pendingApps[k]
        /\ pendingApps'[Len(pendingApps) + 1] = w
    BY <1>5
  <2>2. \A j, k \in DOMAIN pendingApps' : pendingApps'[j] = pendingApps'[k] => j = k
    BY <2>1, <1>3 DEF NewsOfTheNew, Waits
  <2>3. \A v \in Waits' : v = w \/ v \in Waits
    BY <2>1 DEF Waits
  <2> QED
    BY <1>1, <1>3, <2>2, <2>3 DEF NewsOfTheNew
<1> QED
  BY <1>2, <1>4, <1>5

(* The head of those that wait is none of the others.                       *)
LEMMA HeadLeaves ==
  ASSUME pendingApps \in Seq(Windows), pendingApps # << >>, NewsOfTheNew,
         pendingApps' = Tail(pendingApps)
  PROVE  /\ Head(pendingApps) \in Waits /\ Waits' \subseteq Waits \ {Head(pendingApps)}
         /\ \A j, k \in DOMAIN pendingApps' : pendingApps'[j] = pendingApps'[k] => j = k
<1>1. /\ Len(pendingApps) \in Nat \ {0} /\ DOMAIN pendingApps = 1 .. Len(pendingApps)
      /\ DOMAIN pendingApps' = 1 .. Len(pendingApps) - 1
      /\ Head(pendingApps) = pendingApps[1]
      /\ \A k \in DOMAIN pendingApps' : pendingApps'[k] = pendingApps[k + 1]
  OBVIOUS
<1> QED
  BY <1>1 DEF Waits, NewsOfTheNew

LEMMA StepKeepsNews == EmacsViewInv /\ NewsOfTheNew /\ Next => NewsOfTheNew'
<1> SUFFICES ASSUME EmacsViewInv, NewsOfTheNew, Next PROVE NewsOfTheNew'
  OBVIOUS
<1> USE DEF EmacsViewInv, TypeInv, TypeOK
<1>1. ASSUME NEW w \in Windows, NewToplevel(w) PROVE NewsOfTheNew'
  BY <1>1, NewToplevelIsNews
<1>2. ASSUME NEW w \in Windows, ToplevelDies(w) PROVE NewsOfTheNew'
  BY <1>2 DEF ToplevelDies, NewsOfTheNew, Waits
<1>3. CASE SkipOrFloat
  BY <1>3, HeadLeaves DEF SkipOrFloat, NewsOfTheNew
<1>4. CASE RegisterApp
  <2>1. /\ pendingApps # << >> /\ pendingApps' = Tail(pendingApps)
        /\ status[Head(pendingApps)] = "alive"
        /\ winTold' = [winTold EXCEPT ![Head(pendingApps)] = "created"]
        /\ UNCHANGED <<status, handles, nextId, wsTold>>
    BY <1>4 DEF RegisterApp, Alive
  <2> QED
    BY <2>1, HeadLeaves DEF NewsOfTheNew
<1>5. \A w \in apps : winTold[w] = "created"
  BY DEF EmacsKnowsApps
<1>6. ASSUME NEW ws \in SUBSET apps, winTold' = TellDestroyed(ws),
             UNCHANGED <<status, pendingApps, handles, nextId>>,
             \A i \in WsIds : i >= nextId => wsTold'[i] = wsTold[i]
      PROVE  NewsOfTheNew'
  BY <1>5, <1>6 DEF NewsOfTheNew, Waits
<1>7. CASE DetectDeadWorkspaces
  <2>1. /\ winTold' = TellDestroyed(Lost(DeadFrames)) /\ Lost(DeadFrames) \in SUBSET apps
        /\ UNCHANGED <<status, pendingApps, handles, nextId>>
    BY <1>7 DEF DetectDeadWorkspaces, DropContents
  <2>2. \A i \in WsIds : i >= nextId => wsTold'[i] = wsTold[i]
    BY <1>7 DEF DetectDeadWorkspaces, DeadFrames, IdsInOrder, Live, WsIds
  <2> QED
    BY <1>6, <2>1, <2>2
<1>8. CASE CleanupDeadApps
  <2> DEFINE dead == {w \in apps : Dead(w)}
  <2>1. /\ winTold' = TellDestroyed(dead)
        /\ UNCHANGED <<status, pendingApps, handles, nextId, wsTold>>
    BY <1>8 DEF CleanupDeadApps
  <2>2. dead \in SUBSET apps
    OBVIOUS
  <2> HIDE DEF dead
  <2> QED
    BY <1>6, <2>1, <2>2
<1>9. ASSUME NEW i \in WsIds, ProtocolRemove(i) PROVE NewsOfTheNew'
  <2>1. /\ winTold' = TellDestroyed(Lost({i} \cap inactive))
        /\ Lost({i} \cap inactive) \in SUBSET apps
        /\ UNCHANGED <<status, pendingApps, handles, nextId>>
        /\ i < nextId /\ wsTold' = [wsTold EXCEPT ![i] = "destroyed"]
    BY <1>9 DEF ProtocolRemove, DropContents, NewsOfTheNew
  <2>2. \A j \in WsIds : j >= nextId => wsTold'[j] = wsTold[j]
    BY <2>1 DEF WsIds
  <2> QED
    BY <1>6, <2>1, <2>2
<1>10. CASE NewFrame
  <2>1. /\ nextId' = nextId + 1 /\ wsTold' = [wsTold EXCEPT ![nextId] = "created"]
        /\ UNCHANGED <<status, winTold, pendingApps, handles>>
    BY <1>10 DEF NewFrame
  <2>2. nextId \in Nat /\ handles \subseteq Nat /\ WsIds \subseteq Nat
    BY DEF WsIds
  <2> QED
    BY <2>1, <2>2 DEF NewsOfTheNew, Waits
<1>11. CASE RefreshWorkspaceState
  BY <1>11 DEF RefreshWorkspaceState, NewsOfTheNew, Waits, IdsInOrder
<1>12. UNCHANGED <<status, winTold, pendingApps, handles, nextId, wsTold>> => NewsOfTheNew'
  BY DEF NewsOfTheNew, Waits
<1>13. CASE Redraw \/ StopLoop \/ \E w \in Windows : Commit(w)
  BY <1>12, <1>13 DEF Redraw, StopLoop, Commit
<1>14. CASE BeginTick \/ ChildFrame \/ FramesDone \/ AppsDone \/ ActionsDone
            \/ CleanupDeadDialogs \/ IpcDone \/ \E t \in SUBSET Waiting : Timeouts(t)
  BY <1>12, <1>14 DEF BeginTick, ChildFrame, FramesDone, AppsDone, ActionsDone,
                      CleanupDeadDialogs, IpcDone, Timeouts
<1>15. ASSUME NEW i \in WsIds, ProtocolActivate(i) PROVE NewsOfTheNew'
  BY <1>12, <1>15 DEF ProtocolActivate
<1>16. CASE Ipc
  BY <1>12, <1>16 DEF Ipc, IpcSetGeometry, IpcHide, IpcShow, IpcAddMirror, IpcRemoveMirror,
                      IpcPromoteMirror, IpcSwitchWorkspace
<1>17. CASE Dispatch
  BY <1>1, <1>2, <1>13, <1>17 DEF Dispatch
<1>18. CASE Tick
  BY <1>3, <1>4, <1>7, <1>8, <1>10, <1>11, <1>14, <1>18 DEF Tick
<1> QED
  BY <1>9, <1>15, <1>16, <1>17, <1>18 DEF Next, Protocol

(* WindowDestroyed and WorkspaceDestroyed are final.                        *)
THEOREM DestroyedStaysDestroyed == Spec => DestroyedIsFinal
<1> DEFINE Inv == EmacsViewInv /\ NewsOfTheNew
           Final == /\ \A w \in Windows : winTold[w] = "destroyed" => winTold'[w] = "destroyed"
                    /\ \A i \in WsIds : wsTold[i] = "destroyed" => wsTold'[i] = "destroyed"
<1>1. Init => Inv
  BY InitTypeInv DEF Init, EmacsViewInv, EmacsKnowsApps, EmacsKnowsWorkspaces, Live,
                     NewsOfTheNew, Waits
<1>2. Inv /\ [Next]_vars => Inv'
  <2>1. CASE UNCHANGED vars
    BY <2>1 DEF EmacsViewInv, TypeInv, TypeOK, IdsInOrder, EmacsKnowsApps,
                EmacsKnowsWorkspaces, Live, NewsOfTheNew, Waits
  <2>2. CASE Inv /\ Next
    BY <2>2, StepKeepsNews, StepKeepsAppsView, StepKeepsWorkspacesView, DispatchTypeInv,
       TickTypeInv, ProtocolTypeInv, IpcTypeInv DEF EmacsViewInv, Next
  <2> QED
    BY <2>1, <2>2
<1>3. Inv /\ [Next]_vars => [Final]_vars
  <2> SUFFICES ASSUME Inv, Next PROVE Final
    OBVIOUS
  <2> USE DEF EmacsViewInv, TypeInv, TypeOK
  <2>1. CASE RegisterApp
    <3>1. pendingApps # << >> /\ Head(pendingApps) \in Waits
      BY <2>1 DEF RegisterApp, Waits
    <3> QED
      BY <2>1, <3>1 DEF RegisterApp, NewsOfTheNew
  <2>2. CASE NewFrame
    <3>1. UNCHANGED winTold /\ wsTold' = [wsTold EXCEPT ![nextId] = "created"]
      BY <2>2 DEF NewFrame
    <3>2. nextId \in WsIds => wsTold[nextId] = "none"
      BY DEF NewsOfTheNew, WsIds
    <3> QED
      BY <3>1, <3>2
  <2>3. CASE DetectDeadWorkspaces
    <3>1. /\ winTold' = TellDestroyed(Lost(DeadFrames))
          /\ wsTold' = [i \in WsIds |-> IF i \in DeadFrames THEN "destroyed" ELSE wsTold[i]]
      BY <2>3 DEF DetectDeadWorkspaces, DropContents
    <3>2. \A w \in Windows : winTold[w] = "destroyed" => winTold'[w] = "destroyed"
      BY <3>1
    <3>3. \A i \in WsIds : wsTold[i] = "destroyed" => wsTold'[i] = "destroyed"
      BY <3>1
    <3> QED
      BY <3>2, <3>3
  <2>4. CASE CleanupDeadApps
    <3>1. winTold' = TellDestroyed({w \in apps : Dead(w)}) /\ UNCHANGED wsTold
      BY <2>4 DEF CleanupDeadApps
    <3> QED
      BY <3>1
  <2>5. ASSUME NEW i \in WsIds, ProtocolRemove(i) PROVE Final
    BY <2>5 DEF ProtocolRemove, DropContents
  <2>6. ~RegisterApp /\ ~DetectDeadWorkspaces /\ ~CleanupDeadApps
          /\ (\A i \in WsIds : ~ProtocolRemove(i)) => UNCHANGED winTold
    BY OtherStepsKeepApps
  <2>7. ~NewFrame /\ ~DetectDeadWorkspaces
          /\ (\A i \in WsIds : ~ProtocolRemove(i)) => UNCHANGED wsTold
    BY OtherStepsKeepWorkspaces
  <2>8. /\ RegisterApp \/ CleanupDeadApps => UNCHANGED wsTold
        /\ NewFrame => UNCHANGED winTold
    BY DEF RegisterApp, CleanupDeadApps, NewFrame
  <2> QED
    BY <2>1, <2>2, <2>3, <2>4, <2>5, <2>6, <2>7, <2>8
<1>4. Spec => [][Final]_vars
  BY <1>1, <1>2, <1>3, PTL DEF Spec
<1> QED
  BY <1>4 DEF DestroyedIsFinal

-----------------------------------------------------------------------------
(* Who is what: a toplevel is a frame, or waits to become one, or waits to  *)
(* be classified, or is an app, and never two of these.  What the tick does *)
(* to apps therefore leaves the frames where they are.                     *)
EmacsWaits == {pendingEmacs[k] : k \in DOMAIN pendingEmacs}

Frames == {frame[i] : i \in Live} \ {None}

Apart(fs, es, ws, as) ==
  fs \cap es = {} /\ fs \cap ws = {} /\ fs \cap as = {} /\ es \cap ws = {} /\ es \cap as = {}

Roles ==
  /\ \A w \in Frames \cup EmacsWaits \cup Waits \cup apps : status[w] # "unborn"
  /\ Apart(Frames, EmacsWaits, Waits, apps)
  /\ \A j, k \in DOMAIN pendingEmacs : pendingEmacs[j] = pendingEmacs[k] => j = k

(* Before the first toplevel is claimed there is one workspace without a    *)
(* frame; from then on every workspace has one.                            *)
Started ==
  /\ settled => \A i \in Live : frame[i] # None
  /\ ~settled => pendingEmacs = << >> /\ \A i, j \in Live : i = j /\ frame[i] = None

CastInv == TypeInv /\ Roles /\ Started

LEMMA OtherStepsKeepCast ==
  ASSUME Next, ~ChildFrame, ~NewFrame, ~SkipOrFloat, ~RegisterApp,
         ~DetectDeadWorkspaces, ~CleanupDeadApps,
         \A w \in Windows : ~NewToplevel(w) /\ ~ToplevelDies(w),
         \A i \in WsIds : ~ProtocolRemove(i)
  PROVE  UNCHANGED <<status, settled, frame, queueVars, apps>>
<1>1. Dispatch => UNCHANGED <<status, settled, frame, queueVars, apps>>
  BY DEF Dispatch, Commit, Redraw, StopLoop
<1>2. Tick => UNCHANGED <<status, settled, frame, queueVars, apps>>
  BY DEF Tick, BeginTick, FramesDone, AppsDone, ActionsDone, RefreshWorkspaceState,
         CleanupDeadDialogs, IpcDone, Timeouts
<1>3. Protocol => UNCHANGED <<status, settled, frame, queueVars, apps>>
  BY DEF Protocol, ProtocolActivate
<1>4. Ipc => UNCHANGED <<status, settled, frame, queueVars, apps>>
  BY DEF Ipc, IpcSetGeometry, IpcHide, IpcShow, IpcAddMirror, IpcRemoveMirror,
         IpcPromoteMirror, IpcSwitchWorkspace
<1> QED
  BY <1>1, <1>2, <1>3, <1>4 DEF Next

(* What leaves a role leaves the others apart.                              *)
LEMMA FewerRoles ==
  ASSUME Roles, Frames' \subseteq Frames, EmacsWaits' \subseteq EmacsWaits,
         Waits' \subseteq Waits, apps' \subseteq apps,
         \A w \in Frames \cup EmacsWaits \cup Waits \cup apps :
           status[w] # "unborn" => status'[w] # "unborn",
         \A j, k \in DOMAIN pendingEmacs' : pendingEmacs'[j] = pendingEmacs'[k] => j = k
  PROVE  Roles'
BY DEF Roles, Apart

(* The workspaces that go take their frames with them.                      *)
LEMMA FewerFrames ==
  ASSUME TypeInv, NEW gone \in SUBSET WsIds, Live' = Live \ gone,
         frame' = [i \in WsIds |-> IF i \in gone THEN None ELSE frame[i]]
  PROVE  Frames' \subseteq Frames /\ \A i \in Live' : frame'[i] = frame[i]
<1>1. Live \in SUBSET WsIds
  BY DEF TypeInv, TypeOK, Live
<1>2. \A i \in Live' : frame'[i] = frame[i]
  BY <1>1
<1> QED
  BY <1>2 DEF Frames

(* Appending adds one element.                                              *)
LEMMA AppendedElements ==
  ASSUME NEW q \in Seq(Windows), NEW w \in Windows
  PROVE  {Append(q, w)[k] : k \in DOMAIN Append(q, w)} \subseteq {q[k] : k \in DOMAIN q} \cup {w}
<1>1. Len(q) \in Nat /\ DOMAIN q = 1 .. Len(q) /\ DOMAIN Append(q, w) = 1 .. Len(q) + 1
  OBVIOUS
<1>2. ASSUME NEW k \in 1 .. Len(q) + 1
      PROVE  k = Len(q) + 1 \/ k \in 1 .. Len(q)
  BY <1>1, <1>2
<1>3. ASSUME NEW k \in 1 .. Len(q) PROVE Append(q, w)[k] = q[k]
  BY <1>1, <1>3
<1>4. Append(q, w)[Len(q) + 1] = w
  BY <1>1
<1> QED
  BY <1>1, <1>2, <1>3, <1>4

(* A toplevel that appears takes a role that nobody else has.               *)
LEMMA NewToplevelKeepsCast ==
  ASSUME CastInv, NEW w \in Windows, NewToplevel(w)
  PROVE  Roles' /\ Started'
<1> USE DEF CastInv, TypeInv, TypeOK
<1>1. /\ status[w] = "unborn" /\ status' = [status EXCEPT ![w] = "alive"]
      /\ UNCHANGED <<activeId, inactive, apps>> /\ Live' = Live
  BY DEF NewToplevel, Live
<1>2. w \notin Frames \cup EmacsWaits \cup Waits \cup apps
  BY <1>1 DEF Roles
<1>3. /\ Frames \cup EmacsWaits \cup Waits \cup apps \subseteq Windows
      /\ Live \subseteq WsIds /\ activeId \in Live
  BY DEF Frames, EmacsWaits, Waits, Live
<1>4. \A v \in Frames \cup EmacsWaits \cup Waits \cup apps \cup {w} : status'[v] # "unborn"
  BY <1>1, <1>3 DEF Roles
<1>5. CASE ShouldClaimMain
  <2>1. /\ frame' = [frame EXCEPT ![activeId] = w] /\ settled'
        /\ UNCHANGED <<pendingEmacs, pendingApps>>
    BY <1>5 DEF NewToplevel
  <2>2. ~settled /\ \A i \in Live : i = activeId
    BY <1>3, <1>5 DEF ShouldClaimMain, Started
  <2>3. Frames' = {w} /\ EmacsWaits' = EmacsWaits /\ Waits' = Waits
    BY <1>1, <1>3, <2>1, <2>2, ConstantsAssumption
       DEF Frames, EmacsWaits, Waits, ConstantsAssumption
  <2>4. Roles'
    BY <1>1, <1>2, <1>4, <2>1, <2>3 DEF Roles, Apart
  <2>5. Started'
    BY <1>1, <1>3, <2>1, <2>2, ConstantsAssumption DEF Started, ConstantsAssumption
  <2> QED
    BY <2>4, <2>5
<1>6. CASE ~ShouldClaimMain /\ IsEmacsClient(w)
  <2>1. /\ pendingEmacs' = Append(pendingEmacs, w)
        /\ UNCHANGED <<frame, settled, pendingApps>>
    BY <1>6 DEF NewToplevel
  <2>2. /\ DOMAIN pendingEmacs = 1 .. Len(pendingEmacs) /\ Len(pendingEmacs) \in Nat
        /\ DOMAIN pendingEmacs' = 1 .. Len(pendingEmacs) + 1
        /\ \A k \in DOMAIN pendingEmacs : pendingEmacs'[k] = pendingEmacs[k]
        /\ pendingEmacs'[Len(pendingEmacs) + 1] = w
    BY <2>1
  <2>3. EmacsWaits' \subseteq EmacsWaits \cup {w}
    BY <2>1, AppendedElements DEF EmacsWaits
  <2>4. Frames' = Frames /\ Waits' = Waits
    BY <1>1, <2>1 DEF Frames, Waits
  <2>5. \A j, k \in DOMAIN pendingEmacs' : pendingEmacs'[j] = pendingEmacs'[k] => j = k
    BY <1>2, <2>2 DEF Roles, EmacsWaits
  <2>6. Roles'
    BY <1>1, <1>2, <1>4, <2>3, <2>4, <2>5 DEF Roles, Apart
  <2>7. settled
    BY <1>3, <1>6 DEF ShouldClaimMain, IsEmacsClient, Started
  <2> QED
    BY <1>1, <2>1, <2>6, <2>7 DEF Started
<1>7. CASE ~ShouldClaimMain /\ ~IsEmacsClient(w)
  <2>1. /\ pendingApps' = Append(pendingApps, w)
        /\ UNCHANGED <<frame, settled, pendingEmacs>>
    BY <1>7 DEF NewToplevel
  <2>2. Waits' \subseteq Waits \cup {w}
    BY <2>1 DEF Waits
  <2>3. Frames' = Frames /\ EmacsWaits' = EmacsWaits
    BY <1>1, <2>1 DEF Frames, EmacsWaits
  <2>4. Roles'
    BY <1>1, <1>2, <1>4, <2>1, <2>2, <2>3 DEF Roles, Apart
  <2> QED
    BY <1>1, <2>1, <2>4 DEF Started
<1> QED
  BY <1>5, <1>6, <1>7

(* A frame that waited leaves the queue as the only one with its window.    *)
LEMMA EmacsHeadLeaves ==
  ASSUME CastInv, pendingEmacs # << >>, pendingEmacs' = Tail(pendingEmacs)
  PROVE  /\ Head(pendingEmacs) \in EmacsWaits \cap Windows
         /\ EmacsWaits' \subseteq EmacsWaits \ {Head(pendingEmacs)}
         /\ \A j, k \in DOMAIN pendingEmacs' : pendingEmacs'[j] = pendingEmacs'[k] => j = k
<1>1. pendingEmacs \in Seq(Windows)
  BY DEF CastInv, TypeInv, TypeOK
<1>2. /\ Len(pendingEmacs) \in Nat \ {0} /\ DOMAIN pendingEmacs = 1 .. Len(pendingEmacs)
      /\ DOMAIN pendingEmacs' = 1 .. Len(pendingEmacs) - 1
      /\ Head(pendingEmacs) = pendingEmacs[1]
      /\ \A k \in DOMAIN pendingEmacs' : pendingEmacs'[k] = pendingEmacs[k + 1]
  BY <1>1
<1> QED
  BY <1>1, <1>2 DEF EmacsWaits, CastInv, Roles

LEMMA NewFrameKeepsCast ==
  ASSUME CastInv, NewFrame
  PROVE  Roles' /\ Started'
<1> USE DEF CastInv, TypeInv, TypeOK
<1> DEFINE w == Head(pendingEmacs)
<1>1. /\ pendingEmacs # << >> /\ pendingEmacs' = Tail(pendingEmacs)
      /\ frame' = [frame EXCEPT ![nextId] = w]
      /\ activeId' = nextId /\ inactive' = inactive \cup {activeId}
      /\ UNCHANGED <<status, settled, pendingApps, apps>>
  BY DEF NewFrame
<1>2. /\ w \in EmacsWaits \cap Windows /\ EmacsWaits' \subseteq EmacsWaits \ {w}
      /\ \A j, k \in DOMAIN pendingEmacs' : pendingEmacs'[j] = pendingEmacs'[k] => j = k
  BY <1>1, EmacsHeadLeaves
<1>3. Live' = Live \cup {nextId} /\ Live \subseteq WsIds
  BY <1>1 DEF Live
<1>4. nextId \in WsIds
  BY <1>1, ConstantsAssumption DEF IdsInOrder, WsIds, ConstantsAssumption
<1> HIDE DEF w
<1>5. Frames' \subseteq Frames \cup {w}
  BY <1>1, <1>3, <1>4 DEF Frames
<1>6. Waits' = Waits
  BY <1>1 DEF Waits
<1>7. Roles'
  BY <1>1, <1>2, <1>5, <1>6 DEF Roles, Apart
<1>8. settled
  BY <1>1 DEF Started
<1>9. Started'
  BY <1>1, <1>2, <1>3, <1>4, <1>8, ConstantsAssumption DEF Started, ConstantsAssumption
<1> QED
  BY <1>7, <1>9

LEMMA StepKeepsCast == CastInv /\ Next => Roles' /\ Started'
<1> SUFFICES ASSUME CastInv, Next PROVE Roles' /\ Started'
  OBVIOUS
<1> USE DEF CastInv, TypeInv, TypeOK
<1>1. ASSUME NEW w \in Windows, NewToplevel(w) PROVE Roles' /\ Started'
  BY <1>1, NewToplevelKeepsCast
<1>2. ASSUME NEW w \in Windows, ToplevelDies(w) PROVE Roles' /\ Started'
  <2>1. /\ status' = [status EXCEPT ![w] = "dead"] /\ Live' = Live
        /\ UNCHANGED <<settled, frame, pendingEmacs, pendingApps, apps>>
    BY <1>2 DEF ToplevelDies, Live
  <2>2. Frames' = Frames /\ EmacsWaits' = EmacsWaits /\ Waits' = Waits
    BY <2>1 DEF Frames, EmacsWaits, Waits
  <2>3. \A v : status[v] # "unborn" => status'[v] # "unborn"
    BY <2>1
  <2> QED
    BY <2>1, <2>2, <2>3, FewerRoles DEF Started, Roles
<1>3. CASE ChildFrame
  <2>1. /\ pendingEmacs # << >> /\ pendingEmacs' = Tail(pendingEmacs) /\ Live' = Live
        /\ UNCHANGED <<status, settled, frame, pendingApps, apps>>
    BY <1>3 DEF ChildFrame, Live
  <2>2. Frames' = Frames /\ Waits' = Waits
    BY <2>1 DEF Frames, Waits
  <2>3. settled
    BY <2>1 DEF Started
  <2> QED
    BY <2>1, <2>2, <2>3, EmacsHeadLeaves, FewerRoles DEF Started
<1>4. CASE NewFrame
  BY <1>4, NewFrameKeepsCast
<1>5. CASE SkipOrFloat \/ RegisterApp
  <2>1. /\ pendingApps # << >> /\ pendingApps' = Tail(pendingApps) /\ Live' = Live
        /\ apps' \subseteq apps \cup {Head(pendingApps)}
        /\ UNCHANGED <<status, settled, frame, pendingEmacs>>
    BY <1>5 DEF SkipOrFloat, RegisterApp, Live
  <2>2. Frames' = Frames /\ EmacsWaits' = EmacsWaits
    BY <2>1 DEF Frames, EmacsWaits
  <2>3. Head(pendingApps) \in Waits /\ Waits' \subseteq Waits
    <3>1. \A k \in DOMAIN pendingApps' : k + 1 \in DOMAIN pendingApps
                                         /\ pendingApps'[k] = pendingApps[k + 1]
      BY <2>1
    <3>2. 1 \in DOMAIN pendingApps /\ Head(pendingApps) = pendingApps[1]
      BY <2>1
    <3> QED
      BY <3>1, <3>2 DEF Waits
  <2>4. Roles'
    BY <2>1, <2>2, <2>3 DEF Roles, Apart
  <2> QED
    BY <2>1, <2>4 DEF Started
<1>6. CASE CleanupDeadApps
  <2>1. /\ Live' = Live /\ apps' \subseteq apps
        /\ UNCHANGED <<status, settled, frame, pendingEmacs, pendingApps>>
    BY <1>6 DEF CleanupDeadApps, Live
  <2>2. Frames' = Frames /\ EmacsWaits' = EmacsWaits /\ Waits' = Waits
    BY <2>1 DEF Frames, EmacsWaits, Waits
  <2> QED
    BY <2>1, <2>2, FewerRoles DEF Started, Roles
<1>7. ASSUME NEW gone \in SUBSET WsIds, Live' = Live \ gone,
             frame' = [i \in WsIds |-> IF i \in gone THEN None ELSE frame[i]],
             apps' \subseteq apps, UNCHANGED <<status, settled, pendingEmacs, pendingApps>>
      PROVE  Roles' /\ Started'
  <2>1. EmacsWaits' = EmacsWaits /\ Waits' = Waits
    BY <1>7 DEF EmacsWaits, Waits
  <2>2. Frames' \subseteq Frames /\ \A i \in Live' : i \in Live /\ frame'[i] = frame[i]
    BY <1>7, FewerFrames
  <2>3. Roles'
    BY <1>7, <2>1, <2>2, FewerRoles DEF Roles
  <2> QED
    BY <1>7, <2>2, <2>3 DEF Started
<1>8. CASE DetectDeadWorkspaces
  <2>1. Live' = Live \ DeadFrames /\ DeadFrames \in SUBSET WsIds
    BY <1>8 DEF DetectDeadWorkspaces, Live, DeadFrames, IdsInOrder
  <2>2. /\ frame' = [i \in WsIds |-> IF i \in DeadFrames THEN None ELSE frame[i]]
        /\ apps' \subseteq apps
        /\ UNCHANGED <<status, settled, pendingEmacs, pendingApps>>
    BY <1>8 DEF DetectDeadWorkspaces, DropContents
  <2> QED
    BY <1>7, <2>1, <2>2
<1>9. ASSUME NEW i \in WsIds, ProtocolRemove(i) PROVE Roles' /\ Started'
  <2> DEFINE gone == {i} \cap inactive
  <2>1. Live' = Live \ gone /\ gone \in SUBSET WsIds
    BY <1>9 DEF ProtocolRemove, Live, IdsInOrder
  <2>2. /\ frame' = [j \in WsIds |-> IF j \in gone THEN None ELSE frame[j]]
        /\ apps' \subseteq apps
        /\ UNCHANGED <<status, settled, pendingEmacs, pendingApps>>
    BY <1>9 DEF ProtocolRemove, DropContents
  <2> HIDE DEF gone
  <2> QED
    BY <1>7, <2>1, <2>2
<1>10. CASE UNCHANGED <<status, settled, frame, queueVars, apps>> /\ Live' = Live
  BY <1>10 DEF Roles, Started, Frames, EmacsWaits, Waits
<1>11. ~NewFrame /\ ~DetectDeadWorkspaces /\ (\A i \in WsIds : ~ProtocolRemove(i))
         => Live' = Live
  BY OtherStepsKeepWorkspaces
<1> QED
  BY <1>1, <1>2, <1>3, <1>4, <1>5, <1>6, <1>8, <1>9, <1>10, <1>11, OtherStepsKeepCast

LEMMA CastInvariant ==
  /\ Init => CastInv
  /\ CastInv /\ [Next]_vars => CastInv'
<1>1. Init => CastInv
  <2> SUFFICES ASSUME Init PROVE Roles /\ Started
    BY InitTypeInv DEF CastInv
  <2>1. Frames = {} /\ EmacsWaits = {} /\ Waits = {} /\ apps = {}
    <3>1. 1 \in WsIds
      BY ConstantsAssumption DEF WsIds, ConstantsAssumption
    <3> QED
      BY <3>1 DEF Init, Frames, EmacsWaits, Waits, Live
  <2>2. Live = {1} /\ 1 \in WsIds
    BY ConstantsAssumption DEF Init, Live, WsIds, ConstantsAssumption
  <2> QED
    BY <2>1, <2>2 DEF Init, Roles, Apart, Started
<1>2. CastInv /\ [Next]_vars => CastInv'
  <2>1. CASE UNCHANGED vars
    BY <2>1 DEF CastInv, TypeInv, TypeOK, IdsInOrder, Live, Roles, Started, Frames,
                EmacsWaits, Waits
  <2>2. CASE CastInv /\ Next
    BY <2>2, StepKeepsCast, DispatchTypeInv, TickTypeInv, ProtocolTypeInv, IpcTypeInv
       DEF CastInv, Next
  <2> QED
    BY <2>1, <2>2
<1> QED
  BY <1>1, <1>2

(* The messages about a window of AppManager never take a frame out of its  *)
(* workspace's Space.                                                      *)
LEMMA IpcKeepsFrames ==
  ASSUME CastInv, FrameInOwnSpace, Ipc
  PROVE  FrameInOwnSpace'
<1> USE DEF CastInv, TypeInv, TypeOK, FrameInOwnSpace
<1>1. \A i \in Live : i \in WsIds /\ (frame[i] # None => frame[i] \notin apps)
  BY DEF Live, Roles, Apart, Frames
<1>2. \A i \in Live : Alive(frame[i]) => frame[i] # None /\ frame[i] \in Windows
  BY ConstantsAssumption DEF Alive, ConstantsAssumption
<1>3. ASSUME NEW w \in apps, NEW sp \in [WsIds -> SUBSET Windows], NEW i \in Live,
             \A j \in WsIds : space[j] \ {w} \subseteq sp[j], Alive(frame[i])
      PROVE  frame[i] \in sp[i]
  BY <1>1, <1>2, <1>3
<1>4. ASSUME NEW w \in apps, NEW j
      PROVE  /\ Unmap(space, j, w) \in [WsIds -> SUBSET Windows]
             /\ \A i \in WsIds : space[i] \ {w} \subseteq Unmap(space, j, w)[i]
  BY DEF Unmap
<1>5. ASSUME NEW w \in Windows, IpcSetGeometry(w) \/ IpcShow(w) \/ IpcHide(w)
      PROVE  FrameInOwnSpace'
  <2>1. /\ w \in apps /\ UNCHANGED <<status, frame, activeId, inactive>>
    BY <1>5 DEF IpcSetGeometry, IpcShow, IpcHide
  <2>2. /\ SpaceAfterMigrate(w) \in [WsIds -> SUBSET Windows]
        /\ \A i \in WsIds : space[i] \ {w} \subseteq SpaceAfterMigrate(w)[i]
    BY <1>4, <2>1 DEF SpaceAfterMigrate
  <2>3. \/ space' = space
        \/ space' = Unmap(space, appWs[w], w)
        \/ space' = [SpaceAfterMigrate(w) EXCEPT ![activeId] = @ \cup {w}]
    BY <1>5 DEF IpcSetGeometry, IpcShow, IpcHide
  <2>4. CASE space' = space
    BY <1>3, <2>1, <2>4 DEF Live, Alive
  <2>5. CASE space' = Unmap(space, appWs[w], w)
    BY <1>3, <1>4, <2>1, <2>5 DEF Live, Alive
  <2>6. CASE space' = [SpaceAfterMigrate(w) EXCEPT ![activeId] = @ \cup {w}]
    <3>1. /\ space' \in [WsIds -> SUBSET Windows]
          /\ \A i \in WsIds : SpaceAfterMigrate(w)[i] \subseteq space'[i]
      BY <2>2, <2>6
    <3>2. \A i \in WsIds : space[i] \ {w} \subseteq space'[i]
      BY <2>2, <3>1
    <3> QED
      BY <1>3, <2>1, <3>1, <3>2 DEF Live, Alive
  <2> QED
    BY <2>3, <2>4, <2>5, <2>6
<1>6. ASSUME NEW w \in Windows, NEW v \in Views, IpcPromoteMirror(w, v)
      PROVE  FrameInOwnSpace'
  <2>1. /\ w \in apps /\ UNCHANGED <<status, frame, activeId, inactive>>
        /\ mirrors[w][v] \in WsIds
    BY <1>6 DEF IpcPromoteMirror
  <2>2. \/ space' = Map(Unmap(space, appWs[w], w), mirrors[w][v], w)
        \/ space' = [space EXCEPT ![activeId] = @ \cup {w}]
    BY <1>6 DEF IpcPromoteMirror
  <2>3. /\ Map(Unmap(space, appWs[w], w), mirrors[w][v], w) \in [WsIds -> SUBSET Windows]
        /\ \A i \in WsIds :
             space[i] \ {w} \subseteq Map(Unmap(space, appWs[w], w), mirrors[w][v], w)[i]
    BY <1>4, <2>1 DEF Map
  <2>4. \A i \in WsIds : space[i] \ {w} \subseteq space'[i]
    BY <2>2, <2>3
  <2>5. space' \in [WsIds -> SUBSET Windows]
    BY <2>1, <2>2, <2>3
  <2> QED
    BY <1>3, <2>1, <2>4, <2>5 DEF Live, Alive
<1>7. ASSUME NEW w \in Windows, NEW v \in Views, IpcAddMirror(w, v) \/ IpcRemoveMirror(w, v)
      PROVE  FrameInOwnSpace'
  BY <1>7 DEF IpcAddMirror, IpcRemoveMirror, Live, Alive
<1>8. ASSUME NEW i \in WsIds, IpcSwitchWorkspace(i) PROVE FrameInOwnSpace'
  BY <1>8 DEF IpcSwitchWorkspace, SwitchWorkspace, Live, Alive
<1> QED
  BY <1>5, <1>6, <1>7, <1>8 DEF Ipc

LEMMA StepKeepsFramesInSpace == CastInv /\ FrameInOwnSpace /\ Next => FrameInOwnSpace'
<1> SUFFICES ASSUME CastInv, FrameInOwnSpace, Next PROVE FrameInOwnSpace'
  OBVIOUS
<1> USE DEF CastInv, TypeInv, TypeOK, FrameInOwnSpace
<1>1. Live \subseteq WsIds /\ activeId \in Live
  BY DEF Live
<1>2. ASSUME NEW w \in Windows, NewToplevel(w) PROVE FrameInOwnSpace'
  <2>1. /\ space' = [space EXCEPT ![activeId] = @ \cup {w}] /\ Live' = Live
        /\ status[w] = "unborn" /\ status' = [status EXCEPT ![w] = "alive"]
        /\ frame' = frame \/ frame' = [frame EXCEPT ![activeId] = w]
    BY <1>2 DEF NewToplevel, Live
  <2>2. \A i \in Live : frame[i] # w
    <3>1. w # None
      BY ConstantsAssumption DEF ConstantsAssumption
    <3> QED
      BY <2>1, <3>1 DEF Roles, Frames
  <2> QED
    BY <1>1, <2>1, <2>2 DEF Alive
<1>3. ASSUME NEW w \in Windows, ToplevelDies(w) PROVE FrameInOwnSpace'
  BY <1>3 DEF ToplevelDies, Live, Alive
<1>4. ASSUME NEW w \in Windows, Commit(w) PROVE FrameInOwnSpace'
  BY <1>4 DEF Commit, Live, Alive
<1>5. CASE Redraw
  BY <1>1, <1>5 DEF Redraw, Live, Alive, Dead
<1>6. CASE NewFrame
  <2> DEFINE w == Head(pendingEmacs)
  <2>1. /\ pendingEmacs # << >> /\ pendingEmacs' = Tail(pendingEmacs)
        /\ frame' = [frame EXCEPT ![nextId] = w]
        /\ space' = [space EXCEPT ![activeId] = @ \ {w}, ![nextId] = {w}]
        /\ activeId' = nextId /\ inactive' = inactive \cup {activeId}
        /\ UNCHANGED status
    BY <1>6 DEF NewFrame
  <2>2. w \in EmacsWaits \cap Windows
    BY <2>1, EmacsHeadLeaves
  <2>3. Live' = Live \cup {nextId} /\ nextId \notin Live
    BY <2>1 DEF Live, IdsInOrder, WsIds
  <2>4. nextId \in WsIds
    BY <2>1, ConstantsAssumption DEF IdsInOrder, WsIds, ConstantsAssumption
  <2>5. \A i \in Live : frame[i] # w
    <3>1. w # None
      BY <2>2, ConstantsAssumption DEF ConstantsAssumption
    <3> QED
      BY <2>2, <3>1 DEF Roles, Apart, Frames
  <2> HIDE DEF w
  <2> QED
    BY <1>1, <2>1, <2>3, <2>4, <2>5 DEF Alive
<1>7. ASSUME NEW gone \in SUBSET WsIds, Live' = Live \ gone, UNCHANGED status,
             frame' = [i \in WsIds |-> IF i \in gone THEN None ELSE frame[i]],
             space' = [i \in WsIds |-> IF i \in gone THEN {} ELSE space[i]]
      PROVE  FrameInOwnSpace'
  BY <1>1, <1>7 DEF Alive
<1>8. CASE DetectDeadWorkspaces
  <2>1. Live' = Live \ DeadFrames /\ DeadFrames \in SUBSET WsIds
    BY <1>8 DEF DetectDeadWorkspaces, Live, DeadFrames, IdsInOrder
  <2>2. /\ frame' = [i \in WsIds |-> IF i \in DeadFrames THEN None ELSE frame[i]]
        /\ space' = [i \in WsIds |-> IF i \in DeadFrames THEN {} ELSE space[i]]
        /\ UNCHANGED status
    BY <1>8 DEF DetectDeadWorkspaces, DropContents
  <2> QED
    BY <1>7, <2>1, <2>2
<1>9. ASSUME NEW i \in WsIds, ProtocolRemove(i) PROVE FrameInOwnSpace'
  <2> DEFINE gone == {i} \cap inactive
  <2>1. Live' = Live \ gone /\ gone \in SUBSET WsIds
    BY <1>9 DEF ProtocolRemove, Live, IdsInOrder
  <2>2. /\ frame' = [j \in WsIds |-> IF j \in gone THEN None ELSE frame[j]]
        /\ space' = [j \in WsIds |-> IF j \in gone THEN {} ELSE space[j]]
        /\ UNCHANGED status
    BY <1>9 DEF ProtocolRemove, DropContents
  <2> HIDE DEF gone
  <2> QED
    BY <1>7, <2>1, <2>2
<1>10. CASE CleanupDeadApps
  <2>1. /\ \A i \in WsIds : \A w \in space[i] : w \in space'[i] \/ Dead(w)
        /\ UNCHANGED <<status, frame, activeId, inactive>>
    BY <1>10 DEF CleanupDeadApps
  <2> QED
    BY <1>1, <2>1 DEF Live, Alive, Dead
<1>11. CASE CleanupDeadDialogs
  BY <1>1, <1>11 DEF CleanupDeadDialogs, Live, Alive, Dead
<1>12. ASSUME NEW t \in SUBSET Waiting, Timeouts(t) PROVE FrameInOwnSpace'
  <2>1. /\ \A i \in WsIds : space[i] \subseteq space'[i]
        /\ UNCHANGED <<status, frame, activeId, inactive>>
    BY <1>12 DEF Timeouts
  <2> QED
    BY <1>1, <2>1 DEF Live, Alive
<1>13. ASSUME NEW i \in WsIds, ProtocolActivate(i) PROVE FrameInOwnSpace'
  BY <1>13 DEF ProtocolActivate, SwitchWorkspace, Live, Alive
<1>14. CASE UNCHANGED <<status, frame, space, activeId, inactive>>
  BY <1>14 DEF Live, Alive
<1>15. CASE Dispatch
  BY <1>2, <1>3, <1>4, <1>5, <1>14, <1>15 DEF Dispatch, StopLoop
<1>16. CASE Tick
  <2>1. BeginTick \/ ChildFrame \/ FramesDone \/ SkipOrFloat \/ RegisterApp \/ AppsDone
          \/ ActionsDone \/ RefreshWorkspaceState \/ IpcDone
          => UNCHANGED <<status, frame, space, activeId, inactive>>
    BY DEF BeginTick, ChildFrame, FramesDone, SkipOrFloat, RegisterApp, AppsDone,
           ActionsDone, RefreshWorkspaceState, IpcDone
  <2> QED
    BY <1>6, <1>8, <1>10, <1>11, <1>12, <1>14, <1>16, <2>1 DEF Tick
<1> QED
  BY <1>9, <1>13, <1>15, <1>16, IpcKeepsFrames DEF Next, Protocol

(* The cast, and the Spaces of the frames, in every behaviour.              *)
LEMMA CastStays == Spec => [](CastInv /\ FrameInOwnSpace)
<1> DEFINE Inv == CastInv /\ FrameInOwnSpace
<1>1. Init => Inv
  <2> SUFFICES ASSUME Init PROVE FrameInOwnSpace
    BY CastInvariant
  <2>1. \A i \in Live : frame[i] = None
    BY ConstantsAssumption DEF Init, Live, WsIds, ConstantsAssumption
  <2> QED
    BY <2>1, ConstantsAssumption DEF FrameInOwnSpace, Alive, ConstantsAssumption
<1>2. Inv /\ [Next]_vars => Inv'
  <2>1. CASE UNCHANGED vars
    BY <2>1, CastInvariant DEF FrameInOwnSpace, Live, Alive
  <2>2. CASE Inv /\ Next
    BY <2>2, CastInvariant, StepKeepsFramesInSpace
  <2> QED
    BY <2>1, <2>2
<1> QED
  BY <1>1, <1>2, PTL DEF Spec

(* After any mixture of new frames, dead frames, cleanups, switches and     *)
(* messages about apps, the frame of a workspace is in the Space that       *)
(* emacs_window() looks in.                                                *)
THEOREM FramesStayInSpace == Spec => []FrameInOwnSpace
BY CastStays, PTL

-----------------------------------------------------------------------------
(* What is dead by the end of a tick. *)

(* Between detect_dead_workspaces and the end of the cleanups nothing can   *)
(* die, and nothing touches the frames.                                    *)
LEMMA StepKeepsActiveFrame == CastInv /\ ActiveFrameAlive /\ Next => ActiveFrameAlive'
<1> SUFFICES ASSUME CastInv, ActiveFrameAlive, Next PROVE ActiveFrameAlive'
  OBVIOUS
<1>1. CASE DetectDeadWorkspaces
  <2> SUFFICES ASSUME settled', ~stopping' PROVE Alive(frame[activeId])'
    BY DEF ActiveFrameAlive
  <2>1. /\ TypeOK /\ activeId \in Live /\ activeId \notin inactive
        /\ \A i \in Live : i \in WsIds
    BY DEF CastInv, TypeInv, TypeOK, IdsInOrder, Live
  <2>2. /\ settled
        /\ status' = status
        /\ frame' = [i \in WsIds |-> IF i \in DeadFrames THEN None ELSE frame[i]]
    BY <1>1 DEF DetectDeadWorkspaces, DropContents
  <2>3. \A i \in Live : frame[i] \in Windows /\ status[frame[i]] # "unborn"
    <3>1. \A i \in Live : frame[i] # None
      BY <2>2 DEF CastInv, Started
    <3>2. \A i \in Live : frame[i] \in Frames
      BY <3>1 DEF Frames
    <3> QED
      BY <2>1, <3>1, <3>2 DEF CastInv, Roles, TypeOK
  <2>4. activeId' \in Live /\ activeId' \notin DeadFrames /\ ~Dead(frame[activeId'])
    <3>1. activeId \notin DeadFrames
      BY <2>1 DEF DeadFrames
    <3>2. CASE ~MainDied
      <4>1. activeId' = activeId
        BY <1>1, <3>2 DEF DetectDeadWorkspaces
      <4> QED
        BY <2>1, <2>2, <3>1, <3>2, <4>1 DEF MainDied
    <3>3. CASE MainDied
      <4>1. PICK fallback \in inactive \ DeadFrames : activeId' = fallback
        BY <1>1, <3>3 DEF DetectDeadWorkspaces
      <4> QED
        BY <4>1 DEF DeadFrames, Live
    <3> QED
      BY <3>2, <3>3
  <2>5. frame'[activeId'] = frame[activeId'] /\ status[frame[activeId']] = "alive"
    <3>1. activeId' \in WsIds /\ frame[activeId'] \in Windows
      BY <2>1, <2>3, <2>4
    <3>2. status[frame[activeId']] \in {"unborn", "alive", "dead"}
      BY <2>1, <3>1 DEF TypeOK
    <3> QED
      BY <2>2, <2>3, <2>4, <3>1, <3>2 DEF Dead
  <2> QED
    BY <2>2, <2>3, <2>4, <2>5 DEF Alive
<1>2. CASE RefreshWorkspaceState \/ CleanupDeadApps
  <2>1. /\ phase \in {"refresh", "deadapps"}
        /\ UNCHANGED <<settled, stopping, status, frame, activeId>>
    BY <1>2 DEF RefreshWorkspaceState, CleanupDeadApps, wsVars
  <2> QED
    BY <2>1 DEF ActiveFrameAlive, Alive
<1>3. CASE phase' \notin {"refresh", "deadapps", "dialogs"}
  BY <1>3 DEF ActiveFrameAlive
<1>4. Dispatch => phase' = "dispatch"
  BY DEF Dispatch, NewToplevel, ToplevelDies, Commit, Redraw, StopLoop
<1>5. Protocol => phase' = "actions"
  BY DEF Protocol, ProtocolActivate, ProtocolRemove
<1>6. Ipc => phase' = "ipc"
  BY DEF Ipc, IpcSetGeometry, IpcHide, IpcShow, IpcAddMirror, IpcRemoveMirror,
         IpcPromoteMirror, IpcSwitchWorkspace
<1>7. ASSUME Tick, ~DetectDeadWorkspaces, ~RefreshWorkspaceState, ~CleanupDeadApps
      PROVE  phase' \notin {"refresh", "deadapps", "dialogs"}
  BY <1>7 DEF Tick, BeginTick, ChildFrame, NewFrame, FramesDone, SkipOrFloat,
     RegisterApp, AppsDone, ActionsDone, CleanupDeadDialogs, IpcDone, Timeouts
<1> QED
  BY <1>1, <1>2, <1>3, <1>4, <1>5, <1>6, <1>7 DEF Next

(* The workspace that detect_dead_workspaces leaves active has a live       *)
(* frame, or the loop is stopping.                                         *)
THEOREM ActiveFrameStaysAlive == Spec => []ActiveFrameAlive
<1> DEFINE Inv == CastInv /\ ActiveFrameAlive
<1>1. Init => Inv
  BY CastInvariant DEF Init, ActiveFrameAlive
<1>2. Inv /\ [Next]_vars => Inv'
  <2>1. CASE UNCHANGED vars
    BY <2>1, CastInvariant DEF ActiveFrameAlive, Alive
  <2>2. CASE Inv /\ Next
    BY <2>2, CastInvariant, StepKeepsActiveFrame
  <2> QED
    BY <2>1, <2>2
<1>3. Inv => ActiveFrameAlive
  OBVIOUS
<1> QED
  BY <1>1, <1>2, <1>3, PTL DEF Spec

(* The messages and the timeouts map only what AppManager knows, and that   *)
(* has been cleaned up before.                                             *)
AppsCleaned == phase \in {"dialogs", "ipc", "timeouts"} => \A w \in apps : ~Dead(w)

LEMMA StepKeepsDeadHidden ==
  TypeInv /\ AppsCleaned /\ DeadNeverShown /\ Next => AppsCleaned' /\ DeadNeverShown'
<1> SUFFICES ASSUME TypeInv, AppsCleaned, DeadNeverShown, Next
             PROVE  AppsCleaned' /\ DeadNeverShown'
  OBVIOUS
<1> USE DEF TypeInv, TypeOK
<1>1. CASE phase' \notin {"dialogs", "ipc", "timeouts"}
  BY <1>1 DEF AppsCleaned, DeadNeverShown
<1>2. CASE CleanupDeadApps
  BY <1>2 DEF CleanupDeadApps, AppsCleaned, DeadNeverShown, Dead
<1>3. CASE CleanupDeadDialogs
  BY <1>3 DEF CleanupDeadDialogs, AppsCleaned, DeadNeverShown, Dead
<1>4. CASE IpcDone
  BY <1>4 DEF IpcDone, AppsCleaned, DeadNeverShown, Dead
<1>5. ASSUME NEW w \in apps, phase \in {"ipc", "timeouts"},
             UNCHANGED <<phase, status, apps>>,
             \A i \in WsIds : space'[i] \subseteq space[i] \cup {w}
      PROVE  AppsCleaned' /\ DeadNeverShown'
  BY <1>5 DEF AppsCleaned, DeadNeverShown, Dead
<1>6. ASSUME NEW w, NEW i
      PROVE  /\ Unmap(space, i, w) \in [WsIds -> SUBSET Windows]
             /\ \A j \in WsIds : Unmap(space, i, w)[j] \subseteq space[j]
  BY DEF Unmap
<1>7. ASSUME NEW w \in Windows, IpcSetGeometry(w) \/ IpcHide(w) \/ IpcShow(w)
      PROVE  AppsCleaned' /\ DeadNeverShown'
  <2>1. w \in apps /\ phase = "ipc" /\ UNCHANGED <<phase, status, apps>>
    BY <1>7 DEF IpcSetGeometry, IpcShow, IpcHide
  <2>2. \/ space' = space
        \/ space' = Unmap(space, appWs[w], w)
        \/ space' = [SpaceAfterMigrate(w) EXCEPT ![activeId] = @ \cup {w}]
    BY <1>7 DEF IpcSetGeometry, IpcShow, IpcHide
  <2>3. /\ SpaceAfterMigrate(w) \in [WsIds -> SUBSET Windows]
        /\ \A j \in WsIds : SpaceAfterMigrate(w)[j] \subseteq space[j]
    BY <1>6 DEF SpaceAfterMigrate
  <2>4. CASE space' = [SpaceAfterMigrate(w) EXCEPT ![activeId] = @ \cup {w}]
    <3>1. \A i \in WsIds : space'[i] \subseteq SpaceAfterMigrate(w)[i] \cup {w}
      BY <2>3, <2>4
    <3> QED
      BY <1>5, <2>1, <2>3, <3>1
  <2>5. CASE space' = space
    BY <1>5, <2>1, <2>5
  <2>6. CASE space' = Unmap(space, appWs[w], w)
    BY <1>5, <1>6, <2>1, <2>6
  <2> QED
    BY <2>2, <2>4, <2>5, <2>6
<1>8. ASSUME NEW w \in Windows, NEW v \in Views, IpcPromoteMirror(w, v)
      PROVE  AppsCleaned' /\ DeadNeverShown'
  <2>1. w \in apps /\ phase = "ipc" /\ UNCHANGED <<phase, status, apps>>
    BY <1>8 DEF IpcPromoteMirror
  <2>2. \/ space' = Map(Unmap(space, appWs[w], w), mirrors[w][v], w)
        \/ space' = [space EXCEPT ![activeId] = @ \cup {w}]
    BY <1>8 DEF IpcPromoteMirror
  <2>3. \A i \in WsIds :
          Map(Unmap(space, appWs[w], w), mirrors[w][v], w)[i] \subseteq space[i] \cup {w}
    BY <1>6 DEF Map
  <2>4. \A i \in WsIds : space'[i] \subseteq space[i] \cup {w}
    BY <2>2, <2>3
  <2> QED
    BY <1>5, <2>1, <2>4
<1>9. CASE UNCHANGED <<phase, status, apps, space>>
  BY <1>9 DEF AppsCleaned, DeadNeverShown, Dead
<1>10. CASE Ipc
  <2>1. ASSUME NEW w \in Windows, NEW v \in Views, IpcAddMirror(w, v) \/ IpcRemoveMirror(w, v)
        PROVE  UNCHANGED <<phase, status, apps, space>>
    BY <2>1 DEF IpcAddMirror, IpcRemoveMirror
  <2>2. ASSUME NEW i \in WsIds, IpcSwitchWorkspace(i)
        PROVE  UNCHANGED <<phase, status, apps, space>>
    BY <2>2 DEF IpcSwitchWorkspace
  <2> QED
    BY <1>7, <1>8, <1>9, <1>10, <2>1, <2>2 DEF Ipc
<1>11. Dispatch \/ Protocol => phase' \notin {"dialogs", "ipc", "timeouts"}
  BY DEF Dispatch, NewToplevel, ToplevelDies, Commit, Redraw, StopLoop, Protocol,
         ProtocolActivate, ProtocolRemove
<1>12. CASE Tick
  <2>1. ~CleanupDeadApps /\ ~CleanupDeadDialogs /\ ~IpcDone
          => phase' \notin {"dialogs", "ipc", "timeouts"}
    BY <1>12 DEF Tick, BeginTick, ChildFrame, NewFrame, FramesDone, SkipOrFloat,
       RegisterApp, AppsDone, ActionsDone, DetectDeadWorkspaces, RefreshWorkspaceState,
       Timeouts
  <2> QED
    BY <1>1, <1>2, <1>3, <1>4, <2>1
<1> QED
  BY <1>1, <1>10, <1>11, <1>12 DEF Next

(* From cleanup_dead_dialogs to the end of the tick no Space shows a dead   *)
(* toplevel, whatever messages arrive.                                     *)
THEOREM DeadStayHidden == Spec => []DeadNeverShown
<1> DEFINE Inv == TypeInv /\ AppsCleaned /\ DeadNeverShown
<1>1. Init => Inv
  BY InitTypeInv DEF Init, AppsCleaned, DeadNeverShown
<1>2. Inv /\ [Next]_vars => Inv'
  <2>1. CASE UNCHANGED vars
    BY <2>1 DEF TypeInv, TypeOK, IdsInOrder, Live, AppsCleaned, DeadNeverShown, Dead
  <2>2. CASE Inv /\ Next
    BY <2>2, StepKeepsDeadHidden, DispatchTypeInv, TickTypeInv, ProtocolTypeInv,
       IpcTypeInv DEF Next
  <2> QED
    BY <2>1, <2>2
<1>3. Inv => DeadNeverShown
  OBVIOUS
<1> QED
  BY <1>1, <1>2, <1>3, PTL DEF Spec

-----------------------------------------------------------------------------
(* Which Spaces a frame is in.                                              *)

(* No two workspaces have the same frame.                                   *)
FramesDistinct == \A i, j \in Live : frame[i] = frame[j] /\ frame[i] # None => i = j

(* All that the steps do to frames and Spaces, but for those that bring new *)
(* toplevels and new frames.                                               *)
LEMMA IpcSpaces ==
  ASSUME TypeInv, Ipc
  PROVE  /\ UNCHANGED <<status, settled, frame, pendingEmacs>> /\ Live' = Live
         /\ \A i \in WsIds : space'[i] \subseteq space[i] \cup apps
<1> USE DEF TypeInv, TypeOK
<1>1. ASSUME NEW w, NEW i
      PROVE  /\ Unmap(space, i, w) \in [WsIds -> SUBSET Windows]
             /\ \A j \in WsIds : Unmap(space, i, w)[j] \subseteq space[j]
  BY DEF Unmap
<1>2. ASSUME NEW w \in Windows, IpcSetGeometry(w) \/ IpcHide(w) \/ IpcShow(w)
      PROVE  \A i \in WsIds : space'[i] \subseteq space[i] \cup apps
  <2>1. w \in apps
    BY <1>2 DEF IpcSetGeometry, IpcShow, IpcHide
  <2>2. \/ space' = space
        \/ space' = Unmap(space, appWs[w], w)
        \/ space' = [SpaceAfterMigrate(w) EXCEPT ![activeId] = @ \cup {w}]
    BY <1>2 DEF IpcSetGeometry, IpcShow, IpcHide
  <2>3. /\ SpaceAfterMigrate(w) \in [WsIds -> SUBSET Windows]
        /\ \A j \in WsIds : SpaceAfterMigrate(w)[j] \subseteq space[j]
    BY <1>1 DEF SpaceAfterMigrate
  <2>4. CASE space' = [SpaceAfterMigrate(w) EXCEPT ![activeId] = @ \cup {w}]
    <3>1. \A i \in WsIds : space'[i] \subseteq SpaceAfterMigrate(w)[i] \cup {w}
      BY <2>3, <2>4
    <3> QED
      BY <2>1, <2>3, <3>1
  <2> QED
    BY <1>1, <2>2, <2>4
<1>3. ASSUME NEW w \in Windows, NEW v \in Views, IpcPromoteMirror(w, v)
      PROVE  \A i \in WsIds : space'[i] \subseteq space[i] \cup apps
  <2>1. w \in apps
    BY <1>3 DEF IpcPromoteMirror
  <2>2. \/ space' = Map(Unmap(space, appWs[w], w), mirrors[w][v], w)
        \/ space' = [space EXCEPT ![activeId] = @ \cup {w}]
    BY <1>3 DEF IpcPromoteMirror
  <2>3. \A i \in WsIds :
          Map(Unmap(space, appWs[w], w), mirrors[w][v], w)[i] \subseteq space[i] \cup {w}
    BY <1>1 DEF Map
  <2>4. \A i \in WsIds : space'[i] \subseteq space[i] \cup {w}
    BY <2>2, <2>3
  <2> QED
    BY <2>1, <2>4
<1>4. ASSUME NEW w \in Windows, NEW v \in Views, IpcAddMirror(w, v) \/ IpcRemoveMirror(w, v)
      PROVE  space' = space
  BY <1>4 DEF IpcAddMirror, IpcRemoveMirror
<1>5. ASSUME NEW i \in WsIds, IpcSwitchWorkspace(i)
      PROVE  space' = space
  BY <1>5 DEF IpcSwitchWorkspace
<1>6. \A i \in WsIds : space'[i] \subseteq space[i] \cup apps
  BY <1>2, <1>3, <1>4, <1>5 DEF Ipc
<1>7. UNCHANGED <<status, settled, frame, pendingEmacs>>
  BY DEF Ipc, IpcSetGeometry, IpcHide, IpcShow, IpcAddMirror, IpcRemoveMirror,
         IpcPromoteMirror, IpcSwitchWorkspace
<1>8. UNCHANGED <<activeId, inactive>> \/ \E i \in WsIds : SwitchWorkspace(i)
  BY DEF Ipc, IpcSetGeometry, IpcHide, IpcShow, IpcAddMirror, IpcRemoveMirror,
         IpcPromoteMirror, IpcSwitchWorkspace
<1>9. Live' = Live
  BY <1>8 DEF SwitchWorkspace, Live
<1> QED
  BY <1>6, <1>7, <1>9

(* Workspaces that go, with their frames and Spaces.                        *)
LEMMA GoneSpaces ==
  ASSUME TypeInv, DetectDeadWorkspaces \/ \E i \in WsIds : ProtocolRemove(i)
  PROVE  /\ UNCHANGED <<status, settled, pendingEmacs>> /\ Live' \subseteq Live
         /\ \A i \in Live' : frame'[i] = frame[i]
         /\ \A i \in WsIds : space'[i] \subseteq space[i]
<1> USE DEF TypeInv, TypeOK
<1>1. ASSUME NEW gone \in SUBSET WsIds, Live' = Live \ gone, DropContents(gone)
      PROVE  /\ Live' \subseteq Live /\ \A i \in Live' : frame'[i] = frame[i]
             /\ \A i \in WsIds : space'[i] \subseteq space[i]
  <2>1. \A i \in Live' : frame'[i] = frame[i]
    BY <1>1, FewerFrames DEF DropContents
  <2> QED
    BY <1>1, <2>1 DEF DropContents
<1>2. CASE DetectDeadWorkspaces
  <2>1. Live' = Live \ DeadFrames /\ DeadFrames \in SUBSET WsIds
    BY <1>2 DEF DetectDeadWorkspaces, Live, DeadFrames, IdsInOrder
  <2>2. DropContents(DeadFrames) /\ UNCHANGED <<status, settled, pendingEmacs>>
    BY <1>2 DEF DetectDeadWorkspaces
  <2> QED
    BY <1>1, <2>1, <2>2
<1>3. ASSUME NEW i \in WsIds, ProtocolRemove(i)
      PROVE  /\ UNCHANGED <<status, settled, pendingEmacs>> /\ Live' \subseteq Live
             /\ \A j \in Live' : frame'[j] = frame[j]
             /\ \A j \in WsIds : space'[j] \subseteq space[j]
  <2> DEFINE gone == {i} \cap inactive
  <2>1. Live' = Live \ gone /\ gone \in SUBSET WsIds
    BY <1>3 DEF ProtocolRemove, Live, IdsInOrder
  <2>2. DropContents(gone) /\ UNCHANGED <<status, settled, pendingEmacs>>
    BY <1>3 DEF ProtocolRemove
  <2> HIDE DEF gone
  <2>3. /\ Live' \subseteq Live /\ \A j \in Live' : frame'[j] = frame[j]
        /\ \A j \in WsIds : space'[j] \subseteq space[j]
    BY <1>1, <2>1, <2>2
  <2> QED
    BY <2>2, <2>3
<1> QED
  BY <1>2, <1>3

LEMMA OtherStepsSpaces ==
  ASSUME TypeInv, Next, ~NewFrame, \A w \in Windows : ~NewToplevel(w)
  PROVE  /\ Live' \subseteq Live /\ settled' = settled
         /\ \A i \in Live' : frame'[i] = frame[i]
         /\ \A w \in Windows : status[w] # "unborn" => status'[w] # "unborn"
         /\ \A i \in WsIds : space'[i] \subseteq space[i] \cup apps
         /\ \/ pendingEmacs' = pendingEmacs
            \/ pendingEmacs # << >> /\ pendingEmacs' = Tail(pendingEmacs)
<1> DEFINE Goal ==
      /\ Live' \subseteq Live /\ settled' = settled
      /\ \A i \in Live' : frame'[i] = frame[i]
      /\ \A w \in Windows : status[w] # "unborn" => status'[w] # "unborn"
      /\ \A i \in WsIds : space'[i] \subseteq space[i] \cup apps
      /\ \/ pendingEmacs' = pendingEmacs
         \/ pendingEmacs # << >> /\ pendingEmacs' = Tail(pendingEmacs)
<1> USE DEF TypeInv, TypeOK
<1>1. CASE Ipc
  BY <1>1, IpcSpaces
<1>2. CASE DetectDeadWorkspaces \/ \E i \in WsIds : ProtocolRemove(i)
  BY <1>2, GoneSpaces
<1>3. ASSUME NEW i \in WsIds, ProtocolActivate(i) PROVE Goal
  BY <1>3 DEF ProtocolActivate, SwitchWorkspace, Live
<1>4. ASSUME NEW w \in Windows, Commit(w) PROVE Goal
  BY <1>4 DEF Commit, Live
<1>5. ASSUME NEW w \in Windows, ToplevelDies(w) PROVE Goal
  BY <1>5 DEF ToplevelDies, Live
<1>6. CASE Redraw
  BY <1>6 DEF Redraw, Live
<1>7. CASE StopLoop
  BY <1>7 DEF StopLoop, Live
<1>8. CASE CleanupDeadApps \/ CleanupDeadDialogs
  <2>1. UNCHANGED <<status, settled, frame, activeId, inactive, pendingEmacs>>
    BY <1>8 DEF CleanupDeadApps, CleanupDeadDialogs
  <2>2. CleanupDeadApps => \A i \in WsIds : space'[i] \subseteq space[i]
    BY DEF CleanupDeadApps
  <2>3. CleanupDeadDialogs => \A i \in WsIds : space'[i] \subseteq space[i]
    BY DEF CleanupDeadDialogs
  <2> QED
    BY <1>8, <2>1, <2>2, <2>3 DEF Live
<1>9. ASSUME NEW t \in SUBSET Waiting, Timeouts(t) PROVE Goal
  <2>1. t \subseteq apps
    BY DEF Waiting
  <2> QED
    BY <1>9, <2>1 DEF Timeouts, Live
<1>10. CASE BeginTick \/ ChildFrame \/ FramesDone \/ SkipOrFloat \/ RegisterApp \/ AppsDone
             \/ ActionsDone \/ RefreshWorkspaceState \/ IpcDone
  <2>1. /\ UNCHANGED <<status, settled, frame, space, activeId, inactive>>
        /\ \/ pendingEmacs' = pendingEmacs
           \/ pendingEmacs # << >> /\ pendingEmacs' = Tail(pendingEmacs)
    BY <1>10 DEF BeginTick, ChildFrame, FramesDone, SkipOrFloat, RegisterApp, AppsDone,
       ActionsDone, RefreshWorkspaceState, IpcDone
  <2> QED
    BY <2>1 DEF Live
<1>11. Dispatch => Goal
  BY <1>4, <1>5, <1>6, <1>7 DEF Dispatch
<1>12. Tick => Goal
  BY <1>2, <1>8, <1>9, <1>10 DEF Tick
<1> QED
  BY <1>1, <1>2, <1>3, <1>11, <1>12 DEF Next, Protocol

(* A new frame takes an id that no workspace has.                           *)
LEMMA NewFrameChanges ==
  ASSUME CastInv, NewFrame
  PROVE  /\ nextId \in WsIds \ Live /\ Live' = Live \cup {nextId} /\ activeId' = nextId
         /\ Head(pendingEmacs) \in EmacsWaits \cap Windows
         /\ \A i \in Live : frame'[i] = frame[i] /\ frame[i] # Head(pendingEmacs)
         /\ frame'[nextId] = Head(pendingEmacs)
<1> USE DEF CastInv, TypeInv, TypeOK
<1> DEFINE w == Head(pendingEmacs)
<1>1. /\ pendingEmacs # << >> /\ pendingEmacs' = Tail(pendingEmacs)
      /\ frame' = [frame EXCEPT ![nextId] = w]
      /\ activeId' = nextId /\ inactive' = inactive \cup {activeId}
  BY DEF NewFrame
<1>2. w \in EmacsWaits \cap Windows
  BY <1>1, EmacsHeadLeaves
<1>3. Live' = Live \cup {nextId} /\ nextId \notin Live
  BY <1>1 DEF Live, IdsInOrder, WsIds
<1>4. nextId \in WsIds
  BY <1>1, ConstantsAssumption DEF IdsInOrder, WsIds, ConstantsAssumption
<1>5. \A i \in Live : frame[i] # w
  <2>1. w # None
    BY <1>2, ConstantsAssumption DEF ConstantsAssumption
  <2> QED
    BY <1>2, <2>1 DEF Roles, Apart, Frames
<1> HIDE DEF w
<1>6. \A i \in Live : frame'[i] = frame[i]
  BY <1>1, <1>3
<1>7. frame'[nextId] = w
  BY <1>1, <1>4
<1> QED
  BY <1>1, <1>2, <1>3, <1>4, <1>5, <1>6, <1>7 DEF w

(* A new toplevel is no frame before it is claimed, and in no role.         *)
LEMMA NewToplevelChanges ==
  ASSUME CastInv, NEW w \in Windows, NewToplevel(w)
  PROVE  /\ UNCHANGED <<phase, activeId, inactive>> /\ Live' = Live /\ activeId \in Live
         /\ w \notin EmacsWaits /\ \A i \in Live : frame[i] # w
         /\ \A i \in Live \ {activeId} : frame'[i] = frame[i]
         /\ frame'[activeId] \in {frame[activeId], w}
         /\ space' = [space EXCEPT ![activeId] = @ \cup {w}]
         /\ status[w] = "unborn" /\ status' = [status EXCEPT ![w] = "alive"]
<1> USE DEF CastInv, TypeInv, TypeOK
<1>1. /\ space' = [space EXCEPT ![activeId] = @ \cup {w}] /\ Live' = Live
      /\ status[w] = "unborn" /\ status' = [status EXCEPT ![w] = "alive"]
      /\ frame' = frame \/ frame' = [frame EXCEPT ![activeId] = w]
      /\ UNCHANGED <<phase, activeId, inactive>>
  BY DEF NewToplevel, Live
<1>2. w # None
  BY ConstantsAssumption DEF ConstantsAssumption
<1>3. w \notin EmacsWaits /\ \A i \in Live : frame[i] # w
  BY <1>1, <1>2 DEF Roles, Frames
<1>4. Live \subseteq WsIds /\ activeId \in Live
  BY DEF Live
<1>5. /\ \A i \in Live \ {activeId} : frame'[i] = frame[i]
      /\ frame'[activeId] \in {frame[activeId], w}
  BY <1>1, <1>4
<1> QED
  BY <1>1, <1>3, <1>4, <1>5

LEMMA StepKeepsFramesDistinct == CastInv /\ FramesDistinct /\ Next => FramesDistinct'
<1> SUFFICES ASSUME CastInv, FramesDistinct, Next PROVE FramesDistinct'
  OBVIOUS
<1>1. CASE NewFrame
  BY <1>1, NewFrameChanges DEF FramesDistinct
<1>2. ASSUME NEW w \in Windows, NewToplevel(w) PROVE FramesDistinct'
  BY <1>2, NewToplevelChanges DEF FramesDistinct
<1>3. CASE ~NewFrame /\ \A w \in Windows : ~NewToplevel(w)
  <2>1. Live' \subseteq Live /\ \A i \in Live' : frame'[i] = frame[i]
    BY <1>3, OtherStepsSpaces DEF CastInv
  <2> QED
    BY <2>1 DEF FramesDistinct
<1> QED
  BY <1>1, <1>2, <1>3

(* Every workspace has an Emacs frame of its own.                           *)
LEMMA FramesStayDistinct == Spec => [](CastInv /\ FrameInOwnSpace /\ FramesDistinct)
<1>1. Init => FramesDistinct
  BY DEF Init, FramesDistinct, Live
<1>2. CastInv /\ FramesDistinct /\ [Next]_vars => FramesDistinct'
  <2>1. UNCHANGED vars /\ FramesDistinct => FramesDistinct'
    BY DEF FramesDistinct, Live
  <2> QED
    BY <2>1, StepKeepsFramesDistinct
<1> QED
  BY <1>1, <1>2, CastStays, PTL DEF Spec

(* A frame that waits is out of place when it is in the Space of a workspace *)
(* that is not active any more.                                             *)
Strays(w) == \E i \in Live \ {activeId} : w \in space[i]

(* What a step may do to that: only NewFrame, which makes the next workspace *)
(* active, puts those out of place that wait behind its frame, and a frame  *)
(* comes to be in two Spaces only when it was out of place before.          *)
SplitsBatchesOnly ==
  /\ \A w \in EmacsWaits' : Strays(w)' => \/ w \in EmacsWaits /\ Strays(w)
                                          \/ NewFrame /\ Len(pendingEmacs) >= 2
  /\ FrameInOneSpace => FrameInOneSpace' \/ (NewFrame /\ Strays(Head(pendingEmacs)))

(* Before a toplevel is created it is in no Space, and frames wait only     *)
(* until the tick has handled them.                                         *)
WaitsForFrames ==
  /\ \A i \in WsIds : \A w \in space[i] : status[w] # "unborn"
  /\ pendingEmacs # << >> => phase \in {"dispatch", "frames"}

LEMMA StepKeepsActive ==
  ASSUME CastInv, WaitsForFrames, Next, ~NewFrame
  PROVE  pendingEmacs' # << >> => phase' \in {"dispatch", "frames"} /\ activeId' = activeId
<1> USE DEF CastInv, TypeInv, TypeOK, WaitsForFrames
<1>1. ASSUME NEW w \in Windows, NewToplevel(w)
      PROVE  phase' \in {"dispatch", "frames"} /\ activeId' = activeId
  BY <1>1 DEF NewToplevel
<1>2. CASE \A w \in Windows : ~NewToplevel(w)
  <2>1. \/ pendingEmacs' = pendingEmacs
        \/ pendingEmacs # << >> /\ pendingEmacs' = Tail(pendingEmacs)
    BY <1>2, OtherStepsSpaces
  <2>2. ASSUME pendingEmacs # << >>, pendingEmacs' # << >>
        PROVE  phase' \in {"dispatch", "frames"} /\ activeId' = activeId
    <3>1. phase \in {"dispatch", "frames"}
      BY <2>2
    <3>2. Dispatch => phase' = phase /\ activeId' = activeId
      BY DEF Dispatch, NewToplevel, ToplevelDies, Commit, Redraw, StopLoop
    <3>3. ~Protocol /\ ~Ipc
      BY <3>1 DEF Protocol, ProtocolActivate, ProtocolRemove, Ipc, IpcSetGeometry, IpcHide,
         IpcShow, IpcAddMirror, IpcRemoveMirror, IpcPromoteMirror, IpcSwitchWorkspace
    <3>4. Tick => BeginTick \/ ChildFrame
      BY <2>2, <3>1 DEF Tick, FramesDone, SkipOrFloat, RegisterApp, AppsDone,
         ActionsDone, DetectDeadWorkspaces, RefreshWorkspaceState, CleanupDeadApps,
         CleanupDeadDialogs, IpcDone, Timeouts
    <3>5. BeginTick \/ ChildFrame => phase' = "frames" /\ activeId' = activeId
      BY DEF BeginTick, ChildFrame
    <3> QED
      BY <3>1, <3>2, <3>3, <3>4, <3>5 DEF Next
  <2> QED
    BY <2>1, <2>2
<1> QED
  BY <1>1, <1>2

LEMMA StepSplitsBatchesOnly ==
  ASSUME CastInv, WaitsForFrames, Next
  PROVE  WaitsForFrames' /\ SplitsBatchesOnly
<1>1. /\ Live \subseteq WsIds /\ activeId \in Live
      /\ space \in [WsIds -> SUBSET Windows] /\ status \in [Windows -> {"unborn", "alive", "dead"}]
      /\ pendingEmacs \in Seq(Windows)
  BY DEF CastInv, TypeInv, TypeOK, Live
<1>2. /\ \A i \in WsIds : \A w \in space[i] : status[w] # "unborn"
      /\ pendingEmacs # << >> => phase \in {"dispatch", "frames"}
  BY DEF WaitsForFrames
<1> DEFINE Born == \A i \in WsIds : \A w \in space'[i] : status'[w] # "unborn"
           Kept == \A w \in EmacsWaits' : Strays(w)' => w \in EmacsWaits /\ Strays(w)
           Alone == FrameInOneSpace => FrameInOneSpace'
<1>4. CASE NewFrame
  <2> DEFINE w == Head(pendingEmacs)
  <2>1. /\ nextId \in WsIds \ Live /\ Live' = Live \cup {nextId} /\ activeId' = nextId
        /\ w \in EmacsWaits \cap Windows
        /\ \A i \in Live : frame'[i] = frame[i] /\ frame[i] # w
        /\ frame'[nextId] = w
    BY <1>4, NewFrameChanges
  <2>2. /\ space' = [space EXCEPT ![activeId] = @ \ {w}, ![nextId] = {w}]
        /\ pendingEmacs # << >> /\ pendingEmacs' = Tail(pendingEmacs) /\ status' = status
        /\ phase' = phase
    BY <1>4 DEF NewFrame
  <2>3. status[w] # "unborn"
    BY <2>1 DEF CastInv, Roles
  <2>4. Strays(w) <=> \E i \in Live \ {activeId} : w \in space[i]
    BY DEF Strays
  <2> HIDE DEF w
  <2>5. /\ space'[nextId] = {w} /\ space'[activeId] = space[activeId] \ {w}
        /\ \A i \in WsIds \ {nextId, activeId} : space'[i] = space[i]
    BY <1>1, <2>1, <2>2
  <2>6. Born
    BY <1>1, <1>2, <2>2, <2>3, <2>5
  <2>7. \A v \in EmacsWaits' : Len(pendingEmacs) >= 2
    <3>1. Len(pendingEmacs) < 2 => pendingEmacs' = << >>
      BY <1>1, <2>2
    <3>2. pendingEmacs' = << >> => EmacsWaits' = {}
      BY DEF EmacsWaits
    <3> QED
      BY <1>1, <3>1, <3>2
  <2>8. ASSUME FrameInOneSpace, ~Strays(w) PROVE FrameInOneSpace'
    <3>1. \A i, j \in Live : i # j => frame[i] \notin space[j]
      BY <2>8 DEF FrameInOneSpace
    <3>2. \A i \in Live : w \notin space'[i]
      BY <1>1, <2>1, <2>4, <2>5, <2>8
    <3>3. \A i \in Live : space'[i] \subseteq space[i]
      BY <1>1, <2>1, <2>5
    <3>4. \A i, j \in Live' : i # j => frame'[i] \notin space'[j]
      BY <2>1, <2>5, <3>1, <3>2, <3>3
    <3> QED
      BY <3>4 DEF FrameInOneSpace
  <2>9. w = Head(pendingEmacs)
    BY DEF w
  <2>10. pendingEmacs' # << >> => phase' \in {"dispatch", "frames"}
    BY <1>2, <2>2
  <2> QED
    BY <1>4, <2>6, <2>7, <2>8, <2>9, <2>10 DEF WaitsForFrames, SplitsBatchesOnly
<1>5. ASSUME NEW w \in Windows, NewToplevel(w) PROVE Born /\ Kept /\ Alone
  <2>1. /\ UNCHANGED <<phase, activeId, inactive>> /\ Live' = Live
        /\ \A i \in Live : frame[i] # w
        /\ \A i \in Live \ {activeId} : frame'[i] = frame[i]
        /\ frame'[activeId] \in {frame[activeId], w}
        /\ space' = [space EXCEPT ![activeId] = @ \cup {w}]
        /\ status[w] = "unborn" /\ status' = [status EXCEPT ![w] = "alive"]
    BY <1>5, NewToplevelChanges
  <2>2. /\ space'[activeId] = space[activeId] \cup {w}
        /\ \A i \in WsIds \ {activeId} : space'[i] = space[i]
    BY <1>1, <2>1
  <2>3. \A i \in WsIds : w \notin space[i]
    BY <1>2, <2>1
  <2>4. Kept
    <3>1. \A v : Strays(v)' => Strays(v)
      BY <1>1, <2>1, <2>2 DEF Strays
    <3>2. ~Strays(w)
      BY <1>1, <2>3 DEF Strays
    <3>3. pendingEmacs' = pendingEmacs \/ pendingEmacs' = Append(pendingEmacs, w)
      BY <1>5 DEF NewToplevel
    <3>4. EmacsWaits' \subseteq EmacsWaits \cup {w}
      BY <1>1, <3>3, AppendedElements DEF EmacsWaits
    <3> QED
      BY <3>1, <3>2, <3>4
  <2>5. FrameInOneSpace => \A i, j \in Live' : i # j => frame'[i] \notin space'[j]
    BY <1>1, <2>1, <2>2, <2>3 DEF FrameInOneSpace
  <2>6. Born
    BY <1>1, <1>2, <2>1, <2>2
  <2> QED
    BY <2>4, <2>5, <2>6 DEF FrameInOneSpace
<1>6. ASSUME ~NewFrame, \A w \in Windows : ~NewToplevel(w) PROVE Born /\ Kept /\ Alone
  <2>1. /\ Live' \subseteq Live
        /\ \A i \in Live' : frame'[i] = frame[i]
        /\ \A w \in Windows : status[w] # "unborn" => status'[w] # "unborn"
        /\ \A i \in WsIds : space'[i] \subseteq space[i] \cup apps
        /\ \/ pendingEmacs' = pendingEmacs
           \/ pendingEmacs # << >> /\ pendingEmacs' = Tail(pendingEmacs)
    BY <1>6, OtherStepsSpaces DEF CastInv
  <2>2. /\ apps \subseteq Windows /\ \A w \in apps : status[w] # "unborn"
        /\ apps \cap EmacsWaits = {} /\ apps \cap Frames = {}
    BY DEF CastInv, TypeInv, TypeOK, Roles, Apart
  <2>3. \A i \in Live : frame[i] \notin apps
    BY <2>2, ConstantsAssumption DEF Frames, ConstantsAssumption
  <2>4. ASSUME NEW v \in EmacsWaits' PROVE v \in EmacsWaits /\ activeId' = activeId
    <3>1. pendingEmacs' # << >>
      BY <2>4 DEF EmacsWaits
    <3>2. activeId' = activeId
      BY <1>6, <3>1, StepKeepsActive
    <3>3. PICK k \in DOMAIN pendingEmacs' : v = pendingEmacs'[k]
      BY <2>4 DEF EmacsWaits
    <3>4. \E m \in DOMAIN pendingEmacs : v = pendingEmacs[m]
      <4>1. CASE pendingEmacs' = pendingEmacs
        BY <3>3, <4>1
      <4>2. CASE pendingEmacs # << >> /\ pendingEmacs' = Tail(pendingEmacs)
        <5>1. k + 1 \in DOMAIN pendingEmacs /\ pendingEmacs'[k] = pendingEmacs[k + 1]
          BY <1>1, <3>3, <4>2
        <5> QED
          BY <3>3, <5>1
      <4> QED
        BY <2>1, <4>1, <4>2
    <3> QED
      BY <3>2, <3>4 DEF EmacsWaits
  <2>5. Kept
    <3> SUFFICES ASSUME NEW v \in EmacsWaits', Strays(v)'
                 PROVE  v \in EmacsWaits /\ Strays(v)
      OBVIOUS
    <3>1. v \in EmacsWaits /\ activeId' = activeId
      BY <2>4
    <3>2. PICK i \in Live' \ {activeId'} : v \in space'[i]
      BY DEF Strays
    <3>3. i \in Live \ {activeId} /\ v \in space[i]
      BY <1>1, <2>1, <2>2, <3>1, <3>2
    <3> QED
      BY <3>1, <3>3 DEF Strays
  <2>6. FrameInOneSpace => \A i, j \in Live' : i # j => frame'[i] \notin space'[j]
    BY <1>1, <2>1, <2>3 DEF FrameInOneSpace
  <2>7. Born
    BY <1>1, <1>2, <2>1, <2>2
  <2> QED
    BY <2>5, <2>6, <2>7 DEF FrameInOneSpace
<1>7. ~NewFrame => (pendingEmacs' # << >> => phase' \in {"dispatch", "frames"})
  BY StepKeepsActive
<1> QED
  BY <1>4, <1>5, <1>6, <1>7 DEF WaitsForFrames, SplitsBatchesOnly

(* workspace.rs:1 "each Emacs frame = one workspace", and where the code    *)
(* departs from it: process_pending_toplevels leaves a frame in the Space   *)
(* of another workspace only when it waited behind another frame in the     *)
(* same tick.  As long as no two frames wait at once, each is in one Space. *)
THEOREM FramesInOneSpace ==
  /\ Spec => [][SplitsBatchesOnly]_vars
  /\ Spec => ([](Len(pendingEmacs) <= 1) => []FrameInOneSpace)
<1> DEFINE NoneStrays == \A w \in EmacsWaits : ~Strays(w)
<1>1. Init => WaitsForFrames /\ NoneStrays /\ FrameInOneSpace
  BY DEF Init, WaitsForFrames, Strays, FrameInOneSpace, EmacsWaits, Live
<1>2. CastInv /\ WaitsForFrames /\ [Next]_vars => WaitsForFrames' /\ [SplitsBatchesOnly]_vars
  <2>1. UNCHANGED vars /\ WaitsForFrames => WaitsForFrames'
    BY DEF WaitsForFrames
  <2> QED
    BY <2>1, StepSplitsBatchesOnly
<1>3. CastInv /\ NoneStrays /\ FrameInOneSpace /\ Len(pendingEmacs) <= 1 /\ [SplitsBatchesOnly]_vars
        => NoneStrays' /\ FrameInOneSpace'
  <2> SUFFICES ASSUME CastInv, NoneStrays, FrameInOneSpace, Len(pendingEmacs) <= 1,
                      [SplitsBatchesOnly]_vars
               PROVE  NoneStrays' /\ FrameInOneSpace'
    OBVIOUS
  <2>1. CASE UNCHANGED vars
    BY <2>1 DEF EmacsWaits, Strays, FrameInOneSpace, Live
  <2>2. CASE SplitsBatchesOnly
    <3>1. Len(pendingEmacs) \in Nat /\ ~ (Len(pendingEmacs) >= 2)
      BY DEF CastInv, TypeInv, TypeOK
    <3>2. NoneStrays'
      BY <2>2, <3>1 DEF SplitsBatchesOnly
    <3>3. NewFrame => Head(pendingEmacs) \in EmacsWaits
      BY DEF NewFrame, EmacsWaits, CastInv, TypeInv, TypeOK
    <3> QED
      BY <2>2, <3>2, <3>3 DEF SplitsBatchesOnly
  <2> QED
    BY <2>1, <2>2
<1>4. Spec => [](CastInv /\ WaitsForFrames)
  BY <1>1, <1>2, CastStays, PTL DEF Spec
<1>5. Spec => [][SplitsBatchesOnly]_vars
  BY <1>2, <1>4, PTL DEF Spec
<1> HIDE DEF NoneStrays
<1>6. Spec => ([](Len(pendingEmacs) <= 1) => []FrameInOneSpace)
  BY <1>1, <1>3, <1>4, <1>5, PTL DEF Spec
<1> QED
  BY <1>5, <1>6

-----------------------------------------------------------------------------
(* Focus *)

USE DEF Reset, AutoFocus

(* Every step of Focus is a step of Workspaces or leaves it alone, so what   *)
(* is proved of Spec holds of FSpec.                                        *)
LEMMA FocusStepImplements == [FNext]_allVars => [Next]_vars
<1> SUFFICES ASSUME FNext PROVE [Next]_vars
  BY DEF allVars
<1>1. CASE FHandlers
  BY <1>1 DEF FHandlers, FNewToplevel, FRegisterApp, FSkipOrFloat, FCleanupDeadApps,
     FCleanupDeadDialogs, FOthers, Next, Dispatch, Tick
<1>2. CASE FInput
  BY <1>2 DEF FInput, KeyPrefix, HostLeave, HostEnter, Click, NewLayerSurface,
     LayerCommit, LayerDestroyed
<1>3. CASE FIpc
  BY <1>3 DEF FIpc, IpcPrefixDone, IpcPrefixClear, IpcSetFocus
<1> QED
  BY <1>1, <1>2, <1>3 DEF FNext

(* The focus handling changes nothing of what Workspaces describes: every   *)
(* behaviour of the composition is a behaviour of Workspaces.               *)
THEOREM FocusImplementsWorkspaces == FSpec => Spec
<1>1. FocusInit => Init
  BY DEF FocusInit
<1> QED
  BY <1>1, FocusStepImplements, PTL DEF FSpec, Spec

LEMMA EmacsTargetType ==
  ASSUME TypeInv
  PROVE  EmacsTarget \in Windows \cup {None}
BY DEF TypeInv, TypeOK, EmacsTarget

(* Entering, leaving and forgetting overrides keeps the slots well formed.  *)
LEMMA SlotsWellFormed ==
  ASSUME FocusTypeInv, NEW o \in FocusOverride,
         Enter(o) \/ Exit(o) \/ ForgetOldWorkspace
  PROVE  /\ active' \in SUBSET FocusOverride
         /\ saved' \in [FocusOverride -> Targets \cup {None}]
         /\ \A p \in FocusOverride \ active' : saved'[p] = None
<1>1. CASE Enter(o)
  BY <1>1 DEF FocusTypeInv, FocusTypeOK, Enter
<1>2. CASE Exit(o)
  BY <1>2 DEF FocusTypeInv, FocusTypeOK, Exit
<1>3. CASE ForgetOldWorkspace
  BY <1>3 DEF FocusTypeInv, FocusTypeOK, ForgetOldWorkspace
<1> QED
  BY <1>1, <1>2, <1>3

FocusIInv == FocusTypeInv /\ ImeSuspendedOnlyInChord

LEMMA FocusHandlersIInv ==
  TypeInv /\ TypeInv' /\ FocusIInv /\ FHandlers => FocusIInv'
<1> SUFFICES ASSUME TypeInv, TypeInv', FocusIInv, FHandlers PROVE FocusIInv'
  OBVIOUS
<1> USE DEF FocusIInv, ImeSuspendedOnlyInChord
<1>1. EmacsTarget' \in Targets \cup {None}
  BY DEF TypeInv, TypeOK, EmacsTarget, Targets
<1>2. ASSUME focus' \in Targets \cup {None},
             UNCHANGED <<active, saved, imePrefix, hostFocused, layerStatus>>
      PROVE  FocusIInv'
  BY <1>2 DEF FocusTypeInv, FocusTypeOK
<1>3. focus \in Targets \cup {None}
  BY DEF FocusTypeInv, FocusTypeOK
<1>4. ASSUME NEW w \in Windows, FNewToplevel(w) PROVE FocusIInv'
  BY <1>2, <1>3, <1>4 DEF FNewToplevel, Targets
<1>5. CASE FRegisterApp
  <2>1. Head(pendingApps) \in Windows
    BY <1>5 DEF FRegisterApp, RegisterApp, TypeInv, TypeOK
  <2> QED
    BY <1>2, <1>3, <1>5, <2>1 DEF FRegisterApp, Targets
<1>6. CASE FSkipOrFloat
  <2>1. Head(pendingApps) \in Windows
    BY <1>6 DEF FSkipOrFloat, SkipOrFloat, TypeInv, TypeOK
  <2> QED
    BY <1>2, <1>3, <1>6, <2>1 DEF FSkipOrFloat, Targets
<1>7. CASE FCleanupDeadApps
  BY <1>1, <1>2, <1>3, <1>7 DEF FCleanupDeadApps
<1>8. CASE FCleanupDeadDialogs
  BY <1>1, <1>2, <1>3, <1>8 DEF FCleanupDeadDialogs
<1>9. CASE FOthers
  <2>1. CASE activeId' # activeId
    <3>1. /\ ForgetOldWorkspace
          /\ imePrefix' = FALSE
          /\ focus' = EmacsTarget'
          /\ UNCHANGED <<hostFocused, layerStatus>>
      BY <1>9, <2>1 DEF FOthers, FollowWorkspace, ForgetOldWorkspace
    <3>2. /\ active' \in SUBSET FocusOverride
          /\ saved' \in [FocusOverride -> Targets \cup {None}]
          /\ \A p \in FocusOverride \ active' : saved'[p] = None
      BY <3>1, SlotsWellFormed DEF FocusOverride
    <3> QED
      BY <1>1, <3>1, <3>2 DEF FocusTypeInv, FocusTypeOK
  <2>2. CASE activeId' = activeId
    BY <1>2, <1>3, <1>9, <2>2 DEF FOthers, FollowWorkspace
  <2> QED
    BY <2>1, <2>2
<1> QED
  BY <1>4, <1>5, <1>6, <1>7, <1>8, <1>9 DEF FHandlers

LEMMA FocusInputIInv == TypeInv /\ FocusIInv /\ FInput => FocusIInv'
<1> SUFFICES ASSUME TypeInv, FocusIInv, FInput PROVE FocusIInv'
  OBVIOUS
<1> USE DEF FocusIInv, ImeSuspendedOnlyInChord, FocusTypeInv, FocusTypeOK
<1>1. EmacsTarget \in Targets \cup {None}
  BY EmacsTargetType DEF Targets
<1>2. {"Prefix", "Layer", "Host"} \subseteq FocusOverride
  BY DEF FocusOverride
<1>3. CASE KeyPrefix
  <2>1. CASE "Prefix" \in active
    BY <1>1, <1>3, <2>1 DEF KeyPrefix
  <2>2. CASE "Prefix" \notin active
    <3>1. Enter("Prefix")
      BY <1>3, <2>2 DEF KeyPrefix
    <3>2. /\ active' \in SUBSET FocusOverride
          /\ saved' \in [FocusOverride -> Targets \cup {None}]
          /\ \A p \in FocusOverride \ active' : saved'[p] = None
          /\ "Prefix" \in active'
      BY <1>2, <3>1 DEF Enter
    <3> QED
      BY <1>1, <1>3, <3>2 DEF KeyPrefix
  <2> QED
    BY <2>1, <2>2
<1>4. CASE HostLeave
  <2>1. /\ active' \in SUBSET FocusOverride
        /\ saved' \in [FocusOverride -> Targets \cup {None}]
        /\ \A p \in FocusOverride \ active' : saved'[p] = None
        /\ active \subseteq active'
    BY <1>2, <1>4 DEF HostLeave, Enter
  <2> QED
    BY <1>4, <2>1 DEF HostLeave
<1>5. CASE HostEnter
  <2>1. /\ active' \in SUBSET FocusOverride
        /\ saved' \in [FocusOverride -> Targets \cup {None}]
        /\ \A p \in FocusOverride \ active' : saved'[p] = None
        /\ active \ {"Host"} \subseteq active'
    BY <1>2, <1>5 DEF HostEnter, Exit
  <2>2. focus' \in Targets \cup {None}
    BY <1>2, <1>5 DEF HostEnter
  <2> QED
    BY <1>5, <2>1, <2>2 DEF HostEnter
<1>6. ASSUME NEW t \in Targets \cup {None}, Click(t) PROVE FocusIInv'
  <2>1. /\ active' \in SUBSET FocusOverride
        /\ saved' \in [FocusOverride -> Targets \cup {None}]
        /\ \A p \in FocusOverride \ active' : saved'[p] = None
    BY <1>2, <1>6 DEF Click, CancelChord, Exit
  <2> QED
    BY <1>6, <2>1 DEF Click, CancelChord
<1>7. ASSUME NEW l \in Layers, NewLayerSurface(l) PROVE FocusIInv'
  BY <1>7 DEF NewLayerSurface
<1>8. ASSUME NEW l \in Layers, LayerCommit(l) PROVE FocusIInv'
  <2>1. /\ active' \in SUBSET FocusOverride
        /\ saved' \in [FocusOverride -> Targets \cup {None}]
        /\ \A p \in FocusOverride \ active' : saved'[p] = None
        /\ active \subseteq active'
    BY <1>2, <1>8 DEF LayerCommit, Enter
  <2> QED
    BY <1>8, <2>1 DEF LayerCommit, Targets
<1>9. ASSUME NEW l \in Layers, LayerDestroyed(l) PROVE FocusIInv'
  <2>1. CASE focus = l
    <3>1. /\ active' \in SUBSET FocusOverride
          /\ saved' \in [FocusOverride -> Targets \cup {None}]
          /\ \A p \in FocusOverride \ active' : saved'[p] = None
          /\ active \ {"Layer"} \subseteq active'
      BY <1>2, <1>9, <2>1 DEF LayerDestroyed, Exit
    <3>2. focus' \in Targets \cup {None}
      BY <1>1, <1>2, <1>9, <2>1 DEF LayerDestroyed
    <3> QED
      BY <1>9, <3>1, <3>2 DEF LayerDestroyed
  <2>2. CASE focus # l
    BY <1>9, <2>2 DEF LayerDestroyed
  <2> QED
    BY <2>1, <2>2
<1> QED
  BY <1>3, <1>4, <1>5, <1>6, <1>7, <1>8, <1>9 DEF FInput

LEMMA FocusIpcIInv == TypeInv /\ FocusIInv /\ FIpc => FocusIInv'
<1> SUFFICES ASSUME TypeInv, FocusIInv, FIpc PROVE FocusIInv'
  OBVIOUS
<1> USE DEF FocusIInv, ImeSuspendedOnlyInChord, FocusTypeInv, FocusTypeOK
<1>1. EmacsTarget \in Targets \cup {None}
  BY EmacsTargetType DEF Targets
<1>2. "Prefix" \in FocusOverride
  BY DEF FocusOverride
<1>3. ASSUME Exit("Prefix")
      PROVE  /\ active' \in SUBSET FocusOverride
             /\ saved' \in [FocusOverride -> Targets \cup {None}]
             /\ \A p \in FocusOverride \ active' : saved'[p] = None
  BY <1>2, <1>3 DEF Exit
<1>4. CASE IpcPrefixDone
  BY <1>2, <1>3, <1>4 DEF IpcPrefixDone
<1>5. CASE IpcPrefixClear
  BY <1>5 DEF IpcPrefixClear
<1>6. ASSUME NEW w \in Windows \cup {None}, IpcSetFocus(w) PROVE FocusIInv'
  <2>1. focus' \in Targets \cup {None}
    BY <1>1, <1>6 DEF IpcSetFocus, Targets, TypeInv, TypeOK
  <2> QED
    BY <1>3, <1>6, <2>1 DEF IpcSetFocus, CancelChord
<1> QED
  BY <1>4, <1>5, <1>6 DEF FIpc

(* The focus slots stay well formed, and the host's input method is never   *)
(* left suspended once the chord is over.                                   *)
THEOREM ImeComesBack == FSpec => []ImeSuspendedOnlyInChord /\ []FocusTypeInv
<1>1. FocusInit => FocusIInv
  BY DEF FocusInit, FocusIInv, FocusTypeInv, FocusTypeOK, ImeSuspendedOnlyInChord, Targets
<1>2. TypeInv /\ TypeInv' /\ FocusIInv /\ [FNext]_allVars => FocusIInv'
  <2>1. TypeInv /\ FocusIInv /\ UNCHANGED allVars => FocusIInv'
    BY DEF FocusIInv, FocusTypeInv, FocusTypeOK, ImeSuspendedOnlyInChord, allVars, focusVars
  <2> QED
    BY <2>1, FocusHandlersIInv, FocusInputIInv, FocusIpcIInv DEF FNext
<1>3. FSpec => []TypeInv
  BY FocusImplementsWorkspaces, TypeCorrect, PTL
<1>4. FocusIInv => ImeSuspendedOnlyInChord /\ FocusTypeInv
  BY DEF FocusIInv
<1> QED
  BY <1>1, <1>2, <1>3, <1>4, PTL DEF FSpec

-----------------------------------------------------------------------------
(* Chords, and frames that are not shown.                                   *)

USE DEF vars, appVars, wsVars, queueVars

FrameInv == CastInv /\ FrameInOwnSpace /\ FramesDistinct

LEMMA FrameInvInFocus == FSpec => []FrameInv
BY FocusImplementsWorkspaces, FramesStayDistinct, PTL DEF FrameInv

(* Nothing comes back to life, and only a client brings something to life.  *)
LEMMA NobodyRises ==
  ASSUME Next, \A w \in Windows : ~NewToplevel(w)
  PROVE  \A w \in Windows : (Alive(w)' => Alive(w)) /\ (status[w] = "unborn" => status'[w] = "unborn")
<1>1. ASSUME NEW v \in Windows, ToplevelDies(v)
      PROVE  \A w \in Windows : (Alive(w)' => Alive(w)) /\ (status[w] = "unborn" => status'[w] = "unborn")
  BY <1>1 DEF ToplevelDies, Alive
<1>2. CASE \A v \in Windows : ~ToplevelDies(v)
  <2>1. Dispatch => status' = status
    BY <1>2 DEF Dispatch, Commit, Redraw, StopLoop
  <2>2. Tick => status' = status
    BY DEF Tick, BeginTick, ChildFrame, NewFrame, FramesDone, SkipOrFloat, RegisterApp,
       AppsDone, ActionsDone, DetectDeadWorkspaces, RefreshWorkspaceState, CleanupDeadApps,
       CleanupDeadDialogs, IpcDone, Timeouts
  <2>3. Protocol => status' = status
    BY DEF Protocol, ProtocolActivate, ProtocolRemove
  <2>4. Ipc => status' = status
    BY DEF Ipc, IpcSetGeometry, IpcHide, IpcShow, IpcAddMirror, IpcRemoveMirror,
       IpcPromoteMirror, IpcSwitchWorkspace
  <2> QED
    BY <2>1, <2>2, <2>3, <2>4 DEF Next, Alive
<1> QED
  BY <1>1, <1>2

(* The frame that is active is the only one that can be the target.         *)
LEMMA TargetIsFrame ==
  ASSUME CastInv
  PROVE  /\ EmacsTarget \in {None, frame[activeId]} /\ EmacsTarget \in Windows \cup {None}
         /\ activeId \in Live /\ activeId \in WsIds /\ frame[activeId] \in Windows \cup {None}
         /\ Layers \cap Windows = {} /\ None \notin Windows \cup Layers
         /\ FrameInOwnSpace /\ Alive(frame[activeId]) => EmacsTarget = frame[activeId]
<1>1. activeId \in Live /\ activeId \in WsIds /\ frame[activeId] \in Windows \cup {None}
  BY DEF CastInv, TypeInv, TypeOK, Live
<1> QED
  BY <1>1, ConstantsAssumption, FocusConstantsAssumption
     DEF EmacsTarget, FrameInOwnSpace, ConstantsAssumption, FocusConstantsAssumption

(* The host is away while its slot is in use.                               *)
HostAway == "Host" \in active => ~hostFocused

(* Before the first frame there is no toplevel to have the keyboard.        *)
BeforeEmacs ==
  ~settled => /\ \A w \in Windows : status[w] = "unborn"
              /\ focus \notin Windows
              /\ \A o \in FocusOverride : saved[o] \notin Windows

(* What has the keyboard during a chord, what gets it when the host comes   *)
(* back, and what gets it when the layer surface that has it goes.          *)
ChordSlots ==
  "Prefix" \in active /\ Alive(frame[activeId]) =>
    /\ focus \in Windows => focus = frame[activeId]
    /\ saved["Host"] \in Windows => saved["Host"] = frame[activeId]
    /\ focus \in Layers \/ saved["Host"] \in Layers
         => saved["Layer"] \notin Windows \/ saved["Layer"] = frame[activeId]

ChordInv == HostAway /\ BeforeEmacs /\ ChordSlots

(* A handler that keeps the slots and the active frame keeps the chord, if  *)
(* the keyboard stays where it is or goes to Emacs.                         *)
LEMMA HandlerKeepsChord ==
  ASSUME FrameInv, FrameInv', ChordInv, Next, \A w \in Windows : ~NewToplevel(w),
         focus' \in {focus, EmacsTarget'} \/ (settled /\ "Prefix" \notin active),
         UNCHANGED <<active, saved, hostFocused>>, activeId' = activeId
  PROVE  ChordInv'
<1>1. ~NewFrame
  BY NewFrameChanges, TargetIsFrame DEF FrameInv
<1>2. settled' = settled /\ frame'[activeId] = frame[activeId]
  <2>1. activeId \in Live'
    BY DEF Live
  <2> QED
    BY <1>1, <2>1, OtherStepsSpaces DEF FrameInv, CastInv
<1>0. \A w \in Windows : (Alive(w)' => Alive(w)) /\ (status[w] = "unborn" => status'[w] = "unborn")
  BY NobodyRises
<1>3. /\ EmacsTarget' \in {None, frame[activeId]} /\ frame[activeId] \in Windows \cup {None}
      /\ Layers \cap Windows = {} /\ None \notin Windows \cup Layers
  <2>1. EmacsTarget' \in {None, frame'[activeId']}
    BY DEF EmacsTarget
  <2> QED
    BY <1>2, <2>1, TargetIsFrame DEF FrameInv
<1>4. HostAway'
  BY DEF ChordInv, HostAway
<1>5. BeforeEmacs'
  <2> SUFFICES ASSUME ~settled' PROVE BeforeEmacs'
    BY DEF BeforeEmacs
  <2>1. frame[activeId] = None
    BY <1>2, TargetIsFrame DEF FrameInv, CastInv, Started
  <2> QED
    BY <1>0, <1>2, <1>3, <2>1 DEF ChordInv, BeforeEmacs
<1>6. ChordSlots'
  <2>1. Alive(frame[activeId])' => Alive(frame[activeId])
    BY <1>0, <1>2 DEF Alive
  <2> QED
    BY <1>2, <1>3, <2>1 DEF ChordInv, ChordSlots
<1> QED
  BY <1>4, <1>5, <1>6 DEF ChordInv

(* The first toplevel is Emacs; any later one leaves the keyboard alone.    *)
LEMMA NewToplevelKeepsChord ==
  ASSUME FrameInv, ChordInv, NEW w \in Windows, FNewToplevel(w)
  PROVE  ChordInv'
<1>1. /\ NewToplevel(w) /\ focus' = IF ShouldClaimMain THEN w ELSE focus
      /\ UNCHANGED <<active, saved, hostFocused>>
  BY DEF FNewToplevel
<1>2. /\ activeId' = activeId /\ activeId \in Live /\ frame[activeId] # w
      /\ status' = [status EXCEPT ![w] = "alive"]
      /\ frame[activeId] \in Windows \cup {None} /\ activeId \in WsIds
      /\ frame \in [WsIds -> Windows \cup {None}]
      /\ status \in [Windows -> {"unborn", "alive", "dead"}]
  BY <1>1, NewToplevelChanges, TargetIsFrame DEF FrameInv, CastInv, TypeInv, TypeOK
<1>3. settled'
  <2>1. ~settled => ShouldClaimMain
    BY <1>2 DEF FrameInv, CastInv, Started, ShouldClaimMain
  <2> QED
    BY <1>1, <2>1 DEF NewToplevel
<1>4. ChordSlots'
  <2>1. CASE ShouldClaimMain
    <3>1. frame'[activeId'] = w /\ focus' = w
      BY <1>1, <1>2, <2>1 DEF NewToplevel
    <3>2. \A o \in FocusOverride : saved'[o] \notin Windows
      BY <1>1, <2>1 DEF ChordInv, BeforeEmacs, ShouldClaimMain
    <3> QED
      BY <3>1, <3>2 DEF ChordSlots, FocusOverride
  <2>2. CASE ~ShouldClaimMain
    <3>1. frame' = frame /\ focus' = focus
      BY <1>1, <2>2 DEF NewToplevel
    <3>2. Alive(frame[activeId])' => Alive(frame[activeId])
      BY <1>2, <3>1 DEF Alive
    <3> QED
      BY <1>1, <1>2, <3>1, <3>2 DEF ChordInv, ChordSlots
  <2> QED
    BY <2>1, <2>2
<1> QED
  BY <1>1, <1>3, <1>4 DEF ChordInv, HostAway, BeforeEmacs

LEMMA HandlersKeepChord ==
  ASSUME FrameInv, FrameInv', ChordInv, FHandlers
  PROVE  ChordInv'
<1>1. [Next]_vars
  BY FocusStepImplements DEF FNext
<1>2. ASSUME NEW w \in Windows, FNewToplevel(w) PROVE ChordInv'
  BY <1>2, NewToplevelKeepsChord
<1>3. CASE FRegisterApp \/ FSkipOrFloat
  <2>1. /\ phase = "apps" /\ pendingApps # << >>
        /\ UNCHANGED <<active, saved, hostFocused, activeId>>
        /\ focus' \in {focus, AutoFocus(Head(pendingApps))}
        /\ focus' # focus => Alive(Head(pendingApps))
    BY <1>3 DEF FRegisterApp, FSkipOrFloat, RegisterApp, SkipOrFloat
  <2>2. \A w \in Windows : ~NewToplevel(w)
    BY <2>1 DEF NewToplevel
  <2>3. focus' # focus => "Prefix" \notin active /\ settled
    BY <2>1 DEF Alive, ChordInv, BeforeEmacs
  <2>4. Next
    BY <1>3 DEF FRegisterApp, FSkipOrFloat, Next, Tick
  <2> QED
    BY <2>1, <2>2, <2>3, <2>4, HandlerKeepsChord
<1>4. CASE FCleanupDeadApps \/ FCleanupDeadDialogs
  <2>1. /\ phase \in {"deadapps", "dialogs"}
        /\ UNCHANGED <<active, saved, hostFocused, activeId>>
        /\ focus' \in {focus, EmacsTarget'}
    BY <1>4 DEF FCleanupDeadApps, FCleanupDeadDialogs, CleanupDeadApps, CleanupDeadDialogs
  <2>2. \A w \in Windows : ~NewToplevel(w)
    BY <2>1 DEF NewToplevel
  <2>3. Next
    BY <1>4 DEF FCleanupDeadApps, FCleanupDeadDialogs, Next, Tick
  <2> QED
    BY <2>1, <2>2, <2>3, HandlerKeepsChord
<1>5. CASE FOthers
  <2>1. FollowWorkspace
    BY <1>5 DEF FOthers
  <2>2. Next /\ settled' = settled
    <3>1. Next
      BY <1>5 DEF FOthers, Next, Dispatch, Tick
    <3> QED
      BY <1>5, <3>1
         DEF FOthers, ToplevelDies, Commit, Redraw, StopLoop, BeginTick, ChildFrame, NewFrame,
         FramesDone, AppsDone, Protocol, ProtocolActivate, ProtocolRemove, ActionsDone,
         DetectDeadWorkspaces, RefreshWorkspaceState, Ipc, IpcSetGeometry, IpcHide, IpcShow,
         IpcAddMirror, IpcRemoveMirror, IpcPromoteMirror, IpcSwitchWorkspace, IpcDone, Timeouts
  <2>3. CASE activeId' # activeId
    <3>1. /\ active' = active \ FocusOverride /\ saved' = [o \in FocusOverride |-> None]
          /\ focus' = EmacsTarget' /\ hostFocused' = hostFocused
      BY <2>1, <2>3 DEF FollowWorkspace, ForgetOldWorkspace
    <3>2. "Prefix" \notin active' /\ "Host" \notin active'
      BY <3>1 DEF FocusOverride
    <3>3. settled
      <4>1. CASE ~settled
        <5>1. NewFrame \/ (Live' \subseteq Live)
          <6>1. \A w \in Windows : ~NewToplevel(w)
            BY <2>3 DEF NewToplevel
          <6> QED
            BY <2>2, <6>1, OtherStepsSpaces DEF FrameInv, CastInv
        <5>2. ~NewFrame
          BY <4>1 DEF NewFrame, FrameInv, CastInv, Started
        <5>3. activeId \in Live /\ activeId' \in Live'
          BY DEF Live
        <5> QED
          BY <2>3, <4>1, <5>1, <5>2, <5>3 DEF FrameInv, CastInv, Started
      <4> QED
        BY <4>1
    <3> QED
      BY <2>2, <3>2, <3>3 DEF ChordInv, HostAway, BeforeEmacs, ChordSlots
  <2>4. CASE activeId' = activeId /\ \A w \in Windows : ~NewToplevel(w)
    <3>1. UNCHANGED <<focus, active, saved, hostFocused>>
      BY <2>1, <2>4 DEF FollowWorkspace
    <3> QED
      BY <2>2, <2>4, <3>1, HandlerKeepsChord
  <2>5. ASSUME NEW w \in Windows, NewToplevel(w) PROVE FALSE
    <3>1. /\ phase = "dispatch" /\ phase' = "dispatch" /\ status[w] = "unborn"
          /\ status'[w] = "alive" /\ status \in [Windows -> {"unborn", "alive", "dead"}]
      BY <2>5 DEF NewToplevel, FrameInv, CastInv, TypeInv, TypeOK
    <3>2. ~Protocol /\ ~Ipc
      BY <3>1 DEF Protocol, ProtocolActivate, ProtocolRemove, Ipc, IpcSetGeometry, IpcHide,
         IpcShow, IpcAddMirror, IpcRemoveMirror, IpcPromoteMirror, IpcSwitchWorkspace
    <3>3. (\E v \in Windows : ToplevelDies(v) \/ Commit(v)) \/ Redraw \/ StopLoop
      BY <1>5, <3>1, <3>2
         DEF FOthers, BeginTick, ChildFrame, NewFrame, FramesDone, AppsDone, ActionsDone,
         DetectDeadWorkspaces, RefreshWorkspaceState, IpcDone, Timeouts
    <3> QED
      BY <3>1, <3>3 DEF ToplevelDies, Commit, Redraw, StopLoop
  <2> QED
    BY <2>3, <2>4, <2>5
<1> QED
  BY <1>2, <1>3, <1>4, <1>5 DEF FHandlers

(* Input, layer surfaces and messages move the keyboard and the slots only. *)
LEMMA OutsideHandlers ==
  FInput \/ FIpc => UNCHANGED vars
BY DEF FInput, KeyPrefix, HostLeave, HostEnter, Click, NewLayerSurface, LayerCommit,
       LayerDestroyed, FIpc, IpcPrefixDone, IpcPrefixClear, IpcSetFocus

(* While Workspaces stands still, it is enough to look at the slots.        *)
LEMMA StillChord ==
  ASSUME FrameInv, ChordInv, UNCHANGED vars
  PROVE  /\ \A w : Alive(w)' = Alive(w)
         /\ frame'[activeId'] = frame[activeId] /\ settled' = settled
         /\ ~settled => EmacsTarget = None
         /\ ~settled => \A w \in Windows : ~Alive(w) /\ w \notin apps
<1>1. \A w : Alive(w)' = Alive(w)
  BY DEF Alive
<1>2. ~settled => EmacsTarget = None
  BY TargetIsFrame DEF FrameInv, CastInv, Started
<1>3. ~settled => \A w \in Windows : ~Alive(w) /\ w \notin apps
  BY DEF FrameInv, CastInv, Roles, ChordInv, BeforeEmacs, Alive
<1> QED
  BY <1>1, <1>2, <1>3

LEMMA InputKeepsChord ==
  ASSUME FrameInv, FocusTypeInv, ChordInv, FInput
  PROVE  ChordInv'
<1>1. UNCHANGED vars
  BY OutsideHandlers
<1>2. /\ \A w : Alive(w)' = Alive(w)
      /\ frame'[activeId'] = frame[activeId] /\ settled' = settled
      /\ ~settled => EmacsTarget = None
      /\ ~settled => \A w \in Windows : ~Alive(w) /\ w \notin apps
  BY <1>1, StillChord
<1>3. /\ EmacsTarget \in {None, frame[activeId]}
      /\ Layers \cap Windows = {} /\ None \notin Windows \cup Layers
      /\ Alive(frame[activeId]) => EmacsTarget = frame[activeId] /\ frame[activeId] \in Windows
  BY TargetIsFrame DEF FrameInv, Alive
<1>4. /\ saved \in [FocusOverride -> Targets \cup {None}]
      /\ \A o \in FocusOverride \ active : saved[o] = None
      /\ {"Prefix", "Layer", "Host"} \subseteq FocusOverride
  BY DEF FocusTypeInv, FocusTypeOK, FocusOverride
<1>5. ~settled => /\ \A w \in Windows : status'[w] = "unborn"
                  /\ focus \notin Windows
                  /\ \A o \in FocusOverride : saved[o] \notin Windows
  BY <1>1 DEF ChordInv, BeforeEmacs
<1> USE DEF HostAway, BeforeEmacs
<1>6. CASE KeyPrefix
  <2>1. /\ \/ "Prefix" \in active /\ UNCHANGED <<active, saved>>
           \/ "Prefix" \notin active /\ Enter("Prefix")
        /\ focus' = IF EmacsTarget = None THEN focus ELSE EmacsTarget
        /\ hostFocused /\ hostFocused' = hostFocused
    BY <1>6 DEF KeyPrefix
  <2>2. "Host" \notin active /\ "Host" \notin active' /\ saved'["Host"] = None
    BY <1>4, <2>1 DEF ChordInv, Enter
  <2>3. BeforeEmacs'
    BY <1>2, <1>3, <1>4, <1>5, <2>1 DEF Enter
  <2>4. ChordSlots'
    BY <1>2, <1>3, <2>1, <2>2 DEF ChordSlots
  <2> QED
    BY <2>1, <2>2, <2>3, <2>4 DEF ChordInv
<1>7. CASE HostLeave
  <2>1. /\ active' = active \cup {"Host"} /\ saved' = [saved EXCEPT !["Host"] = focus]
        /\ focus' = None /\ ~hostFocused'
    BY <1>7 DEF HostLeave, Enter
  <2>2. saved'["Host"] = focus /\ saved'["Layer"] = saved["Layer"]
    BY <1>4, <2>1
  <2>3. ChordSlots'
    BY <1>2, <1>3, <2>1, <2>2 DEF ChordInv, ChordSlots
  <2>4. BeforeEmacs'
    BY <1>2, <1>3, <1>4, <1>5, <2>1
  <2> QED
    BY <2>1, <2>3, <2>4 DEF ChordInv
<1>8. CASE HostEnter
  <2>1. /\ active' = active \ {"Host"} /\ saved' = [saved EXCEPT !["Host"] = None]
        /\ focus' \in {focus, saved["Host"]}
    BY <1>8 DEF HostEnter, Exit
  <2>2. saved'["Host"] = None /\ saved'["Layer"] = saved["Layer"]
    BY <1>4, <2>1
  <2>3. ChordSlots'
    BY <1>2, <1>3, <2>1, <2>2 DEF ChordInv, ChordSlots
  <2>4. BeforeEmacs'
    BY <1>2, <1>3, <1>4, <1>5, <2>1
  <2> QED
    BY <2>1, <2>3, <2>4 DEF ChordInv
<1>9. ASSUME NEW t \in Targets \cup {None}, Click(t) PROVE ChordInv'
  <2>1. /\ active' = active \ {"Prefix"} /\ saved' = [saved EXCEPT !["Prefix"] = None]
        /\ focus' = t /\ hostFocused' = hostFocused
        /\ t = EmacsTarget \/ AliveTarget(t)
    BY <1>9 DEF Click, CancelChord, Exit
  <2>2. BeforeEmacs'
    BY <1>2, <1>3, <1>4, <1>5, <2>1 DEF AliveTarget
  <2> QED
    BY <2>1, <2>2 DEF ChordInv, ChordSlots
<1>10. ASSUME NEW l \in Layers, LayerCommit(l) PROVE ChordInv'
  <2>1. /\ active' = active \cup {"Layer"} /\ saved' = [saved EXCEPT !["Layer"] = focus]
        /\ focus' = l /\ hostFocused' = hostFocused
    BY <1>10 DEF LayerCommit, Enter
  <2>2. saved'["Host"] = saved["Host"] /\ saved'["Layer"] = focus
    BY <1>4, <2>1
  <2>3. ChordSlots'
    BY <1>2, <1>3, <2>1, <2>2 DEF ChordInv, ChordSlots
  <2>4. BeforeEmacs'
    BY <1>2, <1>3, <1>4, <1>5, <2>1
  <2> QED
    BY <2>1, <2>3, <2>4 DEF ChordInv
<1>11. ASSUME NEW l \in Layers, LayerDestroyed(l), focus = l PROVE ChordInv'
  <2>1. /\ active' = active \ {"Layer"} /\ saved' = [saved EXCEPT !["Layer"] = None]
        /\ focus' \in {saved["Layer"], EmacsTarget} /\ hostFocused' = hostFocused
    BY <1>11 DEF LayerDestroyed, Exit
  <2>2. saved'["Host"] = saved["Host"] /\ saved'["Layer"] = None
    BY <1>4, <2>1
  <2>3. ChordSlots'
    BY <1>2, <1>3, <1>11, <2>1, <2>2 DEF ChordInv, ChordSlots
  <2>4. BeforeEmacs'
    BY <1>2, <1>3, <1>4, <1>5, <2>1
  <2> QED
    BY <2>1, <2>3, <2>4 DEF ChordInv
<1>12. ASSUME UNCHANGED <<focus, active, saved, hostFocused>> PROVE ChordInv'
  BY <1>2, <1>5, <1>12 DEF ChordInv, ChordSlots
<1>13. ASSUME NEW l \in Layers, LayerDestroyed(l), focus # l PROVE ChordInv'
  BY <1>12, <1>13 DEF LayerDestroyed
<1>14. ASSUME NEW l \in Layers, NewLayerSurface(l) PROVE ChordInv'
  BY <1>12, <1>14 DEF NewLayerSurface
<1> QED
  BY <1>6, <1>7, <1>8, <1>9, <1>10, <1>11, <1>13, <1>14 DEF FInput

(* Every message that moves the keyboard ends the chord first.              *)
LEMMA FocusIpcKeepsChord ==
  ASSUME FrameInv, FocusTypeInv, ChordInv, FIpc
  PROVE  ChordInv'
<1>1. UNCHANGED vars
  BY OutsideHandlers
<1>2. /\ \A w : Alive(w)' = Alive(w)
      /\ frame'[activeId'] = frame[activeId] /\ settled' = settled
      /\ ~settled => EmacsTarget = None
      /\ ~settled => \A w \in Windows : ~Alive(w) /\ w \notin apps
  BY <1>1, StillChord
<1>3. apps \subseteq Windows /\ None \notin Windows
  BY TargetIsFrame DEF FrameInv, CastInv, TypeInv, TypeOK
<1>4. saved \in [FocusOverride -> Targets \cup {None}] /\ "Prefix" \in FocusOverride
  BY DEF FocusTypeInv, FocusTypeOK, FocusOverride
<1>5. ~settled => /\ \A w \in Windows : status'[w] = "unborn"
                  /\ focus \notin Windows
                  /\ \A o \in FocusOverride : saved[o] \notin Windows
  BY <1>1 DEF ChordInv, BeforeEmacs
<1>6. ASSUME Exit("Prefix"), hostFocused' = hostFocused, ~settled => focus' \notin Windows
      PROVE  ChordInv'
  <2>1. active' = active \ {"Prefix"} /\ saved' = [saved EXCEPT !["Prefix"] = None]
    BY <1>6 DEF Exit
  <2>2. BeforeEmacs'
    BY <1>2, <1>3, <1>4, <1>5, <1>6, <2>1 DEF BeforeEmacs
  <2> QED
    BY <1>6, <2>1, <2>2 DEF ChordInv, HostAway, ChordSlots
<1>7. ASSUME UNCHANGED <<focus, active, saved, hostFocused>> PROVE ChordInv'
  BY <1>2, <1>5, <1>7 DEF ChordInv, ChordSlots, HostAway, BeforeEmacs
<1>8. CASE IpcPrefixDone
  <2>1. CASE "Prefix" \in active
    BY <1>4, <1>5, <1>6, <1>8, <2>1 DEF IpcPrefixDone
  <2>2. CASE "Prefix" \notin active
    BY <1>7, <1>8, <2>2 DEF IpcPrefixDone
  <2> QED
    BY <2>1, <2>2
<1>9. CASE IpcPrefixClear
  BY <1>7, <1>9 DEF IpcPrefixClear
<1>10. ASSUME NEW w \in Windows \cup {None}, IpcSetFocus(w) PROVE ChordInv'
  <2>1. /\ Exit("Prefix") /\ hostFocused' = hostFocused
        /\ focus' = IF w \in apps THEN w ELSE EmacsTarget
    BY <1>10 DEF IpcSetFocus, CancelChord
  <2>2. ~settled => focus' \notin Windows
    BY <1>2, <1>3, <2>1
  <2> QED
    BY <1>6, <2>1, <2>2
<1> QED
  BY <1>8, <1>9, <1>10 DEF FIpc

(* While a chord is open no toplevel but Emacs has the keyboard.            *)
THEOREM ChordKeepsKeyboard == FSpec => []ChordKeysGoToEmacs
<1>1. FocusInit => ChordInv
  <2> SUFFICES ASSUME FocusInit PROVE ChordInv
    OBVIOUS
  <2>1. None \notin Windows
    BY ConstantsAssumption DEF ConstantsAssumption
  <2> QED
    BY <2>1 DEF FocusInit, Init, ChordInv, HostAway, BeforeEmacs, ChordSlots
<1>2. FrameInv /\ FrameInv' /\ FocusTypeInv /\ ChordInv /\ [FNext]_allVars => ChordInv'
  <2>1. ChordInv /\ UNCHANGED allVars => ChordInv'
    BY DEF ChordInv, HostAway, BeforeEmacs, ChordSlots, Alive, allVars, focusVars
  <2> QED
    BY <2>1, HandlersKeepChord, InputKeepsChord, FocusIpcKeepsChord DEF FNext
<1>3. ChordInv => ChordKeysGoToEmacs
  BY DEF ChordInv, ChordSlots, ChordKeysGoToEmacs
<1> QED
  BY <1>1, <1>2, <1>3, FrameInvInFocus, ImeComesBack, PTL DEF FSpec

(* The frames that are not shown. *)
Foreign(t) == \E i \in inactive : frame[i] # None /\ t = frame[i]

LEMMA NoForeignFrameIs ==
  NoForeignFrame <=> ~Foreign(focus) /\ \A o \in active : ~Foreign(saved[o])
BY DEF NoForeignFrame, Foreign

(* Of what a handler can give the keyboard to, only a window of the active  *)
(* Space may be one of them, when a frame does not keep to its own.         *)
LEMMA NotForeign ==
  ASSUME FrameInv, NEW t
  PROVE  /\ t \in {None, EmacsTarget} \cup Layers \cup Waits \cup apps => ~Foreign(t)
         /\ FrameInOneSpace /\ t \in space[activeId] => ~Foreign(t)
<1>1. \A i \in inactive : i \in Live /\ i # activeId
  BY DEF FrameInv, CastInv, TypeInv, IdsInOrder, Live
<1>2. \A i \in inactive : frame[i] # None => frame[i] \in Frames \cap Windows
  BY <1>1 DEF FrameInv, CastInv, TypeInv, TypeOK, Frames
<1>3. /\ EmacsTarget \in {None, frame[activeId]} /\ activeId \in Live
      /\ Layers \cap Windows = {}
  BY TargetIsFrame DEF FrameInv
<1>4. \A i \in inactive : frame[i] # None => frame[i] # frame[activeId]
  BY <1>1, <1>3 DEF FrameInv, FramesDistinct
<1>5. Frames \cap (Waits \cup apps) = {}
  BY DEF FrameInv, CastInv, Roles, Apart
<1>6. FrameInOneSpace => \A i \in inactive : frame[i] \notin space[activeId]
  BY <1>1, <1>3 DEF FrameInOneSpace
<1> QED
  BY <1>2, <1>3, <1>4, <1>5, <1>6 DEF Foreign

(* A handler that does not switch the workspace takes no frame out of sight. *)
LEMMA NoMoreInactive ==
  ASSUME FrameInv, FrameInv', Next, activeId' = activeId
  PROVE  inactive' \subseteq inactive /\ \A i \in inactive' : frame'[i] = frame[i]
<1>1. \A i \in inactive' : i \in Live' /\ i # activeId
  BY DEF FrameInv, CastInv, TypeInv, IdsInOrder, Live
<1>2. ASSUME NEW w \in Windows, NewToplevel(w)
      PROVE  inactive' \subseteq inactive /\ \A i \in inactive' : frame'[i] = frame[i]
  <2>1. inactive' = inactive /\ Live' = Live /\ \A i \in Live \ {activeId} : frame'[i] = frame[i]
    BY <1>2, NewToplevelChanges DEF FrameInv
  <2> QED
    BY <1>1, <2>1
<1>3. ~NewFrame
  BY NewFrameChanges DEF FrameInv, Live
<1>4. CASE \A w \in Windows : ~NewToplevel(w)
  <2>1. Live' \subseteq Live /\ \A i \in Live' : frame'[i] = frame[i]
    BY <1>3, <1>4, OtherStepsSpaces DEF FrameInv, CastInv
  <2> QED
    BY <1>1, <2>1 DEF Live
<1> QED
  BY <1>2, <1>4

LEMMA HandlersKeepForeignOut ==
  ASSUME FrameInv, FrameInv', FocusTypeInv, NoForeignFrame, FHandlers
  PROVE  NoForeignFrame'
<1>1. ~Foreign(focus) /\ \A o \in active : ~Foreign(saved[o])
  BY NoForeignFrameIs
<1>2. Next \/ UNCHANGED vars
  BY FocusStepImplements DEF FNext
<1>3. ASSUME activeId' = activeId, UNCHANGED <<active, saved>>,
             focus' = focus \/ ~Foreign(focus') \/ focus' \in {None, EmacsTarget'}
      PROVE  NoForeignFrame'
  <2>1. inactive' \subseteq inactive /\ \A i \in inactive' : frame'[i] = frame[i]
    BY <1>2, <1>3, NoMoreInactive
  <2>2. \A i \in inactive' : frame'[i] # None => focus' # frame'[i]
    <3>1. \A i \in inactive' : i \in Live' /\ i # activeId'
      BY DEF FrameInv, CastInv, TypeInv, IdsInOrder, Live
    <3>2. \A i \in inactive' : frame'[i] # None => frame'[i] # frame'[activeId']
      BY <3>1 DEF FrameInv, FramesDistinct, Live
    <3>3. EmacsTarget' \in {None, frame'[activeId']}
      BY DEF EmacsTarget
    <3> QED
      BY <1>1, <1>3, <2>1, <3>2, <3>3 DEF Foreign
  <2>3. \A o \in active : \A i \in inactive' : frame'[i] # None => saved[o] # frame'[i]
    BY <1>1, <2>1 DEF Foreign
  <2> QED
    BY <1>3, <2>2, <2>3 DEF NoForeignFrame
<1>4. ASSUME NEW w \in Windows, FNewToplevel(w) PROVE NoForeignFrame'
  <2>1. /\ NewToplevel(w) /\ focus' \in {w, focus} /\ UNCHANGED <<active, saved>>
    BY <1>4 DEF FNewToplevel
  <2>2. activeId' = activeId /\ \A i \in Live : frame[i] # w
    BY <2>1, NewToplevelChanges DEF FrameInv
  <2>3. ~Foreign(w)
    BY <2>2 DEF Foreign, Live
  <2> QED
    BY <1>3, <2>1, <2>2, <2>3
<1>5. CASE FRegisterApp \/ FSkipOrFloat
  <2>1. /\ pendingApps # << >> /\ UNCHANGED <<active, saved, activeId>>
        /\ focus' \in {focus, Head(pendingApps)}
    BY <1>5 DEF FRegisterApp, FSkipOrFloat, RegisterApp, SkipOrFloat
  <2>2. Head(pendingApps) \in Waits
    BY <2>1 DEF Waits, FrameInv, CastInv, TypeInv, TypeOK
  <2>3. ~Foreign(Head(pendingApps))
    BY <2>2, NotForeign
  <2> QED
    BY <1>3, <2>1, <2>3
<1>6. CASE FCleanupDeadApps \/ FCleanupDeadDialogs
  <2>1. UNCHANGED <<active, saved, activeId>> /\ focus' \in {focus, EmacsTarget'}
    BY <1>6 DEF FCleanupDeadApps, FCleanupDeadDialogs, CleanupDeadApps, CleanupDeadDialogs
  <2> QED
    BY <1>3, <2>1
<1>7. CASE FOthers
  <2>1. FollowWorkspace
    BY <1>7 DEF FOthers
  <2>2. CASE activeId' = activeId
    BY <1>3, <2>1, <2>2 DEF FollowWorkspace
  <2>3. CASE activeId' # activeId
    <3>1. active' = {} /\ focus' \in {None, frame'[activeId']}
      BY <2>1, <2>3 DEF FollowWorkspace, ForgetOldWorkspace, EmacsTarget, FocusTypeInv, FocusTypeOK
    <3>2. \A i \in inactive' : i \in Live' /\ i # activeId' /\ activeId' \in Live'
      BY DEF FrameInv, CastInv, TypeInv, IdsInOrder, Live
    <3> QED
      BY <3>1, <3>2 DEF NoForeignFrame, FrameInv, FramesDistinct
  <2> QED
    BY <2>2, <2>3
<1> QED
  BY <1>4, <1>5, <1>6, <1>7 DEF FHandlers

(* Input and messages give the keyboard to what was saved, to Emacs, to a   *)
(* layer surface, to an app, or to what was clicked.                        *)
LEMMA OutsideKeepsForeignOut ==
  ASSUME FrameInv, FocusTypeInv, NoForeignFrame, FInput \/ FIpc,
         ~ \E t \in Targets : Click(t) /\ Foreign(t)
  PROVE  NoForeignFrame'
<1>1. /\ ~Foreign(focus) /\ \A o \in active : ~Foreign(saved[o])
      /\ ~Foreign(None) /\ ~Foreign(EmacsTarget)
      /\ \A t \in Layers \cup apps : ~Foreign(t)
  BY NoForeignFrameIs, NotForeign
<1>2. UNCHANGED vars
  BY OutsideHandlers
<1>3. /\ saved \in [FocusOverride -> Targets \cup {None}]
      /\ \A o \in FocusOverride : ~Foreign(saved[o])
      /\ active \in SUBSET FocusOverride /\ {"Prefix", "Layer", "Host"} \subseteq FocusOverride
  BY <1>1 DEF FocusTypeInv, FocusTypeOK, FocusOverride
<1>4. ASSUME NEW o \in FocusOverride,
             UNCHANGED <<active, saved>> \/ Enter(o) \/ Exit(o), ~Foreign(focus')
      PROVE  NoForeignFrame'
  <2>1. \A p \in active' : ~Foreign(saved'[p])
    <3>1. CASE UNCHANGED <<active, saved>>
      BY <1>1, <3>1
    <3>2. CASE Enter(o)
      BY <1>1, <1>3, <3>2 DEF Enter
    <3>3. CASE Exit(o)
      BY <1>1, <1>3, <3>3 DEF Exit
    <3> QED
      BY <1>4, <3>1, <3>2, <3>3
  <2> QED
    BY <1>2, <1>4, <2>1 DEF NoForeignFrame, Foreign
<1>5. CASE KeyPrefix
  BY <1>1, <1>3, <1>4, <1>5 DEF KeyPrefix
<1>6. CASE HostLeave
  BY <1>1, <1>3, <1>4, <1>6 DEF HostLeave
<1>7. CASE HostEnter
  BY <1>1, <1>3, <1>4, <1>7 DEF HostEnter
<1>8. ASSUME NEW t \in Targets \cup {None}, Click(t) PROVE NoForeignFrame'
  <2>1. ~Foreign(t)
    BY <1>1, <1>8
  <2> QED
    BY <1>3, <1>4, <1>8, <2>1 DEF Click, CancelChord
<1>9. ASSUME NEW l \in Layers, LayerCommit(l) PROVE NoForeignFrame'
  BY <1>1, <1>3, <1>4, <1>9 DEF LayerCommit
<1>10. ASSUME NEW l \in Layers, LayerDestroyed(l) PROVE NoForeignFrame'
  BY <1>1, <1>3, <1>4, <1>10 DEF LayerDestroyed
<1>11. ASSUME NEW l \in Layers, NewLayerSurface(l) PROVE NoForeignFrame'
  BY <1>1, <1>3, <1>4, <1>11 DEF NewLayerSurface
<1>12. CASE IpcPrefixDone \/ IpcPrefixClear
  BY <1>1, <1>3, <1>4, <1>12 DEF IpcPrefixDone, IpcPrefixClear
<1>13. ASSUME NEW w, IpcSetFocus(w) PROVE NoForeignFrame'
  BY <1>1, <1>3, <1>4, <1>13 DEF IpcSetFocus, CancelChord
<1> QED
  BY <1>5, <1>6, <1>7, <1>8, <1>9, <1>10, <1>11, <1>12, <1>13 DEF FInput, FIpc

(* Nothing brings the keyboard to a frame that is not shown but a click on  *)
(* one that was left in the Space that is: no slot, switch or message does. *)
(* Where every frame keeps to its own Space, and so where no two wait at    *)
(* once, nothing does at all.                                               *)
THEOREM ForeignFramesStayOut ==
  /\ FSpec => [][NoForeignFrame => \/ NoForeignFrame'
                                  \/ \E t \in Targets : Click(t) /\ Foreign(t)]_allVars
  /\ FSpec => ([]FrameInOneSpace => []NoForeignFrame)
  /\ FSpec => ([](Len(pendingEmacs) <= 1) => []NoForeignFrame)
<1> DEFINE Strayed == \E t \in Targets : Click(t) /\ Foreign(t)
<1>1. FocusInit => NoForeignFrame
  BY DEF FocusInit, Init, NoForeignFrame
<1>2. FrameInv /\ FrameInv' /\ FocusTypeInv /\ [FNext]_allVars
        => [NoForeignFrame => NoForeignFrame' \/ Strayed]_allVars
  BY HandlersKeepForeignOut, OutsideKeepsForeignOut DEF FNext
<1>3. FSpec => [][NoForeignFrame => NoForeignFrame' \/ Strayed]_allVars
  BY <1>2, FrameInvInFocus, ImeComesBack, PTL DEF FSpec
<1>4. FrameInv /\ FrameInOneSpace /\ NoForeignFrame
        /\ [NoForeignFrame => NoForeignFrame' \/ Strayed]_allVars
        => NoForeignFrame'
  <2>1. NoForeignFrame /\ UNCHANGED allVars => NoForeignFrame'
    BY DEF NoForeignFrame, allVars, focusVars
  <2>2. FrameInv /\ FrameInOneSpace => ~Strayed
    <3> SUFFICES ASSUME FrameInv, FrameInOneSpace, NEW t \in Targets, Click(t) PROVE ~Foreign(t)
      OBVIOUS
    <3>1. t = EmacsTarget \/ t \in space[activeId] \cup Layers
      BY DEF Click
    <3> QED
      BY <3>1, NotForeign
  <2> QED
    BY <2>1, <2>2
<1>5. FSpec => ([]FrameInOneSpace => []NoForeignFrame)
  BY <1>1, <1>3, <1>4, FrameInvInFocus, PTL DEF FSpec
<1>6. Spec => ([](Len(pendingEmacs) <= 1) => []FrameInOneSpace)
  BY FramesInOneSpace
<1>7. FSpec => ([](Len(pendingEmacs) <= 1) => []NoForeignFrame)
  BY <1>5, <1>6, FocusImplementsWorkspaces, PTL
<1> QED
  BY <1>3, <1>5, <1>7, PTL
============================================================================
