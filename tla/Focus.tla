------------------------------- MODULE Focus -------------------------------
(***************************************************************************)
(* Which surface has the keyboard, composed with Workspaces: every handler *)
(* of Workspaces, with what it does to the seat's keyboard focus and to    *)
(* FocusState, and the handlers that move the focus only.                  *)
(*                                                                         *)
(* FocusState has three override slots.  enter(o) saves the focus that is  *)
(* current, exit(o) gives it back: Prefix during an Emacs chord, Layer     *)
(* while a layer surface has the keyboard, Host while emskin's own window  *)
(* does not have the host's focus.                                         *)
(*                                                                         *)
(* External: smithay's KeyboardHandle.  current_focus() goes on returning  *)
(* a target that died, which is what tick.rs:647 expects of it.  Popups    *)
(* and their grabs are left out; a layer surface is a client of its own.   *)
(***************************************************************************)
EXTENDS Workspaces

CONSTANTS
  Layers,     \* every layer surface a client may ever create
  Inputs      \* the inputs of this instance: "prefix", "click", "host", "layer"

ASSUME FocusConstantsAssumption ==
  /\ Layers \cap Windows = {}
  /\ None \notin Layers

VARIABLES
  focus,        \* KeyboardHandle::current_focus
  active,       \* the overrides that FocusState::is_active
  saved,        \* saved[o]: the focus that override o saved
  imePrefix,    \* ImeBridge::prefix_active: the host's input method is suspended
  hostFocused,  \* emskin's window has the host's keyboard focus
  layerStatus   \* layerStatus[l]: the layer surface is unborn, alive or dead

focusVars == <<focus, active, saved, imePrefix, hostFocused, layerStatus>>
allVars   == <<vars, focusVars>>

FocusOverride == {"Prefix", "Layer", "Host"}
Targets == Windows \cup Layers

FocusTypeOK ==
  /\ focus \in Targets \cup {None}
  /\ active \in SUBSET FocusOverride
  /\ saved \in [FocusOverride -> Targets \cup {None}]
  /\ imePrefix \in BOOLEAN
  /\ hostFocused \in BOOLEAN
  /\ layerStatus \in [Layers -> {"unborn", "alive", "dead"}]

FocusInit ==
  /\ Init
  /\ focus = None
  /\ active = {}
  /\ saved = [o \in FocusOverride |-> None]
  /\ imePrefix = FALSE
  /\ hostFocused = FALSE
  /\ layerStatus = [l \in Layers |-> "unborn"]

-----------------------------------------------------------------------------
(* Helpers *)

(* emacs_focus_target: the active frame, if the active Space still has it.  *)
EmacsTarget ==
  IF frame[activeId] \in space[activeId] THEN frame[activeId] ELSE None

AliveTarget(t) == Alive(t) \/ (t \in Layers /\ layerStatus[t] = "alive")

ClientOf(t) == IF t \in Layers THEN t ELSE Owner[t]

SameClient(s, t) == s # None /\ t # None /\ ClientOf(s) = ClientOf(t)

(* FocusState::enter overwrites what the slot held.                        *)
EnterOnce(o) ==                                       \* wrong: keeps what it held
  /\ active' = active \cup {o}
  /\ saved' = [saved EXCEPT ![o] = IF o \in active THEN @ ELSE focus]

Enter(o) ==
  /\ active' = active \cup {o}
  /\ saved' = [saved EXCEPT ![o] = focus]

(* FocusState::exit *)
Exit(o) ==
  /\ active' = active \ {o}
  /\ saved' = [saved EXCEPT ![o] = None]

(* FocusState::reset_on_workspace_switch, the slots it empties.             *)
ResetAllButHost == {"Prefix", "Layer"}               \* wrong: the host's stays

Reset == FocusOverride

(* switch_workspace, the focus: nothing that refers to the old workspace    *)
(* is kept, and the new one's Emacs gets the keyboard.                      *)
ForgetOldWorkspace ==
  /\ active' = active \ Reset
  /\ saved' = [o \in FocusOverride |-> IF o \in Reset THEN None ELSE saved[o]]
  /\ imePrefix' = FALSE
  /\ focus' = EmacsTarget'

(* What a handler that may switch the workspace does to the focus.          *)
FollowWorkspace ==
  /\ \/ activeId' # activeId /\ ForgetOldWorkspace
     \/ activeId' = activeId /\ UNCHANGED <<focus, active, saved, imePrefix>>
  /\ UNCHANGED <<hostFocused, layerStatus>>

(* auto_focus_new_window and promote_floating_dialog: the new window takes   *)
(* the keyboard unless a chord is in flight.                                *)
StealAlways(w) == w                                   \* wrong: chord or not

AutoFocus(w) == IF "Prefix" \in active THEN focus ELSE w

-----------------------------------------------------------------------------
(* The handlers of Workspaces *)

FNewToplevel(w) ==
  /\ NewToplevel(w)
  /\ focus' = IF ShouldClaimMain THEN w ELSE focus
  /\ UNCHANGED <<active, saved, imePrefix, hostFocused, layerStatus>>

FRegisterApp ==
  /\ RegisterApp
  /\ focus' = AutoFocus(Head(pendingApps))
  /\ UNCHANGED <<active, saved, imePrefix, hostFocused, layerStatus>>

(* A dead toplevel is skipped, one that wants_floating becomes a dialog.    *)
FSkipOrFloat ==
  /\ SkipOrFloat
  /\ focus' = IF Alive(Head(pendingApps)) THEN AutoFocus(Head(pendingApps)) ELSE focus
  /\ UNCHANGED <<active, saved, imePrefix, hostFocused, layerStatus>>

(* If an app died and nothing has the keyboard, Emacs gets it.              *)
FCleanupDeadApps ==
  /\ CleanupDeadApps
  /\ focus' = IF focus = None /\ \E w \in apps : Dead(w) THEN EmacsTarget' ELSE focus
  /\ UNCHANGED <<active, saved, imePrefix, hostFocused, layerStatus>>

(* If some Space had a dead element, and nothing or a dead toplevel has the *)
(* keyboard, Emacs gets it.                                                *)
FCleanupDeadDialogs ==
  /\ CleanupDeadDialogs
  /\ focus' = IF /\ focus = None \/ Dead(focus)
                 /\ \E i \in Live : \E w \in space[i] : Dead(w)
              THEN EmacsTarget' ELSE focus
  /\ UNCHANGED <<active, saved, imePrefix, hostFocused, layerStatus>>

(* The handlers that move the focus only by switching the workspace.        *)
FOthers ==
  /\ \/ \E w \in Windows : ToplevelDies(w) \/ Commit(w)
     \/ Redraw \/ StopLoop \/ BeginTick
     \/ ChildFrame \/ NewFrame \/ FramesDone \/ AppsDone
     \/ Protocol \/ ActionsDone
     \/ DetectDeadWorkspaces \/ RefreshWorkspaceState
     \/ Ipc \/ IpcDone
     \/ \E timedOut \in SUBSET Waiting : Timeouts(timedOut)
  /\ FollowWorkspace

-----------------------------------------------------------------------------
(* Input, and the host *)

(* A key press that starts an Emacs chord (C-x, C-c, M-x), whoever has the  *)
(* keyboard.  Only the first one of a chord saves the focus.                *)
KeyPrefix ==
  /\ phase = "dispatch"
  /\ "prefix" \in Inputs
  /\ hostFocused
  /\ \/ "Prefix" \in active /\ UNCHANGED <<active, saved>>
     \/ "Prefix" \notin active /\ Enter("Prefix")
  /\ imePrefix' = TRUE
  /\ focus' = IF EmacsTarget = None THEN focus ELSE EmacsTarget
  /\ UNCHANGED <<vars, hostFocused, layerStatus>>

(* What a click elsewhere and set_focus do to an open chord.                *)
ExitOnly == Exit("Prefix") /\ UNCHANGED imePrefix     \* wrong: IME stays suspended

CancelChord == Exit("Prefix") /\ imePrefix' = FALSE

(* A button press on t, or beside everything (then t is Emacs).  A press on *)
(* a surface of the client that has the keyboard changes nothing.          *)
Click(t) ==
  /\ phase = "dispatch"
  /\ "click" \in Inputs
  /\ t = EmacsTarget \/ (t \in space[activeId] \cup Layers /\ AliveTarget(t))
  /\ ~SameClient(focus, t)
  /\ focus' = t
  /\ CancelChord
  /\ UNCHANGED <<vars, hostFocused, layerStatus>>

(* on_focus_leave *)
HostLeave ==
  /\ phase = "dispatch"
  /\ "host" \in Inputs
  /\ hostFocused
  /\ hostFocused' = FALSE
  /\ Enter("Host")
  /\ focus' = None
  /\ UNCHANGED <<vars, imePrefix, layerStatus>>

(* on_focus_enter: what was saved comes back, if anything was.              *)
HostEnter ==
  /\ phase = "dispatch"
  /\ ~hostFocused
  /\ hostFocused' = TRUE
  /\ Exit("Host")
  /\ focus' = IF saved["Host"] = None THEN focus ELSE saved["Host"]
  /\ UNCHANGED <<vars, imePrefix, layerStatus>>

-----------------------------------------------------------------------------
(* Layer surfaces *)

NewLayerSurface(l) ==
  /\ phase = "dispatch"
  /\ "layer" \in Inputs
  /\ layerStatus[l] = "unborn"
  /\ layerStatus' = [layerStatus EXCEPT ![l] = "alive"]
  /\ UNCHANGED <<vars, focus, active, saved, imePrefix, hostFocused>>

(* A commit of a layer surface that wants the keyboard and does not have it. *)
LayerCommit(l) ==
  /\ phase = "dispatch"
  /\ layerStatus[l] = "alive"
  /\ focus # l
  /\ Enter("Layer")
  /\ focus' = l
  /\ UNCHANGED <<vars, imePrefix, hostFocused, layerStatus>>

(* layer_destroyed: if the layer had the keyboard, what was saved comes back, *)
(* or Emacs if that died too.                                              *)
LayerDestroyed(l) ==
  /\ phase = "dispatch"
  /\ layerStatus[l] = "alive"
  /\ layerStatus' = [layerStatus EXCEPT ![l] = "dead"]
  /\ \/ /\ focus = l
        /\ Exit("Layer")
        /\ focus' = IF saved["Layer"] # l /\ AliveTarget(saved["Layer"])
                    THEN saved["Layer"] ELSE EmacsTarget
     \/ /\ focus # l
        /\ UNCHANGED <<focus, active, saved>>
  /\ UNCHANGED <<vars, imePrefix, hostFocused>>

-----------------------------------------------------------------------------
(* Messages from Emacs *)

(* prefix_done: the chord is over, what it saved comes back.                *)
IpcPrefixDone ==
  /\ phase = "ipc"
  /\ "prefix" \in Inputs
  /\ imePrefix' = FALSE
  /\ \/ /\ "Prefix" \in active
        /\ Exit("Prefix")
        /\ focus' = saved["Prefix"]
     \/ /\ "Prefix" \notin active
        /\ UNCHANGED <<focus, active, saved>>
  /\ UNCHANGED <<vars, hostFocused, layerStatus>>

(* prefix_clear: only the input method is resumed.                          *)
IpcPrefixClear ==
  /\ phase = "ipc"
  /\ "prefix" \in Inputs
  /\ imePrefix' = FALSE
  /\ UNCHANGED <<vars, focus, active, saved, hostFocused, layerStatus>>

(* set_focus on an app, or on Emacs if the app is gone or w is None.        *)
IpcSetFocus(w) ==
  /\ phase = "ipc"
  /\ "prefix" \in Inputs
  /\ w \in apps \cup {None}
  /\ focus' = IF w \in apps THEN w ELSE EmacsTarget
  /\ CancelChord
  /\ UNCHANGED <<vars, hostFocused, layerStatus>>

FHandlers ==
  \/ \E w \in Windows : FNewToplevel(w)
  \/ FRegisterApp \/ FSkipOrFloat
  \/ FCleanupDeadApps \/ FCleanupDeadDialogs
  \/ FOthers

FInput ==
  \/ KeyPrefix \/ HostLeave \/ HostEnter
  \/ \E t \in Targets \cup {None} : Click(t)
  \/ \E l \in Layers : NewLayerSurface(l) \/ LayerCommit(l) \/ LayerDestroyed(l)

FIpc ==
  \/ IpcPrefixDone \/ IpcPrefixClear
  \/ \E w \in Windows \cup {None} : IpcSetFocus(w)

FNext == FHandlers \/ FInput \/ FIpc

FSpec == FocusInit /\ [][FNext]_allVars

-----------------------------------------------------------------------------
(* Safety *)

(* Slots that are not active are empty: HashMap::remove took the entry.     *)
FocusTypeInv ==
  /\ FocusTypeOK
  /\ \A o \in FocusOverride \ active : saved[o] = None

(* The host's input method is suspended only while a chord is open: every   *)
(* way out of a chord (prefix_done, set_focus, a click elsewhere, another   *)
(* workspace) resumes it, or text input would stay dead.                    *)
ImeSuspendedOnlyInChord == imePrefix => "Prefix" \in active

(* mod.rs:513 "any focus steal would break the sequence": while a chord is  *)
(* open no other toplevel has the keyboard, whatever windows appear, die or *)
(* come back into focus, as long as Emacs is there to have it.              *)
ChordKeysGoToEmacs ==
  "Prefix" \in active /\ focus \in Windows /\ Alive(frame[activeId])
    => focus = frame[activeId]

(* No current and no saved focus is the frame of a workspace that is not    *)
(* active: nothing can bring the keyboard to a frame that is not shown.     *)
(* (With two frames in one batch, a stray frame can be clicked.)            *)
NoForeignFrame ==
  \A i \in inactive :
    frame[i] # None => focus # frame[i] /\ \A o \in active : saved[o] # frame[i]

-----------------------------------------------------------------------------
(* What comments of the source say, and the code does not do: no run checks  *)
(* these, and the README says how they come to be false.                    *)

(* tick.rs:642 "Focus may still point at the now-dead dialog Window; fall   *)
(* back to Emacs in that case": after the cleanups no toplevel that was     *)
(* never an app has the keyboard and is dead.                               *)
DeadDialogLosesFocus ==
  phase = "ipc" /\ ~stopping /\ Dead(focus) => winTold[focus] # "none"

(* input.rs:396 "clear it so embedded clients stop thinking they still have *)
(* focus": until the host gives it back, no client has the keyboard.  The   *)
(* code does not keep this (AutoFocus, LayerCommit, IpcSetFocus); no run     *)
(* checks it.                                                              *)
NoFocusWhileHostAway == "Host" \in active => focus = None

=============================================================================
