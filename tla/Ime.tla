-------------------------------- MODULE Ime --------------------------------
(* emskin's input method bridge (state/ime.rs).  The host's input method    *)
(* serves one owner at a time: a client with text_input_v3 that has the     *)
(* keyboard ("tip"), or a client that speaks to fcitx5 over D-Bus and says  *)
(* when its input context has the focus ("dbus").  What D-Bus says comes    *)
(* later than the change of the keyboard focus it answers, and in any order *)
(* with what other clients say.                                             *)
EXTENDS Integers, Sequences, FiniteSets

CONSTANTS
  TipApps,      \* clients that use text_input_v3, and bind it at any time
  IcApps,       \* clients with an input context on D-Bus
  None,
  Carets,       \* caret rectangles, in the client's own coordinates
  MaxMoves,     \* changes of keyboard focus, workspace and chord
  MaxReports,   \* caret rectangles that clients report
  MaxExits      \* clients that exit

Apps == TipApps \cup IcApps

ASSUME AppsAssumption ==
  /\ TipApps \cap IcApps = {} /\ None \notin Apps
  /\ Carets \subseteq Nat \ {0}
  /\ MaxMoves \in Nat /\ MaxReports \in Nat /\ MaxExits \in Nat

VARIABLES
  phase,          \* "dispatch" of events, or "drain": within the tick
  keyboard,       \* who has the keyboard
  alive,          \* clients that have not exited
  bound,          \* clients that have bound text_input_v3
  tiFocus,        \* TextInputHandle: its focus,
  tiRect,         \* and cursor_rectangle, one for the seat
  focusedSurface, \* ImeBridge: focused_surface,
  owner,          \* owner,
  origin,         \*   its origin: whose top left the D-Bus rectangles are added to,
  cursor,         \* cursor,
  cursorIsReal,   \* cursor_is_real,
  cache,          \* cursor_cache,
  tipSnapshot,    \* tip_snapshot,
  settling,       \* dbus_focused_at: are its 300 ms still running?
  received,       \* dbus_cursor_received,
  prefixActive,   \* prefix_active,
  lastAllowed,    \* last_applied_ime_allowed,
  lastArea,       \* and last_applied_cursor_area
  hostAllowed,    \* what the host's input method has been told:
  hostArea,       \*   enabling it forgets the area
  inbox,          \* wl_keyboard events a client of IcApps has not handled,
  pipe,           \* its calls that the broker has not read,
  events,         \* FcitxEvents in the broker,
  draining,       \*   those the tick has taken,
  placed,         \*   and focused_app_origin for all of them
  moves, reports  \* how often the bounded things have happened

hostVars   == <<lastAllowed, lastArea, hostAllowed, hostArea>>
wireVars   == <<inbox, pipe>>
drainVars  == <<events, draining, placed>>
cursorVars == <<cursor, cursorIsReal, tipSnapshot, settling, received>>
ownerVars  == <<owner, origin, cursorVars>>
imeVars    == <<focusedSurface, ownerVars, cache, prefixActive>>
seatVars   == <<keyboard, alive, bound, tiFocus, tiRect>>
counters   == <<moves, reports>>
vars == <<phase, seatVars, imeVars, hostVars, wireVars, drainVars, counters>>

-----------------------------------------------------------------------------
NoOwner == [kind |-> "none", app |-> None]
Tip(a)  == [kind |-> "tip", app |-> a]
Dbus(a) == [kind |-> "dbus", app |-> a]

(* A caret, with the client that reported it; 0: not reported.              *)
Rect(a, v) == [by |-> a, caret |-> v]
NoRect == Rect(None, 0)

(* translate: a caret at the top left of a client.                          *)
Area(at, rect) == [at |-> at, rect |-> rect]
NoArea == Area(None, NoRect)

(* focused_client_has_text_input                                            *)
HasTextInput(surface) == surface \in bound \cap alive

-----------------------------------------------------------------------------
(* Ownership *)

(* What set_owner does for an owner that is not the same: the caret that    *)
(* the cache has for it, or the fallback of a tip owner.                    *)
OwnUnseen(new, at, rects) ==                \* wrong: takes the seat's old caret for news
  /\ owner' = new /\ origin' = IF new.kind = "dbus" THEN at ELSE None
  /\ cursor' = IF new.kind = "none" THEN NoArea
               ELSE IF rects[new.app] # NoRect THEN Area(at, rects[new.app])
               ELSE IF new.kind = "tip" THEN Area(at, Rect(new.app, 0)) ELSE NoArea
  /\ cursorIsReal' = (new.kind # "none" /\ rects[new.app] # NoRect)
  /\ tipSnapshot' = 0
  /\ settling' = (new.kind = "dbus")
  /\ received' = FALSE

Own(new, at, rects) ==
  /\ owner' = new /\ origin' = IF new.kind = "dbus" THEN at ELSE None
  /\ cursor' = IF new.kind = "none" THEN NoArea
               ELSE IF rects[new.app] # NoRect THEN Area(at, rects[new.app])
               ELSE IF new.kind = "tip" THEN Area(at, Rect(new.app, 0)) ELSE NoArea
  /\ cursorIsReal' = (new.kind # "none" /\ rects[new.app] # NoRect)
  /\ tipSnapshot' = IF new.kind = "tip" THEN tiRect.caret ELSE 0
  /\ settling' = (new.kind = "dbus")
  /\ received' = FALSE

SetOwner(new, at) ==
  IF new = owner THEN UNCHANGED ownerVars ELSE Own(new, at, cache)

ClearOwner == SetOwner(NoOwner, None)

(* report_tip_cursor_change: news is what differs from the snapshot.        *)
ReportTip ==
  IF owner.kind = "tip" /\ tiRect.caret \notin {0, tipSnapshot}
  THEN /\ tipSnapshot' = tiRect.caret
       /\ cursor' = Area(owner.app, tiRect) /\ cursorIsReal' = TRUE
       /\ cache' = [cache EXCEPT ![owner.app] = tiRect]
       /\ UNCHANGED <<owner, origin, settling, received>>
  ELSE UNCHANGED <<ownerVars, cache>>

(* report_dbus_cursor: the first after a FocusIn counts, the rest of the    *)
(* burst does not.                                                          *)
ReportDbus(a, v) ==
  IF owner = Dbus(a) /\ ~(received /\ settling)
  THEN /\ cursor' = Area(origin, Rect(a, v)) /\ cursorIsReal' = TRUE
       /\ received' = TRUE
       /\ cache' = [cache EXCEPT ![a] = Rect(a, v)]
       /\ UNCHANGED <<owner, origin, tipSnapshot, settling>>
  ELSE UNCHANGED <<ownerVars, cache>>

-----------------------------------------------------------------------------
(* Keyboard focus *)

(* The clients concerned are told; only those with an input context react.  *)
Told(a, what) == IF a \in IcApps THEN [inbox EXCEPT ![a] = Append(@, what)] ELSE inbox

TellBoth(old, new) ==
  LET left == Told(old, "leave")
  IN IF new \in IcApps THEN [left EXCEPT ![new] = Append(@, "enter")] ELSE left

(* transition_focus, as seen by the text input's focus.                     *)
TransitionLazy(old, new) ==                 \* wrong: no leave for a client without text input
  IF HasTextInput(new) THEN new ELSE tiFocus

Transition(old, new) == IF old = new THEN tiFocus ELSE new

WantedOwner(new, ti) == IF new # None /\ HasTextInput(ti) THEN Tip(new) ELSE NoOwner

(* SeatHandler::focus_changed, on_focus_changed                             *)
FocusMoves(new) ==
  /\ phase = "dispatch" /\ moves < MaxMoves /\ moves' = moves + 1
  /\ new # keyboard /\ new \in alive \cup {None} /\ keyboard' = new
  /\ tiFocus' = Transition(focusedSurface, new)
  /\ focusedSurface' = new
  /\ SetOwner(WantedOwner(new, tiFocus'), new)
  /\ inbox' = TellBoth(keyboard, new)
  /\ UNCHANGED <<phase, alive, bound, tiRect, cache, prefixActive, hostVars, pipe,
                 drainVars, reports>>

(* switch_workspace: reset_on_workspace_switch, and the keyboard goes to    *)
(* the Emacs of the other workspace, if it has one already.                 *)
SwitchWorkspace(new) ==
  /\ phase = "dispatch" /\ moves < MaxMoves /\ moves' = moves + 1
  /\ new = None \/ new \in alive \ {keyboard}
  /\ keyboard' = new
  /\ cache' = [a \in Apps |-> NoRect]
  /\ prefixActive' = FALSE
  /\ tiFocus' = Transition(None, new)
  /\ focusedSurface' = new
  /\ Own(WantedOwner(new, tiFocus'), new, [a \in Apps |-> NoRect])
  /\ inbox' = IF new = keyboard THEN inbox ELSE TellBoth(keyboard, new)
  /\ UNCHANGED <<phase, alive, bound, tiRect, hostVars, pipe, drainVars, reports>>

(* set_prefix_active, at the start and the end of a chord                   *)
SetPrefixActive ==
  /\ phase = "dispatch" /\ moves < MaxMoves /\ moves' = moves + 1
  /\ prefixActive' = ~prefixActive
  /\ UNCHANGED <<phase, seatVars, focusedSurface, ownerVars, cache, hostVars, wireVars,
                 drainVars, reports>>

-----------------------------------------------------------------------------
(* The tick *)

(* drain_fcitx_events takes all events; they share the origin of the client *)
(* that has the keyboard now.                                               *)
Tick ==
  /\ phase = "dispatch" /\ phase' = "drain"
  /\ draining' = events /\ events' = <<>> /\ placed' = keyboard
  /\ UNCHANGED <<seatVars, imeVars, hostVars, wireVars, counters>>

(* on_fcitx_event *)
FocusIn(e) == SetOwner(Dbus(e.app), placed) /\ UNCHANGED cache

FocusOutHere(e) ==                          \* wrong: only from who has the keyboard
  IF owner = Dbus(e.app) /\ keyboard = e.app THEN ClearOwner /\ UNCHANGED cache
  ELSE UNCHANGED <<ownerVars, cache>>

FocusOut(e) ==
  IF owner = Dbus(e.app) THEN ClearOwner /\ UNCHANGED cache
  ELSE UNCHANGED <<ownerVars, cache>>

IcDestroyed(e) ==
  /\ cache' = [cache EXCEPT ![e.app] = NoRect]
  /\ IF owner = Dbus(e.app) THEN ClearOwner ELSE UNCHANGED ownerVars

OnFcitxEvent ==
  /\ phase = "drain" /\ draining # <<>>
  /\ LET e == Head(draining)
     IN \/ e.kind = "in" /\ FocusIn(e)
        \/ e.kind = "out" /\ FocusOut(e)
        \/ e.kind = "rect" /\ ReportDbus(e.app, e.caret)
        \/ e.kind = "destroyed" /\ IcDestroyed(e)
  /\ draining' = Tail(draining)
  /\ UNCHANGED <<phase, seatVars, focusedSurface, prefixActive, hostVars, wireVars, events,
                 placed, counters>>

(* poll_tip_freshness: a client that has bound text_input late becomes the  *)
(* owner; the snapshot is then the caret it may have reported already.      *)
PollReportsOnly == ReportTip                \* wrong: late binding is not noticed

Poll ==
  IF owner = NoOwner /\ focusedSurface # None /\ HasTextInput(tiFocus)
  THEN Own(Tip(focusedSurface), focusedSurface, cache) /\ UNCHANGED cache
  ELSE ReportTip

PollTipFreshness ==
  /\ phase = "drain" /\ draining = <<>> /\ phase' = "dispatch"
  /\ Poll /\ placed' = None
  /\ UNCHANGED <<seatVars, focusedSurface, prefixActive, hostVars, wireVars, events,
                 draining, counters>>

(* The settle window closes.                                                *)
SettleEnds ==
  /\ phase = "dispatch" /\ settling /\ settling' = FALSE
  /\ UNCHANGED <<phase, seatVars, focusedSurface, owner, origin, cursor, cursorIsReal,
                 tipSnapshot, received, cache, prefixActive, hostVars, wireVars, drainVars,
                 counters>>

-----------------------------------------------------------------------------
(* The host *)

DesiredAllowed ==
  /\ ~prefixActive
  /\ owner.kind = "tip" \/ (owner.kind = "dbus" /\ cursorIsReal)

(* sync_to_winit, on every redraw.  To enable resets the host's area.       *)
AreaPushed == cursor # NoArea /\ (cursor # lastArea \/ (DesiredAllowed /\ ~lastAllowed))

Pushed(area) == IF AreaPushed THEN cursor ELSE area

SyncChanged(area) == IF cursor \notin {NoArea, lastArea} THEN cursor ELSE area   \* wrong: not forced

SyncToWinit(area) == Pushed(area)

Redraw ==
  /\ phase = "dispatch"
  /\ lastAllowed' = DesiredAllowed /\ hostAllowed' = DesiredAllowed
  /\ lastArea' = SyncToWinit(lastArea)
  /\ hostArea' = SyncToWinit(IF DesiredAllowed /\ ~hostAllowed THEN NoArea ELSE hostArea)
  /\ UNCHANGED <<phase, seatVars, imeVars, wireVars, drainVars, counters>>

(* Preedit or Commit go to the owner's context over D-Bus, and to the text  *)
(* input that has the focus.                                                *)
TextGoesTo == {a \in alive : owner = Dbus(a) \/ (a = tiFocus /\ a \in bound)}

(* on_host_ime_event: any event makes the bridge look at the tip's caret.   *)
HostImeEvent ==
  /\ phase = "dispatch" /\ ReportTip
  /\ UNCHANGED <<phase, seatVars, focusedSurface, prefixActive, hostVars, wireVars,
                 drainVars, counters>>

-----------------------------------------------------------------------------
(* The clients *)

BindTextInput(a) ==
  /\ phase = "dispatch" /\ a \in (TipApps \cap alive) \ bound
  /\ bound' = bound \cup {a}
  /\ UNCHANGED <<phase, keyboard, alive, tiFocus, tiRect, imeVars, hostVars, wireVars,
                 drainVars, counters>>

(* Requests of a client without the text input's focus are discarded.       *)
SetCursorRectangle(a) ==
  /\ phase = "dispatch" /\ a = tiFocus /\ HasTextInput(a)
  /\ reports < MaxReports /\ reports' = reports + 1
  /\ \E v \in Carets : tiRect' = Rect(a, v)
  /\ UNCHANGED <<phase, keyboard, alive, bound, tiFocus, imeVars, hostVars, wireVars,
                 drainVars, moves>>

Call(kind, a, v) == [kind |-> kind, app |-> a, caret |-> v]

(* The client's input method module follows its keyboard focus, ...         *)
HandleKeyboard(a) ==
  /\ phase = "dispatch" /\ a \in alive /\ inbox[a] # <<>>
  /\ inbox' = [inbox EXCEPT ![a] = Tail(@)]
  /\ pipe' = [pipe EXCEPT ![a] =
                Append(@, Call(IF Head(inbox[a]) = "enter" THEN "in" ELSE "out", a, 0))]
  /\ UNCHANGED <<phase, seatVars, imeVars, hostVars, drainVars, counters>>

(* ... reports carets, ...                                                  *)
SetCursorRect(a) ==
  /\ phase = "dispatch" /\ a \in alive
  /\ reports < MaxReports /\ reports' = reports + 1
  /\ \E v \in Carets : pipe' = [pipe EXCEPT ![a] = Append(@, Call("rect", a, v))]
  /\ UNCHANGED <<phase, seatVars, imeVars, hostVars, inbox, drainVars, moves>>

(* ... and the client exits, with a DestroyIC or without.                   *)
Exits(a) ==
  /\ phase = "dispatch" /\ a \in alive
  /\ Cardinality(Apps \ alive) < MaxExits
  /\ alive' = alive \ {a}
  /\ \/ pipe' = pipe
     \/ a \in IcApps /\ pipe' = [pipe EXCEPT ![a] = Append(@, Call("destroyed", a, 0))]
  /\ inbox' = IF a \in IcApps THEN [inbox EXCEPT ![a] = <<>>] ELSE inbox
  /\ UNCHANGED <<phase, keyboard, bound, tiFocus, tiRect, imeVars, hostVars, drainVars,
                 counters>>

(* The broker reads a call and queues its event.                            *)
PumpClient(a) ==
  /\ phase = "dispatch" /\ pipe[a] # <<>>
  /\ events' = Append(events, Head(pipe[a]))
  /\ pipe' = [pipe EXCEPT ![a] = Tail(@)]
  /\ UNCHANGED <<phase, seatVars, imeVars, hostVars, inbox, draining, placed,
                 counters>>

-----------------------------------------------------------------------------
Init ==
  /\ phase = "dispatch"
  /\ keyboard = None /\ alive = Apps /\ bound = {}
  /\ tiFocus = None /\ tiRect = NoRect /\ focusedSurface = None
  /\ owner = NoOwner /\ origin = None /\ cursor = NoArea /\ cursorIsReal = FALSE
  /\ cache = [a \in Apps |-> NoRect] /\ tipSnapshot = 0
  /\ settling = FALSE /\ received = FALSE /\ prefixActive = FALSE
  /\ lastAllowed = FALSE /\ lastArea = NoArea /\ hostAllowed = FALSE /\ hostArea = NoArea
  /\ inbox = [a \in IcApps |-> <<>>] /\ pipe = [a \in IcApps |-> <<>>]
  /\ events = <<>> /\ draining = <<>> /\ placed = None
  /\ moves = 0 /\ reports = 0

Next ==
  \/ \E a \in Apps \cup {None} : FocusMoves(a) \/ SwitchWorkspace(a)
  \/ SetPrefixActive \/ Tick \/ OnFcitxEvent \/ PollTipFreshness \/ SettleEnds
  \/ Redraw \/ HostImeEvent
  \/ \E a \in TipApps : BindTextInput(a) \/ SetCursorRectangle(a)
  \/ \E a \in IcApps : HandleKeyboard(a) \/ SetCursorRect(a) \/ PumpClient(a)
  \/ \E a \in Apps : Exits(a)

(* The loop ticks after each dispatch and reads what clients have sent in   *)
(* every round; clients follow their keyboard focus (at any time, of which  *)
(* the model has the rounds only: hence SF).  Nobody has to report, to bind *)
(* or to move.                                                              *)
Fairness ==
  /\ WF_vars(Tick) /\ WF_vars(OnFcitxEvent) /\ WF_vars(PollTipFreshness)
  /\ \A a \in IcApps : SF_vars(HandleKeyboard(a)) /\ SF_vars(PumpClient(a))

Spec == Init /\ [][Next]_vars
FairSpec == Spec /\ Fairness
-----------------------------------------------------------------------------
(* Properties *)

Owners == {NoOwner} \cup {Tip(a) : a \in TipApps} \cup {Dbus(a) : a \in IcApps}
Rects  == [by : Apps \cup {None}, caret : Carets \cup {0}]
Areas  == [at : Apps \cup {None}, rect : Rects]
Calls  == [kind : {"in", "out", "rect", "destroyed"}, app : IcApps, caret : Carets \cup {0}]
Places == Apps \cup {None}

(* With no owner there is no caret, a D-Bus owner has one when it is real.  *)
TypeOK ==
  /\ phase \in {"dispatch", "drain"}
  /\ keyboard \in Places /\ alive \subseteq Apps /\ bound \subseteq TipApps
  /\ tiFocus \in Places /\ tiRect \in Rects /\ focusedSurface \in Places
  /\ owner \in Owners /\ origin \in Places /\ cursor \in Areas
  /\ cursorIsReal \in BOOLEAN
  /\ cache \in [Apps -> Rects] /\ tipSnapshot \in Carets \cup {0}
  /\ settling \in BOOLEAN /\ received \in BOOLEAN /\ prefixActive \in BOOLEAN
  /\ lastAllowed \in BOOLEAN /\ lastArea \in Areas
  /\ hostAllowed \in BOOLEAN /\ hostArea \in Areas
  /\ inbox \in [IcApps -> Seq({"enter", "leave"})] /\ pipe \in [IcApps -> Seq(Calls)]
  /\ events \in Seq(Calls) /\ draining \in Seq(Calls) /\ placed \in Places
  /\ moves \in 0..MaxMoves /\ reports \in 0..MaxReports
  /\ owner = NoOwner => cursor = NoArea /\ ~cursorIsReal
  /\ owner.kind = "dbus" => (cursor # NoArea <=> cursorIsReal)

(* The caret shown at the owner was reported by the owner, although the     *)
(* seat has one rectangle for all, carets are cached across changes of      *)
(* owner, and reports of earlier owners still arrive; a tip owner's is      *)
(* placed at its own window.                                                *)
CaretIsOwners ==
  /\ cursor # NoArea => cursor.rect.by = owner.app
  /\ owner.kind = "tip" => cursor.at = owner.app

(* When all messages have arrived, the owner has the keyboard, and D-Bus    *)
(* rectangles are placed at its window; only a client that exited with its  *)
(* FocusIn on the way may be left as owner.                                 *)
Quiet ==
  /\ phase = "dispatch" /\ events = <<>>
  /\ \A a \in IcApps : inbox[a] = <<>> /\ pipe[a] = <<>>

OwnerSettles ==
  Quiet /\ owner # NoOwner /\ owner.app \in alive
    => owner.app = keyboard /\ origin \in {None, keyboard}

(* After every redraw the host knows what the bridge wants, also when       *)
(* enabling has made it forget the area.                                    *)
HostFollows ==
  [][Redraw => /\ hostAllowed' = DesiredAllowed
               /\ DesiredAllowed => hostArea' = cursor]_vars

(* While the owner wants text and no message is on the way, text goes to    *)
(* the client with the keyboard and to no second one.                       *)
TextToKeyboard ==
  Quiet /\ DesiredAllowed /\ owner.app \in alive => TextGoesTo = {keyboard}

(* A client that has bound text_input_v3, however late, and keeps the       *)
(* keyboard becomes the owner, if no client with an input context exits.    *)
TipOwns ==
  \A a \in TipApps :
    <>[](keyboard = a /\ HasTextInput(a) /\ IcApps \subseteq alive) => <>[](owner = Tip(a))

-----------------------------------------------------------------------------
(* What a comment of the source says, and the code does not do while calls   *)
(* are on their way: no run checks this.  ime.rs:46 "Tip and DBus paths are  *)
(* mutually exclusive (one owner at a time)".                                *)
TextOnce == Cardinality(TextGoesTo) <= 1
=============================================================================
