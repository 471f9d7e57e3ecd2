------------------------------ MODULE Effects ------------------------------
(* The overlays that emskin paints above the workspaces: the chain of       *)
(* effects with what each keeps (splash, recorder dot, skeleton, measure,   *)
(* key cast, jelly cursor, cursor trail), the setters that messages and     *)
(* input call, and the render loop, which paints only when something has    *)
(* asked for a redraw: an effect for itself in post_paint, or the code that *)
(* called its setter.                                                       *)
(*                                                                          *)
(* Time passes by one, and ages stop at the limit they are compared with.   *)
(* What an effect draws is reduced to what of its state is to be seen; the  *)
(* spring of the trail to the frames it needs to settle; the recorder, of   *)
(* which Recorder has the whole, to its states.                             *)
EXTENDS Naturals, Sequences

CONSTANTS
  KeyLife, RepeatWindow, MaxEntries,    \* MAX_AGE, REPEAT_WINDOW, MAX_ENTRIES
  FlashTime, JellyTime, FadeTime,       \* FLASH_DURATION_MS, DURATION, FADE_OUT
  TrailTime,                            \* frames the trail needs to settle
  Labels, Carets, Places, Regions,      \* chords, carets, pointer positions, rects of
  MaxRegions,                           \* frames, and how many Emacs sends at once
  Buttons,                              \* of the mouse
  MaxMessages, MaxInputs, MaxFailures,  \* bounds on what happens
  None

ASSUME EffectsAssumption ==
  /\ {KeyLife, MaxEntries} \subseteq Nat \ {0} /\ RepeatWindow \in 1..KeyLife
  /\ {FlashTime, JellyTime, FadeTime, TrailTime} \subseteq Nat \ {0}
  /\ Places # {} /\ "left" \in Buttons
  /\ MaxRegions \in Nat /\ None \notin Labels \cup Carets \cup Places

VARIABLES
  needsRedraw,  \* EmskinState::needs_redraw
  chain,        \* EffectChain::effects
  splash,       \* dismiss_time and done; the time since the dismissal
  skeleton,     \* enabled, and of each entry its rect, the place in the panel
                \* where it was last drawn (0: never) and what is left of its flash
  measureOn,    \* MeasureOverlay::enabled
  keys,         \* KeyCastOverlay: enabled, entries
  jelly,        \* JellyCursor: enabled, state
  trail,        \* CursorTrail: enabled; last_time is None; where the pointer was;
                \* frames until it is settled
  overlayOn,    \* RecorderOverlay::state is Active
  rec,          \* Recorder::state
  absorbed,     \* skeleton_click_absorbed
  lastEmacs, lastRec,   \* last_emacs_connected, last_recording_active
  emacsThere,   \* has_main_surface
  pointer,      \* where the pointer is
  held, told,   \* the mouse buttons that are down, and that clients know of
  screen,       \* what the last frame showed of each effect
  lost,         \* the last frame failed
  messages, inputs, failures

effectVars == <<splash, skeleton, measureOn, keys, jelly, trail>>
recVars    == <<overlayOn, rec, lastRec>>
seatVars   == <<pointer, held, told>>
vars == <<needsRedraw, chain, effectVars, recVars, absorbed, lastEmacs, emacsThere, seatVars,
          screen, lost, messages, inputs, failures>>

-----------------------------------------------------------------------------
(* The chain.  Its order is fixed (chain_position), so it is a set here.    *)

Registered == {"splash", "skeleton", "measure", "cursor_trail", "jelly_cursor", "recorder",
               "key_cast"}

(* Effect::is_active                                                        *)
Active(fx) ==
  [splash |-> ~fx.splash.done, recorder |-> fx.overlay, skeleton |-> fx.skeleton.on,
   measure |-> fx.measure, key_cast |-> fx.keys.on, jelly_cursor |-> fx.jelly.on,
   cursor_trail |-> fx.trail.on]

(* Effect::post_paint: skeleton and measure have none.                      *)
NoRedraw == [e \in Registered |-> FALSE]

WantsUntilDismissed(fx) ==                  \* wrong: no frames for the fade-out
  [NoRedraw EXCEPT !.splash = ~fx.splash.dismissed, !.recorder = fx.overlay,
                   !.key_cast = fx.keys.entries # <<>>,
                   !.jelly_cursor = fx.jelly.state = "animating",
                   !.cursor_trail = fx.trail.lag > 0]

WantsOnce(fx) ==                            \* wrong: the keys ask for no frame
  [NoRedraw EXCEPT !.splash = ~fx.splash.done, !.recorder = fx.overlay,
                   !.jelly_cursor = fx.jelly.state = "animating",
                   !.cursor_trail = fx.trail.lag > 0]

Wants(fx) ==
  [NoRedraw EXCEPT !.splash = ~fx.splash.done, !.recorder = fx.overlay,
                   !.key_cast = fx.keys.entries # <<>>,
                   !.jelly_cursor = fx.jelly.state = "animating",
                   !.cursor_trail = fx.trail.lag > 0]

(* What the effects paint; of a rect, whether it is filled by a flash.      *)
Logo(fx)   == "splash" \in chain /\ ~fx.splash.done
Dot(fx)    == fx.overlay
Outline(entry) == [rect |-> entry.rect, lit |-> entry.flash > 0]
Rects(fx)  == LET entries == fx.skeleton.entries
              IN IF fx.skeleton.on THEN [k \in DOMAIN entries |-> Outline(entries[k])] ELSE <<>>
Cross(fx)  == IF fx.measure THEN pointer ELSE None
Chords(fx) == LET entries == fx.keys.entries
              IN IF fx.keys.on
                 THEN [k \in DOMAIN entries |-> <<entries[k].label, entries[k].repeat>>] ELSE <<>>
Jelly(fx)  == IF fx.jelly.on /\ fx.jelly.state = "animating"
              THEN <<fx.jelly.from, fx.jelly.to>> ELSE <<>>
Streak(fx) == IF fx.trail.on /\ fx.trail.lag > 0 THEN pointer ELSE None

Nothing ==
  [splash |-> FALSE, recorder |-> FALSE, skeleton |-> <<>>, measure |-> None,
   key_cast |-> <<>>, jelly_cursor |-> <<>>, cursor_trail |-> None]

(* Only the splash ever leaves the chain.                                   *)
Picture(fx) ==
  [splash |-> Logo(fx), recorder |-> Dot(fx), skeleton |-> Rects(fx), measure |-> Cross(fx),
   key_cast |-> Chords(fx), jelly_cursor |-> Jelly(fx), cursor_trail |-> Streak(fx)]

-----------------------------------------------------------------------------
(* pre_paint and paint of each effect *)

(* render_frame dismisses the splash when Emacs' surface appears; dismiss   *)
(* and build_elements                                                       *)
SplashPainted ==
  LET dismissed == splash.dismissed \/ (emacsThere /\ ~lastEmacs)
  IN [splash EXCEPT !.dismissed = dismissed,
                    !.done = @ \/ (splash.dismissed /\ splash.age = FadeTime)]

(* The panel is laid out anew; a flash whose time has run out is at 0, and  *)
(* is not painted any more.                                                 *)
SkeletonPainted ==
  [skeleton EXCEPT !.entries = [k \in DOMAIN @ |-> [@[k] EXCEPT !.slot = k]]]

(* drop_expired: from the front, up to the first that is young enough.      *)
KeysPainted ==
  LET young == {k \in DOMAIN keys.entries : keys.entries[k].age < KeyLife}
      first == CHOOSE k \in young : \A j \in young : k <= j
  IN [keys EXCEPT !.entries = IF young = {} THEN <<>> ELSE SubSeq(@, first, Len(@))]

JellyForever == jelly                       \* wrong: no way back to Primed

JellyPainted ==
  IF jelly.state = "animating" /\ jelly.age = JellyTime
  THEN [jelly EXCEPT !.state = "primed", !.age = 0, !.from = None] ELSE jelly

(* CursorTrail::pre_paint, step_physics                                     *)
TrailPainted ==
  [trail EXCEPT !.fresh = FALSE, !.at = pointer,
                !.lag = IF trail.fresh THEN 1
                        ELSE IF trail.at # pointer THEN TrailTime
                        ELSE IF @ = 0 THEN 0 ELSE @ - 1]

(* The effects after the chain has painted them; an inactive one is left    *)
(* alone.                                                                   *)
Painted ==
  [splash |-> IF splash.done THEN splash ELSE SplashPainted,
   skeleton |-> IF skeleton.on THEN SkeletonPainted ELSE skeleton,
   measure |-> measureOn,
   keys |-> IF keys.on THEN KeysPainted ELSE keys,
   jelly |-> IF jelly.on THEN JellyPainted ELSE jelly,
   trail |-> IF trail.on THEN TrailPainted ELSE trail,
   overlay |-> overlayOn]

-----------------------------------------------------------------------------
(* A redraw: render_frame, and how it may fail *)

Latch == lastEmacs' = emacsThere

Keep(fx) ==
  /\ splash' = fx.splash /\ skeleton' = fx.skeleton /\ measureOn' = fx.measure
  /\ jelly' = fx.jelly /\ trail' = fx.trail

(* post_paint: who wants a frame, and who has had its last.                 *)
WantRedraw(fx) == \E e \in chain : Active(fx)[e] /\ Wants(fx)[e]

Retained(fx) == {e \in chain : e = "splash" => ~fx.splash.done}

(* capture_frame: an encoder may fail to start, a recording may have to end.*)
Captured == [idle |-> {"idle"}, requested |-> {"recording", "idle"},
             recording |-> {"recording", "stopping"}, stopping |-> {"stopping"}]

(* finalize: what was stopping has stopped, and a frame may be refused.     *)
Finalized == [idle |-> {"idle"}, requested |-> {"requested"},
              recording |-> {"recording", "stopping"}, stopping |-> {"idle"}]

KeysSwitched(k, on) ==
  IF k.on = on THEN k ELSE [on |-> on, entries |-> IF on THEN k.entries ELSE <<>>]

(* The overlay follows the recorder, key cast the beginning and the end of  *)
(* a recording.                                                             *)
FollowRecorder(fx) ==
  LET active == rec' \in {"requested", "recording"}
  IN /\ overlayOn' = active /\ lastRec' = active
     /\ keys' = IF active # lastRec THEN KeysSwitched(fx.keys, active) ELSE fx.keys

Continuous == rec' # "idle"

RenderFrame ==
  LET fx == Painted
  IN /\ Latch /\ Keep(fx)
     /\ screen' = Picture(fx) /\ lost' = FALSE
     /\ chain' = Retained(fx)
     /\ \E captured \in Captured[rec] : rec' \in Finalized[captured]
     /\ FollowRecorder(fx)
     /\ needsRedraw' = (WantRedraw(fx) \/ Continuous)
     /\ UNCHANGED failures

Fails == failures < MaxFailures /\ failures' = failures + 1 /\ lost' = TRUE

BindFails ==
  /\ Fails /\ needsRedraw' = FALSE
  /\ UNCHANGED <<effectVars, recVars, chain, lastEmacs, screen>>

PaintFails ==
  /\ Fails /\ needsRedraw' = FALSE
  /\ Latch /\ Keep(Painted) /\ keys' = Painted.keys
  /\ UNCHANGED <<recVars, chain, screen>>

SubmitFails ==
  LET fx == Painted
  IN /\ Fails /\ Latch /\ Keep(fx) /\ keys' = fx.keys
     /\ chain' = Retained(fx) /\ needsRedraw' = WantRedraw(fx)
     /\ rec' \in Captured[rec]
     /\ UNCHANGED <<overlayOn, lastRec, screen>>

Redraw ==
  /\ needsRedraw
  /\ RenderFrame \/ BindFails \/ PaintFails \/ SubmitFails
  /\ UNCHANGED <<absorbed, emacsThere, seatVars, messages, inputs>>

(* Time passes *)
Aged(age, limit) == IF age < limit THEN age + 1 ELSE limit
OlderKey(entry)   == [entry EXCEPT !.age = Aged(@, KeyLife)]
FlashFades(entry) == [entry EXCEPT !.flash = IF @ = 0 THEN 0 ELSE @ - 1]

Older ==
  /\ splash' = IF splash.dismissed THEN [splash EXCEPT !.age = Aged(@, FadeTime)] ELSE splash
  /\ keys' = [keys EXCEPT !.entries = [k \in DOMAIN @ |-> OlderKey(@[k])]]
  /\ jelly' = IF jelly.state = "animating" THEN [jelly EXCEPT !.age = Aged(@, JellyTime)]
              ELSE jelly
  /\ skeleton' = [skeleton EXCEPT !.entries = [k \in DOMAIN @ |-> FlashFades(@[k])]]

Clock ==
  /\ Older /\ <<splash, keys, jelly, skeleton>>' # <<splash, keys, jelly, skeleton>>
  /\ UNCHANGED <<needsRedraw, chain, measureOn, trail, recVars, absorbed, lastEmacs, emacsThere,
                 seatVars, screen, lost, messages, inputs, failures>>

-----------------------------------------------------------------------------
(* A message of Emacs: the tick asks for a redraw when it has handled some *)

Message ==
  /\ messages < MaxMessages /\ messages' = messages + 1
  /\ needsRedraw' = TRUE
  /\ UNCHANGED <<chain, overlayOn, lastRec, lastEmacs, emacsThere, seatVars, screen, lost,
                 inputs, failures>>

SetMeasure(on) ==
  /\ measureOn' = on
  /\ UNCHANGED <<splash, skeleton, keys, jelly, trail, rec, absorbed>>

SetCursorTrail(on) ==
  /\ trail' = IF on THEN [trail EXCEPT !.on = TRUE]
              ELSE [trail EXCEPT !.on = FALSE, !.fresh = TRUE, !.lag = 0]
  /\ UNCHANGED <<splash, skeleton, measureOn, keys, jelly, rec, absorbed>>

SetKeyCast(on) ==
  /\ keys' = KeysSwitched(keys, on)
  /\ UNCHANGED <<splash, skeleton, measureOn, jelly, trail, rec, absorbed>>

(* set_rects: entries are used again, in order.                             *)
Entry(k, rect) ==
  IF k \in DOMAIN skeleton.entries THEN [skeleton.entries[k] EXCEPT !.rect = rect]
  ELSE [rect |-> rect, slot |-> 0, flash |-> 0]

SetSkeleton(on, rects) ==
  /\ skeleton' = [on |-> on,
                  entries |-> IF on THEN [k \in DOMAIN rects |-> Entry(k, rects[k])] ELSE <<>>]
  /\ UNCHANGED <<splash, measureOn, keys, jelly, trail, rec, absorbed>>

NoCaret(on) == [on |-> on, state |-> "idle", from |-> None, to |-> None, age |-> 0]
At(caret) == [on |-> TRUE, state |-> "primed", from |-> None, to |-> caret, age |-> 0]
Moving(a, b) == [on |-> TRUE, state |-> "animating", from |-> a, to |-> b, age |-> 0]

SetJellyCursor(on) ==
  /\ jelly' = IF on THEN [jelly EXCEPT !.on = TRUE] ELSE NoCaret(FALSE)
  /\ UNCHANGED <<splash, skeleton, measureOn, keys, trail, rec, absorbed>>

(* JellyCursor::update; an empty rect is None.                              *)
JellyUpdated(caret) ==
  IF ~jelly.on THEN jelly
  ELSE IF caret = None THEN NoCaret(TRUE)
  ELSE IF jelly.state = "idle" THEN At(caret)
  ELSE IF jelly.to = caret THEN jelly
  ELSE Moving(jelly.to, caret)

SetCursorRect(caret) ==
  /\ jelly' = JellyUpdated(caret)
  /\ UNCHANGED <<splash, skeleton, measureOn, keys, trail, rec, absorbed>>

(* request_recording, stop_recording                                        *)
SetRecording(on) ==
  /\ rec' = IF on THEN CASE rec = "recording" -> "stopping" [] rec = "stopping" -> "stopping"
                         [] OTHER -> "requested"
            ELSE CASE rec = "recording" -> "stopping" [] rec = "requested" -> "idle"
                   [] OTHER -> rec
  /\ UNCHANGED <<effectVars, absorbed>>

(* reset_on_workspace_switch; whoever switches asks for a redraw.           *)
SwitchWorkspace ==
  /\ skeleton' = [on |-> FALSE, entries |-> <<>>]
  /\ absorbed' = FALSE
  /\ jelly' = JellyUpdated(None)
  /\ UNCHANGED <<splash, measureOn, keys, trail, rec>>

HandleMessage ==
  /\ Message
  /\ \/ \E on \in BOOLEAN :
          \/ SetMeasure(on) \/ SetCursorTrail(on) \/ SetKeyCast(on) \/ SetJellyCursor(on)
          \/ SetRecording(on)
     \/ \E n \in 0..MaxRegions : \E rects \in [1..n -> Regions] : SetSkeleton(TRUE, rects)
     \/ SetSkeleton(FALSE, <<>>)
     \/ \E caret \in Carets \cup {None} : SetCursorRect(caret)
     \/ SwitchWorkspace

(* Emacs' first frame comes, or the last one goes; the clients' events ask  *)
(* for a redraw.                                                            *)
EmacsSurface ==
  /\ messages < MaxMessages /\ messages' = messages + 1
  /\ emacsThere' = ~emacsThere /\ needsRedraw' = TRUE
  /\ UNCHANGED <<chain, effectVars, recVars, absorbed, lastEmacs, seatVars, screen, lost,
                 inputs, failures>>

-----------------------------------------------------------------------------
(* Input: the handler of winit's events asks for a redraw *)

Input ==
  /\ inputs < MaxInputs /\ inputs' = inputs + 1
  /\ needsRedraw' = TRUE

(* KeyCastOverlay::push                                                     *)
Again(entry) == [label |-> entry.label, age |-> 0, repeat |-> entry.repeat + 1]
Pushed(entries, label) ==
  LET n == Len(entries)
      chord == [label |-> label, age |-> 0, repeat |-> 1]
      longer == Append(entries, chord)
  IN IF n > 0 /\ entries[n].label = label /\ entries[n].age < RepeatWindow
     THEN [entries EXCEPT ![n] = Again(@)]
     ELSE IF n = MaxEntries THEN Tail(longer) ELSE longer

KeyPress(label) ==
  /\ keys' = IF keys.on THEN [keys EXCEPT !.entries = Pushed(@, label)] ELSE keys
  /\ UNCHANGED <<splash, skeleton, measureOn, jelly, trail, absorbed, seatVars>>

PointerMotion(place) ==
  /\ place # pointer /\ pointer' = place
  /\ UNCHANGED <<effectVars, absorbed, held, told>>

(* click_at: the labels are where they were drawn last, a new one still in  *)
(* the corner.                                                              *)
Hit(slot) == {k \in DOMAIN skeleton.entries : skeleton.on /\ skeleton.entries[k].slot = slot}

ClickLabel(slot) ==
  /\ Hit(slot) # {} /\ "left" \notin held
  /\ LET k == CHOOSE k \in Hit(slot) : \A j \in Hit(slot) : k <= j
     IN skeleton' = [skeleton EXCEPT !.entries[k].flash = FlashTime]
  /\ absorbed' = TRUE /\ held' = held \cup {"left"}
  /\ UNCHANGED <<splash, measureOn, keys, jelly, trail, pointer, told>>

Press(button) ==
  /\ button \notin held /\ held' = held \cup {button} /\ told' = told \cup {button}
  /\ UNCHANGED <<effectVars, absorbed, pointer>>

Release(button) ==
  /\ button \in held /\ held' = held \ {button}
  /\ \/ absorbed /\ absorbed' = FALSE /\ told' = told
     \/ ~absorbed /\ absorbed' = FALSE /\ told' = told \ {button}
  /\ UNCHANGED <<effectVars, pointer>>

HandleInput ==
  /\ Input
  /\ \/ \E label \in Labels : KeyPress(label)
     \/ \E place \in Places : PointerMotion(place)
     \/ \E slot \in 0..Len(skeleton.entries) : ClickLabel(slot)
     \/ \E button \in Buttons : Press(button) \/ Release(button)
  /\ UNCHANGED <<chain, recVars, lastEmacs, emacsThere, screen, lost, messages, failures>>

-----------------------------------------------------------------------------
(* Every effect but the splash is made disabled.                            *)
SplashInit   == splash = [dismissed |-> FALSE, age |-> 0, done |-> FALSE]
SkeletonInit == skeleton = [on |-> FALSE, entries |-> <<>>]
MeasureInit  == measureOn = FALSE
KeyCastInit  == keys = [on |-> FALSE, entries |-> <<>>]
JellyInit    == jelly = NoCaret(FALSE)
TrailInit    == trail = [on |-> FALSE, fresh |-> TRUE, at |-> None, lag |-> 0]
OverlayInit  == overlayOn = FALSE

(* Emacs may be there before the first frame.                               *)
Init ==
  /\ needsRedraw = TRUE /\ chain = Registered
  /\ SplashInit /\ SkeletonInit /\ MeasureInit /\ KeyCastInit /\ JellyInit /\ TrailInit
  /\ OverlayInit /\ rec = "idle" /\ lastRec = FALSE
  /\ absorbed = FALSE /\ lastEmacs = FALSE /\ emacsThere \in BOOLEAN
  /\ pointer = (CHOOSE place \in Places : TRUE) /\ held = {} /\ told = {}
  /\ screen = Nothing /\ lost = FALSE
  /\ messages = 0 /\ inputs = 0 /\ failures = 0

Next == Redraw \/ Clock \/ HandleMessage \/ EmacsSurface \/ HandleInput

(* Each redraw asks the host for the next one.                              *)
Fairness == WF_vars(Redraw) /\ WF_vars(Clock)

Spec == Init /\ [][Next]_vars
FairSpec == Spec /\ Fairness

-----------------------------------------------------------------------------
(* Properties *)

TypeOK ==
  /\ {needsRedraw, measureOn, overlayOn, absorbed, lastEmacs, lastRec, emacsThere, lost}
       \subseteq BOOLEAN
  /\ chain \in {Registered, Registered \ {"splash"}}
  /\ splash \in [dismissed : BOOLEAN, age : 0..FadeTime, done : BOOLEAN]
  /\ skeleton.on \in BOOLEAN /\ (skeleton.entries # <<>> => skeleton.on)
  /\ keys.on \in BOOLEAN /\ Len(keys.entries) <= MaxEntries
  /\ jelly.state \in {"idle", "primed", "animating"} /\ (jelly.state # "idle" => jelly.on)
  /\ trail.lag \in 0..TrailTime /\ rec \in DOMAIN Captured
  /\ held \subseteq Buttons /\ told \subseteq Buttons

(* A screen that is as it is due, but that flashes may still be filled that *)
(* have ended since.                                                        *)
Shows(shown, due) ==
  /\ \A e \in Registered \ {"skeleton"} : shown[e] = due[e]
  /\ DOMAIN shown.skeleton = DOMAIN due.skeleton
  /\ \A k \in DOMAIN due.skeleton :
       /\ shown.skeleton[k].rect = due.skeleton[k].rect
       /\ due.skeleton[k].lit => shown.skeleton[k].lit

(* While no redraw is asked for, the screen shows what a redraw would       *)
(* paint, whichever setter was called last and whatever time has done to    *)
(* the other effects; but a flash of skeleton, which has no post_paint, may *)
(* still fill its rect after its time (FlashesEnd below), and a frame that  *)
(* failed leaves the screen behind until the next that comes out.           *)
RestIsTrue == ~needsRedraw /\ ~lost => Shows(screen, Picture(Painted))

(* When the splash is gone and nothing is recorded, the loop comes to rest: *)
(* no effect asks for frames for ever.                                      *)
LoopRests ==
  <>[](rec = "idle" /\ splash.done) => <>[]~needsRedraw

(* When Emacs is there to stay and no frame was lost, the splash goes.      *)
Splashes == screen.splash

SplashGoes == <>[](emacsThere /\ ~lost) => <>[]~Splashes

-----------------------------------------------------------------------------
(* What comments of the source say, and the code does not do: no run checks *)
(* these, and the README says how they come to be false.                    *)

(* What skeleton.rs says of a click on a label: the rect flashes for a      *)
(* while.                                                                   *)
FlashesEnd ==
  \A k \in 1..MaxRegions :
    []<>(k \in DOMAIN screen.skeleton => ~screen.skeleton[k].lit)

(* What effects.rs says of the latch: no client sees a button released that *)
(* it has not seen pressed.                                                 *)
NoLoneRelease ==
  [][\A button \in held \ held' : absorbed \/ button \in told]_vars
=============================================================================
