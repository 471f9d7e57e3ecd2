# emskin in TLA+

emskin is a Wayland compositor that runs as a window of the host desktop and
holds Emacs.  Every Emacs frame is a workspace of the nested desktop; other
programs ("embedded apps") are placed in Emacs windows by messages that the
elisp package sends over a socket.  Around this core emskin synchronises the
clipboard with the host, starts xwayland-satellite on demand, bridges input
methods (Wayland and D-Bus), records the screen and speaks ext-workspace to its
own bar.

This directory holds TLA+ modules that model the parts of emskin in which order
matters, TLC configurations that check them on small instances, and theorems
that TLAPS proves for every value of the constants.  Line numbers refer to the
sources under `src/`; crate paths are shortened (`tick.rs` is
`crates/emskin/src/tick.rs`).

Contents: 1 the system, 2 the modules, 3 the runs, 4 the proofs, 5 where code
and comments disagree, 6 what is not modelled, 7 the plan.


## 1. The system

### Threads and the main loop

The compositor is one thread with a calloop event loop.  An iteration first
dispatches the sources that are ready, in any order (Wayland clients, the winit
window, the IPC listener, channels, the clipboard's and the X sockets' file
descriptors), then calls `event_loop_tick` (tick.rs), whose handlers run in a
fixed order: pending Emacs toplevels, pending apps, ext-workspace requests, dead
workspaces, workspace state, dead apps, dead dialogs, the clipboard, messages
from Emacs, geometries that timed out, input-method events.  Concurrency comes
from the outside: clients that die between two handlers, messages that cross,
the host's events, the bar, the session bus, and two threads: the one that waits
for xwayland-satellite and the one that feeds ffmpeg.

### Components

For each component: its state, what it does, whom it talks to, what is hard, and
what makes it correct.  `PROJECT.json` lists the same parts with their sources.

**Workspaces, frames, apps and mirrors** (state/mod.rs, state/workspace.rs,
state/apps.rs, state/emacs.rs, tick.rs, handlers/xdg_shell.rs,
handlers/compositor.rs, ipc/dispatch.rs).
State: one smithay `Space` per workspace (the active one apart, the others in a
map), the Emacs surface of each, queues of toplevels that wait to be classified,
`AppManager` (workspace, geometry, pending geometry, visibility and mirrors of
each app).
Operations: a toplevel appears, dies, commits; a frame becomes a workspace; a
workspace is activated, removed or dies; an app is registered, placed, hidden,
shown, mirrored, promoted.
Hard: a handler acts on the *active* space, while an earlier element of the same
batch, or another process, may just have changed which one that is; a client
can die between any two steps; Emacs acts on news that is old.
Correct when: every app belongs to a workspace that exists, a frame is in its own
space, nothing dead is shown, Emacs has been told exactly what there is, a
pending geometry is applied in the end, and a dead frame's workspace goes.

**Keyboard focus** (state/mod.rs `FocusState`, input.rs, handlers/layer_shell.rs,
handlers/compositor.rs, tick.rs, ipc/dispatch.rs).
State: the seat's current focus and three override slots that remember a focus
to give back: an Emacs key chord (Prefix), a layer surface (Layer), emskin's own
window having lost the host's focus (Host).
Hard: about a dozen paths move the focus, each with its own condition, and the
slots can be open at the same time.
Correct when: the keys of a chord go to Emacs whatever appears in the meantime,
the host's input method does not stay suspended, and no slot brings back a frame
that is not shown.

**Elisp IPC connection** (ipc/mod.rs, ipc/connection.rs) and **messages**
(ipc/messages.rs, ipc/dispatch.rs).
State: the one live connection with a read and a write buffer, messages kept
until Emacs connects.
Hard: partial writes and reads, a connection replaced while frames are half
written, Emacs dying with commands unread.
Correct when: what Emacs reads is the handshake and then whole messages without a
gap, no message goes to two connections, and commands run once and in order.

**Clipboard synchronisation** (crates/emskin-clipboard, clipboard_bridge.rs,
handlers/selection.rs, tick.rs).
State: smithay's selection, the origin it is attributed to, the backend's offer,
source, echo counter and event queue; with wl_data_device.rs the last input serial.
Hard: both sides copy concurrently and each change is echoed back; with
wl_data_device only while the window has the keyboard.
Correct when: both sides agree once news has arrived, no echo is taken for a
host's copy and no host's copy for an echo.

**Supervision of xwayland-satellite** (xwayland_satellite/watch.rs, mod.rs,
spawn.rs, state/xwayland.rs) and **X sockets** (sockets.rs).
State: Disarmed, Watching or Running; the two sources in the event loop; the
spawner thread; the channel it answers through.
Hard: a process, a thread and the main loop share two sockets.
Correct when: only one of them listens at a time, X clients are answered, and a
satellite that cannot start does not make the loop spin.

**Screenshots and recordings** (recording.rs, winit.rs, capture.rs).
State: a state machine with six states, driven by the two phases of a render; an
encoder with a writer thread, a bounded channel and an ffmpeg process.
Hard: requests arrive in any state, ffmpeg can die or lag, and the main loop
joins the thread; Emacs keeps a variable that has to follow.
Correct when: frames are all accounted for, no ffmpeg is left behind, requests are
served, Emacs' variable is right, and the main loop returns from the join.

**Input method bridge** (state/ime.rs, handlers/seat.rs, winit.rs).
State: who owns the host's input method (nobody, a text_input_v3 client, a D-Bus
client), the owner's caret with a cache per client, what the host window was told.
Hard: the keyboard focus moves at once, while what a D-Bus client says about its
own focus comes later and in any order with what other clients say; the seat has
one cursor rectangle for all text inputs; enabling the host's input method makes
it forget the caret.
Correct when: the caret shown is the owner's own, the owner has the keyboard once
the messages have arrived, text goes to one client, and the host knows.

**D-Bus proxy** (crates/emskin-dbus, state/dbus.rs, main.rs).
A broker in the event loop between Emacs (and the apps) and the session bus,
which relays both byte streams, answers the calls to fcitx5 itself and sends
signals of its own.
State per connection: SASL phase, parse buffers and write queues of both
directions, descriptors not yet given to a message, serials of calls in flight,
the bus name that stands for fcitx5.
Hard: a read or a write stops in the middle of a message, descriptors travel
apart from bytes, and answers and signals have to fit between relayed messages.
Correct when: each peer sees whole messages in order with their descriptors, each
call is answered once, and the signals carry the name the client expects.

**ext-workspace server** (protocols/workspace.rs) and **emskin-bar**
(crates/emskin-bar, handlers/layer_shell.rs).  The server keeps the handles and
the last snapshot of each client and sends what changed once per tick; the bar, a
client in its own process, keeps a list, draws it on a layer surface and turns
clicks into activations.
Hard: both sides know of each other only what has arrived: a click is tested
against what was drawn last, a change comes as several events, the strip that
every Emacs frame leaves to the bar changes with the layer surface.
Correct when: what the bar draws is a whole state and in the end the true one, a
click reaches the workspace that the user saw, and all frames fit the strip.

**Effect chain** (crates/effect-core, state/effects.rs) and **effects**
(crates/effect-plugins).  Seven overlays, each with a small state machine, painted
in the order of the chain.
Hard: a redraw comes only when somebody asks for it: the effect itself while it
moves, or the code that has called its setter; a frame may fail.
Correct when: at rest the screen shows what the state calls for, the loop does
come to rest, and the splash screen goes.

**Emacs package** (elisp/).  The other end of the IPC; what it may send is part
of the modules that receive it.  Its own agents (which geometry and which focus
it asks for, when) are not modelled.

**The rest.**  Event loop and host window (main.rs, winit.rs), rendering
(mirror_render.rs, child_frame_render.rs, surface_snapshot.rs), frame capture,
pointer, cursor and grabs, emez, the host compositor of the end-to-end tests
(crates/emez): see section 6.

### Who calls whom

    clients --- toplevels, commits, deaths ---> Workspaces <-- Activate/Remove -- Bar
                                                  |   ^
        WindowCreated/Destroyed, Workspace...     |   |  set_geometry, switch_workspace, ...
                                                  v   |
                        IpcServer: frames, pending messages, connections
                                                  |   ^
                                                  v   |
                                                  Emacs ---- emskin-record ----> Recorder
                                                  |                               (ffmpeg)
    host --- keys, clicks, focus ---> Focus <-----+ prefix_done, set_focus, ...
    host <-- selections, echoes ---> Clipboard <--- copies --- clients
    Focus --- the keyboard ---> Ime <-- FocusIn/Out, carets --- DbusProxy <--- clients, bus
    host <--- allowed, area --- Ime --- commits as signals ---> DbusProxy
    Emacs, keys, pointer ---> Effects ---> the screen <--- Recorder
    X clients ---> Xwls (sockets, thread, satellite)

`Focus` EXTENDS `Workspaces` and gives each of its handlers what it does to the
focus.  `DbusProxy` INSTANCEs `LocalBus`, the abstract bus it implements.  The other
modules share no state with these beyond what is abstracted to a choice
(`Clipboard.ipcConnected` for the IPC server, the messages of Emacs in `Recorder`
and `Effects`, the moves of the keyboard in `Ime`, the workspaces that come and go
in `Bar`).


## 2. The modules

Each module names in its variables' comments the field it models, and
`PROJECT.json` ("map") names the lines of every definition.  A definition marked
`\* wrong:` is a variant with a plausible mistake; replacing the right one by it
must break a property ("mutants").

### Workspaces

One action per handler, or per element of the batch that a handler loops over;
the variable `phase` says which handler of the tick is next.  In phase
"dispatch" clients act (`NewToplevel`, `ToplevelDies`, `Commit`), the screen is
drawn (`Redraw`) or the loop is stopped; `BeginTick` starts the tick.

| action | code |
|---|---|
| `NewToplevel` | xdg_shell.rs `new_toplevel`: claims the first toplevel as Emacs, else queues |
| `ToplevelDies`, `Commit` | death of a surface; compositor.rs `commit`, a pending geometry takes effect |
| `Redraw` | winit.rs `post_render`, the `refresh()` of the active space |
| `ChildFrame`, `NewFrame` | tick.rs `process_pending_toplevels` |
| `SkipOrFloat`, `RegisterApp` | tick.rs `process_pending_app_toplevels` |
| `ProtocolActivate`, `ProtocolRemove` | tick.rs `process_workspace_actions` |
| `DetectDeadWorkspaces` | tick.rs `detect_dead_workspaces` with `destroy_workspace` and the fallback |
| `RefreshWorkspaceState` | protocols/workspace.rs `refresh` |
| `CleanupDeadApps`, `CleanupDeadDialogs` | tick.rs, the same names |
| `Ipc...` | ipc/dispatch.rs, one action per verb |
| `Timeouts` | tick.rs, `collect_timed_out` and what it maps |

Abstractions: a Space is a set (no stacking, no coordinates); a geometry is there
or not; the `u64` that `AppManager` allocates is the window itself, so an id is
never reused by construction; an output always exists; whether a toplevel has a
parent, and whether it `wants_floating`, is a free choice, made when it is looked
at.  Emacs (the constant `Verbs`) may send any message about any window or
workspace it was ever told of, in any order: more than the elisp does.

### Focus

`Workspaces` and the keyboard.  Each handler of `Workspaces` occurs once, in
conjunction with its effect on the focus: the auto-focus of new apps and dialogs,
the fallbacks after a death, and `FollowWorkspace`, which is `switch_workspace`
forgetting every slot.  `KeyPrefix`, `Click`, `HostLeave`, `HostEnter` are
input.rs and winit.rs; `NewLayerSurface`, `LayerCommit`, `LayerDestroyed` the
layer-shell handlers; `IpcPrefixDone`, `IpcPrefixClear`, `IpcSetFocus` the
messages.  smithay's `current_focus()` goes on returning a surface that died,
which tick.rs:647 takes into account: this is external and modelled as used.
Popups and their grabs are left out, and a layer surface counts as a client of
its own.

### IpcServer

The wire between emskin and Emacs at the level of frames.  A frame is two units,
header and payload, so both a read and a write can stop inside a frame.  `Accept`,
`Send`, `RecvAll` and `Flush` are the four entry points of `IpcServer`, with all
the errors they can meet; Emacs connects (also a second time, with or without
leaving its first connection), reads, writes, closes.  The socket buffers hold
`Cap` units.

### Clipboard

Host, backend, bridge and inner clients, for one selection.  The two queues
`toHost` and `toUs` hold what is on its way, so both sides can act at any moment
in between.  `Dispatch` is the backend's event handler, `TakeEvents` the tick's
loop over the events (`inject_host_selection`), `ClientCopy` and `ClientClear`
are `new_selection`.  `Init` takes one of the backends in the
constant `Backends`, of three.  data_control.rs and x11.rs
differ in how an echo is recognised.  For wl_data_device.rs the host's keyboard
comes and goes (`FocusEnters`, `FocusLeaves`): without its serial a request is dropped
(`MayRequest`), without the keyboard the host may refuse one (`Refuses`) and nothing is
heard (`Deaf`), and with the keyboard comes the selection, whoever's it is.  The history
variable `crossed` says that one side has acted, or the keyboard has moved, before the
news of the other had come, or that our own selection was told again.  Copies are
numbered; the transfer of the bytes is left out.

### Xwls

`Fire` is `on_socket_connect`, with both the stray callback (the second socket of
the same poll) and the spawn that can fail; `OnRearm` drains the sockets and arms
again; `ThreadSpawns` and `ThreadAsks` are `spawn_and_wait`.  Cloning a
descriptor, registering a source and starting a thread may fail, `MaxFaults`
times.

### Recorder

`Handle` is a message of Emacs; `Render` and `Finalize` are the two phases of a
render (`capture_frame`, `finalize_frame`), between which the GPU copies, and
either can fail.  `Writer` is the thread, `FfmpegDies` what happens to its
process; `Finished` and `DropEncoder` are the main loop waiting for the thread.
Emacs is modelled with its variable `emskin-record` and the two queues between
the processes.  The overlay and the key-cast effect follow the state and are left
out.

### Ime

The owner and everything that sets it.  `FocusMoves` and `SwitchWorkspace` are
`on_focus_changed` and `reset_on_workspace_switch`; `SetOwner`, `ReportTip`,
`ReportDbus` the helpers of the same names; `Tick` and `OnFcitxEvent` drain the
broker's events (`draining`), `PollTipFreshness` and `SettleEnds` are the poll of the
tick and the 300 ms after a FocusIn; `Redraw` is `sync_to_winit`.  The clients are the
environment: those in `TipApps` bind text_input_v3 at any time and share the seat's
one rectangle, those in `IcApps` learn of the keyboard through `inbox` and answer
through `pipe`, from which `PumpClient` moves calls to the broker's `events`.  A rectangle
is a client and a number, so that a property can ask whose it is.  The enter and
leave that smithay sends to a text input are not modelled per client, only which
surface has the focus (`tiFocus`).

### DbusProxy and LocalBus

One connection of the broker.  A message is two pieces, so that a read, a write,
a buffer or a socket can hold a part of one; descriptors are carried by the first
piece and by the packets of the write queues.  `Accept`, `PumpClient`, `PumpUpstream`,
`Emit`, `DrainEvents` and `PeerClosed` are the entry points of `DbusBroker`;
`HandleFrame` and `Observe` say what it does with a message of each side, `Send` and
`Flush` are `try_flush` with a socket that takes `Capacity` pieces.  The peers are a
D-Bus client (handshake, calls of the six kinds that the proxy tells apart) and a
bus with an owner of fcitx5's name that changes.  `LocalBus` is what all this
promises, without sockets: a bus on which some calls are answered by emskin.  The
refinement mapping is the sequences of messages that the two peers have sent and
fully received.

### Bar

The server's side (`Refresh` with `Update` for what a handle is told, `HandleRequest`,
`ClientGone`, `Cleanup`), the layer map with the strip of each frame (`Relayout`), and
the bar's (`HandleEvent`: workspace events, `done`, `configure`, a press).  Two queues
lie in between.  A drawing is the sequence of its tiles; the user sees the one
that was committed last.  `Laid` puts the tiles side by side from the left, as draw does: how
wide each one is depends on the workspace and its name (`PillWidth`, any function), so a new
name moves the tiles behind it.  `Click` is a press on a pixel of a tile; the press carries the
pixel and the surface, and for the property what was shown and which tile was meant; `Hit` looks
for the pixel among the entries as they were drawn last.  `Sorted` is sort_by_key by what it does,
the place of an entry being the number of ids up to its own: ids are distinct.  Workspaces come and
go as in `Workspaces`: a frame that dies is `dead`, and `DetectDead` destroys the workspace if it is
not the active one, and otherwise falls back to another, so that it goes in the next tick.
`MCBar` gives names their widths.

### Effects

The chain, the seven effects, and the render loop.  `Redraw` is one redraw: what
`pre_paint` and `paint` make of the state (`Painted`), what is seen (`Picture`), who
wants the next frame (`Wants`), who is removed (`Retained`), or one of the three
places where a frame fails.  `HandleMessage` and `HandleInput` are the setters with
their callers, `Clock` lets time pass.  `screen` is what the last frame showed.  What
the effects draw is reduced to what tells states apart: the chords of the
key-cast, the rectangles of the skeleton, two carets of the jelly cursor.  Which effect covers
which is left out: `chain_position` fixes it once, so the chain is the set of those left in it.

### History variables

`winTold`, `wsTold` (the last message sent about an id), `crossed`
(two copies of different sides have crossed), `handled`, `fed`, `lost`, `stalled`,
`apart`, `stuck`, `spawns`, `asked`, `said`, and the tiles that a press carries and the one it
`saw`, record what happened for the properties and decide nothing.  Four of them also weaken a property, which
says so: `crossed` (two people copying at the same moment have no right order to
agree on), `stalled` (the renderer failed), `apart` (the situations, listed at `Watch`
in Recorder, in which Emacs is not told what it would have to know), and `lost` in
Effects (the last frame failed).


## 3. The runs

| run | what it asks | bounds |
|---|---|---|
| `workspaces_safety` | Is every app, frame and window where the others think it is, whatever dies or switches in between? | 3 Emacs toplevels, 1 app, 3 workspaces, batches of 2 |
| `workspaces_mirrors` | With mirrors and promotion: does Emacs know the apps, do pending geometries and dead frames go away? | 2 Emacs toplevels, 1 app, 1 mirror, 2 workspaces |
| `focus` | Do chords, the input method and the host's focus survive switches, deaths, new windows and layer surfaces? | 2 frames, 1 app, 1 layer surface, 2 workspaces |
| `ime` | Whose caret is shown, who owns the input method once all is quiet, and does the host know? | 2 text-input clients, 1 D-Bus client, 3 moves, 2 carets, 1 exit |
| `dbus_proxy` | Do the peers see what `LocalBus` allows, do calls arrive, whose name do signals carry? | 2 calls of 4 kinds, 2 messages of the bus, 1 commit, sockets and reads of 3 pieces |
| `bar` | Does the bar show whole and in the end true states, do clicks hit, do frames fit? | 3 workspaces, 3 changes (the bar's end is one), 2 clicks, names of 2 widths |
| `effects` | Is the screen right at rest, does the loop come to rest, does the splash go? | 3 messages, 2 inputs, 1 failed frame |
| `ipc_server` | Is each stream well formed, is nothing sent or run twice, does everything arrive? | 2 connections, 2 messages each way, buffers of 3 units, one message too large |
| `clipboard` | Do host and clients agree in the end, and does every host copy arrive? | 5 copies, clears or returns of the keyboard; data_control and wl_data_device |
| `xwls` | One listener, no busy loop, no X client that hangs? | 3 X clients, 2 faults |
| `recorder` | Is no ffmpeg left behind, are requests served, Emacs informed, the main loop released? | 3 messages, 2 frames, channel of 1 |
| `find_x11_suppress` | section 5 (expected to fail) | 4 copies or clears, X11 |

**Why these bounds.**  *Workspaces:* three frames are the least for which the
fallback of `detect_dead_workspaces` has a choice (the active frame and another
die, a third lives), and a batch of two is the least in which the first element
changes the active space for the second.  Toplevels of the same client are
symmetric where no liveness is checked (`workspaces_safety`, `focus`).  One app is
enough, since no handler relates two apps.  Workspace ids grow and are never
reused, so `MaxWs` bounds the frames of one run.  *Focus:* `NoForeignFrame` needs two
frames; it is checked with batches of one, because two frames in one batch leave
the second in two Spaces (section 5), where it can be clicked: that this click is the only
way is a theorem (`ForeignFramesStayOut`), for any batches.  One layer surface
is enough to overwrite the Layer slot: it commits again after a click has moved
the keyboard away.  *Ime:* two text inputs share the seat's rectangle, one of
them with the caret of the other; three moves go away from a client, back to it,
and away again while its first answers are still under way.  *DbusProxy:* three
pieces are a message and a half, so every cut occurs in reads, in writes and in
full sockets; two calls are one that is answered here between one that is not; a recvmsg that
ends within a message with descriptors is left out (`SplitsFds`, `PacketsAreMessages` in section 5).
*Bar:* three workspaces leave two when one goes, so the bar is there before and
after; three changes make a layer surface, destroy it and make a second one (`MaxLayers` is never
reached).  The wider name is wider than the other and the gap together, so that a tile which is
renamed reaches into the next one's old place.  *Effects:* three
messages switch an effect on, feed it and switch it off or the workspace; two
inputs are a press and a release, or two keys; every time limit is one or two
ticks, so that each can end before, at and after any other event.  *IpcServer:* a
buffer of three units is smaller than two frames and not a whole number of
frames, so every cut occurs; two connections are the least for a replacement.
*Clipboard:* five operations allow three copies of one side to overtake two of the
other, or the keyboard to come twice with copies before, between and after.  *Xwls:* three clients keep one waiting while one is served and one is
drained; two faults are a fault and a failed recovery.  *Recorder:* three messages
reach every state from every other; a channel of one is full with one frame
behind; two frames are the one being mapped and the one just captured.

**Deadlock** is not checked: every module has states in which nothing more need
happen (the compositor has stopped, or the bounded supply of windows, messages,
copies or clients is used up).

**Fairness.**  `Workspaces`: weak fairness of the tick, since `post_render` asks
the host for the next redraw on each redraw, so iterations follow each other;
strong fairness of a timeout that includes a given window, since time passes and
a pending geometry is some day 100 ms old.  Clients, Emacs and the bar promise
nothing, so `PendingResolves` and `DeadFrameLeaves` assume that somebody who
could prevent the outcome for ever (Emacs restarting the 100 ms, the bar
activating a dead workspace again and again) stops.  `IpcServer`: accept, receive
and flush are in every tick; Emacs runs its process filter while the connection
is open.  `Clipboard`: the event loop and the host handle what they are sent.
`Xwls`: the main loop and the thread are scheduled and a satellite that runs
accepts; it need not exit.  `Recorder`: the main loop, the thread and Emacs'
filter run; damage is *not* fair, so `RequestsServed` holds only because the code
keeps the loop warm (`wants_continuous_frames`).  `Ime`: the tick drains what the
broker has, the poll runs in every tick, and a client handles the keyboard events
it gets (strong fairness, as the tick and the dispatch take turns); nobody need
redraw, bind or report.  `DbusProxy`: emskin reads when a socket is readable, the
client and the bus read what they get and the client ends its handshake; nothing
writes out a queue, because nothing in the code does (section 5).  `Bar`: the loop
ticks after each dispatch and reads what clients have sent, the bar handles its
events; users and workspaces promise nothing.  `Effects`: each redraw asks the host
for the next one (winit.rs) and time passes.

**What the runs show**, beyond the section titles: `DeadNeverShown` depends on the
order of the cleanups in the tick; `CounterSettles` holds for every interleaving
although each single suppression may hit the wrong event; `NoBusyLoop` needs the
draining in `on_rearm`; `CompositorThaws` needs a writer that throws frames away
after a failure.  `CaretIsOwners` needs the snapshot that `set_owner` takes of the
seat's rectangle: without it the next owner inherits the caret of the last.
`OwnerSettles` holds although `on_focus_changed` and D-Bus events overwrite each
other's owner in between.  `ImplementsLocalBus` shows that a write that stops in a
message, a commit in that moment and a read that ends in the next one still give
whole messages in order.  `FramesAreWhole` holds because the bar applies events
only at `done`; `EmacsFits` because a new frame is configured with the area as it is
and `relayout_emacs` goes through all workspaces.  `RestIsTrue` needs each setter's
caller to ask for a redraw, and an effect that changes with time to ask for it in
`post_paint`; the skeleton does not, so the property lets a flash that is over stay on the
screen (section 5), but not one that has begun be missing.  `ClickHitsSeen` makes the same kind
of exception (`Moved`): without the part about widths TLC finds a click on the second tile that
activates the first, because the first was given a wider name after the user looked.


## 4. The proofs

TLAPS checks every proof; nothing is assumed but the constants' assumptions in
the modules (each an ASSUME that TLC evaluates too).  Proofs are in `...Proofs`, those
about Workspaces in `FocusProofs`, which rests on them.

| theorem | says |
|---|---|
| `TypeCorrect` (Workspaces) | the type invariant, with the bookkeeping of ids |
| `EmacsViewCorrect` | Emacs has been told exactly the apps and workspaces that exist |
| `AppsAlwaysHaveWorkspace` | every app belongs to an existing workspace, if no mirror is promoted |
| `PendingGeometriesOnTop` | a geometry waits for a commit only on top of a committed one |
| `AppsGoWithCause` | an app leaves the table only when it died or its workspace went |
| `DestroyedStaysDestroyed` | an id that Emacs was told is destroyed never comes back |
| `FramesStayInSpace` | a live frame is in the Space of its own workspace |
| `ActiveFrameStaysAlive` | the workspace fallen back to has a live frame, or the loop stops |
| `DeadStayHidden` | from the cleanup of a tick to its end no Space shows a dead window |
| `FramesInOneSpace` | only a frame that waited behind another in the same tick can come to be in two Spaces |
| `FocusImplementsWorkspaces` (Focus) | every behaviour of Focus is one of Workspaces, so what is proved there holds here |
| `ImeComesBack` | the input method is suspended only inside a chord; inactive slots are empty |
| `ChordKeepsKeyboard` | in a chord no toplevel but the active frame has the keyboard |
| `ForeignFramesStayOut` | only a click on a frame left behind in the active Space can bring the keyboard to a frame not shown |
| `CaretsAreOwners` (Ime) | the caret shown was reported by the owner |
| `TheOwnerSettles` | once every message has come, the owner is the client with the keyboard |
| `TextGoesToKeyboard` | then text goes to that client and to no other |
| `HostFollowsBridge` | each redraw leaves the host with what the bridge wants |
| `FramesFitTheBar` (Bar) | every Emacs frame leaves the bar the strip it has |
| `BarDrawsWholeStates` | every frame the bar draws has exactly one active workspace |
| `BarClicksHit` | whatever the widths, a click activates the workspace that was shown there, unless one up to it has gone or is drawn with another width |
| `EchoesComeBack` (Clipboard) | whatever the backends, on data-control hosts the echo counter is zero whenever nothing is on its way |
| `BothSidesAgree` | without X11 hosts, once all news has come and nothing crossed, each side's selection that is the other's is still so there |
| `NothingSwallowed` | before copies cross, no other application's copy is taken for an echo (no X11 hosts); on data-control hosts, at no time unless an echo is still to come |
| `SocketsHaveOneListener` (Xwls) | one listener on the sockets; Running always has somebody who ends it |
| `OneSpawnPerClient` | no more satellites are started than X clients came |
| `FramesAndEncoders` (Recorder) | no ffmpeg is left behind, and every frame is accounted for |
| `EmacsKeepsUp` | unless `apart`, emskin-record is what the recorder does once all messages have come; while no start crosses the news of an end, no recording runs that Emacs does not show |
| `ScreenIsTrue` (Effects) | at rest the screen shows what a redraw would paint, but for flashes of skeleton that are over, unless the last frame failed |
| `EffectsTypeCorrect` | the type invariant of the effects, the chain and the render loop |
| `EmacsCanParse` (IpcServer) | every connection carries the handshake and whole frames, in order, none twice |
| `EmacsIsObeyed` | commands run once, in Emacs' order, none of an old connection after a new one's |
| `SocketTypeCorrect` | the type invariant: among it, no socket holds more than its capacity, and no byte is kept of a connection that is gone |

**The arguments.**

*TypeCorrect.*  Types alone are not inductive: `alloc_id` needs a bound, and
`frame[activeId]` a workspace.  `IdsInOrder` adds that ids in use are below
`next_id`, that the active id is not in the inactive map, and that every queued
toplevel still has an id to come.

*EmacsViewCorrect.*  Both halves are inductive on top of `TypeInv` (a new frame's id
must be one that no workspace has): of all the handlers only `RegisterApp`,
`NewFrame`, `DetectDeadWorkspaces`, `CleanupDeadApps` and `ProtocolRemove` touch
the tables, and two lemmas say that the others leave them and the messages alone.

*AppsAlwaysHaveWorkspace* is inductive on top of `TypeInv`; the hypothesis
`NoPromotion` (`promote_mirror` is not in `Verbs`) is what the elisp keeps: it
never sends that message.  Without it the property is false (section 5).

*PendingGeometriesOnTop* is inductive on top of `TypeInv`: a geometry becomes pending
only where one is committed, and every step that takes back the committed one
(registering, migrating) takes back both.

*AppsGoWithCause* and *DestroyedStaysDestroyed* speak of steps.  For the second one
needs to know where news comes from: `NewsOfTheNew` says that a toplevel waits at
most once and before Emacs has heard of it, and that ids at or above `next_id` have
never been used, so that no step announces an id that has been announced before;
and with `EmacsViewCorrect` what is destroyed is in no table any more.

*FramesStayInSpace.*  A new frame is mapped in the active Space and moved to its own
when its workspace is made; what could take it out again is a step about something
else.  So `CastInv` says that nothing plays two parts: frames, toplevels that wait to
be a frame, those that wait to be an app, and apps are apart, each has been born, and no
toplevel waits twice (`Roles`); and before the first toplevel there is one workspace and
no frame, afterwards no workspace without one (`Started`).

*ActiveFrameStaysAlive* is about one tick: detect_dead_workspaces looks at the frames of all
workspaces before it falls back to one, and nothing dies in the middle of a tick.
*DeadStayHidden* needs that messages and timeouts map apps only and that cleanup_dead_apps
has left no dead one in the table (`AppsCleaned`).

*FramesInOneSpace.*  That no frame is in two Spaces is false: of two frames asked for between two
ticks, the second is removed from the Space of the workspace just made for the first, and stays
in the one it was mapped in (section 5).  The theorem says that there is no other way.
`SplitsBatchesOnly` is about every step, for batches of any size: a toplevel that waits gets out
of place (`Strays`) only when `NewFrame` makes a workspace of another in front of it, and a frame
comes to be in two Spaces only when `NewFrame` takes one that strays.  So as long as no two
toplevels wait at once (`Len(pendingEmacs) <= 1`, which nothing in the code guarantees) each frame
is in one Space.

*ChordKeepsKeyboard.*  The property looks at the focus; what brings it there is in the slots.
`ChordSlots` says it of the three ways: the focus itself, what the host's return restores, and
what a layer surface gives back when it has the keyboard now or will have it when the
host returns.  `HostAway` and `BeforeEmacs` exclude a host that is in and out at once and a
toplevel before the first.  That emacs_focus_target() finds the frame is `FramesStayInSpace`.
*ForeignFramesStayOut* stands on the same invariant.  Of all the steps, for batches of any size,
only a click can break `NoForeignFrame`, and only one on a frame that is in the active Space and
belongs to another workspace (`Foreign`).  So the property holds as long as each frame is in one
Space.

*CaretsAreOwners.*  The invariant of ImeProofs adds to the types that the cache holds
under each client only that client's carets (`OwnRects`), and that a rectangle which
differs from the snapshot of a text-input owner is the owner's (`NewsIsOwners`): every
step that makes an owner takes the snapshot, and every step that changes the
rectangle is made by the client that has the text input's focus.  The lemmas about
`SetOwner`, `ReportTip` and `ReportDbus` are what every handler's step rests on.

*TheOwnerSettles.*  A client's focus calls go through four queues, and the state is
right only when all are empty.  `Heard` says what holds on the way: the last word about
a client, in the queue that is nearest to the client and says anything, agrees with the
keyboard; if none does, an owner with that client's input context has it.  Each step moves the
last word from one queue to the next or adds a newer one; the bridge's focused surface is the
seat's, and a tick places its events where the keyboard is (`KeysAgree`).
*TextGoesToKeyboard* follows from it.  *HostFollowsBridge* needs that what the bridge
remembers of the host is what the host has (`HostKnown`), or its comparison would
skip a call that is due.

*FramesFitTheBar.*  `EmacsFits` is inductive: the strip of a live frame changes only
with the zone, for all frames at once, and a new frame starts with the zone as it
is; only after the bar's end can they differ (section 5).

*BarDrawsWholeStates.*  The bar hears of a refresh in pieces and may draw before it has heard
them all.  A *view* is what it knows after some of the events on their way: the workspaces it
knows, those of them that are active, all it has ever heard of, and whether it is in the
middle of a batch.  `InStep` says that a sequence of views leads, one event at a time
(`Hears`), from what the lists hold now (`Now`) to what the server's snapshot says (`Whole`),
and that in every view in which the bar may draw, at a `done` or at a configure outside a
batch, one workspace is active (`InOrder`).  A refresh extends the sequence: what
refresh_instance says is true, and it says all that has changed (`OneUpdate`, `UpdatesTold`), so
the view at the end of the batch is the state of the moment (`UpdatesPath`).  Ids grow, and
all_ids is in their order, so what is announced is newer than all the bar has heard of
(`IdsGrow`, `Later`); therefore the new entries come after the old ones and sort_by_key finds
them sorted.  What the folds over all workspaces and all events compute is
proved by least counterexample (`AllNumbers`).

*BarClicksHit* adds what was drawn where.  Since ids start at 1 and the lists ascend, the k-th tile
has an id of at least k, and exactly k as long as the bar has been told of none up to it that
has gone; `SeenAt` says so of every frame on its way to the screen, on it, and kept with a press,
and survives a workspace that goes, since ids are not used again (`Mentioned`).  Each of these
frames is laid out from the left without gaps or overlaps other than draw's (`Tiled`,
`TilesApart`), and the entries remember their places from one of them, or have none yet
(`Placed`, `Drawn`).  So the frame that was seen and the one that was drawn last have, up to the
tile that was pressed, the same workspaces; if these are as wide as they were, their
tiles are where they were (`SameEdges`), and the pixel is in the one that was meant.

*FocusImplementsWorkspaces* is a step simulation with the identity as refinement
mapping: every action of Focus either contains an action of Workspaces or leaves
its variables alone.

*EchoesComeBack.*  `CounterSettles` speaks of quiet states only.  What every step
preserves is `EchoesOwed`: the counter never exceeds the requests on their way to
the host plus the echoes on their way back.  A request becomes an echo, an echo
that arrives lowers the counter unless it is zero, and another event can only
lower it.  On X11 this is false, as `find_x11_suppress` shows in another way; with
wl_data_device an echo may never come, so the invariant speaks of data-control only.

*BothSidesAgree.*  `Agree` holds at rest; `AgreeInv` says what holds on the way there, as long
as nothing has crossed.  A word is news of the host that is no echo of ours.  The counter is
the number of requests and echoes on their way (`Counted`); while a request is on its way the
host says nothing new, and the last request is about what is inside now (`Asked`); every
word is about the host's selection of now (`Told`), and no echo or `cancelled` is behind it
(`Ordered`), so the counter is zero when a word arrives and what is inside at the end is what
the last word said (`Taken`, `Echoing`).  A `cancelled` for our newest source comes only after
its echo (`Cancels`).  A tick handles any number of events: what they make of the
bus is found by induction over their number (`AllNumbers`, `EventsHandled`).  The hypothesis `NoX11`
(no host is X11) is needed: the X11 backend breaks the counter (section 5).
*NothingSwallowed* has two parts.  Before copies have crossed, the step property follows from the
same invariant.  After that it is false; but from `EchoesOwed` follows that a data-control
backend takes another's copy for an echo only while a request or its echo is still on its way.

*Xwls.*  The invariant `Phases` says who holds the sockets: the state is Running while
the thread, the satellite or a Rearm is there, at most one of them, and then
nothing is in the event loop.  For the spawn count, the client that woke a thread
stays among those who came, and has been served or refused before the sockets
are watched again (`Counted`).

*Recorder.*  `NoOrphan` is inductive with one addition, that an encoder that is being
dropped has left the state already (`Dropping`); for `FramesCounted` one needs
that the channel and the thread's hand hold frames, so that taking one from the
channel adds exactly one to the hand.  *EmacsKeepsUp*: `Follows` says that the last
message on its way decides: news of an end is heard before any wish that was sent after
it, the last wish on the way is what emskin-record shows, with no wish on the way it shows what
the recorder does, and no news of an end is behind the start of a new recording.  `Heard` is all
of this but one half, that Emacs shows no recording that there is not.  Every step keeps `Heard`
unless it makes a start cross the news of an end; only the other half needs, in addition, that no
recording ends unreported.

*ScreenIsTrue.*  `RestIsTrue` is not inductive: that a frame came out right says nothing about
the time after it.  (What it compares is `Shows`: everything as it is, but a rectangle of the
skeleton may be lit on the screen and not be due any more.)  `Rest` says why nothing moves until the next redraw is asked for: the
splash is done, no dot, no chord, the jelly cursor does not move, the trail is settled where
the pointer is, and the screen shows this.  A frame that comes out and asks for no other
leaves `Rest` (`FrameRests`), since each of these would have asked in post_paint; the clock
keeps it, since what ages is not there; and at `Rest` a redraw paints the same again
(`RestRepeats`).  A frame that failed is excluded, as in the property.

*IpcServer.*  Neither property is inductive.  `Arrivals`: connections are accepted in the
order they were made in, the live one is the last that was, and one that waits has
exchanged nothing.  `Waiting`: only while there is no connection do messages wait, and
they are the last that were sent.  With these, `Streams` follows what was and will be
read on each connection: it is framed, newer than that of every earlier one and, on the
live one, complete up to the last message sent.  For the other direction, what Emacs wrote
and is not read, or read and not run, is an end of all it wrote, and begins right after
the last command that ran (`Inbound`); as recv_all takes whole frames off its front and a
connection that goes takes its read buffer along, no command runs twice or out of order.

**Only model-checked:** everything about liveness and fairness (TLAPS has no ENABLED). The
passing run of Clipboard has data_control and wl_data_device, and so have the theorems on
agreement; X11 hosts are only in `find_x11_suppress`, which fails. So are, in DbusProxy,
`SenderSettles` and the refinement of `LocalBus`, where what is framed is computed by
recursion over the bytes that have come: the theorems on induction take an operator, which
no prover here can instantiate, so each such fact needs a proof by least counterexample
like the one in Clipboard, and has none yet. The type invariants
of Workspaces, Focus, Ime, IpcServer and Effects are theorems; those of the other modules say what
their variables hold, and the proofs take from them what they need.


## 5. Where code and comments disagree

One run is expected to fail and shows one disagreement:

* `find_x11_suppress`: on X11 the echo is recognised by its owner before the
  counter is looked at (x11.rs:312), so the counter swallows another
  application's copy (docs/clipboard-flows.md:88).

Others were met while modelling.  Each of these is stated in its module as a
property that no run checks:

* `HideUnmapsEverywhere` (dispatch.rs:227 "Unmap from whichever space it's in"):
  only the Space of `workspace_id` is left; a commit or timeout can have mapped
  the window in another.
* `HiddenStaysUnmapped` (state/mod.rs:725): a geometry still pending when Emacs
  hides an app maps it again, by a commit or after 100 ms.
* `FrameInOneSpace` (workspace.rs:1 "each Emacs frame = one workspace"): of two
  frames in one batch, the second is unmapped from the Space the first has just
  activated, and stays in the old one as well.
* `DestroyedMeansFrameClosed` (messages.rs:188): a bar's Remove destroys a
  workspace whose frame is alive.
* `DeadDialogLosesFocus` (tick.rs:637-642): the redraw's `refresh()` may have
  removed the dead dialog before `cleanup_dead_dialogs` looks, and then the focus
  is not moved.
* `NoFocusWhileHostAway` (input.rs:396): new windows, layer surfaces and
  `set_focus` take the focus all the same, and it is overwritten on return.
* `NoClobberBeforeIpc`: a copy waits for Emacs (handlers/selection.rs:65-73), a
  clear does not.
* `NoSelfInjection`: the echo counter (data_control.rs:262) is used up by the *next*
  event, not by the echo (comment: data_control.rs:188-190), and with a host's copy
  in between the echo of a client's own copy is injected as a host selection.  On a
  wl_data_device host it takes only a copy inside, the keyboard leaving the window and
  coming back: the host tells of the selection again, nothing is counted for it, and
  what was copied can no longer be pasted inside (wl_data_device.rs:60-61, 266).
* `ReceivedIsDispatched`: `recv_all` (ipc/mod.rs:96) gives up the messages it has read
  when the end of the stream follows them in the same call, though its comment
  (ipc/mod.rs:85) promises "all complete incoming messages".
* `NoRecordingKilled`: a screenshot requested during a recording drops the
  encoder, which kills ffmpeg (recording.rs:465), though
  elisp/emskin-record.el:84-85 says that both work together.
* `TextOnce` (ime.rs:46 "mutually exclusive (one owner at a time)"): while FocusIn or
  FocusOut is on its way, a text input with the keyboard and a D-Bus owner get text
  both.
* `QueueDrains` (proxy/mod.rs:840 "Wired to a WRITE-interest calloop source"): nothing
  calls `flush_upstream_out` and `flush_client_out`; what a full socket left behind
  waits for the next traffic.
* `HandshakeEnds` (proxy/mod.rs:202, broker/state.rs:14): if a client sends BEGIN
  without waiting for the answer to AUTH (`Pipelines`), the proxy takes the answer
  for a message; one that is too short for a header stays in the buffer.
* `PacketsAreMessages` (proxy/mod.rs:56): a write that takes the bytes of a packet in
  part, or a call answered locally that carried descriptors, separates the two.
* `FlashesEnd` (skeleton.rs:7 "clicking a label flashes the corresponding rect's border for ~800 ms"): the skeleton asks
  for no frames, so on an idle screen a rect stays filled after its time.
* `NoLoneRelease` (state/effects.rs:42-45): a workspace switch between the press on a
  skeleton label and its release resets the latch, and clients see the release.

`AppsHaveWorkspace` is false with `promote_mirror` (messages.rs:51): the app moves to the
mirror's workspace, which may be gone; `workspaces_safety` checks it without.

And these by reading alone.

*Workspaces, clipboard, recorder:* the `PendingClassificationTag` is never removed,
against tick.rs:343; Emacs' `Window` does not stay alive for the compositor's
lifetime (tick.rs:603-608); a second layer surface on top of a first loses the
original focus; `request_recording` while recording stops the running one and
never starts the new one (messages.rs:119-121); the death of ffmpeg is not noticed
before the recording is stopped (recording.rs:229-231, messages.rs:194); the budget
of a frame interval is counted twice, at capture and at push (recording.rs:9,
672-680); a late RecordingStopped clears `emskin-record` of a newer recording; a
failed spawn of ffmpeg sends no event; `frames_written` counts dropped frames too; a
failed render or submit does not ask for another.

*Input method:* `on_focus_changed` overrides a D-Bus owner although ime.rs:563 calls the
two independent, and when the keyboard goes from one D-Bus client to another and
back, the late FocusOut can leave no owner; a FocusIn that arrives after its client
has exited makes an owner that is gone, since `remove_connection` announces no
`IcDestroyed`; a workspace switch clears `focused_surface`, so the old surface gets no
`leave`; a late-bound text input whose first caret equals the snapshot is not
placed; the carets of the 300 ms after a FocusIn, but for the first, are dropped.

*ext-workspace and bar:* requests are handled in every tick, not "on commit"
(protocols/workspace.rs:39, 60); Deactivate and CreateWorkspace are announced as
capabilities (135, 178) and ignored; after a crash of the bar `LayerMap::cleanup` may
free the strip without a relayout (`Cleanup` in Bar), which is why `EmacsFits` holds only
while the bar is there; a new layer surface is first configured with the size of the
output; nothing starts the bar again.

*Effects:* the flash of a skeleton label lasts 1500 ms where skeleton.rs:7 says 800; it is
kept by index and goes on for other rectangles; a recording's end switches the
key-cast off even if the user had switched it on before, against winit.rs:304-305; a
workspace switch disables the skeleton while Emacs keeps `emskin-skeleton` on and does
not send rectangles that have not changed; a SetCursorRect of the old workspace that
is on its way gives the jelly cursor a place to start from (effects.rs:89-93); a
label can be hit at (0, 0) before its first paint.


## 6. What is not modelled, and why

* *Rendering, capture, mirrors' and child frames' textures, dmabuf and output
  handlers*: functions from the state to the screen, without state of their own
  that outlives a frame.  `Recorder` has a capture that succeeds or fails, `Effects` a
  redraw that may fail in three places.
* *Pointer, cursor shapes, grabs, popups, fullscreen and maximize*: coordinates,
  from which the modules abstract.
* *Geometry, fonts, springs and shaders of the effects*: floating-point numbers; only
  how long they run and what tells pictures apart is modelled.
* *Claiming an X display number* (sockets.rs): once at start, against lock files
  of other processes.
* *The primary selection*: the same code on a second copy of the same fields.
  *Data transfers, INCR, drag and drop*: byte streams without shared state.
* *The marshalling inside a D-Bus message, several connections of the broker*:
  connections share only the table that holds them and the allocator of input
  contexts.
* *Several ext-workspace clients at a time*: instances are independent but for
  CreateWorkspace, which goes to the first, and for the order of their actions.
* *A bar that cannot draw* (create_buffer or attach_to fails): render.rs gives up the frame until
  the next change.
* *emez*: test equipment.
* *Command line, logging, child processes of main.rs*: I/O.


## 7. The plan

Done: `Workspaces`, `Focus`, `IpcServer`, `Clipboard`, `Xwls`, `Recorder`, `Ime`, `DbusProxy` with
`LocalBus`, `Bar`, `Effects`, each with its run, and proofs about nine of them.

Next modules, the most important behaviour first:

1. **FocusSync** (elisp/emskin-app.el, emskin-workspace.el with `Focus` and the IPC as
   two queues): Emacs' selected window and the compositor's focus agree once
   messages have arrived; a chord that ends by `prefix_clear`
   (emskin-app.el:383-385) leaves the Prefix slot open until the next one.
2. `Ime` over `LocalBus`: the events that the proxy promises instead of `pipe`.
3. A second client of ext-workspace in `Bar`; claiming a display number in `Xwls`.

Abstract specifications worth stating: for `IpcServer` a pair of reliable queues
per connection; for `Clipboard` one register with last-writer-wins; for `Recorder` the
life of a recording as Emacs sees it.

Proofs next: the steps of `DbusProxy` that map to `LocalBus`, and `SenderSettles`.

The map names a third of the program's lines.  When new runs need room, properties
that a theorem covers make place first.
