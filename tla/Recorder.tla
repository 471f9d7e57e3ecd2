------------------------------ MODULE Recorder ------------------------------
(***************************************************************************)
(* Screenshots and screen recordings: the recorder's state machine, which   *)
(* the render loop drives in two phases; the encoder, a writer thread and   *)
(* an ffmpeg process behind a bounded channel; and the variable             *)
(* emskin-record of Emacs, which has to follow what the compositor does.    *)
(*                                                                         *)
(* The main loop, the writer thread, ffmpeg and Emacs run concurrently;     *)
(* the main loop waits for the thread where the code joins it.              *)
(*                                                                         *)
(* Abstractions: a frame is the number of its capture in its recording, and *)
(* a path the number of the command that named it; time passes by one from  *)
(* render to render.  The overlay and the key-cast effect, which follow st, *)
(* are left out.                                                            *)
(*                                                                         *)
(* External: Emacs (elisp/emskin-record.el, emskin-app.el), ffmpeg, the     *)
(* host that resizes emskin's window, and the renderer, which can fail.     *)
(***************************************************************************)
EXTENDS Naturals, Sequences, SequencesExt

CONSTANTS
  Commands,   \* what Emacs sends: a subset of {"toggle", "apply", "screenshot"}
  MaxCmds,    \* bound on the messages of Emacs
  MaxFrames,  \* bound on the frames captured in one recording
  Interval,   \* renders in a frame interval
  Depth       \* WRITER_QUEUE_DEPTH

ASSUME RecorderAssumption ==
  /\ Commands \subseteq {"toggle", "apply", "screenshot"}
  /\ MaxCmds \in Nat /\ MaxFrames \in Nat
  /\ Interval \in Nat \ {0} /\ Depth \in Nat \ {0}

Ids == 1 .. MaxCmds
Sizes == {1, 2}

VARIABLES
  st,           \* Recorder::state
  target,       \* the path in st, or 0
  reason,       \* FinishReason of Stopping, else "none"
  toPush, justCaptured,   \* the frames of Recording, or 0
  encSize,      \* RecordingMeta::size
  age,          \* renders since RecordingMeta::last_frame_at (None: Interval)
  written,      \* RecordingMeta::frames_written
  captured,     \* frames captured in the recording so far
  main,         \* what the main loop is at
  needsRedraw,  \* EmskinState::needs_redraw
  size,         \* the size of the framebuffer
  enc,          \* the path of the VideoEncoder there is, or 0
  queue,        \* its channel
  hand,         \* the frame the writer thread is writing, or 0
  failed,       \* the thread's flag
  dropped,      \* VideoEncoder::dropped_frames
  fed, lost,    \* history: the frames ffmpeg got, how many the thread threw away
  ffmpeg,       \* the ffmpeg of every path
  pngs,         \* the screenshots that were written
  emskinRecord, \* Emacs' variable
  toServer, toEmacs,      \* messages on their way
  sent,         \* how many messages Emacs has sent
  stalled,      \* history: the last render failed
  apart         \* history: Emacs could not have followed (see Watch)

recVars   == <<st, target, reason, toPush, justCaptured, encSize, age, written, captured>>
encVars   == <<enc, queue, hand, failed, dropped, fed, lost, ffmpeg>>
emacsVars == <<emskinRecord, toServer, toEmacs, sent>>
vars == <<recVars, encVars, emacsVars, main, needsRedraw, size, pngs, stalled, apart>>

States == {"idle", "shotRequested", "shotPending", "recRequested", "recording", "stopping"}
HasEncoder == st \in {"recording", "stopping"}

TypeOK ==
  /\ st \in States
  /\ target \in Ids \cup {0} /\ (st = "idle" <=> target = 0)
  /\ reason \in {"none", "user", "resize", "encoder_error", "replaced"}
  /\ st = "stopping" <=> reason # "none"
  /\ {toPush, justCaptured} \subseteq 0 .. MaxFrames
  /\ justCaptured # 0 => st = "recording"
  /\ encSize \in Sizes /\ size \in Sizes
  /\ age \in 0 .. Interval
  /\ captured \in 0 .. MaxFrames /\ written \in 0 .. captured
  /\ main \in {"loop", "rendering", "finishing", "dropping"}
  /\ {needsRedraw, failed, emskinRecord, stalled, apart} \subseteq BOOLEAN
  /\ enc \in Ids \cup {0} /\ (HasEncoder => enc = target)
  /\ queue \in Seq(1 .. MaxFrames) /\ Len(queue) <= Depth
  /\ hand \in 0 .. MaxFrames
  /\ {dropped, lost} \subseteq 0 .. MaxFrames
  /\ fed \in Seq(1 .. MaxFrames)
  /\ ffmpeg \in [Ids -> {"none", "running", "dead", "done", "killed"}]
  /\ pngs \subseteq Ids
  /\ toServer \in Seq([kind : {"start", "stop", "screenshot"}, id : Ids])
  /\ toEmacs \in Seq(Ids)
  /\ sent \in 0 .. MaxCmds

Init ==
  /\ st = "idle" /\ target = 0 /\ reason = "none"
  /\ toPush = 0 /\ justCaptured = 0
  /\ encSize = 1 /\ age = 0 /\ written = 0 /\ captured = 0
  /\ main = "loop" /\ needsRedraw = FALSE /\ size = 1
  /\ enc = 0 /\ queue = << >> /\ hand = 0 /\ failed = FALSE
  /\ dropped = 0 /\ fed = << >> /\ lost = 0
  /\ ffmpeg = [f \in Ids |-> "none"]
  /\ pngs = {}
  /\ emskinRecord = FALSE /\ toServer = << >> /\ toEmacs = << >> /\ sent = 0
  /\ stalled = FALSE /\ apart = FALSE

-----------------------------------------------------------------------------
(* Requests: ipc/dispatch.rs takes the next message of Emacs *)

Goto(s, f) == st' = s /\ target' = f

(* Recording, or Stopping, turns into Stopping with a reason.               *)
WindDown(why) ==
  /\ Goto("stopping", target)
  /\ reason' = why
  /\ justCaptured' = 0

(* request_screenshot: whatever the state was.  An encoder in it is dropped: *)
(* its thread is joined and ffmpeg killed (Drop for VideoEncoder).          *)
RequestScreenshot(f) ==
  /\ Goto("shotRequested", f)
  /\ reason' = "none"
  /\ toPush' = 0 /\ justCaptured' = 0
  /\ main' = IF HasEncoder THEN "dropping" ELSE "loop"

(* request_recording: a recording that runs is stopped, and this request is  *)
(* forgotten; one that is stopping stays; anything else gives way.          *)
RequestRecording(f) ==
  /\ \/ /\ st = "recording"
        /\ WindDown("replaced")
        /\ toPush' = 0
     \/ /\ st = "stopping"
        /\ UNCHANGED <<st, target, reason, toPush, justCaptured>>
     \/ /\ ~HasEncoder
        /\ Goto("recRequested", f)
        /\ UNCHANGED <<reason, toPush, justCaptured>>
  /\ UNCHANGED main

(* stop_recording                                                          *)
StopActiveOnly ==                                     \* wrong: a queued request stays
  /\ \/ /\ st = "recording"
        /\ WindDown("user")
     \/ /\ st # "recording"
        /\ UNCHANGED <<st, target, reason, justCaptured>>
  /\ UNCHANGED <<toPush, main>>

StopRecording ==
  /\ \/ /\ st = "recording"
        /\ WindDown("user")
     \/ /\ st = "recRequested"
        /\ Goto("idle", 0)
        /\ UNCHANGED <<reason, justCaptured>>
     \/ /\ st \notin {"recording", "recRequested"}
        /\ UNCHANGED <<st, target, reason, justCaptured>>
  /\ UNCHANGED <<toPush, main>>

Handle ==
  /\ main = "loop"
  /\ toServer # << >>
  /\ LET m == Head(toServer) IN
       \/ m.kind = "screenshot" /\ RequestScreenshot(m.id)
       \/ m.kind = "start" /\ RequestRecording(m.id)
       \/ m.kind = "stop" /\ StopRecording
  /\ toServer' = Tail(toServer)
  /\ needsRedraw' = TRUE
  /\ UNCHANGED <<encSize, age, written, captured, encVars, emskinRecord, toEmacs, sent,
                 size, pngs, stalled>>

-----------------------------------------------------------------------------
(* A render, in two phases: capture_frame, then submit and finalize *)

(* try_capture                                                             *)
TryCapture(k) ==
  \/ k < MaxFrames /\ captured' = k + 1 /\ justCaptured' = k + 1
  \/ captured' = k /\ justCaptured' = 0               \* the copy failed

CaptureScreenshot ==
  /\ st = "shotRequested"
  /\ \/ Goto("shotPending", target)
     \/ Goto("idle", 0)
  /\ UNCHANGED <<reason, toPush, justCaptured, encSize, age, written, captured, encVars>>

(* VideoEncoder::spawn; the first frame waits for the next finalize.        *)
SpawnFails ==
  /\ st = "recRequested"
  /\ Goto("idle", 0)
  /\ UNCHANGED <<reason, toPush, justCaptured, encSize, age, written, captured, encVars>>

SpawnEncoder ==
  /\ st = "recRequested"
  /\ Goto("recording", target)
  /\ encSize' = size /\ age' = Interval /\ written' = 0 /\ toPush' = 0
  /\ TryCapture(0)
  /\ enc' = target
  /\ queue' = << >> /\ hand' = 0 /\ failed' = FALSE
  /\ dropped' = 0 /\ fed' = << >> /\ lost' = 0
  /\ ffmpeg' = [ffmpeg EXCEPT ![target] = "running"]
  /\ UNCHANGED reason

Older(n) == IF n < Interval THEN n + 1 ELSE n

CaptureFrame ==
  /\ st = "recording"
  /\ \/ /\ size # encSize
        /\ WindDown("resize")
        /\ UNCHANGED <<age, captured>>
     \/ /\ size = encSize
        /\ age' = Older(age)
        /\ \/ age' >= Interval /\ TryCapture(captured)
           \/ age' < Interval /\ justCaptured' = 0 /\ UNCHANGED captured
        /\ UNCHANGED <<st, target, reason>>
  /\ UNCHANGED <<toPush, encSize, written, encVars>>

CaptureNothing ==
  /\ st \in {"idle", "shotPending", "stopping"}
  /\ UNCHANGED <<recVars, encVars>>

Render ==
  /\ main = "loop" /\ needsRedraw
  /\ needsRedraw' = FALSE
  /\ \/ /\ \/ CaptureScreenshot \/ SpawnFails \/ SpawnEncoder
           \/ CaptureFrame \/ CaptureNothing
        /\ main' = "rendering"
        /\ UNCHANGED stalled
     \/ /\ main' = "loop"                             \* the frame cannot be painted
        /\ stalled' = TRUE
        /\ UNCHANGED <<recVars, encVars>>
  /\ UNCHANGED <<emacsVars, size, pngs>>

SubmitFails ==
  /\ main = "rendering"
  /\ main' = "loop"
  /\ stalled' = TRUE
  /\ UNCHANGED <<recVars, encVars, emacsVars, needsRedraw, size, pngs>>

FinalizeScreenshot ==
  /\ st = "shotPending"
  /\ Goto("idle", 0)
  /\ pngs' \in {pngs, pngs \cup {target}}
  /\ main' = "loop"
  /\ UNCHANGED <<reason, toPush, justCaptured, age, written, queue, dropped>>

(* push_frame of VideoEncoder: never blocks, and is right also for a frame   *)
(* that was dropped.                                                       *)
PushFrame(f) ==
  \/ /\ Len(queue) < Depth
     /\ queue' = Append(queue, f)
     /\ UNCHANGED dropped
  \/ /\ Len(queue) = Depth
     /\ dropped' = dropped + 1
     /\ UNCHANGED queue

PushAny(f) == IF f = 0 THEN UNCHANGED <<queue, dropped>> ELSE PushFrame(f)

Counted(f) == IF f = 0 THEN written ELSE written + 1

Due == toPush

FinalizeRecording ==
  /\ st = "recording"
  /\ \/ /\ PushAny(Due)
        /\ written' = Counted(Due)
        /\ age' = IF Due = 0 THEN age ELSE 0
        /\ toPush' = justCaptured
        /\ justCaptured' = 0
        /\ UNCHANGED <<st, target, reason>>
     \/ /\ Due # 0                                     \* the frame cannot be mapped
        /\ WindDown("encoder_error")
        /\ toPush' = 0
        /\ UNCHANGED <<written, age, queue, dropped>>
  /\ main' = "loop"
  /\ UNCHANGED pngs

(* The last frame is pushed, then finish() closes the channel and waits.    *)
FinalizeStopping ==
  /\ st = "stopping"
  /\ \/ PushAny(toPush) /\ written' = Counted(toPush)
     \/ toPush # 0 /\ UNCHANGED <<queue, dropped, written>>
  /\ toPush' = 0
  /\ main' = "finishing"
  /\ UNCHANGED <<st, target, reason, justCaptured, age, pngs>>

FinalizeNothing ==
  /\ st \in {"idle", "shotRequested", "recRequested"}
  /\ main' = "loop"
  /\ UNCHANGED <<st, target, reason, toPush, justCaptured, age, written, queue, dropped, pngs>>

(* wants_continuous_frames keeps the loop rendering.                        *)
WarmIfRecording == st' = "recording"                  \* wrong: Stopping needs a render too

Warm == st' # "idle"

Finalize ==
  /\ main = "rendering"
  /\ FinalizeScreenshot \/ FinalizeRecording \/ FinalizeStopping \/ FinalizeNothing
  /\ needsRedraw' = Warm
  /\ stalled' = FALSE
  /\ UNCHANGED <<encSize, captured, enc, hand, failed, fed, lost, ffmpeg, emacsVars, size>>

WriterDone == queue = << >> /\ hand = 0

(* The encoder and the metadata of the recording are gone.                  *)
EncoderGone(how) ==
  /\ WriterDone
  /\ ffmpeg' = [ffmpeg EXCEPT ![enc] = IF @ = "running" THEN how ELSE @]
  /\ enc' = 0
  /\ encSize' = 1 /\ age' = 0 /\ written' = 0 /\ captured' = 0
  /\ failed' = FALSE /\ dropped' = 0 /\ fed' = << >> /\ lost' = 0
  /\ main' = "loop"
  /\ UNCHANGED <<toPush, justCaptured, queue, hand, size, pngs, stalled>>

(* finish() returns: the thread is joined and ffmpeg has exited.            *)
Finished ==
  /\ main = "finishing"
  /\ EncoderGone("done")
  /\ toEmacs' = Append(toEmacs, target)
  /\ Goto("idle", 0)
  /\ reason' = "none"
  /\ needsRedraw' = FALSE
  /\ UNCHANGED <<emskinRecord, toServer, sent>>

(* Drop for VideoEncoder returns.                                          *)
DropWithoutKill ==                                    \* wrong: ffmpeg is left alone
  /\ main = "dropping"
  /\ EncoderGone("running")
  /\ UNCHANGED <<st, target, reason, emacsVars, needsRedraw>>

DropEncoder ==
  /\ main = "dropping"
  /\ EncoderGone("killed")
  /\ UNCHANGED <<st, target, reason, emacsVars, needsRedraw>>

-----------------------------------------------------------------------------
(* The writer thread *)

WriterTakes ==
  /\ queue # << >> /\ hand = 0
  /\ queue' = Tail(queue)
  /\ \/ failed /\ lost' = lost + 1 /\ UNCHANGED hand
     \/ ~failed /\ hand' = Head(queue) /\ UNCHANGED lost
  /\ UNCHANGED <<failed, fed>>

WriterRetries ==                                      \* wrong: a failed frame is kept
  /\ hand # 0
  /\ ffmpeg[enc] = "running"
  /\ fed' = Append(fed, hand)
  /\ hand' = 0
  /\ UNCHANGED <<queue, failed, lost>>

WriterWrites ==
  /\ hand # 0
  /\ \/ ffmpeg[enc] = "running" /\ fed' = Append(fed, hand) /\ UNCHANGED <<failed, lost>>
     \/ ffmpeg[enc] = "dead" /\ failed' = TRUE /\ lost' = lost + 1 /\ UNCHANGED fed
  /\ hand' = 0
  /\ UNCHANGED queue

Writer ==
  /\ WriterTakes \/ WriterWrites
  /\ UNCHANGED <<recVars, enc, dropped, ffmpeg, emacsVars, main, needsRedraw, size, pngs,
                 stalled>>

-----------------------------------------------------------------------------
(* ffmpeg, the host and other sources of damage (external) *)

FfmpegDies ==
  /\ \E f \in Ids : ffmpeg[f] = "running" /\ ffmpeg' = [ffmpeg EXCEPT ![f] = "dead"]
  /\ UNCHANGED <<recVars, enc, queue, hand, failed, dropped, fed, lost, emacsVars, main,
                 needsRedraw, size, pngs, stalled>>

Damage ==
  /\ main = "loop"
  /\ needsRedraw' = TRUE
  /\ size' \in Sizes
  /\ UNCHANGED <<recVars, encVars, emacsVars, main, pngs, stalled>>

(* Emacs (external): emskin-toggle-record, emskin-apply-config or a new       *)
(* connection, emskin-screenshot, and emskin--on-recording-stopped.          *)
Say(kind) ==
  /\ sent < MaxCmds
  /\ sent' = sent + 1
  /\ toServer' = Append(toServer, [kind |-> kind, id |-> sent + 1])

Sync(on) == Say(IF on THEN "start" ELSE "stop")

Toggle ==
  /\ "toggle" \in Commands
  /\ emskinRecord' = ~emskinRecord
  /\ Sync(~emskinRecord)
  /\ UNCHANGED toEmacs

ApplyConfig ==
  /\ "apply" \in Commands
  /\ Sync(emskinRecord)
  /\ UNCHANGED <<emskinRecord, toEmacs>>

TakeScreenshot ==
  /\ "screenshot" \in Commands
  /\ Say("screenshot")
  /\ UNCHANGED <<emskinRecord, toEmacs>>

OnRecordingStopped ==
  /\ toEmacs # << >>
  /\ toEmacs' = Tail(toEmacs)
  /\ emskinRecord' = FALSE
  /\ UNCHANGED <<toServer, sent>>

Emacs ==
  /\ Toggle \/ ApplyConfig \/ TakeScreenshot \/ OnRecordingStopped
  /\ UNCHANGED <<recVars, encVars, main, needsRedraw, size, pngs, stalled>>

-----------------------------------------------------------------------------
(* What Emacs cannot follow: a recording that ended without RecordingStopped *)
(* (a screenshot took its place, or ffmpeg could not be started), and a      *)
(* start that crosses the news of an earlier recording's end.               *)
EndsUnreported ==
  /\ st \in {"recRequested", "recording", "stopping"}
  /\ st' \in {"idle", "shotRequested"}
  /\ toEmacs' = toEmacs

Crossing ==
  toEmacs' # << >> /\ \E m \in Range(toServer') : m.kind = "start"

Watch == apart' = (apart \/ Crossing \/ (EndsUnreported /\ emskinRecord))

MainLoop == Handle \/ Render \/ SubmitFails \/ Finalize \/ Finished \/ DropEncoder

Next == (MainLoop \/ Writer \/ FfmpegDies \/ Damage \/ Emacs) /\ Watch

Spec == Init /\ [][Next]_vars

(* The main loop runs and handles what it is sent, the thread is scheduled   *)
(* and ffmpeg reads what it is given; Emacs runs its process filter.  The    *)
(* host redraws, but nothing promises damage.                               *)
FairSpec ==
  /\ Spec
  /\ WF_vars(Handle /\ Watch) /\ WF_vars(Render /\ Watch)
  /\ WF_vars((SubmitFails \/ Finalize) /\ Watch)
  /\ WF_vars((Finished \/ DropEncoder) /\ Watch)
  /\ WF_vars(Writer /\ Watch)
  /\ WF_vars(OnRecordingStopped /\ Emacs /\ Watch)

-----------------------------------------------------------------------------
(* Properties *)

(* No frame disappears: each frame counted as written was given to ffmpeg,   *)
(* is on its way, was dropped because the channel was full or was thrown    *)
(* away by the thread.                                                      *)
FramesCounted ==
  HasEncoder =>
    written = Len(fed) + Len(queue) + (IF hand = 0 THEN 0 ELSE 1) + dropped + lost

(* An ffmpeg that runs is the one encoder the recorder owns: none is left    *)
(* behind by a request that replaced another.                               *)
NoOrphan ==
  \A f \in Ids : ffmpeg[f] = "running" => f = enc /\ (HasEncoder \/ main = "dropping")

(* emskin-record is what the recorder does once both sides are quiet, also   *)
(* after a resize, an encoder error or a recording that was replaced.       *)
EmacsFollows ==
  ~apart /\ toServer = << >> /\ toEmacs = << >> /\ main = "loop" =>
    /\ st \in {"recRequested", "recording"} => emskinRecord
    /\ st \notin {"recRequested", "recording", "stopping"} => ~emskinRecord

(* What was asked for gets its render, and a recording that stops is closed  *)
(* and reported, without any other damage, unless a render fails.           *)
RequestsServed ==
  /\ st = "stopping" ~> st # "stopping" \/ stalled
  /\ \A f \in Ids : st = "shotRequested" /\ target = f ~> target # f \/ stalled

(* The main loop is never blocked for good by the thread it joins.          *)
CompositorThaws == main # "loop" ~> main = "loop"

-----------------------------------------------------------------------------
(* What a comment of the source says, and the code does not do: no run       *)
(* checks this.  emskin-record.el:85 "works while a video recording is       *)
(* active": no recording is cut off by a kill of its ffmpeg.                 *)
NoRecordingKilled == \A f \in Ids : ffmpeg[f] # "killed"

=============================================================================
