--------------------------- MODULE RecorderProofs ---------------------------
(***************************************************************************)
(* Theorems about the recorder, for any commands of Emacs, any depth of the *)
(* channel and any frame interval.                                         *)
(*                                                                         *)
(* NoOrphan is nearly inductive: a new encoder is only made where           *)
(* there is none, and every way out of Recording and Stopping goes through  *)
(* finish() or the drop of the encoder.  FramesCounted needs that what is   *)
(* in the channel and in the thread's hand are frames, so that taking one   *)
(* from the channel adds one to the hand; the drop of an encoder, that its   *)
(* state is gone already.                                                   *)
(***************************************************************************)
EXTENDS Recorder, SequenceTheorems, TLAPS

Frames == Nat \ {0}

Typed ==
  /\ queue \in Seq(Frames) /\ fed \in Seq(Frames)
  /\ hand \in Nat /\ toPush \in Nat /\ justCaptured \in Nat /\ captured \in Nat
  /\ written \in Nat /\ dropped \in Nat /\ lost \in Nat
  /\ DOMAIN ffmpeg = Ids

Dropping == main = "dropping" => ~HasEncoder

IInv == Typed /\ Dropping /\ NoOrphan /\ FramesCounted

LEMMA InitIInv == Init => IInv
BY DEF Init, IInv, Typed, Dropping, NoOrphan, FramesCounted, HasEncoder

-----------------------------------------------------------------------------
(* The operators on frames *)

LEMMA Captures ==
  ASSUME NEW k \in Nat, TryCapture(k)
  PROVE  captured' \in Nat /\ justCaptured' \in Nat
BY DEF TryCapture

LEMMA Pushes ==
  ASSUME Typed, NEW f \in Nat, PushAny(f)
  PROVE  /\ queue' \in Seq(Frames) /\ dropped' \in Nat
         /\ Counted(f) \in Nat
         /\ Len(queue') + dropped' - (Len(queue) + dropped) = Counted(f) - written
<1>1. Len(queue) \in Nat /\ dropped \in Nat /\ written \in Nat
  BY LenProperties DEF Typed
<1>2. CASE f = 0
  BY <1>1, <1>2 DEF PushAny, Counted, Typed
<1>3. CASE f # 0
  <2>1. f \in Frames /\ Counted(f) = written + 1 /\ PushFrame(f)
    BY <1>3 DEF PushAny, Counted, Frames
  <2>2. CASE queue' = Append(queue, f) /\ dropped' = dropped
    <3>1. queue' \in Seq(Frames) /\ Len(queue') = Len(queue) + 1
      BY <2>1, <2>2, AppendProperties DEF Typed
    <3> QED
      BY <1>1, <2>1, <2>2, <3>1
  <2>3. CASE dropped' = dropped + 1 /\ queue' = queue
    BY <1>1, <2>1, <2>3 DEF Typed
  <2> QED
    BY <2>1, <2>2, <2>3 DEF PushFrame
<1> QED
  BY <1>2, <1>3

-----------------------------------------------------------------------------
(* Each action *)

LEMMA HandleStep == IInv /\ Handle => IInv'
<1> SUFFICES ASSUME IInv, Handle PROVE IInv'
  OBVIOUS
<1> USE DEF IInv, Handle, encVars
<1>1. /\ UNCHANGED <<encVars, written, captured>>
      /\ main = "loop"
  OBVIOUS
<1>2. /\ toPush' \in Nat /\ justCaptured' \in Nat
      /\ HasEncoder' => HasEncoder
      /\ HasEncoder => HasEncoder' \/ main' = "dropping"
      /\ Dropping'
  BY DEF Typed, RequestScreenshot, RequestRecording, StopRecording, WindDown, Goto, HasEncoder,
     Dropping
<1>3. Typed'
  BY <1>1, <1>2 DEF Typed
<1>4. NoOrphan'
  BY <1>1, <1>2 DEF NoOrphan
<1>5. FramesCounted'
  BY <1>1, <1>2 DEF FramesCounted
<1> QED
  BY <1>2, <1>3, <1>4, <1>5

LEMMA RenderStep == IInv /\ Render => IInv'
<1> SUFFICES ASSUME IInv, Render PROVE IInv'
  OBVIOUS
<1>0. main = "loop" /\ main' # "dropping" /\ Dropping'
  BY DEF Render, Dropping
<1>1. CASE UNCHANGED <<recVars, encVars>>
  BY <1>0, <1>1 DEF IInv, Typed, NoOrphan, FramesCounted, HasEncoder, recVars, encVars
<1>2. CASE SpawnEncoder
  <2>1. ~HasEncoder /\ HasEncoder'
    BY <1>2 DEF SpawnEncoder, Goto, HasEncoder
  <2>2. \A f \in Ids : ffmpeg[f] # "running"
    BY <1>0, <2>1 DEF IInv, NoOrphan
  <2>3. NoOrphan'
    BY <1>2, <2>1, <2>2 DEF SpawnEncoder, NoOrphan, IInv, Typed
  <2>4. Typed'
    BY <1>2, Captures DEF SpawnEncoder, IInv, Typed
  <2>5. FramesCounted'
    BY <1>2, <2>1 DEF SpawnEncoder, FramesCounted
  <2> QED
    BY <1>0, <2>3, <2>4, <2>5 DEF IInv
<1>3. CASE CaptureFrame
  <2>1. UNCHANGED <<encVars, toPush, written>> /\ HasEncoder /\ HasEncoder'
    BY <1>3 DEF CaptureFrame, WindDown, Goto, HasEncoder
  <2>2. captured' \in Nat /\ justCaptured' \in Nat
    BY <1>3, Captures DEF CaptureFrame, WindDown, IInv, Typed
  <2> QED
    BY <1>0, <2>1, <2>2 DEF IInv, Typed, NoOrphan, FramesCounted, encVars
<1>4. CASE CaptureScreenshot \/ SpawnFails
  <2>1. /\ UNCHANGED <<encVars, toPush, justCaptured, captured, written>>
        /\ ~HasEncoder /\ ~HasEncoder'
    BY <1>4 DEF CaptureScreenshot, SpawnFails, Goto, HasEncoder
  <2> QED
    BY <1>0, <2>1 DEF IInv, Typed, NoOrphan, FramesCounted, encVars
<1> QED
  BY <1>1, <1>2, <1>3, <1>4 DEF Render, CaptureNothing

LEMMA FinalizeStep == IInv /\ Finalize => IInv'
<1> SUFFICES ASSUME IInv, Finalize PROVE IInv'
  OBVIOUS
<1>0. /\ main = "rendering" /\ Dropping'
      /\ UNCHANGED <<captured, enc, hand, fed, lost, ffmpeg>>
  BY DEF Finalize, FinalizeScreenshot, FinalizeRecording, FinalizeStopping, FinalizeNothing,
     Dropping
<1>1. CASE /\ UNCHANGED <<toPush, justCaptured, written, queue, dropped>>
           /\ ~HasEncoder /\ ~HasEncoder'
  BY <1>0, <1>1 DEF IInv, Typed, NoOrphan, FramesCounted
<1>2. ASSUME NEW f \in Nat, PushAny(f), written' = Counted(f),
             toPush' \in Nat, justCaptured' \in Nat, HasEncoder, HasEncoder'
      PROVE  IInv'
  <2>1. Typed'
    BY <1>0, <1>2, Pushes DEF IInv, Typed
  <2>2. NoOrphan'
    BY <1>0, <1>2 DEF IInv, NoOrphan
  <2>3. Len(queue) \in Nat /\ Len(queue') \in Nat /\ Len(fed) \in Nat
    BY <2>1, LenProperties DEF IInv, Typed
  <2>4. Len(queue') + dropped' - (Len(queue) + dropped) = written' - written
    BY <1>2, Pushes DEF IInv
  <2>5. dropped \in Nat /\ dropped' \in Nat /\ written \in Nat /\ written' \in Nat /\ lost \in Nat
    BY <2>1 DEF IInv, Typed
  <2>6. written = Len(fed) + Len(queue) + (IF hand = 0 THEN 0 ELSE 1) + dropped + lost
    BY <1>2 DEF IInv, FramesCounted
  <2>7. written' = Len(fed) + Len(queue') + (IF hand = 0 THEN 0 ELSE 1) + dropped' + lost
    <3> DEFINE h  == IF hand = 0 THEN 0 ELSE 1
               a  == Len(fed)
               q  == Len(queue)
               q2 == Len(queue')
               d2 == dropped'
               w2 == written'
    <3>1. /\ {h, a, q, q2, d2, w2, dropped, written, lost} \subseteq Nat
          /\ written = a + q + h + dropped + lost
          /\ q2 + d2 - (q + dropped) = w2 - written
      BY <2>3, <2>4, <2>5, <2>6
    <3> HIDE DEF h, a, q, q2, d2, w2
    <3>2. w2 = a + q2 + h + d2 + lost
      BY <3>1
    <3> QED
      BY <3>2 DEF h, a, q2, d2, w2
  <2>8. FramesCounted'
    BY <1>0, <2>7 DEF FramesCounted
  <2> QED
    BY <1>0, <2>1, <2>2, <2>8 DEF IInv
<1>3. CASE /\ UNCHANGED <<written, queue, dropped>>
           /\ toPush' \in Nat /\ justCaptured' \in Nat /\ HasEncoder /\ HasEncoder'
  BY <1>0, <1>3 DEF IInv, Typed, NoOrphan, FramesCounted
<1>4. CASE FinalizeScreenshot \/ FinalizeNothing
  BY <1>1, <1>4 DEF FinalizeScreenshot, FinalizeNothing, Goto, HasEncoder
<1>5. CASE FinalizeRecording
  <2>1. HasEncoder /\ HasEncoder' /\ toPush' \in Nat /\ justCaptured' \in Nat
    BY <1>5 DEF FinalizeRecording, WindDown, Goto, HasEncoder, IInv, Typed
  <2>2. Due \in Nat
    BY DEF Due, IInv, Typed
  <2>3. \/ PushAny(Due) /\ written' = Counted(Due)
        \/ UNCHANGED <<written, queue, dropped>>
    BY <1>5 DEF FinalizeRecording
  <2> QED
    BY <1>2, <1>3, <2>1, <2>2, <2>3
<1>6. CASE FinalizeStopping
  <2>1. HasEncoder /\ HasEncoder' /\ toPush' \in Nat /\ justCaptured' \in Nat
    BY <1>6 DEF FinalizeStopping, HasEncoder, IInv, Typed
  <2>2. toPush \in Nat
    BY DEF IInv, Typed
  <2>3. \/ PushAny(toPush) /\ written' = Counted(toPush)
        \/ UNCHANGED <<written, queue, dropped>>
    BY <1>6 DEF FinalizeStopping
  <2> QED
    BY <1>2, <1>3, <2>1, <2>2, <2>3
<1> QED
  BY <1>4, <1>5, <1>6 DEF Finalize

LEMMA EncoderGoneStep ==
  ASSUME IInv, EncoderGone("done") \/ EncoderGone("killed"), ~HasEncoder'
  PROVE  IInv'
<1>1. ASSUME NEW f \in Ids PROVE ffmpeg'[f] # "running"
  <2>1. f \in DOMAIN ffmpeg
    BY DEF IInv, Typed
  <2>2. CASE f = enc
    <3>1. \E how \in {"done", "killed"} :
            ffmpeg'[f] = IF ffmpeg[f] = "running" THEN how ELSE ffmpeg[f]
      BY <2>1, <2>2 DEF EncoderGone
    <3> QED
      BY <3>1
  <2>3. CASE f # enc
    <3>1. ffmpeg'[f] = ffmpeg[f]
      BY <2>1, <2>3 DEF EncoderGone
    <3> QED
      BY <2>3, <3>1 DEF IInv, NoOrphan
  <2> QED
    BY <2>2, <2>3
<1>2. DOMAIN ffmpeg' = Ids
  BY DEF IInv, Typed, EncoderGone
<1>3. Typed'
  <2>1. /\ enc' = 0 /\ encSize' = 1 /\ age' = 0 /\ written' = 0 /\ captured' = 0
        /\ failed' = FALSE /\ dropped' = 0 /\ fed' = << >> /\ lost' = 0
        /\ UNCHANGED <<toPush, justCaptured, queue, hand>>
    BY DEF EncoderGone
  <2>2. << >> \in Seq(Frames)
    OBVIOUS
  <2> QED
    BY <1>2, <2>1, <2>2 DEF IInv, Typed
<1>4. main' # "dropping"
  BY DEF EncoderGone
<1> QED
  BY <1>1, <1>3, <1>4 DEF IInv, Dropping, NoOrphan, FramesCounted

LEMMA WriterStep == IInv /\ Writer => IInv'
<1> SUFFICES ASSUME IInv, Writer PROVE IInv'
  OBVIOUS
<1>1. UNCHANGED <<recVars, enc, dropped, ffmpeg, main>>
  BY DEF Writer
<1>2. HasEncoder' = HasEncoder
  BY <1>1 DEF recVars, HasEncoder
<1>3. NoOrphan' /\ Dropping'
  BY <1>1, <1>2 DEF IInv, NoOrphan, Dropping
<1>4. Len(queue) \in Nat /\ Len(fed) \in Nat
  BY LenProperties DEF IInv, Typed
<1>5. CASE WriterTakes
  <2>1. /\ Tail(queue) \in Seq(Frames) /\ Len(Tail(queue)) = Len(queue) - 1
        /\ Head(queue) \in Frames
    BY <1>5, HeadTailProperties DEF WriterTakes, IInv, Typed
  <2>2. Typed'
    BY <1>1, <1>5, <2>1 DEF WriterTakes, IInv, Typed, recVars, Frames
  <2>3. Len(queue') = Len(queue) - 1 /\ hand = 0 /\ fed' = fed
    BY <1>5, <2>1 DEF WriterTakes
  <2>4. \/ hand' # 0 /\ lost' = lost
        \/ hand' = 0 /\ lost' = lost + 1
    BY <1>5, <2>1 DEF WriterTakes, Frames
  <2>5. ASSUME HasEncoder
        PROVE  written = Len(fed') + Len(queue') + (IF hand' = 0 THEN 0 ELSE 1) + dropped + lost'
    <3>1. written = Len(fed) + Len(queue) + 0 + dropped + lost
      BY <2>3, <2>5 DEF IInv, FramesCounted
    <3>2. lost \in Nat /\ dropped \in Nat
      BY DEF IInv, Typed
    <3> QED
      BY <1>4, <2>3, <2>4, <3>1, <3>2
  <2>6. FramesCounted'
    BY <1>1, <1>2, <2>5 DEF FramesCounted, recVars
  <2> QED
    BY <1>3, <2>2, <2>6 DEF IInv
<1>6. CASE WriterWrites
  <2>1. hand \in Frames /\ hand' = 0 /\ queue' = queue
    BY <1>6 DEF WriterWrites, IInv, Typed, Frames
  <2>2. Append(fed, hand) \in Seq(Frames) /\ Len(Append(fed, hand)) = Len(fed) + 1
    BY <2>1, AppendProperties DEF IInv, Typed
  <2>3. \/ fed' = Append(fed, hand) /\ lost' = lost
        \/ fed' = fed /\ lost' = lost + 1
    BY <1>6 DEF WriterWrites
  <2>4. Typed'
    <3>1. fed' \in Seq(Frames)
      BY <2>2, <2>3 DEF IInv, Typed
    <3>2. lost' \in Nat
      BY <2>3 DEF IInv, Typed
    <3> QED
      BY <1>1, <2>1, <3>1, <3>2 DEF IInv, Typed, recVars
  <2>5. Len(fed') + lost' = Len(fed) + lost + 1
    BY <1>4, <2>2, <2>3 DEF IInv, Typed
  <2>6. Len(fed') \in Nat /\ hand # 0
    BY <2>1, <2>4, LenProperties DEF Typed, Frames
  <2>7. ASSUME HasEncoder PROVE written = Len(fed') + Len(queue) + 0 + dropped + lost'
    <3>1. written = Len(fed) + Len(queue) + 1 + dropped + lost
      BY <2>6, <2>7 DEF IInv, FramesCounted
    <3>2. lost \in Nat /\ lost' \in Nat /\ dropped \in Nat /\ written \in Nat
      BY <2>4, <1>1 DEF IInv, Typed
    <3> QED
      BY <1>4, <2>5, <2>6, <3>1, <3>2
  <2>8. FramesCounted'
    BY <1>1, <1>2, <2>1, <2>7 DEF FramesCounted, recVars
  <2> QED
    BY <1>3, <2>4, <2>8 DEF IInv
<1> QED
  BY <1>5, <1>6 DEF Writer

LEMMA OthersStep ==
  IInv /\ (SubmitFails \/ FfmpegDies \/ Damage \/ Emacs \/ UNCHANGED vars) => IInv'
<1> SUFFICES ASSUME IInv, SubmitFails \/ FfmpegDies \/ Damage \/ Emacs \/ UNCHANGED vars
             PROVE  IInv'
  OBVIOUS
<1>1. UNCHANGED <<recVars, enc, queue, hand, dropped, fed, lost>>
  BY DEF SubmitFails, FfmpegDies, Damage, Emacs, vars, encVars
<1>2. /\ DOMAIN ffmpeg' = Ids
      /\ \A f \in Ids : ffmpeg'[f] = "running" => ffmpeg[f] = "running"
  BY DEF SubmitFails, FfmpegDies, Damage, Emacs, vars, encVars, IInv, Typed
<1>3. main' = "dropping" <=> main = "dropping"
  BY DEF SubmitFails, FfmpegDies, Damage, Emacs, vars
<1> QED
  BY <1>1, <1>2, <1>3 DEF IInv, Typed, Dropping, NoOrphan, FramesCounted, HasEncoder, recVars

LEMMA StepIInv == IInv /\ [Next]_vars => IInv'
<1> SUFFICES ASSUME IInv, [Next]_vars PROVE IInv'
  OBVIOUS
<1>1. CASE Finished
  BY <1>1, EncoderGoneStep DEF Finished, Goto, HasEncoder
<1>2. CASE DropEncoder
  <2>1. ~HasEncoder'
    BY <1>2 DEF DropEncoder, HasEncoder, IInv, Dropping
  <2> QED
    BY <1>2, <2>1, EncoderGoneStep DEF DropEncoder
<1> QED
  BY <1>1, <1>2, HandleStep, RenderStep, FinalizeStep, WriterStep, OthersStep
  DEF Next, MainLoop

(* No frame disappears: each one counted as written can be accounted for,    *)
(* and no ffmpeg outlives the encoder that started it.                      *)
THEOREM FramesAndEncoders == Spec => [](NoOrphan /\ FramesCounted)
<1>1. IInv => NoOrphan /\ FramesCounted
  BY DEF IInv
<1> QED
  BY <1>1, InitIInv, StepIInv, PTL DEF Spec

-----------------------------------------------------------------------------
(* What Emacs knows.  EmacsFollows speaks of quiet states; in between, what *)
(* Emacs asked for last is on its way, or the news that a recording ended.  *)

Message == [kind : {"start", "stop", "screenshot"}, id : Nat]

WireTyped ==
  /\ toServer \in Seq(Message) /\ toEmacs \in Seq(Nat)
  /\ target \in Nat /\ sent \in Nat /\ emskinRecord \in BOOLEAN

Syncs == {i \in DOMAIN toServer : toServer[i].kind \in {"start", "stop"}}

Recs == {"recRequested", "recording", "stopping"}

(* No start is on its way together with the news of an end.                 *)
NewsFirst == toEmacs # << >> => \A i \in DOMAIN toServer : toServer[i].kind # "start"

(* The last start or stop on its way is what Emacs wants.                   *)
LastAsked ==
  \A i \in Syncs : (\A j \in Syncs : j <= i) => (toServer[i].kind = "start" <=> emskinRecord)

(* With nothing asked for on its way, a recording is one that Emacs wants,  *)
(* and Emacs wants none that there is not.                                  *)
RecordingAsked ==
  Syncs = {} /\ toEmacs = << >> => (st \in {"recRequested", "recording"} => emskinRecord)
NothingAsked ==
  Syncs = {} /\ toEmacs = << >> => (st \notin Recs => ~emskinRecord)

(* The news of an end comes before the next recording.                      *)
Reported == toEmacs # << >> => st \notin Recs

(* Only a start that crosses the news of an end can break the first part;   *)
(* the second, also an end that Emacs is not told of.                       *)
Heard   == NewsFirst /\ LastAsked /\ RecordingAsked /\ Reported
Follows == Heard /\ NothingAsked

FollowInv == WireTyped /\ (~apart => Follows)
HeardInv  == WireTyped /\ Heard

Told == ~(EndsUnreported /\ emskinRecord)

(* What a step that Emacs is not told of may do to a recording.             *)
LEMMA Silent ==
  ASSUME Render \/ SubmitFails \/ Finalize \/ DropEncoder \/ Writer \/ FfmpegDies \/ Damage
  PROVE  /\ UNCHANGED <<toServer, toEmacs, emskinRecord, sent>> /\ target' \in {target, 0}
         /\ st' \in {"recRequested", "recording"} => st \in {"recRequested", "recording"}
         /\ st' = "stopping" => st \in Recs
         /\ st \in Recs /\ st' \notin Recs => st' = "idle"
<1>1. CASE Render
  <2>1. UNCHANGED emacsVars
    BY <1>1 DEF Render
  <2>2. \/ CaptureScreenshot \/ SpawnFails \/ SpawnEncoder \/ CaptureFrame
        \/ UNCHANGED recVars
    BY <1>1 DEF Render, CaptureNothing
  <2> QED
    BY <2>1, <2>2 DEF emacsVars, recVars, CaptureScreenshot, SpawnFails, SpawnEncoder,
       CaptureFrame, WindDown, Goto, Recs
<1>2. CASE Finalize
  BY <1>2 DEF Finalize, FinalizeScreenshot, FinalizeRecording, FinalizeStopping, FinalizeNothing,
     WindDown, Goto, emacsVars, Recs
<1>3. CASE SubmitFails \/ DropEncoder \/ Writer \/ FfmpegDies \/ Damage
  BY <1>3 DEF SubmitFails, DropEncoder, Writer, FfmpegDies, Damage, recVars, emacsVars, Recs
<1> QED
  BY <1>1, <1>2, <1>3

LEMMA SilentFollows ==
  ASSUME WireTyped,
         Render \/ SubmitFails \/ Finalize \/ DropEncoder \/ Writer \/ FfmpegDies \/ Damage
  PROVE  WireTyped' /\ (Heard => Heard') /\ (Follows /\ Told => NothingAsked')
<1>1. /\ UNCHANGED <<toServer, toEmacs, emskinRecord, sent>> /\ target' \in {target, 0}
      /\ st' \in {"recRequested", "recording"} => st \in {"recRequested", "recording"}
      /\ st' = "stopping" => st \in Recs
      /\ st \in Recs /\ st' \notin Recs => st' = "idle"
  BY Silent
<1>2. WireTyped'
  BY <1>1 DEF WireTyped
<1>3. Syncs' = Syncs
  BY <1>1 DEF Syncs
<1>4. ASSUME Heard PROVE Heard'
  BY <1>1, <1>3, <1>4 DEF Heard, NewsFirst, LastAsked, RecordingAsked, Reported, Recs
<1>5. ASSUME Follows, Told PROVE NothingAsked'
  <2>1. st \in Recs /\ st' \notin Recs => ~emskinRecord
    BY <1>1, <1>5 DEF Told, EndsUnreported, Recs
  <2> QED
    BY <1>1, <1>3, <1>5, <2>1 DEF Follows, NothingAsked
<1> QED
  BY <1>2, <1>4, <1>5

(* The server takes a message: the others keep their order.                 *)
LEMMA HandleFollows ==
  ASSUME WireTyped, Handle
  PROVE  WireTyped' /\ (Heard => Heard') /\ (Follows /\ Told => NothingAsked')
<1> DEFINE m == Head(toServer)
<1>1. /\ toServer \in Seq(Message) /\ toServer # << >> /\ toServer' = Tail(toServer)
      /\ UNCHANGED <<emskinRecord, toEmacs, sent>>
  BY DEF Handle, WireTyped
<1>2. /\ Len(toServer) \in Nat \ {0} /\ DOMAIN toServer = 1 .. Len(toServer)
      /\ DOMAIN toServer' = 1 .. Len(toServer) - 1 /\ toServer' \in Seq(Message)
      /\ \A i \in DOMAIN toServer' : toServer'[i] = toServer[i + 1]
      /\ m = toServer[1] /\ m \in Message
  BY <1>1
<1>3. \/ m.kind = "screenshot" /\ st' = "shotRequested" /\ target' = m.id
      \/ m.kind = "start" /\ st' \in {"stopping", "recRequested"} /\ target' \in {target, m.id}
      \/ /\ m.kind = "stop" /\ target' \in {target, 0}
         /\ st' \in {st, "stopping", "idle"} /\ st' \notin {"recording", "recRequested"}
         /\ st' \in Recs => st \in Recs
  BY DEF Handle, RequestScreenshot, RequestRecording, StopRecording, WindDown, Goto, HasEncoder,
     Recs
<1>4. WireTyped'
  BY <1>1, <1>2, <1>3 DEF WireTyped, Message
<1>5. /\ \A i : i \in Syncs' <=> i \in DOMAIN toServer' /\ i + 1 \in Syncs
      /\ \A j \in Syncs : j = 1 \/ j - 1 \in Syncs'
  BY <1>2 DEF Syncs
<1>6. ASSUME Heard, Syncs' = {}
      PROVE  \/ m.kind = "screenshot" /\ Syncs = {}
             \/ m.kind = "start" /\ emskinRecord
             \/ m.kind = "stop" /\ ~emskinRecord
  <2>1. CASE m.kind = "screenshot"
    BY <1>2, <1>5, <1>6, <2>1 DEF Syncs
  <2>2. CASE m.kind \in {"start", "stop"}
    <3>1. 1 \in Syncs /\ \A j \in Syncs : j <= 1
      BY <1>2, <1>5, <1>6, <2>2 DEF Syncs
    <3> QED
      BY <1>2, <1>6, <2>2, <3>1 DEF Heard, LastAsked
  <2> QED
    BY <1>3, <2>1, <2>2
<1>7. ASSUME Heard PROVE Heard'
  <2>1. NewsFirst'
    BY <1>1, <1>2, <1>7 DEF Heard, NewsFirst
  <2>2. LastAsked'
    <3> SUFFICES ASSUME NEW i \in Syncs', \A j \in Syncs' : j <= i
                 PROVE  toServer'[i].kind = "start" <=> emskinRecord
      BY <1>1 DEF LastAsked
    <3>1. i \in DOMAIN toServer' /\ i \in Nat /\ i + 1 \in Syncs
      BY <1>2, <1>5
    <3>2. \A j \in Syncs : j <= i + 1
      BY <1>2, <1>5, <3>1 DEF Syncs
    <3> QED
      BY <1>2, <1>7, <3>1, <3>2 DEF Heard, LastAsked
  <2>3. RecordingAsked'
    <3> SUFFICES ASSUME Syncs' = {}, toEmacs = << >>, st' \in {"recRequested", "recording"}
                 PROVE  emskinRecord
      BY <1>1 DEF RecordingAsked
    <3> QED
      BY <1>3, <1>6, <1>7
  <2>4. Reported'
    BY <1>1, <1>2, <1>3, <1>7 DEF Heard, NewsFirst, Reported, Recs
  <2> QED
    BY <2>1, <2>2, <2>3, <2>4 DEF Heard
<1>8. ASSUME Follows, Told PROVE NothingAsked'
  <2> SUFFICES ASSUME Syncs' = {}, toEmacs = << >>, st' \notin Recs PROVE ~emskinRecord
    BY <1>1 DEF NothingAsked
  <2>1. CASE m.kind = "screenshot" /\ Syncs = {}
    BY <1>1, <1>3, <1>8, <2>1 DEF Follows, NothingAsked, Told, EndsUnreported, Recs
  <2> QED
    BY <1>3, <1>6, <1>8, <2>1 DEF Follows, Recs
<1> QED
  BY <1>4, <1>7, <1>8

(* finish() ends a recording, and says so.                                  *)
LEMMA FinishedFollows ==
  ASSUME WireTyped, Finished
  PROVE  WireTyped' /\ NothingAsked' /\ (Heard /\ ~Crossing => Heard')
<1>1. /\ toEmacs' = Append(toEmacs, target) /\ st' = "idle" /\ target' = 0
      /\ UNCHANGED <<toServer, emskinRecord, sent>>
  BY DEF Finished, Goto
<1>2. WireTyped' /\ toEmacs' # << >>
  BY <1>1 DEF WireTyped
<1>3. ~Crossing => NewsFirst'
  BY <1>2 DEF Crossing, NewsFirst, Range
<1> QED
  BY <1>1, <1>2, <1>3
     DEF Heard, LastAsked, RecordingAsked, NothingAsked, Reported, Syncs, Recs

(* Emacs says what it wants, or hears that a recording ended.               *)
LEMMA EmacsStepFollows ==
  ASSUME WireTyped, Emacs
  PROVE  WireTyped' /\ (Heard /\ ~Crossing => Heard') /\ (Follows => NothingAsked')
<1>1. UNCHANGED <<st, target>> /\ toServer \in Seq(Message) /\ toEmacs \in Seq(Nat)
  BY DEF Emacs, recVars, WireTyped
<1>2. ASSUME NEW kind \in {"start", "stop", "screenshot"}, Say(kind), toEmacs' = toEmacs,
             kind = "screenshot" => emskinRecord' = emskinRecord,
             kind # "screenshot" => (kind = "start" <=> emskinRecord'),
             emskinRecord' \in BOOLEAN
      PROVE  WireTyped' /\ (Heard /\ ~Crossing => Heard') /\ (Follows => NothingAsked')
  <2> DEFINE new == Len(toServer) + 1
  <2>1. /\ toServer' \in Seq(Message) /\ sent' \in Nat
        /\ Len(toServer) \in Nat /\ DOMAIN toServer = 1 .. Len(toServer)
        /\ DOMAIN toServer' = 1 .. new
        /\ \A i \in DOMAIN toServer : toServer'[i] = toServer[i]
        /\ toServer'[new].kind = kind
    BY <1>1, <1>2 DEF Say, WireTyped, Message
  <2>2. WireTyped'
    BY <1>1, <1>2, <2>1 DEF WireTyped
  <2>3. ~Crossing => NewsFirst'
    BY DEF Crossing, NewsFirst, Range
  <2>4. CASE kind = "screenshot"
    <3>1. Syncs' = Syncs /\ emskinRecord' = emskinRecord
      BY <1>2, <2>1, <2>4 DEF Syncs
    <3> QED
      BY <1>1, <1>2, <2>1, <2>2, <2>3, <3>1
         DEF Heard, Follows, LastAsked, RecordingAsked, NothingAsked, Reported, Syncs
  <2>5. CASE kind # "screenshot"
    <3>1. new \in Syncs' /\ \A i \in Syncs' : i <= new /\ i \in Nat
      BY <1>2, <2>1, <2>5 DEF Syncs
    <3>2. LastAsked'
      <4> SUFFICES ASSUME NEW i \in Syncs', \A j \in Syncs' : j <= i
                   PROVE  toServer'[i].kind = "start" <=> emskinRecord'
        BY DEF LastAsked
      <4>1. i = new
        BY <2>1, <3>1
      <4> QED
        BY <1>2, <2>1, <2>5, <4>1
    <3> QED
      BY <1>1, <1>2, <2>2, <2>3, <3>1, <3>2 DEF Heard, RecordingAsked, NothingAsked, Reported
  <2> QED
    BY <2>4, <2>5
<1>3. CASE Toggle \/ ApplyConfig
  <2>1. emskinRecord \in BOOLEAN
    BY DEF WireTyped
  <2>2. /\ Say(IF emskinRecord' THEN "start" ELSE "stop") /\ toEmacs' = toEmacs
        /\ emskinRecord' \in BOOLEAN
    <3>1. CASE Toggle
      BY <3>1 DEF Toggle, Sync
    <3>2. CASE ApplyConfig
      BY <2>1, <3>2 DEF ApplyConfig, Sync
    <3> QED
      BY <1>3, <3>1, <3>2
  <2>3. CASE emskinRecord' = TRUE
    <3>1. Say("start")
      BY <2>2, <2>3
    <3> QED
      BY <1>2, <2>2, <2>3, <3>1
  <2>4. CASE emskinRecord' = FALSE
    <3>1. Say("stop")
      BY <2>2, <2>4
    <3> QED
      BY <1>2, <2>2, <2>4, <3>1
  <2> QED
    BY <2>2, <2>3, <2>4
<1>4. CASE TakeScreenshot
  BY <1>2, <1>4 DEF TakeScreenshot, WireTyped
<1>5. CASE OnRecordingStopped
  <2>1. /\ toEmacs # << >> /\ toEmacs' \in Seq(Nat) /\ emskinRecord' = FALSE
        /\ UNCHANGED <<toServer, sent>>
    BY <1>1, <1>5 DEF OnRecordingStopped
  <2>2. Syncs' = Syncs
    BY <2>1 DEF Syncs
  <2>3. WireTyped' /\ NothingAsked'
    BY <1>1, <2>1, <2>2 DEF WireTyped, NothingAsked
  <2>4. ASSUME Heard PROVE Heard'
    <3>1. st \notin Recs /\ \A i \in DOMAIN toServer : toServer[i].kind # "start"
      BY <2>1, <2>4 DEF Heard, NewsFirst, Reported
    <3>2. NewsFirst' /\ LastAsked'
      BY <2>1, <2>2, <3>1 DEF NewsFirst, LastAsked, Syncs
    <3>3. RecordingAsked' /\ Reported'
      BY <1>1, <3>1 DEF RecordingAsked, Reported, Recs
    <3> QED
      BY <3>2, <3>3 DEF Heard
  <2> QED
    BY <2>3, <2>4
<1> QED
  BY <1>3, <1>4, <1>5 DEF Emacs

(* Every step, as long as no start crosses the news of an end.              *)
LEMMA StepFollows ==
  ASSUME WireTyped, [Next]_vars
  PROVE  /\ WireTyped'
         /\ Heard /\ (~Crossing \/ UNCHANGED vars) => Heard'
         /\ Follows /\ (Told \/ UNCHANGED vars) => NothingAsked'
<1>1. CASE UNCHANGED vars
  BY <1>1 DEF vars, recVars, emacsVars, WireTyped, Heard, Follows, NewsFirst, LastAsked,
     RecordingAsked, NothingAsked, Reported, Syncs
<1>2. CASE Next /\ ~UNCHANGED vars
  BY <1>2, SilentFollows, HandleFollows, FinishedFollows, EmacsStepFollows DEF Next, MainLoop
<1> QED
  BY <1>1, <1>2

(* A recording that runs, or is asked for, is one that Emacs shows, once    *)
(* all messages have arrived.                                               *)
RecordingIsShown ==
  toServer = << >> /\ toEmacs = << >> =>
    (st \in {"recRequested", "recording"} => emskinRecord)

(* When all messages have arrived, emskin-record is what the recorder does, *)
(* as long as no recording has ended without news of it (a screenshot while *)
(* it ran, a spawn that failed) and no start has crossed the news of an     *)
(* end.  The unreported ends only ever leave emskin-record set with nothing *)
(* recorded: while starts do not cross that news, a recording is never one  *)
(* that Emacs does not show, whatever fails (RequestRecording,              *)
(* StopRecording and finish() in recording.rs, emskin--on-recording-stopped *)
(* in the elisp).                                                           *)
THEOREM EmacsKeepsUp ==
  /\ Spec => []EmacsFollows
  /\ Spec => ([][~Crossing]_vars => []RecordingIsShown)
<1>1. Init => WireTyped /\ Follows
  <2> SUFFICES ASSUME Init PROVE WireTyped /\ Follows
    OBVIOUS
  <2>1. /\ toServer = << >> /\ toEmacs = << >> /\ st = "idle" /\ emskinRecord = FALSE
        /\ target = 0 /\ sent = 0
    BY DEF Init
  <2>2. WireTyped
    <3>1. << >> \in Seq(Message) /\ << >> \in Seq(Nat)
      OBVIOUS
    <3> QED
      BY <2>1, <3>1 DEF WireTyped
  <2>3. Syncs = {}
    BY <2>1 DEF Syncs
  <2> QED
    BY <2>1, <2>2, <2>3 DEF Follows, Heard, NewsFirst, LastAsked, RecordingAsked, NothingAsked,
       Reported, Recs
<1>2. FollowInv /\ [Next]_vars => FollowInv'
  <2> SUFFICES ASSUME FollowInv, [Next]_vars PROVE FollowInv'
    OBVIOUS
  <2>1. /\ WireTyped'
        /\ Heard /\ (~Crossing \/ UNCHANGED vars) => Heard'
        /\ Follows /\ (Told \/ UNCHANGED vars) => NothingAsked'
    BY StepFollows DEF FollowInv
  <2>2. ~apart' => ~apart /\ (UNCHANGED vars \/ (~Crossing /\ Told))
    BY DEF Next, Watch, Told, vars
  <2> QED
    BY <2>1, <2>2 DEF FollowInv, Follows
<1>3. FollowInv => EmacsFollows
  <2> SUFFICES ASSUME FollowInv, ~apart, toServer = << >>, toEmacs = << >>
               PROVE  /\ st \in {"recRequested", "recording"} => emskinRecord
                      /\ st \notin Recs => ~emskinRecord
    BY DEF EmacsFollows, Recs
  <2>1. Syncs = {}
    BY DEF Syncs
  <2> QED
    BY <2>1 DEF FollowInv, Follows, Heard, RecordingAsked, NothingAsked
<1>4. HeardInv /\ [Next]_vars /\ [~Crossing]_vars => HeardInv'
  <2> SUFFICES ASSUME HeardInv, [Next]_vars, [~Crossing]_vars PROVE HeardInv'
    OBVIOUS
  <2> QED
    BY StepFollows DEF HeardInv
<1>5. HeardInv => RecordingIsShown
  <2> SUFFICES ASSUME HeardInv, toServer = << >>, toEmacs = << >>,
                      st \in {"recRequested", "recording"}
               PROVE  emskinRecord
    BY DEF RecordingIsShown
  <2>1. Syncs = {}
    BY DEF Syncs
  <2> QED
    BY <2>1 DEF HeardInv, Heard, RecordingAsked
<1>6. Init => FollowInv /\ HeardInv
  BY <1>1 DEF FollowInv, HeardInv, Follows
<1>7. Spec => []EmacsFollows
  BY <1>2, <1>3, <1>6, PTL DEF Spec
<1>8. Spec => ([][~Crossing]_vars => []RecordingIsShown)
  BY <1>4, <1>5, <1>6, PTL DEF Spec
<1> QED
  BY <1>7, <1>8
=============================================================================
