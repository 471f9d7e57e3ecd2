--------------------------- MODULE EffectsProofs ---------------------------
(* For any number of messages, inputs and failures and any time limits: as  *)
(* long as no redraw is asked for, the screen shows what a redraw would     *)
(* paint, but for flashes of skeleton that have ended since.                *)
(*                                                                          *)
(* RestIsTrue is not inductive: a frame that comes out right says nothing   *)
(* about the time after it.  Rest adds why nothing moves then: every effect *)
(* that changes with time, or that would paint something else the next time,*)
(* has asked for a frame when it was painted last.                          *)
EXTENDS Effects, SequenceTheorems, WellFoundedInduction, TLAPS

(* The types, with the bounds that TypeOK asks for.                         *)
Listed   == [rect : Regions, slot : Nat, flash : Nat]
Pressed  == [label : Labels, age : Nat, repeat : Nat]
Splash   == [dismissed : BOOLEAN, age : 0 .. FadeTime, done : BOOLEAN]
Skeleton == {s \in [on : BOOLEAN, entries : Seq(Listed)] : s.entries # << >> => s.on}
KeyCast  == {k \in [on : BOOLEAN, entries : Seq(Pressed)] : Len(k.entries) <= MaxEntries}
JellyCursor == {j \in [on : BOOLEAN, state : {"idle", "primed", "animating"},
                       from : Carets \cup {None}, to : Carets \cup {None}, age : Nat] :
                  j.state # "idle" => j.on}
Trail    == [on : BOOLEAN, fresh : BOOLEAN, at : Places \cup {None}, lag : 0 .. TrailTime]
States   == {"idle", "requested", "recording", "stopping"}

EffectsTyped ==
  /\ splash \in Splash /\ skeleton \in Skeleton /\ measureOn \in BOOLEAN
  /\ keys \in KeyCast /\ jelly \in JellyCursor /\ trail \in Trail

Typed ==
  /\ EffectsTyped
  /\ needsRedraw \in BOOLEAN /\ lost \in BOOLEAN /\ absorbed \in BOOLEAN
  /\ lastEmacs \in BOOLEAN /\ emacsThere \in BOOLEAN
  /\ overlayOn \in BOOLEAN /\ lastRec \in BOOLEAN /\ rec \in States
  /\ pointer \in Places /\ held \subseteq Buttons /\ told \subseteq Buttons

(* The splash leaves the chain when it is done, and nothing else does.      *)
Chained ==
  chain = Registered \/ (chain = Registered \ {"splash"} /\ splash.done)

(* The effects as they are, before they are painted again.                  *)
Now ==
  [splash |-> splash, skeleton |-> skeleton, measure |-> measureOn, keys |-> keys,
   jelly |-> jelly, trail |-> trail, overlay |-> overlayOn]

Rest ==
  /\ splash.done /\ ~overlayOn
  /\ keys.on => keys.entries = << >>
  /\ jelly.on => jelly.state # "animating"
  /\ trail.on => ~trail.fresh /\ trail.at = pointer /\ trail.lag = 0
  /\ Shows(screen, Picture(Now))

Inv == Typed /\ Chained /\ (~needsRedraw /\ ~lost => Rest)

-----------------------------------------------------------------------------
(* Painting *)

(* A set of places in a list has a first one.                               *)
LEMMA LeastOf ==
  ASSUME NEW T \in SUBSET Nat, T # {}
  PROVE  \E m \in T : \A n \in T : m <= n
<1> DEFINE R == OpToRel(<, Nat)
<1>1. IsWellFoundedOn(R, Nat)
  BY Zenon, NatLessThanWellFounded
<1>2. \A x, y \in Nat : x < y => <<x, y>> \in R
  BY DEF OpToRel
<1> HIDE DEF R
<1>3. \E m \in T : \A n \in T : ~ (<<n, m>> \in R)
  BY <1>1, WFMin
<1>4. \A m, n \in T : ~ (<<n, m>> \in R) => m <= n
  <2> SUFFICES ASSUME NEW m \in T, NEW n \in T, n < m PROVE <<n, m>> \in R
    OBVIOUS
  <2>1. m \in Nat /\ n \in Nat
    OBVIOUS
  <2> QED
    BY <1>2, <2>1
<1> QED
  BY <1>3, <1>4

(* Painting keeps the types, and a splash that is done.                     *)
LEMMA PaintedTyped ==
  ASSUME Typed
  PROVE  /\ Painted.splash \in Splash /\ (splash.done => Painted.splash.done)
         /\ Painted.skeleton \in Skeleton /\ Painted.measure \in BOOLEAN
         /\ Painted.keys \in KeyCast /\ Painted.jelly \in JellyCursor
         /\ Painted.trail \in Trail /\ Painted.overlay = overlayOn
<1>1. SplashPainted \in Splash /\ (splash.done => SplashPainted.done)
  BY DEF Typed, EffectsTyped, SplashPainted, Splash
<1>2. SkeletonPainted \in Skeleton
  <2>1. skeleton \in [on : BOOLEAN, entries : Seq(Listed)]
    BY DEF Typed, EffectsTyped, Skeleton
  <2> DEFINE es == [k \in DOMAIN skeleton.entries |-> [skeleton.entries[k] EXCEPT !.slot = k]]
  <2>2. es \in Seq(Listed) /\ (es # << >> => skeleton.entries # << >>)
    <3>1. DOMAIN skeleton.entries = 1 .. Len(skeleton.entries) /\ Len(skeleton.entries) \in Nat
          /\ \A k \in 1 .. Len(skeleton.entries) : skeleton.entries[k] \in Listed
      BY <2>1
    <3>2. \A x \in Listed, k \in Nat : [x EXCEPT !.slot = k] \in Listed
      BY DEF Listed
    <3>3. \A k \in 1 .. Len(skeleton.entries) : es[k] \in Listed
      BY <3>1, <3>2
    <3>4. es \in [1 .. Len(skeleton.entries) -> Listed]
      BY <3>1, <3>3
    <3>5. es \in Seq(Listed)
      BY <3>1, <3>4
    <3>6. skeleton.entries = << >> => es = << >>
      BY <3>1
    <3> QED
      BY <3>5, <3>6
  <2>3. SkeletonPainted = [skeleton EXCEPT !.entries = es]
    BY DEF SkeletonPainted
  <2> HIDE DEF es
  <2>4. SkeletonPainted.on = skeleton.on /\ SkeletonPainted.entries = es
        /\ SkeletonPainted \in [on : BOOLEAN, entries : Seq(Listed)]
    BY <2>1, <2>2, <2>3
  <2> QED
    BY <2>2, <2>4 DEF Typed, EffectsTyped, Skeleton
<1>3. KeysPainted \in KeyCast
  <2>1. keys \in [on : BOOLEAN, entries : Seq(Pressed)] /\ Len(keys.entries) <= MaxEntries
        /\ MaxEntries \in Nat
    BY EffectsAssumption DEF Typed, EffectsTyped, KeyCast
  <2> DEFINE young == {k \in DOMAIN keys.entries : keys.entries[k].age < KeyLife}
             first == CHOOSE k \in young : \A j \in young : k <= j
             es    == IF young = {} THEN << >> ELSE SubSeq(keys.entries, first, Len(keys.entries))
  <2>2. KeysPainted = [keys EXCEPT !.entries = es]
    BY DEF KeysPainted
  <2>3. es \in Seq(Pressed) /\ Len(es) <= MaxEntries
    <3>1. CASE young = {}
      BY <2>1, <3>1
    <3>2. CASE young # {}
      <4>0. young \in SUBSET Nat
        BY <2>1
      <4>1. \E k \in young : \A j \in young : k <= j
        <5> HIDE DEF young
        <5> QED
          BY <3>2, <4>0, LeastOf
      <4>2. first \in 1 .. Len(keys.entries)
        BY <2>1, <4>1
      <4> HIDE DEF first
      <4>3. PICK f \in 1 .. Len(keys.entries) : f = first
        BY <4>2
      <4>4. /\ SubSeq(keys.entries, f, Len(keys.entries)) \in Seq(Pressed)
            /\ Len(SubSeq(keys.entries, f, Len(keys.entries))) = Len(keys.entries) - f + 1
        BY <2>1
      <4> QED
        BY <2>1, <3>2, <4>3, <4>4
    <3> QED
      BY <3>1, <3>2
  <2> HIDE DEF es
  <2> QED
    BY <2>1, <2>2, <2>3 DEF KeyCast
<1>4. JellyPainted \in JellyCursor
  BY DEF Typed, EffectsTyped, JellyPainted, JellyCursor
<1>5. TrailPainted \in Trail
  <2>1. TrailTime \in Nat /\ TrailTime >= 1 /\ pointer \in Places
    BY EffectsAssumption DEF Typed
  <2>2. trail \in Trail /\ trail.lag \in 0 .. TrailTime
    BY DEF Typed, EffectsTyped, Trail
  <2> DEFINE lag == IF trail.fresh THEN 1
                    ELSE IF trail.at # pointer THEN TrailTime
                    ELSE IF trail.lag = 0 THEN 0 ELSE trail.lag - 1
  <2>3. lag \in 0 .. TrailTime
    BY <2>1, <2>2
  <2>4. TrailPainted = [trail EXCEPT !.fresh = FALSE, !.at = pointer, !.lag = lag]
    BY DEF TrailPainted
  <2> HIDE DEF lag
  <2> QED
    BY <2>1, <2>2, <2>3, <2>4 DEF Trail
<1> QED
  BY <1>1, <1>2, <1>3, <1>4, <1>5 DEF Painted, Typed, EffectsTyped

(* At rest the next redraw paints what there is.                            *)
LEMMA RestRepeats ==
  ASSUME Typed, Rest
  PROVE  Picture(Painted) = Picture(Now)
<1>1. Painted.splash = splash /\ Painted.measure = measureOn /\ Painted.overlay = overlayOn
  BY DEF Painted, Rest
<1>2. Rects(Painted) = Rects(Now)
  <2>1. skeleton \in [on : BOOLEAN, entries : Seq(Listed)]
    BY DEF Typed, EffectsTyped, Skeleton
  <2>2. CASE skeleton.on
    <3> DEFINE es == [k \in DOMAIN skeleton.entries |-> [skeleton.entries[k] EXCEPT !.slot = k]]
    <3>1. DOMAIN es = DOMAIN skeleton.entries
          /\ \A k \in DOMAIN skeleton.entries : Outline(es[k]) = Outline(skeleton.entries[k])
      BY <2>1 DEF Listed, Outline
    <3>2. Painted.skeleton.entries = es /\ Painted.skeleton.on
      BY <2>1, <2>2 DEF Painted, SkeletonPainted
    <3>3. Rects(Painted) = [k \in DOMAIN es |-> Outline(es[k])]
      BY <3>2 DEF Rects
    <3>4. Rects(Now) = [k \in DOMAIN skeleton.entries |-> Outline(skeleton.entries[k])]
      BY <2>2 DEF Rects, Now
    <3> HIDE DEF es
    <3> QED
      BY <3>1, <3>3, <3>4
  <2>3. CASE ~skeleton.on
    BY <2>3 DEF Painted, Rects, Now
  <2> QED
    BY <2>2, <2>3
<1>3. Chords(Painted) = Chords(Now)
  <2>1. keys \in [on : BOOLEAN, entries : Seq(Pressed)]
    BY DEF Typed, EffectsTyped, KeyCast
  <2>2. CASE keys.on
    <3>1. keys.entries = << >> /\ DOMAIN keys.entries = {}
      BY <2>2 DEF Rest
    <3>2. KeysPainted.entries = << >> /\ KeysPainted.on
      BY <2>1, <2>2, <3>1 DEF KeysPainted
    <3> QED
      BY <2>2, <3>1, <3>2 DEF Painted, Chords, Now
  <2>3. CASE ~keys.on
    BY <2>3 DEF Painted, Chords, Now
  <2> QED
    BY <2>2, <2>3
<1>4. Jelly(Painted) = Jelly(Now)
  BY DEF Rest, Painted, JellyPainted, Jelly, Now
<1>5. Streak(Painted) = Streak(Now)
  <2>1. trail \in Trail
    BY DEF Typed, EffectsTyped
  <2>2. CASE trail.on
    BY <2>1, <2>2 DEF Trail, Rest, Painted, TrailPainted, Streak, Now
  <2>3. CASE ~trail.on
    BY <2>3 DEF Painted, Streak, Now
  <2> QED
    BY <2>2, <2>3
<1> QED
  BY <1>1, <1>2, <1>3, <1>4, <1>5 DEF Picture, Logo, Dot, Cross, Now
-----------------------------------------------------------------------------
(* Redraws *)

(* What the recorder makes of a frame.                                      *)
LEMMA RecorderTyped ==
  ASSUME rec \in States
  PROVE  /\ Captured[rec] \subseteq States
         /\ \A r \in States : Finalized[r] \subseteq States
BY DEF Captured, Finalized, States

(* Switching the key cast off forgets the keys.                             *)
LEMMA SwitchedTyped ==
  ASSUME NEW k \in KeyCast, NEW on \in BOOLEAN
  PROVE  KeysSwitched(k, on) \in KeyCast /\ (~on => ~KeysSwitched(k, on).on)
<1>1. << >> \in Seq(Pressed) /\ Len(<< >>) = 0 /\ MaxEntries \in Nat
  BY EffectsAssumption
<1>2. k \in [on : BOOLEAN, entries : Seq(Pressed)] /\ Len(k.entries) <= MaxEntries
  BY DEF KeyCast
<1>3. CASE k.on = on
  BY <1>2, <1>3 DEF KeysSwitched
<1>4. CASE k.on # on /\ on
  BY <1>2, <1>4 DEF KeysSwitched, KeyCast
<1>5. CASE k.on # on /\ ~on
  BY <1>1, <1>2, <1>5 DEF KeysSwitched, KeyCast
<1> QED
  BY <1>3, <1>4, <1>5

(* A frame that has come out leaves everything typed and, if nothing asks   *)
(* for another, at rest.                                                    *)
LEMMA FrameRests ==
  ASSUME Inv, Redraw, RenderFrame
  PROVE  Inv'
<1>1. Typed /\ Chained /\ keys \in KeyCast
  BY DEF Inv, Typed, EffectsTyped
<1>2. PICK fx : fx = Painted
  OBVIOUS
<1>3. /\ fx.splash \in Splash /\ (splash.done => fx.splash.done)
      /\ fx.skeleton \in Skeleton /\ fx.measure \in BOOLEAN
      /\ fx.keys \in KeyCast /\ fx.jelly \in JellyCursor
      /\ fx.trail \in Trail /\ fx.overlay = overlayOn
  BY <1>1, <1>2, PaintedTyped
<1>4. /\ splash' = fx.splash /\ skeleton' = fx.skeleton /\ measureOn' = fx.measure
      /\ jelly' = fx.jelly /\ trail' = fx.trail
      /\ screen' = Picture(fx) /\ lost' = FALSE /\ chain' = Retained(fx)
      /\ lastEmacs' = emacsThere
      /\ needsRedraw' = (WantRedraw(fx) \/ Continuous)
      /\ UNCHANGED <<absorbed, emacsThere, pointer, held, told>>
  BY <1>2 DEF Redraw, RenderFrame, Keep, Latch, seatVars
<1> DEFINE active == rec' \in {"requested", "recording"}
<1>5. /\ overlayOn' = active /\ lastRec' = active
      /\ keys' = IF active # lastRec THEN KeysSwitched(fx.keys, active) ELSE fx.keys
  BY <1>2 DEF RenderFrame, FollowRecorder
<1>6. rec' \in States
  <2>1. \E captured \in Captured[rec] : rec' \in Finalized[captured]
    BY DEF RenderFrame
  <2> QED
    BY <1>1, <2>1, RecorderTyped DEF Typed
<1>7. keys' \in KeyCast /\ (keys'.on /\ ~active => fx.keys.on /\ keys'.entries = fx.keys.entries)
  <2>1. KeysSwitched(fx.keys, active) \in KeyCast
        /\ (~active => ~KeysSwitched(fx.keys, active).on)
    <3>1. active \in BOOLEAN
      OBVIOUS
    <3> QED
      BY <1>3, <3>1, SwitchedTyped
  <2> QED
    BY <1>3, <1>5, <2>1
<1>8. Chained'
  BY <1>1, <1>3, <1>4 DEF Chained, Retained, Registered
<1>9. Typed'
  <2>1. EffectsTyped'
    BY <1>3, <1>4, <1>7 DEF EffectsTyped
  <2>2. needsRedraw' \in BOOLEAN /\ overlayOn' \in BOOLEAN /\ lastRec' \in BOOLEAN
    BY <1>4, <1>5
  <2>3. lost' \in BOOLEAN /\ lastEmacs' \in BOOLEAN
    BY <1>1, <1>4 DEF Typed
  <2> QED
    BY <1>1, <1>4, <1>6, <2>1, <2>2, <2>3 DEF Typed
<1>10. ASSUME ~needsRedraw' PROVE Rest'
  <2>1. rec' = "idle" /\ ~active /\ ~overlayOn' /\ ~WantRedraw(fx)
    BY <1>4, <1>5, <1>10 DEF Continuous
  <2>2. \A e \in chain : ~ (Active(fx)[e] /\ Wants(fx)[e])
    BY <2>1 DEF WantRedraw
  <2>3. /\ "recorder" \in chain /\ "key_cast" \in chain /\ "jelly_cursor" \in chain
        /\ "cursor_trail" \in chain /\ (~splash.done => "splash" \in chain)
    BY <1>1 DEF Chained, Registered
  <2>4. /\ ~splash.done => fx.splash.done
        /\ ~fx.overlay
        /\ ~ (fx.keys.on /\ fx.keys.entries # << >>)
        /\ ~ (fx.jelly.on /\ fx.jelly.state = "animating")
        /\ ~ (fx.trail.on /\ fx.trail.lag > 0)
    BY <2>2, <2>3 DEF Active, Wants, NoRedraw, Registered
  <2>5. splash'.done
    BY <1>3, <1>4, <2>4
  <2>6. keys'.on => keys'.entries = << >>
    BY <1>7, <2>1, <2>4
  <2>7. jelly'.on => jelly'.state # "animating"
    BY <1>4, <2>4
  <2>8. trail'.on => ~trail'.fresh /\ trail'.at = pointer' /\ trail'.lag = 0
    <3>1. fx.trail.on => fx.trail.lag = 0
      BY <1>3, <2>4 DEF Trail
    <3>2. fx.trail = IF trail.on THEN TrailPainted ELSE trail
      BY <1>2 DEF Painted
    <3>3. trail \in Trail
      BY <1>1 DEF Typed, EffectsTyped
    <3>4. fx.trail.on => ~fx.trail.fresh /\ fx.trail.at = pointer
      BY <3>2, <3>3 DEF Trail, TrailPainted
    <3> QED
      BY <1>4, <3>1, <3>4
  <2>9. screen' = Picture(Now)'
    <3>1. Logo(fx) = FALSE /\ Logo(Now)' = FALSE
      BY <1>3, <2>4, <2>5 DEF Logo, Now
    <3>2. Dot(fx) = FALSE /\ Dot(Now)' = FALSE
      BY <2>1, <2>4, <1>3, <1>5 DEF Dot, Now, Typed
    <3>3. Rects(fx) = Rects(Now)'
      BY <1>4 DEF Rects, Now
    <3>4. Cross(fx) = Cross(Now)'
      BY <1>4 DEF Cross, Now
    <3>5. Chords(fx) = << >> /\ Chords(Now)' = << >>
      BY <2>4, <2>6 DEF Chords, Now
    <3>6. Jelly(fx) = Jelly(Now)'
      BY <1>4 DEF Jelly, Now
    <3>7. Streak(fx) = Streak(Now)'
      BY <1>4 DEF Streak, Now
    <3> QED
      BY <1>4, <3>1, <3>2, <3>3, <3>4, <3>5, <3>6, <3>7 DEF Picture
  <2>10. Shows(screen, Picture(Now))'
    BY <2>9 DEF Shows
  <2> QED
    BY <2>1, <2>5, <2>6, <2>7, <2>8, <2>10 DEF Rest
<1> QED
  BY <1>8, <1>9, <1>10 DEF Inv

(* A frame that fails is lost, and the effects are as typed as before.      *)
LEMMA FailureKeeps ==
  ASSUME Inv, Redraw, BindFails \/ PaintFails \/ SubmitFails
  PROVE  Inv'
<1>1. Typed /\ Chained
  BY DEF Inv
<1>2. lost' = TRUE /\ UNCHANGED <<absorbed, emacsThere, pointer, held, told>>
  BY DEF Redraw, BindFails, PaintFails, SubmitFails, Fails, seatVars
<1>3. CASE BindFails
  BY <1>1, <1>2, <1>3 DEF BindFails, Inv, Typed, EffectsTyped, Chained, effectVars, recVars
<1>4. ASSUME Keep(Painted), keys' = Painted.keys PROVE EffectsTyped'
  BY <1>1, <1>4, PaintedTyped DEF Keep, EffectsTyped
<1>5. CASE PaintFails
  <2>1. EffectsTyped' /\ needsRedraw' = FALSE /\ lastEmacs' = emacsThere
        /\ UNCHANGED <<overlayOn, rec, lastRec, chain>>
    BY <1>4, <1>5 DEF PaintFails, Latch, recVars
  <2>2. splash.done => splash'.done
    BY <1>1, <1>5, PaintedTyped DEF PaintFails, Keep
  <2> QED
    BY <1>1, <1>2, <2>1, <2>2 DEF Inv, Typed, Chained
<1>6. CASE SubmitFails
  <2>1. EffectsTyped' /\ needsRedraw' \in BOOLEAN /\ lastEmacs' = emacsThere
        /\ UNCHANGED <<overlayOn, lastRec>> /\ rec' \in Captured[rec]
        /\ chain' = Retained(Painted) /\ splash' = Painted.splash
    BY <1>4, <1>6 DEF SubmitFails, Latch, Keep, WantRedraw
  <2>2. splash.done => splash'.done
    BY <1>1, <2>1, PaintedTyped
  <2>3. Chained'
    BY <1>1, <2>1, <2>2 DEF Chained, Retained, Registered
  <2>4. rec' \in States
    BY <1>1, <2>1, RecorderTyped DEF Typed
  <2> QED
    BY <1>1, <1>2, <2>1, <2>3, <2>4 DEF Inv, Typed
<1> QED
  BY <1>3, <1>5, <1>6

-----------------------------------------------------------------------------
(* Time *)

(* Ages stop at their limits.                                               *)
LEMMA AgedTyped ==
  ASSUME NEW limit \in Nat, NEW age \in Nat
  PROVE  /\ Aged(age, limit) \in Nat
         /\ age \in 0 .. limit => Aged(age, limit) \in 0 .. limit
BY DEF Aged

(* A flash gets shorter, and does not start again.                          *)
LEMMA FadingOnly ==
  ASSUME NEW x \in Listed
  PROVE  /\ FlashFades(x) \in Listed /\ FlashFades(x).rect = x.rect
         /\ FlashFades(x).flash > 0 => x.flash > 0
<1>1. PICK f \in Nat : f = IF x.flash = 0 THEN 0 ELSE x.flash - 1
  BY DEF Listed
<1>2. FlashFades(x) = [x EXCEPT !.flash = f]
  BY <1>1 DEF FlashFades
<1>3. FlashFades(x) \in Listed /\ FlashFades(x).rect = x.rect /\ FlashFades(x).flash = f
  BY <1>2 DEF Listed
<1> QED
  BY <1>1, <1>3 DEF Listed

(* Of what is at rest, time changes only flashes, and these only end.       *)
LEMMA ClockKeeps ==
  ASSUME Inv, Clock
  PROVE  Inv'
<1>1. /\ Typed /\ Chained /\ Older
      /\ UNCHANGED <<needsRedraw, chain, measureOn, trail, overlayOn, rec, lastRec, absorbed,
                     lastEmacs, emacsThere, pointer, held, told, screen, lost>>
  BY DEF Inv, Clock, recVars, seatVars
<1>2. KeyLife \in Nat /\ JellyTime \in Nat /\ FadeTime \in Nat
  BY EffectsAssumption
<1>3. splash' \in Splash /\ splash'.done = splash.done
  <2>1. splash \in Splash
    BY <1>1 DEF Typed, EffectsTyped
  <2>2. splash' = splash \/ splash' = [splash EXCEPT !.age = Aged(splash.age, FadeTime)]
    BY <1>1 DEF Older
  <2>3. Aged(splash.age, FadeTime) \in 0 .. FadeTime
    BY <1>2, <2>1, AgedTyped DEF Splash
  <2> QED
    BY <2>1, <2>2, <2>3 DEF Splash
<1>4. keys' \in KeyCast /\ keys'.on = keys.on /\ (keys.entries = << >> => keys'.entries = << >>)
  <2>1. keys \in [on : BOOLEAN, entries : Seq(Pressed)] /\ Len(keys.entries) <= MaxEntries
    BY <1>1 DEF Typed, EffectsTyped, KeyCast
  <2> DEFINE es == [k \in DOMAIN keys.entries |-> OlderKey(keys.entries[k])]
  <2>2. keys' = [keys EXCEPT !.entries = es]
    BY <1>1 DEF Older
  <2>3. /\ DOMAIN keys.entries = 1 .. Len(keys.entries) /\ Len(keys.entries) \in Nat
        /\ \A k \in 1 .. Len(keys.entries) : keys.entries[k] \in Pressed
    BY <2>1
  <2>4. \A x \in Pressed : OlderKey(x) \in Pressed
    BY <1>2, AgedTyped DEF Pressed, OlderKey
  <2>5. es \in [1 .. Len(keys.entries) -> Pressed]
    BY <2>3, <2>4
  <2>6. es \in Seq(Pressed) /\ Len(es) = Len(keys.entries)
    <3>1. PICK n \in Nat : n = Len(keys.entries)
      BY <2>3
    <3> HIDE DEF es
    <3>2. es \in [1 .. n -> Pressed]
      BY <2>5, <3>1
    <3> QED
      BY <3>1, <3>2
  <2>7. keys.entries = << >> => es = << >>
    BY <2>3
  <2> HIDE DEF es
  <2> QED
    BY <2>1, <2>2, <2>6, <2>7 DEF KeyCast
<1>5. jelly' \in JellyCursor /\ (jelly.state # "animating" => jelly' = jelly)
      /\ jelly'.on = jelly.on /\ jelly'.state = jelly.state
  <2>1. jelly \in JellyCursor
    BY <1>1 DEF Typed, EffectsTyped
  <2>2. jelly' = jelly \/ jelly' = [jelly EXCEPT !.age = Aged(jelly.age, JellyTime)]
    BY <1>1 DEF Older
  <2>3. Aged(jelly.age, JellyTime) \in Nat
    BY <1>2, <2>1, AgedTyped DEF JellyCursor
  <2>4. jelly.state # "animating" => jelly' = jelly
    BY <1>1 DEF Older
  <2> QED
    BY <2>1, <2>2, <2>3, <2>4 DEF JellyCursor
<1>6. /\ skeleton' \in Skeleton /\ DOMAIN Rects(Now)' = DOMAIN Rects(Now)
      /\ \A k \in DOMAIN Rects(Now) :
           /\ Rects(Now)'[k].rect = Rects(Now)[k].rect
           /\ Rects(Now)'[k].lit => Rects(Now)[k].lit
  <2>1. skeleton \in [on : BOOLEAN, entries : Seq(Listed)]
        /\ (skeleton.entries # << >> => skeleton.on)
    BY <1>1 DEF Typed, EffectsTyped, Skeleton
  <2> DEFINE es == [k \in DOMAIN skeleton.entries |-> FlashFades(skeleton.entries[k])]
  <2>2. skeleton' = [skeleton EXCEPT !.entries = es]
    BY <1>1 DEF Older
  <2>3. /\ DOMAIN skeleton.entries = 1 .. Len(skeleton.entries) /\ Len(skeleton.entries) \in Nat
        /\ \A k \in 1 .. Len(skeleton.entries) : skeleton.entries[k] \in Listed
    BY <2>1
  <2>4. ASSUME NEW k \in 1 .. Len(skeleton.entries)
        PROVE  /\ es[k] \in Listed /\ es[k].rect = skeleton.entries[k].rect
               /\ es[k].flash > 0 => skeleton.entries[k].flash > 0
    <3>1. es[k] = FlashFades(skeleton.entries[k]) /\ skeleton.entries[k] \in Listed
      BY <2>3
    <3> HIDE DEF es
    <3> QED
      BY <3>1, FadingOnly
  <2>5. /\ es \in [1 .. Len(skeleton.entries) -> Listed]
        /\ \A k \in 1 .. Len(skeleton.entries) :
             /\ skeleton.entries[k].rect = es[k].rect
             /\ es[k].flash > 0 => skeleton.entries[k].flash > 0
    BY <2>3, <2>4
  <2>6. es \in Seq(Listed) /\ DOMAIN es = DOMAIN skeleton.entries
    <3>1. es \in [1 .. Len(skeleton.entries) -> Listed]
      BY <2>3, <2>5
    <3> QED
      BY <2>3, <3>1
  <2>7. skeleton.entries = << >> => es = << >>
    BY <2>3
  <2> HIDE DEF es
  <2>8. skeleton' \in [on : BOOLEAN, entries : Seq(Listed)]
        /\ skeleton'.on = skeleton.on /\ skeleton'.entries = es
    BY <2>1, <2>2, <2>6
  <2>9. Rects(Now)' = IF skeleton.on THEN [k \in DOMAIN es |-> Outline(es[k])] ELSE << >>
    BY <2>8 DEF Rects, Now
  <2>10. Rects(Now) = IF skeleton.on
                      THEN [k \in DOMAIN skeleton.entries |-> Outline(skeleton.entries[k])]
                      ELSE << >>
    BY DEF Rects, Now
  <2>11. skeleton' \in Skeleton
    BY <2>1, <2>7, <2>8 DEF Skeleton
  <2>12. CASE skeleton.on
    <3>1. /\ DOMAIN Rects(Now) = 1 .. Len(skeleton.entries)
          /\ DOMAIN Rects(Now)' = 1 .. Len(skeleton.entries)
      BY <2>3, <2>6, <2>9, <2>10, <2>12
    <3>2. ASSUME NEW k \in 1 .. Len(skeleton.entries)
          PROVE  /\ Rects(Now)'[k].rect = Rects(Now)[k].rect
                 /\ Rects(Now)'[k].lit => Rects(Now)[k].lit
      <4>1. Rects(Now)[k] = Outline(skeleton.entries[k]) /\ Rects(Now)'[k] = Outline(es[k])
        BY <2>3, <2>6, <2>9, <2>10, <2>12
      <4>2. /\ Rects(Now)[k].rect = skeleton.entries[k].rect
            /\ Rects(Now)'[k].rect = es[k].rect
            /\ Rects(Now)[k].lit = (skeleton.entries[k].flash > 0)
            /\ Rects(Now)'[k].lit = (es[k].flash > 0)
        BY <4>1 DEF Outline
      <4> QED
        BY <2>5, <4>2
    <3> QED
      BY <2>11, <3>1, <3>2
  <2>13. CASE ~skeleton.on
    BY <2>9, <2>10, <2>11, <2>13
  <2> QED
    BY <2>12, <2>13
<1>7. Typed' /\ Chained'
  <2>1. EffectsTyped'
    BY <1>1, <1>3, <1>4, <1>5, <1>6 DEF Typed, EffectsTyped
  <2> QED
    BY <1>1, <1>3, <2>1 DEF Typed, Chained
<1>8. ASSUME Rest PROVE Rest'
  <2>1. keys'.on => keys'.entries = << >> /\ keys.entries = << >>
    BY <1>4, <1>8 DEF Rest
  <2>2. jelly'.on => jelly'.state # "animating"
    BY <1>5, <1>8 DEF Rest
  <2>3. Logo(Now)' = Logo(Now)
    BY <1>1, <1>3, <1>8 DEF Rest, Logo, Now
  <2>4. Dot(Now)' = Dot(Now) /\ Cross(Now)' = Cross(Now) /\ Streak(Now)' = Streak(Now)
    BY <1>1 DEF Dot, Cross, Streak, Now
  <2>5. Chords(Now)' = Chords(Now)
    BY <1>4, <2>1 DEF Chords, Now
  <2>6. Jelly(Now)' = Jelly(Now)
    BY <1>5, <1>8 DEF Rest, Jelly, Now
  <2>7. /\ \A e \in Registered \ {"skeleton"} : Picture(Now)'[e] = Picture(Now)[e]
        /\ Picture(Now).skeleton = Rects(Now) /\ Picture(Now)'.skeleton = Rects(Now)'
    BY <2>3, <2>4, <2>5, <2>6 DEF Picture, Registered
  <2>8. Shows(screen, Picture(Now))
    BY <1>8 DEF Rest
  <2>9. Shows(screen, Picture(Now))'
    BY <1>1, <1>6, <2>7, <2>8 DEF Shows
  <2> QED
    BY <1>1, <1>3, <1>8, <2>1, <2>2, <2>9 DEF Rest
<1> QED
  BY <1>1, <1>7, <1>8 DEF Inv

-----------------------------------------------------------------------------
(* Messages and input *)

(* JellyCursor::update keeps the cursor's type.                             *)
LEMMA UpdatedTyped ==
  ASSUME jelly \in JellyCursor, NEW caret \in Carets \cup {None}
  PROVE  JellyUpdated(caret) \in JellyCursor
<1>1. NoCaret(TRUE) \in JellyCursor
  BY DEF NoCaret, JellyCursor
<1>2. At(caret) \in JellyCursor
  BY DEF At, JellyCursor
<1>3. Moving(jelly.to, caret) \in JellyCursor
  BY DEF Moving, JellyCursor
<1> QED
  BY <1>1, <1>2, <1>3 DEF JellyUpdated

(* set_rects: what is used again keeps its place and flash.                 *)
LEMMA RectsTyped ==
  ASSUME skeleton \in Skeleton, NEW n \in Nat, NEW rects \in [1 .. n -> Regions],
         SetSkeleton(TRUE, rects)
  PROVE  skeleton' \in Skeleton
<1> DEFINE es == [k \in DOMAIN rects |-> Entry(k, rects[k])]
<1>1. skeleton.entries \in Seq(Listed)
  BY DEF Skeleton
<1>2. ASSUME NEW k \in 1 .. n PROVE Entry(k, rects[k]) \in Listed
  <2>1. rects[k] \in Regions
    OBVIOUS
  <2>2. CASE k \in DOMAIN skeleton.entries
    <3>1. skeleton.entries[k] \in Listed
      BY <1>1, <2>2
    <3> QED
      BY <2>1, <2>2, <3>1 DEF Entry, Listed
  <2>3. CASE k \notin DOMAIN skeleton.entries
    BY <2>1, <2>3 DEF Entry, Listed
  <2> QED
    BY <2>2, <2>3
<1>3. es \in [1 .. n -> Listed]
  BY <1>2
<1>4. skeleton' = [on |-> TRUE, entries |-> es]
  BY DEF SetSkeleton
<1> HIDE DEF es
<1>5. es \in Seq(Listed)
  BY <1>3
<1> QED
  BY <1>4, <1>5 DEF Skeleton

(* Every setter keeps the types.                                            *)
LEMMA MessageKeeps ==
  ASSUME Inv, HandleMessage
  PROVE  Inv'
<1>1. Typed /\ Chained /\ EffectsTyped
  BY DEF Inv, Typed
<1>2. /\ needsRedraw' = TRUE
      /\ UNCHANGED <<chain, overlayOn, lastRec, lastEmacs, emacsThere, pointer, held, told,
                     lost>>
  BY DEF HandleMessage, Message, seatVars
<1> SUFFICES EffectsTyped' /\ rec' \in States /\ absorbed' \in BOOLEAN
             /\ (splash.done => splash'.done)
  BY <1>1, <1>2 DEF Inv, Typed, Chained
<1>3. splash' = splash
  BY DEF HandleMessage, SetMeasure, SetCursorTrail, SetKeyCast, SetJellyCursor, SetRecording,
         SetSkeleton, SetCursorRect, SwitchWorkspace, effectVars
<1>4. rec \in States /\ absorbed \in BOOLEAN
  BY <1>1 DEF Typed
<1>5. ASSUME NEW on \in BOOLEAN, SetMeasure(on) PROVE EffectsTyped' /\ UNCHANGED <<rec, absorbed>>
  BY <1>1, <1>5 DEF SetMeasure, EffectsTyped
<1>6. ASSUME NEW on \in BOOLEAN, SetCursorTrail(on)
      PROVE  EffectsTyped' /\ UNCHANGED <<rec, absorbed>>
  <2>1. 0 \in 0 .. TrailTime
    BY EffectsAssumption
  <2>2. trail' \in Trail
    BY <1>1, <1>6, <2>1 DEF SetCursorTrail, EffectsTyped, Trail
  <2> QED
    BY <1>1, <1>6, <2>2 DEF SetCursorTrail, EffectsTyped
<1>7. ASSUME NEW on \in BOOLEAN, SetKeyCast(on) PROVE EffectsTyped' /\ UNCHANGED <<rec, absorbed>>
  BY <1>1, <1>7, SwitchedTyped DEF SetKeyCast, EffectsTyped
<1>8. ASSUME NEW on \in BOOLEAN, SetJellyCursor(on)
      PROVE  EffectsTyped' /\ UNCHANGED <<rec, absorbed>>
  <2>1. jelly' \in JellyCursor
    BY <1>1, <1>8 DEF SetJellyCursor, NoCaret, EffectsTyped, JellyCursor
  <2> QED
    BY <1>1, <1>8, <2>1 DEF SetJellyCursor, EffectsTyped
<1>9. ASSUME NEW on \in BOOLEAN, SetRecording(on)
      PROVE  EffectsTyped' /\ rec' \in States /\ absorbed' = absorbed
  <2>1. rec' \in States
    BY <1>4, <1>9 DEF SetRecording, States
  <2> QED
    BY <1>1, <1>9, <2>1 DEF SetRecording, effectVars, EffectsTyped
<1>10. ASSUME NEW n \in 0 .. MaxRegions, NEW rects \in [1 .. n -> Regions],
              SetSkeleton(TRUE, rects)
       PROVE  EffectsTyped' /\ UNCHANGED <<rec, absorbed>>
  <2>2. n \in Nat /\ skeleton \in Skeleton
    BY <1>1, EffectsAssumption DEF EffectsTyped
  <2>1. skeleton' \in Skeleton
    BY <1>10, <2>2, RectsTyped
  <2> QED
    BY <1>1, <1>10, <2>1 DEF SetSkeleton, EffectsTyped
<1>11. [on |-> FALSE, entries |-> << >>] \in Skeleton
  BY DEF Skeleton
<1>12. CASE SetSkeleton(FALSE, << >>)
  <2>1. skeleton' \in Skeleton
    BY <1>11, <1>12 DEF SetSkeleton
  <2> QED
    BY <1>1, <1>3, <1>4, <1>12, <2>1 DEF SetSkeleton, EffectsTyped
<1>13. ASSUME NEW caret \in Carets \cup {None}, SetCursorRect(caret)
       PROVE  EffectsTyped' /\ UNCHANGED <<rec, absorbed>>
  BY <1>1, <1>13, UpdatedTyped DEF SetCursorRect, EffectsTyped
<1>14. CASE SwitchWorkspace
  <2>1. skeleton' \in Skeleton /\ jelly' \in JellyCursor
    BY <1>1, <1>11, <1>14, UpdatedTyped DEF SwitchWorkspace, EffectsTyped
  <2> QED
    BY <1>1, <1>3, <1>4, <1>14, <2>1 DEF SwitchWorkspace, EffectsTyped
<1> QED
  BY <1>3, <1>4, <1>5, <1>6, <1>7, <1>8, <1>9, <1>10, <1>12, <1>13, <1>14 DEF HandleMessage

(* KeyCastOverlay::push: one entry more, or a repeat, or the oldest goes.   *)
LEMMA PushedTyped ==
  ASSUME NEW entries \in Seq(Pressed), Len(entries) <= MaxEntries, NEW label \in Labels
  PROVE  Pushed(entries, label) \in Seq(Pressed) /\ Len(Pushed(entries, label)) <= MaxEntries
<1>1. MaxEntries \in Nat /\ MaxEntries >= 1 /\ Len(entries) \in Nat
  BY EffectsAssumption
<1> DEFINE n == Len(entries)
           chord == [label |-> label, age |-> 0, repeat |-> 1]
           again == [entries EXCEPT ![n] = Again(entries[n])]
<1>2. chord \in Pressed
  BY DEF Pressed
<1> HIDE DEF chord
<1>3. Append(entries, chord) \in Seq(Pressed) /\ Len(Append(entries, chord)) = n + 1
  BY <1>2
<1>4. CASE n > 0 /\ entries[n].label = label /\ entries[n].age < RepeatWindow
  <2>1. n \in 1 .. n /\ \A k \in 1 .. n : entries[k] \in Pressed
    BY <1>1, <1>4
  <2>2. \A x \in Pressed : Again(x) \in Pressed
    <3> SUFFICES ASSUME NEW x \in Pressed PROVE Again(x) \in Pressed
      OBVIOUS
    <3>1. x.label \in Labels /\ x.repeat + 1 \in Nat
      BY DEF Pressed
    <3> QED
      BY <3>1 DEF Again, Pressed
  <2>3. again \in Seq(Pressed) /\ Len(again) = n
    BY <1>1, <2>1, <2>2
  <2>4. Pushed(entries, label) = again
    BY <1>4 DEF Pushed
  <2> QED
    BY <2>3, <2>4
<1>5. CASE ~(n > 0 /\ entries[n].label = label /\ entries[n].age < RepeatWindow)
  <2>1. Pushed(entries, label) = IF n = MaxEntries THEN Tail(Append(entries, chord))
                                 ELSE Append(entries, chord)
    BY <1>5 DEF Pushed, chord
  <2>2. Tail(Append(entries, chord)) \in Seq(Pressed) /\ Len(Tail(Append(entries, chord))) = n
    BY <1>1, <1>3
  <2> QED
    BY <1>1, <1>3, <2>1, <2>2
<1> QED
  BY <1>4, <1>5

(* Input changes the key cast, the skeleton's flashes or the pointer.       *)
LEMMA InputKeeps ==
  ASSUME Inv, HandleInput
  PROVE  Inv'
<1>1. Typed /\ Chained /\ EffectsTyped
  BY DEF Inv, Typed
<1>2. /\ needsRedraw' = TRUE
      /\ UNCHANGED <<chain, overlayOn, lastRec, rec, lastEmacs, emacsThere, lost>>
  BY DEF HandleInput, Input, recVars
<1> SUFFICES EffectsTyped' /\ absorbed' \in BOOLEAN /\ splash' = splash
             /\ pointer' \in Places /\ held' \subseteq Buttons /\ told' \subseteq Buttons
  BY <1>1, <1>2 DEF Inv, Typed, Chained
<1>3. absorbed \in BOOLEAN /\ pointer \in Places /\ held \subseteq Buttons /\ told \subseteq Buttons
  BY <1>1 DEF Typed
<1>4. ASSUME NEW label \in Labels, KeyPress(label)
      PROVE  EffectsTyped' /\ UNCHANGED <<splash, absorbed, pointer, held, told>>
  <2>1. keys \in [on : BOOLEAN, entries : Seq(Pressed)] /\ Len(keys.entries) <= MaxEntries
    BY <1>1 DEF EffectsTyped, KeyCast
  <2>2. keys' = keys \/ keys' = [keys EXCEPT !.entries = Pushed(keys.entries, label)]
    BY <1>4 DEF KeyPress
  <2>3. keys' \in KeyCast
    BY <2>1, <2>2, PushedTyped DEF KeyCast
  <2> QED
    BY <1>1, <1>4, <2>3 DEF KeyPress, seatVars, EffectsTyped
<1>5. ASSUME NEW place \in Places, PointerMotion(place)
      PROVE  EffectsTyped' /\ pointer' \in Places /\ UNCHANGED <<splash, absorbed, held, told>>
  BY <1>1, <1>5 DEF PointerMotion, effectVars, EffectsTyped
<1>6. ASSUME NEW slot, ClickLabel(slot)
      PROVE  /\ EffectsTyped' /\ absorbed' \in BOOLEAN /\ held' \subseteq Buttons
             /\ UNCHANGED <<splash, pointer, told>>
  <2>1. skeleton \in [on : BOOLEAN, entries : Seq(Listed)]
        /\ (skeleton.entries # << >> => skeleton.on)
    BY <1>1 DEF EffectsTyped, Skeleton
  <2>2. Hit(slot) # {} /\ Hit(slot) \in SUBSET Nat /\ Hit(slot) \subseteq DOMAIN skeleton.entries
    BY <1>6, <2>1 DEF ClickLabel, Hit
  <2>3. \E k \in Hit(slot) : \A j \in Hit(slot) : k <= j
    BY <2>2, LeastOf
  <2>4. PICK k \in DOMAIN skeleton.entries :
                skeleton' = [skeleton EXCEPT !.entries[k].flash = FlashTime]
    BY <1>6, <2>2, <2>3 DEF ClickLabel
  <2> DEFINE e  == [skeleton.entries[k] EXCEPT !.flash = FlashTime]
             es == [skeleton.entries EXCEPT ![k] = e]
  <2>5. e \in Listed
    <3>1. skeleton.entries[k] \in Listed /\ FlashTime \in Nat
      BY <2>1, EffectsAssumption
    <3> QED
      BY <3>1 DEF Listed
  <2>6. skeleton' = [skeleton EXCEPT !.entries = es]
    BY <2>4
  <2> HIDE DEF e
  <2>7. es \in Seq(Listed) /\ skeleton.entries # << >>
    BY <2>1, <2>4, <2>5
  <2> HIDE DEF es
  <2>8. skeleton' \in Skeleton
    BY <2>1, <2>6, <2>7 DEF Skeleton
  <2>9. "left" \in Buttons
    BY EffectsAssumption
  <2> QED
    BY <1>1, <1>3, <1>6, <2>8, <2>9 DEF ClickLabel, EffectsTyped
<1>7. ASSUME NEW button \in Buttons, Press(button) \/ Release(button)
      PROVE  /\ EffectsTyped' /\ absorbed' \in BOOLEAN /\ held' \subseteq Buttons
             /\ told' \subseteq Buttons /\ UNCHANGED <<splash, pointer>>
  BY <1>1, <1>3, <1>7 DEF Press, Release, effectVars, EffectsTyped
<1> QED
  BY <1>3, <1>4, <1>5, <1>6, <1>7 DEF HandleInput

(* It holds at first, and every step keeps it.                              *)
LEMMA InitInv == Init => Inv
<1> SUFFICES ASSUME Init PROVE Inv
  OBVIOUS
<1>1. << >> \in Seq(Listed) /\ << >> \in Seq(Pressed) /\ Len(<< >>) = 0
  OBVIOUS
<1>2. 0 \in 0 .. FadeTime /\ 0 \in 0 .. TrailTime /\ MaxEntries \in Nat /\ Places # {}
  BY EffectsAssumption
<1>3. splash \in Splash /\ skeleton \in Skeleton /\ keys \in KeyCast /\ trail \in Trail
  BY <1>1, <1>2 DEF Init, SplashInit, SkeletonInit, KeyCastInit, TrailInit,
                    Splash, Skeleton, KeyCast, Trail
<1>4. jelly \in JellyCursor
  BY DEF Init, JellyInit, NoCaret, JellyCursor
<1>5. pointer \in Places
  BY <1>2 DEF Init
<1> QED
  BY <1>3, <1>4, <1>5 DEF Init, MeasureInit, OverlayInit, Inv, Typed, EffectsTyped, States, Chained

(* One step for every action of Next.                                       *)
LEMMA NextInv == Inv /\ [Next]_vars => Inv'
<1> SUFFICES ASSUME Inv, [Next]_vars PROVE Inv'
  OBVIOUS
<1>1. CASE Redraw BY <1>1, FrameRests, FailureKeeps DEF Redraw
<1>2. CASE Clock BY <1>2, ClockKeeps
<1>3. CASE HandleMessage BY <1>3, MessageKeeps
<1>4. CASE EmacsSurface
  BY <1>4 DEF EmacsSurface, effectVars, recVars, seatVars, Inv, Typed, EffectsTyped, Chained
<1>5. CASE HandleInput BY <1>5, InputKeeps
<1>6. CASE UNCHANGED vars
  <2>1. UNCHANGED <<needsRedraw, chain, splash, skeleton, measureOn, keys, jelly, trail, overlayOn,
                    rec, lastRec, absorbed, lastEmacs, emacsThere, pointer, held, told, screen,
                    lost>>
    BY <1>6 DEF vars, effectVars, recVars, seatVars
  <2>2. Typed' /\ Chained'
    BY <2>1 DEF Inv, Typed, EffectsTyped, Chained
  <2>3. Picture(Now)' = Picture(Now)
    BY <2>1 DEF Picture, Logo, Dot, Rects, Cross, Chords, Jelly, Streak, Now
  <2>4. Rest => Rest'
    BY <2>1, <2>3 DEF Rest, Shows
  <2> QED
    BY <2>1, <2>2, <2>4 DEF Inv
<1> QED
  BY <1>1, <1>2, <1>3, <1>4, <1>5, <1>6 DEF Next

(* At rest the screen is true, but for flashes that have ended: every       *)
(* setter's caller, every effect but skeleton that changes with time and    *)
(* every frame that comes out asks for the redraws that it takes            *)
(* (post_paint, event_loop_tick, the handler of winit's events,             *)
(* render_frame).                                                           *)
THEOREM ScreenIsTrue == Spec => []RestIsTrue
<1>1. Inv => RestIsTrue
  BY RestRepeats DEF Inv, Rest, RestIsTrue
<1> QED
  BY <1>1, InitInv, NextInv, PTL DEF Spec

(* The type invariant of the effects and of the render loop's state.        *)
THEOREM EffectsTypeCorrect == Spec => []TypeOK
<1>1. Inv => TypeOK
  <2> SUFFICES ASSUME Inv PROVE TypeOK
    OBVIOUS
  <2>1. rec \in DOMAIN Captured
    BY DEF Inv, Typed, States, Captured
  <2>2. chain \in {Registered, Registered \ {"splash"}}
    BY DEF Inv, Chained
  <2> QED
    BY <2>1, <2>2 DEF TypeOK, Inv, Typed, EffectsTyped, Splash, Skeleton, KeyCast,
                      JellyCursor, Trail
<1> QED
  BY <1>1, InitInv, NextInv, PTL DEF Spec
=============================================================================
