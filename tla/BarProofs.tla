----------------------------- MODULE BarProofs -----------------------------
(* For any number of workspaces, layer surfaces, titles and clicks: every   *)
(* Emacs frame leaves the bar exactly the strip it has, the bar only shows  *)
(* whole states, and a click reaches the workspace that was shown there.    *)
(*                                                                          *)
(* EmacsFits is kept by every step by which the strip or the frames change: *)
(* a new frame takes the zone of the moment, and the zone changes together  *)
(* with all frames.  Only after the bar's end does the zone change alone.   *)
EXTENDS Bar, FiniteSetTheorems, SequenceTheorems, WellFoundedInduction, TLAPS

(* What the steps rely on, and what they keep.                              *)
SizesTyped ==
  /\ live \subseteq Ids /\ nextId \in Nat \ {0}
  /\ strip \in [Ids -> BOOLEAN] /\ zone \in BOOLEAN /\ bound \in BOOLEAN

Inv == SizesTyped /\ EmacsFits

(* relayout_emacs leaves every live frame with the zone, if they agreed     *)
(* with the one before.                                                     *)
LEMMA RelayoutFits ==
  ASSUME SizesTyped, NEW is \in BOOLEAN
  PROVE  /\ Relayout(zone, is) \in [Ids -> BOOLEAN]
         /\ EmacsFits /\ bound => \A i \in live : Relayout(zone, is)[i] = is
BY DEF SizesTyped, EmacsFits, Relayout

(* The strip is given up together with the layer surface.                   *)
LEMMA DestroyedKeeps ==
  ASSUME Inv, LayerDestroyed, live' = live, nextId' = nextId, bound' \in BOOLEAN,
         bound' => bound
  PROVE  Inv'
<1>1. strip' = Relayout(zone, FALSE) /\ zone' = FALSE BY DEF LayerDestroyed
<1>2. SizesTyped' BY <1>1, RelayoutFits DEF Inv, SizesTyped
<1>3. EmacsFits' BY <1>1, RelayoutFits DEF Inv, EmacsFits
<1> QED BY <1>2, <1>3 DEF Inv

(* The requests of the bar, in the order it made them.                      *)
LEMMA RequestKeeps ==
  ASSUME Inv, HandleRequest
  PROVE  Inv'
<1> DEFINE r == Head(toServer)
<1>1. /\ live' = live /\ nextId' = nextId /\ bound' = bound
      /\ \/ NewLayerSurface(r) \/ LayerCommit(r) \/ LayerDestroyed \/ Activate(r)
  BY DEF HandleRequest, wsVars
<1> HIDE DEF r
<1>2. CASE NewLayerSurface(r)
  BY <1>1, <1>2 DEF NewLayerSurface, Inv, SizesTyped, EmacsFits
<1>3. CASE LayerCommit(r)
  <2>1. strip' = Relayout(zone, TRUE) /\ zone' = TRUE BY <1>3 DEF LayerCommit
  <2>2. SizesTyped' BY <1>1, <2>1, RelayoutFits DEF Inv, SizesTyped
  <2>3. EmacsFits' BY <1>1, <2>1, RelayoutFits DEF Inv, EmacsFits
  <2> QED BY <2>2, <2>3 DEF Inv
<1>4. CASE LayerDestroyed
  BY <1>1, <1>4, DestroyedKeeps DEF Inv, SizesTyped
<1>5. CASE Activate(r)
  BY <1>1, <1>5 DEF Activate, mapVars, Inv, SizesTyped, EmacsFits
<1> QED BY <1>1, <1>2, <1>3, <1>4, <1>5

(* A new frame is configured for the zone that there is.                    *)
LEMMA NewFrameKeeps ==
  ASSUME Inv, NewFrame
  PROVE  Inv'
<1>1. /\ nextId \in Ids /\ live' = live \cup {nextId} /\ nextId' = nextId + 1
      /\ strip' = [strip EXCEPT ![nextId] = zone] /\ zone' = zone /\ bound' = bound
  <2>1. nextId \in Ids
    <3>1. nextId <= MaxWs /\ nextId \in Nat /\ MaxWs \in Nat
      BY BarAssumption DEF NewFrame, Inv, SizesTyped
    <3>2. nextId >= 1 BY DEF Inv, SizesTyped
    <3> QED BY <3>1, <3>2 DEF Ids
  <2> QED BY <2>1 DEF NewFrame, instVars
<1>2. SizesTyped' BY <1>1 DEF Inv, SizesTyped
<1>3. EmacsFits' BY <1>1 DEF Inv, SizesTyped, EmacsFits
<1> QED BY <1>2, <1>3 DEF Inv

(* Whatever leaves the frames and the zone alone, or ends workspaces.       *)
LEMMA OthersKeep ==
  ASSUME Inv, live' \subseteq live, UNCHANGED <<nextId, strip, zone, bound>>
  PROVE  Inv'
BY DEF Inv, SizesTyped, EmacsFits

(* EmacsFits holds of every behaviour (relayout_emacs and its callers).     *)
THEOREM FramesFitTheBar == Spec => []EmacsFits
<1>1. Init => Inv
  <2> SUFFICES ASSUME Init PROVE Inv OBVIOUS
  <2>1. 1 \in Ids BY BarAssumption DEF Ids
  <2>2. SizesTyped
    <3>1. live \subseteq Ids /\ nextId \in Nat \ {0} BY <2>1 DEF Init
    <3>2. strip \in [Ids -> BOOLEAN] BY DEF Init, ServerInit
    <3>3. zone \in BOOLEAN /\ bound \in BOOLEAN BY DEF Init, ServerInit
    <3> QED BY <3>1, <3>2, <3>3 DEF SizesTyped
  <2>3. EmacsFits BY <2>1 DEF Init, EmacsFits
  <2> QED BY <2>2, <2>3 DEF Inv
<1>2. Inv /\ [Next]_vars => Inv'
  <2> SUFFICES ASSUME Inv, [Next]_vars PROVE Inv' OBVIOUS
  <2>1. CASE NewFrame BY <2>1, NewFrameKeeps
  <2>2. CASE HandleRequest BY <2>2, RequestKeeps
  <2>3. CASE ClientGone
    <3>1. live' = live /\ nextId' = nextId /\ bound' = FALSE BY <2>3 DEF ClientGone, wsVars
    <3>2. CASE LayerDestroyed BY <3>1, <3>2, DestroyedKeeps
    <3>3. CASE UNCHANGED <<layer, zone, strip, toBar>>
      BY <3>1, <3>3 DEF Inv, SizesTyped, EmacsFits
    <3> QED BY <2>3, <3>2, <3>3 DEF ClientGone
  <2>4. CASE Cleanup
    BY <2>4 DEF Cleanup, wsVars, instVars, Inv, SizesTyped, EmacsFits
  <2>5. CASE \E i \in Ids : FrameDies(i) \/ IpcSwitch(i)
    <3>1. live' \subseteq live /\ UNCHANGED <<nextId, strip, zone, bound>>
      BY <2>5 DEF FrameDies, IpcSwitch, mapVars, instVars
    <3> QED BY <3>1, OthersKeep
  <2>6. CASE \E i \in Ids, title \in Titles : TitleChanged(i, title)
    BY <2>6, OthersKeep DEF TitleChanged, mapVars, instVars
  <2>7. CASE BeginTick \/ ProcessAction \/ DetectDead \/ Refresh
    BY <2>7, OthersKeep
       DEF BeginTick, ProcessAction, DetectDead, Refresh, wsVars, mapVars, instVars
  <2>8. CASE HandleEvent \/ BarExits
    BY <2>8, OthersKeep DEF HandleEvent, BarExits, wsVars, mapVars, instVars
  <2>9. CASE \E k \in Ids : Click(k)
    BY <2>9, OthersKeep DEF Click, wsVars, mapVars, instVars
  <2>10. CASE UNCHANGED vars
    BY <2>10, OthersKeep DEF vars, wsVars, mapVars, instVars
  <2> QED BY <2>1, <2>2, <2>3, <2>4, <2>5, <2>6, <2>7, <2>8, <2>9, <2>10 DEF Next
<1>3. Inv => EmacsFits BY DEF Inv
<1> QED BY <1>1, <1>2, <1>3, PTL DEF Spec
-----------------------------------------------------------------------------
(* What the bar draws.  It hears of a change in pieces; below, a view is    *)
(* what it knows after one more event: the workspaces it knows, those of    *)
(* them that are active, all it has ever heard of by then, and whether it   *)
(* is in the middle of a batch.                                             *)
Listings == [id : Ids, name : Names, active : BOOLEAN, left : Nat, width : Nat]
Sizes    == {None, "output", "strip"}
Frames   == [size : Sizes, tiles : Seq(Listings)]
Requests == [kind : {"layer", "destroy", "activate"}, id : Nat]
              \cup [kind : {"commit"}, id : Nat, frame : Frames \cup {None}]
Words    == [kind : {"workspace"}, id : Ids, name : Names, active : BOOLEAN]
              \cup [kind : {"name"}, id : Ids, name : Names]
              \cup [kind : {"state"}, id : Ids, active : BOOLEAN]
              \cup [kind : {"removed"}, id : Ids]
Done     == [kind : {"done"}, id : {0}]
Events   == Words \cup Done \cup [kind : {"configure"}, id : Nat, size : {"output", "strip"}]
              \cup [kind : {"press"}, id : Nat, at : Nat, saw : Nat, tiles : Seq(Listings)]

Typed ==
  /\ live \subseteq Ids /\ activeId \in live /\ nextId \in Nat \ {0}
  /\ name \in [Ids -> Names]
  /\ bound \in BOOLEAN /\ running \in BOOLEAN
  /\ handles \subseteq Ids /\ snapshot \in [Ids -> Infos]
  /\ layer \in Nat /\ screen \in Frames \cup {None} /\ toBar \in Seq(Events)

(* Ids grow: what is not announced is newer than all that was.              *)
Mentioned(i) == i < nextId /\ \A j \in live \ handles : i < j

IdsGrow ==
  /\ \A i \in live : i < nextId
  /\ \A i \in handles : Mentioned(i)

Ascending(es) == \A j, k \in 1 .. Len(es) : j < k => es[j].id < es[k].id
Listed(es) == {es[k].id : k \in 1 .. Len(es)}
Lit(es) == {es[k].id : k \in {j \in 1 .. Len(es) : es[j].active}}

Views == [known : SUBSET Ids, lit : SUBSET Ids, ever : SUBSET Ids, open : BOOLEAN]

(* What one event makes of a view,                                          *)
Hears(v, e, w) ==
  /\ w.known = IF e.kind = "workspace" THEN v.known \cup {e.id}
               ELSE IF e.kind = "removed" THEN v.known \ {e.id} ELSE v.known
  /\ w.lit = IF e.kind \in {"workspace", "state"} /\ e.active THEN v.lit \cup {e.id}
             ELSE IF e.kind \in {"workspace", "state", "removed"} THEN v.lit \ {e.id}
             ELSE v.lit
  /\ w.open = IF e.kind \in {"workspace", "name", "state", "removed"} THEN TRUE
              ELSE IF e.kind = "done" THEN FALSE ELSE v.open

(* and what the event can rely on.  Whenever the bar may draw, one          *)
(* workspace is active.                                                     *)
InOrder(v, e) ==
  /\ e.kind = "workspace" => \A i \in v.ever : i < e.id
  /\ e.kind = "state" => e.id \in v.known
  /\ e.kind \in {"done", "configure"} => \E a : v.lit = {a}
  /\ e.kind = "configure" => ~v.open

(* From one view to any later one: what is new is newer than all before.    *)
Later(v, w) ==
  v.ever \subseteq w.ever /\ \A j \in w.known : j \in v.known \/ \A i \in v.ever : i < j

Path(V, q) ==
  /\ V \in [0 .. Len(q) -> Views]
  /\ \A p \in 1 .. Len(q) : Hears(V[p - 1], q[p], V[p]) /\ InOrder(V[p - 1], q[p])
  /\ \A p, r \in 0 .. Len(q) : p <= r => Later(V[p], V[r])
  /\ \A p \in 0 .. Len(q) : V[p].known \subseteq V[p].ever

(* Now the bar has this view; when all has come, it has that one.           *)
Now(v) ==
  /\ v.known = Listed(entries) \cup Listed(pending)
  /\ v.lit = Lit(entries) \cup Lit(pending)
  /\ pending # << >> => v.open

Whole(v) ==
  /\ v.known = handles /\ ~v.open
  /\ v.lit = {i \in handles : snapshot[i].active}
  /\ handles # {} => \E a : v.lit = {a}
  /\ \A i \in v.ever : Mentioned(i)

OnePath(V) == Path(V, toBar) /\ Now(V[0]) /\ Whole(V[Len(toBar)])

InStep ==
  /\ bound
  /\ toBar # << >> \/ toServer # << >> \/ screen # None => handles # {}
  /\ \E V : OnePath(V)

(* The bar's own state: what it has drawn, and entries in order.            *)
WholeRequests(s) ==
  /\ s \in Seq(Requests)
  /\ \A k \in 1 .. Len(s) : s[k].kind = "commit" => WholeFrame(s[k].frame)

BarOK ==
  /\ pending \in Seq(Listings) /\ entries \in Seq(Listings)
  /\ mine \in Nat /\ layers \in Nat /\ surfaceSize \in Sizes
  /\ WholeRequests(toServer) /\ Ascending(entries \o pending)

WholeInv == Typed /\ IdsGrow /\ BarOK /\ (running => InStep)

-----------------------------------------------------------------------------
(* Lists of entries *)

(* Later events change entries in place.                                    *)
LEMMA RenamedInPlace ==
  ASSUME NEW es \in Seq(Listings), NEW e, e.name \in Names
  PROVE  /\ Renamed(es, e) \in Seq(Listings) /\ Len(Renamed(es, e)) = Len(es)
         /\ \A k \in 1 .. Len(es) : /\ Renamed(es, e)[k].id = es[k].id
                                    /\ Renamed(es, e)[k].active = es[k].active
                                    /\ Renamed(es, e)[k].left = es[k].left
                                    /\ Renamed(es, e)[k].width = es[k].width
<1> DEFINE r == Renamed(es, e)
<1>1. DOMAIN es = 1 .. Len(es) /\ Len(es) \in Nat
  OBVIOUS
<1>2. r = [k \in 1 .. Len(es) |-> IF es[k].id = e.id THEN [es[k] EXCEPT !.name = e.name]
                                  ELSE es[k]]
  BY <1>1 DEF Renamed
<1>3. ASSUME NEW k \in 1 .. Len(es)
      PROVE  /\ r[k] \in Listings /\ r[k].id = es[k].id
             /\ r[k].active = es[k].active
             /\ r[k].left = es[k].left /\ r[k].width = es[k].width
  <2>1. es[k] \in Listings /\ r[k] = IF es[k].id = e.id THEN [es[k] EXCEPT !.name = e.name]
                                     ELSE es[k]
    BY <1>2
  <2> QED
    BY <2>1 DEF Listings
<1> HIDE DEF r
<1>4. r \in Seq(Listings) /\ Len(r) = Len(es)
  BY <1>1, <1>2, <1>3
<1> QED
  BY <1>3, <1>4 DEF r

(* A state event changes who is active, and nothing else of a list.         *)
LEMMA RestatedInPlace ==
  ASSUME NEW es \in Seq(Listings), NEW e, e.active \in BOOLEAN
  PROVE  /\ Restated(es, e) \in Seq(Listings) /\ Len(Restated(es, e)) = Len(es)
         /\ \A k \in 1 .. Len(es) :
              /\ Restated(es, e)[k].id = es[k].id
              /\ es[k].id = e.id => Restated(es, e)[k].active = e.active
              /\ es[k].id # e.id => Restated(es, e)[k].active = es[k].active
              /\ Restated(es, e)[k].left = es[k].left
              /\ Restated(es, e)[k].width = es[k].width
<1> DEFINE r == Restated(es, e)
<1>1. DOMAIN es = 1 .. Len(es) /\ Len(es) \in Nat
  OBVIOUS
<1>2. r = [k \in 1 .. Len(es) |-> IF es[k].id = e.id
                                  THEN [es[k] EXCEPT !.active = e.active] ELSE es[k]]
  BY <1>1 DEF Restated
<1>3. ASSUME NEW k \in 1 .. Len(es)
      PROVE  /\ r[k] \in Listings /\ r[k].id = es[k].id
             /\ r[k].left = es[k].left /\ r[k].width = es[k].width
             /\ r[k].active = IF es[k].id = e.id THEN e.active ELSE es[k].active
  <2>1. es[k] \in Listings /\ r[k] = IF es[k].id = e.id
                                     THEN [es[k] EXCEPT !.active = e.active] ELSE es[k]
    BY <1>2
  <2> QED
    BY <2>1 DEF Listings
<1> HIDE DEF r
<1>4. r \in Seq(Listings) /\ Len(r) = Len(es)
  BY <1>1, <1>2, <1>3
<1> QED
  BY <1>3, <1>4 DEF r

(* Taking out an entry, if there is one.                                    *)
LEMMA TakenOut ==
  ASSUME NEW es \in Seq(Listings), NEW i, Ascending(es)
  PROVE  /\ Without(es, i) \in Seq(Listings) /\ Ascending(Without(es, i))
         /\ \A k \in 1 .. Len(Without(es, i)) :
              Without(es, i)[k].id # i /\ \E j \in 1 .. Len(es) : Without(es, i)[k] = es[j]
         /\ \A j \in 1 .. Len(es) :
              es[j].id # i => \E k \in 1 .. Len(Without(es, i)) : Without(es, i)[k] = es[j]
<1> DEFINE at == {k \in DOMAIN es : es[k].id = i}
           a == CHOOSE k \in at : TRUE
           r == Without(es, i)
<1>1. DOMAIN es = 1 .. Len(es) /\ Len(es) \in Nat
  OBVIOUS
<1>2. r = IF at = {} THEN es ELSE RemoveAt(es, a)
  BY DEF Without
<1>3. CASE at = {}
  <2>1. r = es /\ \A k \in 1 .. Len(es) : es[k].id # i
    BY <1>1, <1>2, <1>3
  <2> HIDE DEF r
  <2> QED
    BY <2>1 DEF r
<1>4. CASE at # {}
  <2>1. a \in 1 .. Len(es) /\ es[a].id = i
    BY <1>1, <1>4
  <2>2. r = SubSeq(es, 1, a - 1) \o SubSeq(es, a + 1, Len(es))
    BY <1>2, <1>4 DEF RemoveAt
  <2> HIDE DEF a, r
  <2>3. /\ SubSeq(es, 1, a - 1) \in Seq(Listings) /\ Len(SubSeq(es, 1, a - 1)) = a - 1
        /\ \A k \in 1 .. a - 1 : SubSeq(es, 1, a - 1)[k] = es[k]
    BY <1>1, <2>1
  <2>4. /\ SubSeq(es, a + 1, Len(es)) \in Seq(Listings)
        /\ Len(SubSeq(es, a + 1, Len(es))) = Len(es) - a
        /\ \A k \in 1 .. Len(es) - a : SubSeq(es, a + 1, Len(es))[k] = es[k + a]
    <3>1. a + 1 \in 1 .. Len(es) + 1 /\ Len(es) \in (a + 1) - 1 .. Len(es)
      BY <1>1, <2>1
    <3>2. PICK b : b = a + 1
      OBVIOUS
    <3> DEFINE t == SubSeq(es, b, Len(es))
    <3>3. /\ t \in Seq(Listings) /\ Len(t) = Len(es) - b + 1
          /\ \A k \in 1 .. Len(es) - b + 1 : t[k] = es[b + k - 1]
      BY <3>1, <3>2, SubSeqProperties
    <3> HIDE DEF t
    <3>4. Len(es) - b + 1 = Len(es) - a /\ \A k \in 1 .. Len(es) - a : b + k - 1 = k + a
      BY <1>1, <2>1, <3>2
    <3> QED
      BY <3>2, <3>3, <3>4 DEF t
  <2> DEFINE s == SubSeq(es, 1, a - 1)
             t == SubSeq(es, a + 1, Len(es))
  <2> HIDE DEF s, t
  <2>5. r \in Seq(Listings) /\ Len(r) = Len(es) - 1
    <3>1. s \in Seq(Listings) /\ t \in Seq(Listings) /\ r = s \o t
      BY <2>2, <2>3, <2>4 DEF s, t
    <3>2. Len(s) = a - 1 /\ Len(t) = Len(es) - a
      BY <2>3, <2>4 DEF s, t
    <3>3. r \in Seq(Listings) /\ Len(r) = Len(s) + Len(t)
      BY <3>1
    <3> QED
      BY <1>1, <2>1, <3>2, <3>3
  <2>6. \A k \in 1 .. Len(es) - 1 : r[k] = IF k < a THEN es[k] ELSE es[k + 1]
    <3> SUFFICES ASSUME NEW k \in 1 .. Len(es) - 1
                 PROVE  r[k] = IF k < a THEN es[k] ELSE es[k + 1]
      OBVIOUS
    <3>0. /\ s \in Seq(Listings) /\ t \in Seq(Listings) /\ r = s \o t
          /\ Len(s) = a - 1 /\ Len(t) = Len(es) - a
          /\ \A j \in 1 .. a - 1 : s[j] = es[j]
          /\ \A j \in 1 .. Len(es) - a : t[j] = es[j + a]
      BY <2>2, <2>3, <2>4 DEF s, t
    <3>1. CASE k < a
      <4>1. k \in 1 .. Len(s) /\ k \in 1 .. a - 1
        BY <1>1, <2>1, <3>0, <3>1
      <4>2. r[k] = s[k]
        BY <3>0, <4>1
      <4> QED
        BY <3>0, <3>1, <4>1, <4>2
    <3>2. CASE ~(k < a)
      <4>1. k - (a - 1) \in 1 .. Len(es) - a /\ (k - (a - 1)) + a = k + 1
        BY <1>1, <2>1, <3>2
      <4>2. k \in Len(s) + 1 .. Len(s) + Len(t) /\ k - Len(s) = k - (a - 1)
        BY <1>1, <2>1, <3>0, <3>2
      <4>3. r[k] = t[k - Len(s)]
        BY <3>0, <4>2
      <4> QED
        BY <3>0, <3>2, <4>1, <4>2, <4>3
    <3> QED
      BY <3>1, <3>2
  <2>7. \A k \in 1 .. Len(es) : es[k].id = i => k = a
    <3> SUFFICES ASSUME NEW k \in 1 .. Len(es), es[k].id = i, k # a PROVE FALSE
      OBVIOUS
    <3>1. k < a \/ a < k
      BY <1>1, <2>1
    <3>2. es[k] \in Listings /\ es[a] \in Listings
      BY <2>1
    <3>3. es[k].id \in Nat /\ es[a].id \in Nat
      BY <3>2, BarAssumption DEF Listings, Ids
    <3> QED
      BY <2>1, <3>1, <3>3 DEF Ascending
  <2>8. Ascending(r)
    BY <1>1, <2>1, <2>5, <2>6 DEF Ascending
  <2>9. \A k \in 1 .. Len(r) : r[k].id # i /\ \E j \in 1 .. Len(es) : r[k] = es[j]
    <3> SUFFICES ASSUME NEW k \in 1 .. Len(r)
                 PROVE  \E j \in 1 .. Len(es) : j # a /\ r[k] = es[j]
      BY <2>7
    <3> QED
      BY <1>1, <2>1, <2>5, <2>6
  <2>10. \A j \in 1 .. Len(es) : es[j].id # i => \E k \in 1 .. Len(r) : r[k] = es[j]
    <3> SUFFICES ASSUME NEW j \in 1 .. Len(es), j # a PROVE \E k \in 1 .. Len(r) : r[k] = es[j]
      BY <2>1
    <3> DEFINE k == IF j < a THEN j ELSE j - 1
    <3>1. k \in 1 .. Len(r) /\ (IF k < a THEN k ELSE k + 1) = j
      BY <1>1, <2>1, <2>5
    <3> HIDE DEF k
    <3>2. r[k] = es[j]
      BY <2>5, <2>6, <3>1
    <3> QED
      BY <3>1, <3>2
  <2> QED
    BY <2>5, <2>8, <2>9, <2>10 DEF r
<1> QED
  BY <1>3, <1>4

(* Workspaces are numbered from 1; what a listing holds of one.             *)
LEMMA IdsAreNumbers ==
  /\ Ids \subseteq Nat /\ \A i \in Ids : i >= 1
  /\ \A es \in Seq(Listings) : \A k \in 1 .. Len(es) :
       es[k] \in Listings /\ es[k].id \in Ids /\ es[k].id \in Nat /\ es[k].active \in BOOLEAN
<1>1. Ids \subseteq Nat /\ \A i \in Ids : i >= 1
  BY BarAssumption DEF Ids
<1>2. ASSUME NEW es \in Seq(Listings), NEW k \in 1 .. Len(es)
      PROVE  es[k] \in Listings /\ es[k].id \in Ids /\ es[k].active \in BOOLEAN
  <2>1. es[k] \in Listings
    OBVIOUS
  <2> QED
    BY <2>1 DEF Listings
<1> QED
  BY <1>1, <1>2

(* One list after the other.                                                *)
LEMMA Joined ==
  ASSUME NEW a \in Seq(Listings), NEW b \in Seq(Listings)
  PROVE  /\ a \o b \in Seq(Listings) /\ Len(a \o b) = Len(a) + Len(b)
         /\ Listed(a \o b) = Listed(a) \cup Listed(b)
         /\ Lit(a \o b) = Lit(a) \cup Lit(b)
         /\ Ascending(a \o b) <=> /\ Ascending(a) /\ Ascending(b)
                                  /\ \A j \in 1 .. Len(a), k \in 1 .. Len(b) : a[j].id < b[k].id
<1> DEFINE c == a \o b
<1>1. /\ c \in Seq(Listings) /\ Len(c) = Len(a) + Len(b)
      /\ Len(a) \in Nat /\ Len(b) \in Nat
      /\ \A k \in 1 .. Len(a) : c[k] = a[k]
  OBVIOUS
<1>2. \A k \in 1 .. Len(b) : k + Len(a) \in 1 .. Len(c) /\ c[k + Len(a)] = b[k]
  <2> SUFFICES ASSUME NEW k \in 1 .. Len(b)
               PROVE  k + Len(a) \in 1 .. Len(c) /\ c[k + Len(a)] = b[k]
    OBVIOUS
  <2>1. k + Len(a) \in 1 .. Len(c) /\ ~(k + Len(a) <= Len(a)) /\ (k + Len(a)) - Len(a) = k
    BY <1>1
  <2>2. \A m \in 1 .. Len(c) : ~(m <= Len(a)) => c[m] = b[m - Len(a)]
    BY <1>1
  <2> QED
    BY <2>1, <2>2
<1> HIDE DEF c
<1>3. \A m \in 1 .. Len(c) : m \in 1 .. Len(a) \/ \E k \in 1 .. Len(b) : m = k + Len(a)
  <2> SUFFICES ASSUME NEW m \in 1 .. Len(c), m \notin 1 .. Len(a)
               PROVE  \E k \in 1 .. Len(b) : m = k + Len(a)
    OBVIOUS
  <2> DEFINE k == m - Len(a)
  <2>1. k \in 1 .. Len(b) /\ m = k + Len(a)
    BY <1>1
  <2> HIDE DEF k
  <2> QED
    BY <2>1
<1>4. \A k \in 1 .. Len(a) : k \in 1 .. Len(c)
  BY <1>1
<1>5. Listed(c) = Listed(a) \cup Listed(b)
  <2>1. ASSUME NEW m \in 1 .. Len(c) PROVE c[m].id \in Listed(a) \cup Listed(b)
    <3>1. CASE m \in 1 .. Len(a)
      BY <1>1, <3>1 DEF Listed
    <3>2. ASSUME NEW k \in 1 .. Len(b), m = k + Len(a)
          PROVE  c[m].id \in Listed(a) \cup Listed(b)
      BY <1>2, <3>2 DEF Listed
    <3> QED
      BY <1>3, <3>1, <3>2
  <2>2. \A k \in 1 .. Len(a) : a[k].id \in Listed(c)
    BY <1>1, <1>4 DEF Listed
  <2>3. \A k \in 1 .. Len(b) : b[k].id \in Listed(c)
    BY <1>2 DEF Listed
  <2>4. Listed(c) \subseteq Listed(a) \cup Listed(b)
    BY <2>1 DEF Listed
  <2>5. Listed(a) \subseteq Listed(c)
    BY <2>2 DEF Listed
  <2>6. Listed(b) \subseteq Listed(c)
    BY <2>3 DEF Listed
  <2> QED
    BY <2>4, <2>5, <2>6
<1>6. Lit(c) = Lit(a) \cup Lit(b)
  <2>1. ASSUME NEW m \in 1 .. Len(c), c[m].active PROVE c[m].id \in Lit(a) \cup Lit(b)
    <3>1. CASE m \in 1 .. Len(a)
      BY <1>1, <2>1, <3>1 DEF Lit
    <3>2. ASSUME NEW k \in 1 .. Len(b), m = k + Len(a)
          PROVE  c[m].id \in Lit(a) \cup Lit(b)
      BY <1>2, <2>1, <3>2 DEF Lit
    <3> QED
      BY <1>3, <3>1, <3>2
  <2>2. \A k \in 1 .. Len(a) : a[k].active => a[k].id \in Lit(c)
    BY <1>1, <1>4 DEF Lit
  <2>3. \A k \in 1 .. Len(b) : b[k].active => b[k].id \in Lit(c)
    BY <1>2 DEF Lit
  <2>4. Lit(c) \subseteq Lit(a) \cup Lit(b)
    BY <2>1 DEF Lit
  <2>5. Lit(a) \subseteq Lit(c)
    BY <2>2 DEF Lit
  <2>6. Lit(b) \subseteq Lit(c)
    BY <2>3 DEF Lit
  <2> QED
    BY <2>4, <2>5, <2>6
<1>7. ASSUME Ascending(c)
      PROVE  /\ Ascending(a) /\ Ascending(b)
             /\ \A j \in 1 .. Len(a), k \in 1 .. Len(b) : a[j].id < b[k].id
  <2>1. Ascending(a)
    BY <1>1, <1>4, <1>7 DEF Ascending
  <2>2. Ascending(b)
    <3> SUFFICES ASSUME NEW j \in 1 .. Len(b), NEW k \in 1 .. Len(b), j < k
                 PROVE  b[j].id < b[k].id
      BY DEF Ascending
    <3>1. j + Len(a) < k + Len(a)
      BY <1>1
    <3> QED
      BY <1>2, <1>7, <3>1 DEF Ascending
  <2>3. ASSUME NEW j \in 1 .. Len(a), NEW k \in 1 .. Len(b) PROVE a[j].id < b[k].id
    <3>1. j < k + Len(a)
      BY <1>1
    <3> QED
      BY <1>1, <1>2, <1>4, <1>7, <3>1 DEF Ascending
  <2> QED
    BY <2>1, <2>2, <2>3
<1>8. ASSUME Ascending(a), Ascending(b),
             \A j \in 1 .. Len(a), k \in 1 .. Len(b) : a[j].id < b[k].id
      PROVE  Ascending(c)
  <2> SUFFICES ASSUME NEW m \in 1 .. Len(c), NEW n \in 1 .. Len(c), m < n PROVE c[m].id < c[n].id
    BY DEF Ascending
  <2>1. CASE n \in 1 .. Len(a)
    <3>1. m \in 1 .. Len(a)
      BY <1>1, <2>1
    <3> QED
      BY <1>1, <1>8, <2>1, <3>1 DEF Ascending
  <2>2. CASE n \notin 1 .. Len(a)
    <3>1. PICK k \in 1 .. Len(b) : n = k + Len(a)
      BY <1>3, <2>2
    <3>2. CASE m \in 1 .. Len(a)
      BY <1>1, <1>2, <1>8, <3>1, <3>2
    <3>3. CASE m \notin 1 .. Len(a)
      <4>1. PICK j \in 1 .. Len(b) : m = j + Len(a)
        BY <1>3, <3>3
      <4>2. j < k
        BY <1>1, <3>1, <4>1
      <4> QED
        BY <1>2, <1>8, <3>1, <4>1, <4>2 DEF Ascending
    <3> QED
      BY <3>2, <3>3
  <2> QED
    BY <2>1, <2>2
<1> QED
  BY <1>1, <1>5, <1>6, <1>7, <1>8 DEF c

(* The order of a list, and what it lists, are those of its ids.            *)
LEMMA SameIds ==
  ASSUME NEW a, NEW b, Len(b) = Len(a), \A k \in 1 .. Len(a) : b[k].id = a[k].id
  PROVE  Ascending(b) = Ascending(a) /\ Listed(b) = Listed(a)
BY DEF Ascending, Listed

(* With one workspace active, one tile is.                                  *)
LEMMA OneTile ==
  ASSUME NEW es \in Seq(Listings), Ascending(es), NEW i, Lit(es) = {i}, NEW size
  PROVE  WholeFrame(Frame(size, es))
<1>1. PICK n \in 1 .. Len(es) : es[n].active /\ es[n].id = i
  BY DEF Lit
<1>2. \A k \in 1 .. Len(es) : es[k].active => k = n
  <2> SUFFICES ASSUME NEW k \in 1 .. Len(es), es[k].active, k # n PROVE FALSE
    OBVIOUS
  <2>1. es[k].id = i
    BY DEF Lit
  <2>2. k < n \/ n < k
    OBVIOUS
  <2>3. es[k].id \in Nat
    BY IdsAreNumbers
  <2> QED
    BY <1>1, <2>1, <2>2, <2>3 DEF Ascending
<1>3. /\ DOMAIN Frame(size, es).tiles = 1 .. Len(es)
      /\ \A k \in 1 .. Len(es) : Frame(size, es).tiles[k].active = es[k].active
  BY DEF Frame
<1> DEFINE f == Frame(size, es)
<1> HIDE DEF f
<1>4. {k \in DOMAIN f.tiles : f.tiles[k].active} = {n}
  BY <1>1, <1>2, <1>3 DEF f
<1>5. Cardinality({n}) = 1
  BY FS_Singleton
<1> QED
  BY <1>4, <1>5 DEF WholeFrame, f

(* sort_by_key finds the list in order: new ids are the highest.            *)
LEMMA SortedAlready ==
  ASSUME NEW old \in Seq(Listings), NEW new \in Seq(Listings), Ascending(old \o new)
  PROVE  Sorted(new, old) = old \o new
<1> DEFINE es == old \o new
<1>1. es \in Seq(Listings) /\ DOMAIN es = 1 .. Len(es) /\ Len(es) \in Nat
  OBVIOUS
<1>2. Sorted(new, old) = [n \in DOMAIN es |-> es[CHOOSE k \in DOMAIN es : Place(es, k) = n]]
  BY DEF Sorted
<1>3. Ascending(es)
  OBVIOUS
<1> HIDE DEF es
<1>4. ASSUME NEW k \in 1 .. Len(es) PROVE Place(es, k) = k
  <2>1. \A j \in 1 .. Len(es) : es[j].id <= es[k].id <=> j <= k
    <3> SUFFICES ASSUME NEW j \in 1 .. Len(es) PROVE es[j].id <= es[k].id <=> j <= k
      OBVIOUS
    <3>1. es[j].id \in Nat /\ es[k].id \in Nat
      BY <1>1, IdsAreNumbers
    <3>2. (j < k => es[j].id < es[k].id) /\ (k < j => es[k].id < es[j].id)
      BY <1>3 DEF Ascending
    <3> QED
      BY <1>1, <3>1, <3>2
  <2>2. {j \in DOMAIN es : es[j].id <= es[k].id} = 1 .. k
    BY <1>1, <2>1
  <2>3. Cardinality(1 .. k) = k
    BY <1>1, FS_Interval
  <2> QED
    BY <2>2, <2>3 DEF Place
<1>5. \A n \in 1 .. Len(es) : (CHOOSE k \in DOMAIN es : Place(es, k) = n) = n
  BY <1>1, <1>4
<1>6. Sorted(new, old) = [n \in 1 .. Len(es) |-> es[n]]
  BY <1>1, <1>2, <1>5
<1>7. es = [n \in 1 .. Len(es) |-> es[n]]
  BY <1>1
<1> QED
  BY <1>6, <1>7 DEF es

-----------------------------------------------------------------------------
(* What one refresh tells, by induction over the workspaces *)

(* A set of numbers has a least one.                                        *)
LEMMA LeastNumber ==
  ASSUME NEW T \in SUBSET Nat, T # {}
  PROVE  \E m \in T : \A n \in T : m <= n
<1> DEFINE R == OpToRel(<, Nat)
<1>1. IsWellFoundedOn(R, Nat)
  BY Zenon, NatLessThanWellFounded
<1>2. \A x, y \in Nat : x < y => <<x, y>> \in R
  BY DEF OpToRel
<1> HIDE DEF R
<1>3. \E m \in T : \A n \in T : ~ (<<n, m>> \in R)
  BY <1>1, WFMin
<1>4. \A m, n \in T : ~ (<<n, m>> \in R) => m <= n
  <2> SUFFICES ASSUME NEW m \in T, NEW n \in T, n < m PROVE <<n, m>> \in R
    OBVIOUS
  <2>1. m \in Nat /\ n \in Nat
    OBVIOUS
  <2> QED
    BY <1>2, <2>1
<1> QED
  BY <1>3, <1>4

(* What holds of 0 and of each next number holds of all.                    *)
LEMMA AllNumbers ==
  ASSUME NEW T, 0 \in T, \A n \in Nat \cap T : n + 1 \in T
  PROVE  Nat \subseteq T
<1> SUFFICES ASSUME Nat \ T # {} PROVE FALSE
  OBVIOUS
<1>1. PICK m \in Nat \ T : \A n \in Nat \ T : m <= n
  BY LeastNumber
<1>2. m # 0 /\ m - 1 \in Nat /\ m - 1 < m /\ (m - 1) + 1 = m
  BY <1>1
<1>3. m - 1 \in T
  BY <1>1, <1>2
<1> QED
  BY <1>1, <1>2, <1>3

IsWs(e) == e.kind = "workspace"

(* The news of all workspaces, put together one by one.                     *)
LEMMA InTurnSteps ==
  ASSUME NEW news
  PROVE  \E upTo : /\ InTurn(news) = upTo[MaxWs] /\ upTo[0] = << >>
                   /\ \A i \in 1 .. MaxWs : upTo[i] = upTo[i - 1] \o news[i]
<1> DEFINE Steps(n, f) == f = [i \in 0 .. n |-> IF i = 0 THEN << >> ELSE f[i - 1] \o news[i]]
           T == {n \in Nat : \E f : Steps(n, f)}
           upTo == CHOOSE f : Steps(MaxWs, f)
<1>1. MaxWs \in Nat
  BY BarAssumption
<1>2. 0 \in T
  <2> DEFINE f == [i \in 0 .. 0 |-> << >>]
  <2>1. Steps(0, f)
    OBVIOUS
  <2> QED
    BY <2>1
<1>3. ASSUME NEW n \in Nat \cap T PROVE n + 1 \in T
  <2> SUFFICES \E f : Steps(n + 1, f)
    OBVIOUS
  <2>1. PICK f : Steps(n, f)
    OBVIOUS
  <2>0. PICK x : x = f[n] \o news[n + 1]
    OBVIOUS
  <2> DEFINE g == [i \in 0 .. n + 1 |-> IF i <= n THEN f[i] ELSE x]
  <2>2. \A i \in 0 .. n : f[i] = IF i = 0 THEN << >> ELSE f[i - 1] \o news[i]
    BY <2>1
  <2>3. \A i \in 0 .. n : g[i] = f[i]
    OBVIOUS
  <2>4. g[n + 1] = f[n] \o news[n + 1] /\ g[n] = f[n]
    BY <2>0
  <2> HIDE DEF g
  <2>5. \A i \in 0 .. n + 1 : g[i] = IF i = 0 THEN << >> ELSE g[i - 1] \o news[i]
    <3> SUFFICES ASSUME NEW i \in 0 .. n + 1
                 PROVE  g[i] = IF i = 0 THEN << >> ELSE g[i - 1] \o news[i]
      OBVIOUS
    <3>1. CASE i = 0
      BY <2>2, <2>3, <3>1
    <3>2. CASE i \in 1 .. n
      <4>1. i - 1 \in 0 .. n /\ i \in 0 .. n /\ i # 0
        BY <3>2
      <4> QED
        BY <2>2, <2>3, <4>1
    <3>3. CASE i = n + 1
      <4>1. i - 1 = n /\ i # 0
        BY <3>3
      <4> QED
        BY <2>4, <3>3, <4>1
    <3> QED
      BY <3>1, <3>2, <3>3
  <2>6. Steps(n + 1, g)
    BY <2>5 DEF g
  <2> QED
    BY <2>6
<1> HIDE DEF T
<1>4. MaxWs \in T
  BY <1>1, <1>2, <1>3, AllNumbers
<1>5. Steps(MaxWs, upTo)
  BY <1>4 DEF T
<1>6. InTurn(news) = upTo[MaxWs]
  BY DEF InTurn
<1> HIDE DEF upTo
<1>7. upTo[0] = << >>
  BY <1>1, <1>5
<1>8. \A i \in 1 .. MaxWs : upTo[i] = upTo[i - 1] \o news[i]
  BY <1>1, <1>5
<1> QED
  BY <1>6, <1>7, <1>8

(* One list of events per workspace, one after the other.                   *)
Turned(news, n, q) ==
  /\ q \in Seq(Words)
  /\ \A m \in 1 .. Len(q) : \E i \in 1 .. n : \E k \in 1 .. Len(news[i]) : q[m] = news[i][k]
  /\ \A i \in 1 .. n : \A k \in 1 .. Len(news[i]) : \E m \in 1 .. Len(q) : q[m] = news[i][k]
  /\ \A j, k \in 1 .. Len(q) : j < k /\ IsWs(q[j]) /\ IsWs(q[k]) => q[j].id < q[k].id

(* What is put together holds the news of each workspace, in the order of   *)
(* their numbers, and announces each at most once.                          *)
LEMMA TurnByTurn ==
  ASSUME NEW news \in [Ids -> Seq(Words)],
         \A i \in Ids : \A k \in 1 .. Len(news[i]) : news[i][k].id = i,
         \A i \in Ids : \A j, k \in 1 .. Len(news[i]) :
           j < k => ~(IsWs(news[i][j]) /\ IsWs(news[i][k]))
  PROVE  Turned(news, MaxWs, InTurn(news))
<1>1. PICK upTo : /\ InTurn(news) = upTo[MaxWs] /\ upTo[0] = << >>
                  /\ \A i \in 1 .. MaxWs : upTo[i] = upTo[i - 1] \o news[i]
  BY InTurnSteps
<1> DEFINE T == {n \in Nat : n <= MaxWs => Turned(news, n, upTo[n])}
<1>2. MaxWs \in Nat /\ Ids = 1 .. MaxWs
  BY BarAssumption DEF Ids
<1>3. 0 \in T
  <2>1. << >> \in Seq(Words) /\ Len(<< >>) = 0 /\ 1 .. 0 = {}
    OBVIOUS
  <2>2. Turned(news, 0, << >>)
    BY <2>1 DEF Turned
  <2> QED
    BY <1>1, <2>2
<1>4. ASSUME NEW n \in Nat \cap T PROVE n + 1 \in T
  <2> SUFFICES ASSUME n + 1 <= MaxWs PROVE Turned(news, n + 1, upTo[n + 1])
    OBVIOUS
  <2> DEFINE a == upTo[n]
             b == news[n + 1]
             q == upTo[n + 1]
  <2>1. /\ a \in Seq(Words)
        /\ \A m \in 1 .. Len(a) : \E i \in 1 .. n : \E k \in 1 .. Len(news[i]) : a[m] = news[i][k]
        /\ \A i \in 1 .. n : \A k \in 1 .. Len(news[i]) : \E m \in 1 .. Len(a) : a[m] = news[i][k]
        /\ \A j, k \in 1 .. Len(a) : j < k /\ IsWs(a[j]) /\ IsWs(a[k]) => a[j].id < a[k].id
    <3>1. Turned(news, n, a)
      BY <1>2
    <3> QED
      BY <3>1 DEF Turned
  <2>2. n + 1 \in 1 .. MaxWs /\ n + 1 \in Ids /\ b \in Seq(Words) /\ (n + 1) - 1 = n
    BY <1>2
  <2>3. q = a \o b
    BY <1>1, <2>2
  <2>4. /\ \A k \in 1 .. Len(b) : b[k].id = n + 1
        /\ \A j, k \in 1 .. Len(b) : j < k => ~(IsWs(b[j]) /\ IsWs(b[k]))
    BY <2>2
  <2>5. \A m \in 1 .. Len(a) : a[m].id \in 1 .. n
    <3> SUFFICES ASSUME NEW m \in 1 .. Len(a) PROVE a[m].id \in 1 .. n
      OBVIOUS
    <3>1. PICK i \in 1 .. n : \E k \in 1 .. Len(news[i]) : a[m] = news[i][k]
      BY <2>1
    <3>2. i \in Ids
      BY <1>2, <2>2
    <3> QED
      BY <3>1, <3>2
  <2> HIDE DEF a, b, q
  <2>6. /\ q \in Seq(Words) /\ Len(q) = Len(a) + Len(b) /\ Len(a) \in Nat /\ Len(b) \in Nat
        /\ \A k \in 1 .. Len(a) : k \in 1 .. Len(q) /\ q[k] = a[k]
        /\ \A k \in 1 .. Len(q) : ~(k <= Len(a)) => q[k] = b[k - Len(a)]
    BY <2>1, <2>2, <2>3
  <2>7. \A k \in 1 .. Len(b) : k + Len(a) \in 1 .. Len(q) /\ q[k + Len(a)] = b[k]
    <3> SUFFICES ASSUME NEW k \in 1 .. Len(b)
                 PROVE  k + Len(a) \in 1 .. Len(q) /\ q[k + Len(a)] = b[k]
      OBVIOUS
    <3>1. k + Len(a) \in 1 .. Len(q) /\ ~(k + Len(a) <= Len(a)) /\ (k + Len(a)) - Len(a) = k
      BY <2>6
    <3> QED
      BY <2>6, <3>1
  <2>8. \A m \in 1 .. Len(q) : m \in 1 .. Len(a) \/ \E k \in 1 .. Len(b) : m = k + Len(a)
    <3> SUFFICES ASSUME NEW m \in 1 .. Len(q), m \notin 1 .. Len(a)
                 PROVE  \E k \in 1 .. Len(b) : m = k + Len(a)
      OBVIOUS
    <3> DEFINE k == m - Len(a)
    <3>1. k \in 1 .. Len(b) /\ m = k + Len(a)
      BY <2>6
    <3> HIDE DEF k
    <3> QED
      BY <3>1
  <2>9. n \in Nat /\ \A i \in 1 .. n : i \in 1 .. n + 1
    OBVIOUS
  <2>10. \A i \in 1 .. n + 1 : i \in 1 .. n \/ i = n + 1
    OBVIOUS
  <2>11. ASSUME NEW m \in 1 .. Len(q)
         PROVE  \E i \in 1 .. n + 1 : \E k \in 1 .. Len(news[i]) : q[m] = news[i][k]
    <3>1. CASE m \in 1 .. Len(a)
      <4>1. PICK i \in 1 .. n : \E k \in 1 .. Len(news[i]) : a[m] = news[i][k]
        BY <2>1, <3>1
      <4> QED
        BY <2>6, <2>9, <3>1, <4>1
    <3>2. ASSUME NEW k \in 1 .. Len(b), m = k + Len(a)
          PROVE  \E i \in 1 .. n + 1 : \E l \in 1 .. Len(news[i]) : q[m] = news[i][l]
      <4>1. k \in 1 .. Len(news[n + 1]) /\ q[m] = news[n + 1][k]
        BY <2>7, <3>2 DEF b
      <4>2. n + 1 \in 1 .. n + 1
        OBVIOUS
      <4> QED
        BY <4>1, <4>2
    <3> QED
      BY <2>8, <3>1, <3>2
  <2>12. ASSUME NEW i \in 1 .. n + 1, NEW k \in 1 .. Len(news[i])
         PROVE  \E m \in 1 .. Len(q) : q[m] = news[i][k]
    <3>1. CASE i \in 1 .. n
      <4>1. PICK m \in 1 .. Len(a) : a[m] = news[i][k]
        BY <2>1, <3>1
      <4> QED
        BY <2>6, <4>1
    <3>2. CASE i = n + 1
      <4>1. k \in 1 .. Len(b) /\ b[k] = news[i][k]
        BY <3>2 DEF b
      <4> QED
        BY <2>7, <4>1
    <3> QED
      BY <2>10, <3>1, <3>2
  <2>13. ASSUME NEW j \in 1 .. Len(q), NEW k \in 1 .. Len(q), j < k, IsWs(q[j]), IsWs(q[k])
         PROVE  q[j].id < q[k].id
    <3>1. CASE k \in 1 .. Len(a)
      <4>1. j \in 1 .. Len(a)
        BY <2>6, <2>13, <3>1
      <4> QED
        BY <2>1, <2>6, <2>13, <3>1, <4>1
    <3>2. CASE k \notin 1 .. Len(a)
      <4>1. PICK l \in 1 .. Len(b) : k = l + Len(a)
        BY <2>8, <3>2
      <4>2. q[k] = b[l] /\ q[k].id = n + 1
        BY <2>4, <2>7, <4>1
      <4>3. CASE j \in 1 .. Len(a)
        <5>1. q[j].id \in 1 .. n
          BY <2>5, <2>6, <4>3
        <5> QED
          BY <4>2, <5>1
      <4>4. CASE j \notin 1 .. Len(a)
        <5>1. PICK h \in 1 .. Len(b) : j = h + Len(a)
          BY <2>8, <4>4
        <5>2. h < l /\ q[j] = b[h]
          BY <2>6, <2>7, <2>13, <4>1, <5>1
        <5> QED
          BY <2>4, <2>13, <4>2, <5>2
      <4> QED
        BY <4>3, <4>4
    <3> QED
      BY <3>1, <3>2
  <2> QED
    BY <2>6, <2>11, <2>12, <2>13 DEF q, Turned
<1> HIDE DEF T
<1>5. MaxWs \in T
  BY <1>2, <1>3, <1>4, AllNumbers
<1>6. Turned(news, MaxWs, upTo[MaxWs])
  BY <1>2, <1>5 DEF T
<1> QED
  BY <1>1, <1>2, <1>6

(* What an event of the server says is so.                                  *)
True(e) ==
  /\ e.kind = "removed" => e.id \in handles \ live
  /\ e.kind = "workspace" => e.id \in live \ handles /\ e.active = (e.id = activeId)
  /\ e.kind = "state" => e.id \in live \cap handles /\ e.active = (e.id = activeId)

(* What a refresh has to tell of a workspace.                               *)
Due(i, e) ==
  /\ e.id = i
  /\ i \in handles \ live => e.kind = "removed"
  /\ i \in live \ handles => e.kind = "workspace"
  /\ i \in live \cap handles /\ snapshot[i].active # (i = activeId) => e.kind = "state"

Changed(i) ==
  \/ i \in handles \ live \/ i \in live \ handles
  \/ i \in live \cap handles /\ snapshot[i].active # (i = activeId)

(* refresh_instance says of a workspace what is true of it, and whatever    *)
(* has changed.                                                             *)
LEMMA OneUpdate ==
  ASSUME Typed, NEW i \in Ids
  PROVE  LET u == Update(i) IN
           /\ u \in Seq(Words)
           /\ \A k \in 1 .. Len(u) : u[k].id = i /\ True(u[k])
           /\ \A j, k \in 1 .. Len(u) : j < k => ~(IsWs(u[j]) /\ IsWs(u[k]))
           /\ Changed(i) => \E k \in 1 .. Len(u) : Due(i, u[k])
           /\ i \notin live => \A k \in 1 .. Len(u) : ~IsWs(u[k])
<1> DEFINE u == Update(i)
           r == [kind |-> "removed", id |-> i]
           w == [kind |-> "workspace", id |-> i, name |-> name[i], active |-> i = activeId]
           n == [kind |-> "name", id |-> i, name |-> name[i]]
           s == [kind |-> "state", id |-> i, active |-> i = activeId]
<1>1. r \in Words /\ w \in Words /\ n \in Words /\ s \in Words
  BY DEF Words, Typed
<1>2. /\ r.id = i /\ r.kind = "removed" /\ w.id = i /\ w.kind = "workspace"
      /\ w.active = (i = activeId)
      /\ n.id = i /\ n.kind = "name" /\ s.id = i /\ s.kind = "state"
      /\ s.active = (i = activeId)
  OBVIOUS
<1>3. u = IF i \notin live THEN IF i \in handles THEN << r >> ELSE << >>
          ELSE IF i \notin handles THEN << w >>
          ELSE (IF snapshot[i].name # name[i] THEN << n >> ELSE << >>)
               \o (IF snapshot[i].active # (i = activeId) THEN << s >> ELSE << >>)
  BY DEF Update, Event
<1> HIDE DEF u, r, w, n, s
<1> USE DEF IsWs, True, Due, Changed
<1>4. CASE i \notin live /\ i \in handles
  <2>1. u = << r >>
    BY <1>3, <1>4
  <2> QED
    BY <1>1, <1>2, <1>4, <2>1 DEF u
<1>5. CASE i \notin live /\ i \notin handles
  <2>1. u = << >>
    BY <1>3, <1>5
  <2> QED
    BY <1>5, <2>1 DEF u
<1>6. CASE i \in live /\ i \notin handles
  <2>1. u = << w >>
    BY <1>3, <1>6
  <2> QED
    BY <1>1, <1>2, <1>6, <2>1 DEF u
<1>7. CASE i \in live /\ i \in handles
  <2>1. True(n) /\ True(s) /\ ~IsWs(n) /\ ~IsWs(s)
    BY <1>2, <1>7
  <2>2. snapshot[i].active # (i = activeId) => Due(i, s)
    BY <1>2, <1>7
  <2>3. \/ u = << >> /\ snapshot[i].active = (i = activeId)
        \/ u = << n >> /\ snapshot[i].active = (i = activeId)
        \/ u = << s >> /\ snapshot[i].active # (i = activeId)
        \/ u = << n >> \o << s >> /\ snapshot[i].active # (i = activeId)
    <3> DEFINE x == IF snapshot[i].name # name[i] THEN << n >> ELSE << >>
               y == IF snapshot[i].active # (i = activeId) THEN << s >> ELSE << >>
    <3>1. u = x \o y
      BY <1>3, <1>7
    <3>2. x = << n >> \/ x = << >>
      OBVIOUS
    <3>3. \/ y = << s >> /\ snapshot[i].active # (i = activeId)
          \/ y = << >> /\ snapshot[i].active = (i = activeId)
      OBVIOUS
    <3> HIDE DEF x, y
    <3>5. << n >> \o << >> = << n >> /\ << >> \o << s >> = << s >> /\ << >> \o << >> = << >>
      OBVIOUS
    <3>6. CASE x = << n >>
      BY <3>1, <3>3, <3>5, <3>6
    <3>7. CASE x = << >>
      BY <3>1, <3>3, <3>5, <3>7
    <3> QED
      BY <3>2, <3>6, <3>7
  <2> HIDE DEF IsWs, True, Due
  <2>4. CASE u = << >> /\ snapshot[i].active = (i = activeId)
    BY <1>7, <2>4 DEF u
  <2>5. CASE u = << n >> /\ snapshot[i].active = (i = activeId)
    BY <1>1, <1>2, <1>7, <2>1, <2>5 DEF u
  <2>6. CASE u = << s >> /\ snapshot[i].active # (i = activeId)
    BY <1>1, <1>2, <1>7, <2>1, <2>2, <2>6 DEF u
  <2>7. CASE u = << n >> \o << s >> /\ snapshot[i].active # (i = activeId)
    <3>1. Len(u) = 2 /\ u[1] = n /\ u[2] = s /\ u \in Seq(Words)
      BY <1>1, <2>7
    <3>2. \A k \in 1 .. 2 : k = 1 \/ k = 2
      OBVIOUS
    <3>3. \A k \in 1 .. Len(u) : u[k].id = i /\ True(u[k]) /\ ~IsWs(u[k])
      BY <1>2, <2>1, <3>1, <3>2
    <3>4. \E k \in 1 .. Len(u) : Due(i, u[k])
      BY <2>2, <2>7, <3>1
    <3> QED
      BY <1>7, <3>1, <3>3, <3>4 DEF u
  <2> QED
    BY <2>3, <2>4, <2>5, <2>6, <2>7
<1> QED
  BY <1>4, <1>5, <1>6, <1>7

(* refresh_instance tells the truth, all of it, new workspaces in order.    *)
Told(q) ==
  /\ \A k \in 1 .. Len(q) : True(q[k])
  /\ \A j, k \in 1 .. Len(q) : j < k /\ IsWs(q[j]) /\ IsWs(q[k]) => q[j].id < q[k].id
  /\ \A i \in Ids : Changed(i) => \E k \in 1 .. Len(q) : Due(i, q[k])

(* All of a refresh: the truth, each change, and new workspaces in their    *)
(* order.                                                                   *)
LEMMA UpdatesTold ==
  ASSUME Typed
  PROVE  Updates \in Seq(Words) /\ Told(Updates)
<1> DEFINE g == [i \in Ids |-> IF i \in live THEN << >> ELSE Update(i)]
           t == [i \in Ids |-> IF i \in live THEN Update(i) ELSE << >>]
           a == InTurn(g)
           b == InTurn(t)
           q == Updates
<1>1. /\ \A i \in Ids : Update(i) \in Seq(Words)
      /\ \A i \in Ids : \A k \in 1 .. Len(Update(i)) : Update(i)[k].id = i /\ True(Update(i)[k])
      /\ \A i \in Ids : \A j, k \in 1 .. Len(Update(i)) :
           j < k => ~(IsWs(Update(i)[j]) /\ IsWs(Update(i)[k]))
      /\ \A i \in Ids : Changed(i) => \E k \in 1 .. Len(Update(i)) : Due(i, Update(i)[k])
      /\ \A i \in Ids : i \notin live => \A k \in 1 .. Len(Update(i)) : ~IsWs(Update(i)[k])
  BY OneUpdate
<1>2. << >> \in Seq(Words) /\ Len(<< >>) = 0 /\ 1 .. 0 = {}
  OBVIOUS
<1>3. Ids = 1 .. MaxWs
  BY DEF Ids
<1>4. q = a \o b
  BY DEF Updates
<1> HIDE DEF a, b, q
<1>5. Turned(g, MaxWs, a)
  <2> HIDE DEF g
  <2>1. g \in [Ids -> Seq(Words)]
    BY <1>1, <1>2 DEF g
  <2>2. /\ \A i \in Ids : \A k \in 1 .. Len(g[i]) : g[i][k].id = i
        /\ \A i \in Ids : \A j, k \in 1 .. Len(g[i]) : j < k => ~(IsWs(g[i][j]) /\ IsWs(g[i][k]))
    BY <1>1, <1>2 DEF g
  <2> QED
    BY <2>1, <2>2, TurnByTurn DEF a
<1>6. Turned(t, MaxWs, b)
  <2> HIDE DEF t
  <2>1. t \in [Ids -> Seq(Words)]
    BY <1>1, <1>2 DEF t
  <2>2. /\ \A i \in Ids : \A k \in 1 .. Len(t[i]) : t[i][k].id = i
        /\ \A i \in Ids : \A j, k \in 1 .. Len(t[i]) : j < k => ~(IsWs(t[i][j]) /\ IsWs(t[i][k]))
    BY <1>1, <1>2 DEF t
  <2> QED
    BY <2>1, <2>2, TurnByTurn DEF b
<1>7. /\ a \in Seq(Words) /\ \A m \in 1 .. Len(a) : True(a[m]) /\ ~IsWs(a[m])
      /\ \A i \in Ids : i \notin live =>
           \A k \in 1 .. Len(Update(i)) : \E m \in 1 .. Len(a) : a[m] = Update(i)[k]
  <2>1. \A i \in Ids : \A k \in 1 .. Len(g[i]) : True(g[i][k]) /\ ~IsWs(g[i][k])
    BY <1>1, <1>2
  <2>2. \A i \in Ids : i \notin live => g[i] = Update(i)
    OBVIOUS
  <2> HIDE DEF g
  <2>3. /\ a \in Seq(Words)
        /\ \A m \in 1 .. Len(a) : \E i \in Ids : \E k \in 1 .. Len(g[i]) : a[m] = g[i][k]
        /\ \A i \in Ids : \A k \in 1 .. Len(g[i]) : \E m \in 1 .. Len(a) : a[m] = g[i][k]
    BY <1>3, <1>5 DEF Turned
  <2>4. ASSUME NEW m \in 1 .. Len(a) PROVE True(a[m]) /\ ~IsWs(a[m])
    <3>1. PICK i \in Ids : \E k \in 1 .. Len(g[i]) : a[m] = g[i][k]
      BY <2>3
    <3>2. PICK k \in 1 .. Len(g[i]) : a[m] = g[i][k]
      BY <3>1
    <3> QED
      BY <2>1, <3>2
  <2>5. ASSUME NEW i \in Ids, i \notin live, NEW k \in 1 .. Len(Update(i))
        PROVE  \E m \in 1 .. Len(a) : a[m] = Update(i)[k]
    <3>1. g[i] = Update(i)
      BY <2>2, <2>5
    <3>2. \A l \in 1 .. Len(g[i]) : \E m \in 1 .. Len(a) : a[m] = g[i][l]
      BY <2>3
    <3> QED
      BY <3>1, <3>2
  <2> QED
    BY <2>3, <2>4, <2>5
<1>8. /\ b \in Seq(Words) /\ \A m \in 1 .. Len(b) : True(b[m])
      /\ \A i \in Ids : i \in live =>
           \A k \in 1 .. Len(Update(i)) : \E m \in 1 .. Len(b) : b[m] = Update(i)[k]
      /\ \A j, k \in 1 .. Len(b) : j < k /\ IsWs(b[j]) /\ IsWs(b[k]) => b[j].id < b[k].id
  <2>1. \A i \in Ids : \A k \in 1 .. Len(t[i]) : True(t[i][k])
    BY <1>1, <1>2
  <2>2. \A i \in Ids : i \in live => t[i] = Update(i)
    OBVIOUS
  <2> HIDE DEF t
  <2>3. /\ b \in Seq(Words)
        /\ \A m \in 1 .. Len(b) : \E i \in Ids : \E k \in 1 .. Len(t[i]) : b[m] = t[i][k]
        /\ \A i \in Ids : \A k \in 1 .. Len(t[i]) : \E m \in 1 .. Len(b) : b[m] = t[i][k]
        /\ \A j, k \in 1 .. Len(b) : j < k /\ IsWs(b[j]) /\ IsWs(b[k]) => b[j].id < b[k].id
    BY <1>3, <1>6 DEF Turned
  <2>4. ASSUME NEW m \in 1 .. Len(b) PROVE True(b[m])
    <3>1. PICK i \in Ids : \E k \in 1 .. Len(t[i]) : b[m] = t[i][k]
      BY <2>3
    <3>2. PICK k \in 1 .. Len(t[i]) : b[m] = t[i][k]
      BY <3>1
    <3> QED
      BY <2>1, <3>2
  <2>5. ASSUME NEW i \in Ids, i \in live, NEW k \in 1 .. Len(Update(i))
        PROVE  \E m \in 1 .. Len(b) : b[m] = Update(i)[k]
    BY <2>2, <2>3, <2>5
  <2> QED
    BY <2>3, <2>4, <2>5
<1> HIDE DEF g, t
<1>9. /\ q \in Seq(Words) /\ Len(q) = Len(a) + Len(b) /\ Len(a) \in Nat /\ Len(b) \in Nat
      /\ \A k \in 1 .. Len(a) : k \in 1 .. Len(q) /\ q[k] = a[k]
      /\ \A k \in 1 .. Len(q) : ~(k <= Len(a)) => q[k] = b[k - Len(a)]
  BY <1>4, <1>7, <1>8
<1>10. \A k \in 1 .. Len(b) : k + Len(a) \in 1 .. Len(q) /\ q[k + Len(a)] = b[k]
  <2> SUFFICES ASSUME NEW k \in 1 .. Len(b)
               PROVE  k + Len(a) \in 1 .. Len(q) /\ q[k + Len(a)] = b[k]
    OBVIOUS
  <2>1. k + Len(a) \in 1 .. Len(q) /\ ~(k + Len(a) <= Len(a)) /\ (k + Len(a)) - Len(a) = k
    BY <1>9
  <2> QED
    BY <1>9, <2>1
<1>11. \A m \in 1 .. Len(q) : m \in 1 .. Len(a) \/ \E k \in 1 .. Len(b) : m = k + Len(a)
  <2> SUFFICES ASSUME NEW m \in 1 .. Len(q), m \notin 1 .. Len(a)
               PROVE  \E k \in 1 .. Len(b) : m = k + Len(a)
    OBVIOUS
  <2> DEFINE k == m - Len(a)
  <2>1. k \in 1 .. Len(b) /\ m = k + Len(a)
    BY <1>9
  <2> HIDE DEF k
  <2> QED
    BY <2>1
<1>12. ASSUME NEW m \in 1 .. Len(q) PROVE True(q[m])
  BY <1>7, <1>8, <1>9, <1>10, <1>11
<1>13. ASSUME NEW j \in 1 .. Len(q), NEW k \in 1 .. Len(q), j < k, IsWs(q[j]), IsWs(q[k])
       PROVE  q[j].id < q[k].id
  <2>1. j \notin 1 .. Len(a) /\ k \notin 1 .. Len(a)
    BY <1>7, <1>9, <1>13
  <2>2. PICK h \in 1 .. Len(b) : j = h + Len(a)
    BY <1>11, <2>1
  <2>3. PICK l \in 1 .. Len(b) : k = l + Len(a)
    BY <1>11, <2>1
  <2>4. h < l /\ q[j] = b[h] /\ q[k] = b[l]
    BY <1>9, <1>10, <1>13, <2>2, <2>3
  <2> QED
    BY <1>8, <1>13, <2>4
<1>14. ASSUME NEW i \in Ids, Changed(i) PROVE \E k \in 1 .. Len(q) : Due(i, q[k])
  <2>1. PICK k \in 1 .. Len(Update(i)) : Due(i, Update(i)[k])
    BY <1>1, <1>14
  <2>2. CASE i \in live
    <3>1. PICK m \in 1 .. Len(b) : b[m] = Update(i)[k]
      BY <1>8, <2>2
    <3> QED
      BY <1>10, <2>1, <3>1
  <2>3. CASE i \notin live
    <3>1. PICK m \in 1 .. Len(a) : a[m] = Update(i)[k]
      BY <1>7, <2>3
    <3> QED
      BY <1>9, <2>1, <3>1
  <2> QED
    BY <2>2, <2>3
<1> QED
  BY <1>9, <1>12, <1>13, <1>14 DEF Told, q

-----------------------------------------------------------------------------
(* Paths of views *)

(* What is heard later is heard later still.                                *)
LEMMA LaterAdds ==
  ASSUME NEW v, NEW w, NEW x, Later(v, w), Later(w, x)
  PROVE  Later(v, x)
BY DEF Later

(* Nothing on its way.                                                      *)
LEMMA PathOfNone ==
  ASSUME NEW v \in Views, v.known \subseteq v.ever
  PROVE  Path([p \in 0 .. 0 |-> v], << >>)
<1> DEFINE V == [p \in 0 .. 0 |-> v]
<1>1. Len(<< >>) = 0 /\ 1 .. 0 = {} /\ 0 .. 0 = {0}
  OBVIOUS
<1>2. V \in [0 .. 0 -> Views] /\ V[0] = v
  OBVIOUS
<1>3. Later(v, v)
  BY DEF Later
<1> HIDE DEF V
<1>4. \A p \in 0 .. 0 : V[p] = v
  BY <1>1, <1>2
<1> QED
  BY <1>1, <1>2, <1>3, <1>4 DEF Path, V

(* One more event.                                                          *)
LEMMA PathGrows ==
  ASSUME NEW q \in Seq(Events), NEW V, Path(V, q), NEW e \in Events, NEW w \in Views,
         Hears(V[Len(q)], e, w), InOrder(V[Len(q)], e), Later(V[Len(q)], w),
         w.known \subseteq w.ever
  PROVE  \E X : /\ Path(X, Append(q, e)) /\ X[0] = V[0] /\ X[Len(q) + 1] = w
                /\ \A p \in 0 .. Len(q) : X[p] = V[p]
<1> DEFINE n == Len(q)
           X == [p \in 0 .. n + 1 |-> IF p <= n THEN V[p] ELSE w]
           r == Append(q, e)
<1>1. n \in Nat /\ Len(r) = n + 1 /\ r[n + 1] = e /\ \A p \in 1 .. n : r[p] = q[p]
  OBVIOUS
<1>2. /\ V \in [0 .. n -> Views]
      /\ \A p \in 1 .. n : Hears(V[p - 1], q[p], V[p]) /\ InOrder(V[p - 1], q[p])
      /\ \A p, s \in 0 .. n : p <= s => Later(V[p], V[s])
      /\ \A p \in 0 .. n : V[p].known \subseteq V[p].ever
  BY DEF Path
<1>3. Hears(V[n], e, w) /\ InOrder(V[n], e) /\ Later(V[n], w)
  OBVIOUS
<1> HIDE DEF n, r
<1>4. /\ X \in [0 .. n + 1 -> Views] /\ X[n + 1] = w /\ \A p \in 0 .. n : X[p] = V[p]
  BY <1>1, <1>2
<1> HIDE DEF X
<1>5. \A p \in 0 .. n + 1 : p \in 0 .. n \/ p = n + 1
  BY <1>1
<1>6. ASSUME NEW p \in 1 .. n + 1 PROVE Hears(X[p - 1], r[p], X[p]) /\ InOrder(X[p - 1], r[p])
  <2>1. CASE p = n + 1
    <3>1. p - 1 = n /\ n \in 0 .. n
      BY <1>1, <2>1
    <3> QED
      BY <1>1, <1>3, <1>4, <2>1, <3>1
  <2>2. CASE p # n + 1
    <3>1. p \in 1 .. n /\ p - 1 \in 0 .. n /\ p \in 0 .. n
      BY <1>1, <2>2
    <3> QED
      BY <1>1, <1>2, <1>4, <3>1
  <2> QED
    BY <2>1, <2>2
<1>7. Later(w, w)
  BY DEF Later
<1>8. \A p \in 0 .. n : Later(V[p], w)
  <2>1. n \in 0 .. n /\ \A p \in 0 .. n : p <= n
    BY <1>1
  <2> QED
    BY <1>2, <1>3, <2>1, LaterAdds
<1>9. ASSUME NEW p \in 0 .. n + 1, NEW s \in 0 .. n + 1, p <= s PROVE Later(X[p], X[s])
  <2>1. CASE s = n + 1
    BY <1>4, <1>5, <1>7, <1>8, <2>1
  <2>2. CASE s # n + 1
    <3>1. p \in 0 .. n /\ s \in 0 .. n
      BY <1>1, <1>9, <2>2
    <3> QED
      BY <1>2, <1>4, <1>9, <3>1
  <2> QED
    BY <2>1, <2>2
<1>10. \A p \in 0 .. n + 1 : X[p].known \subseteq X[p].ever
  BY <1>2, <1>4, <1>5
<1>11. Path(X, r)
  BY <1>1, <1>4, <1>6, <1>9, <1>10 DEF Path
<1>12. 0 \in 0 .. n
  BY <1>1
<1> QED
  BY <1>4, <1>11, <1>12 DEF n, r

(* The first event has been heard.                                          *)
LEMMA PathShrinks ==
  ASSUME NEW q \in Seq(Events), q # << >>, NEW V, Path(V, q)
  PROVE  /\ Head(q) \in Events /\ V[0] \in Views /\ V[1] \in Views
         /\ Hears(V[0], Head(q), V[1]) /\ InOrder(V[0], Head(q))
         /\ V[0].known \subseteq V[0].ever
         /\ \E X : Path(X, Tail(q)) /\ X[0] = V[1] /\ X[Len(Tail(q))] = V[Len(q)]
<1> DEFINE n == Len(q)
           t == Tail(q)
           X == [p \in 0 .. n - 1 |-> V[p + 1]]
<1>1. /\ n \in Nat \ {0} /\ Head(q) = q[1] /\ q[1] \in Events
      /\ t \in Seq(Events) /\ Len(t) = n - 1
  OBVIOUS
<1>2. \A p \in 1 .. n - 1 : t[p] = q[p + 1]
  OBVIOUS
<1>3. /\ V \in [0 .. n -> Views]
      /\ \A p \in 1 .. n : Hears(V[p - 1], q[p], V[p]) /\ InOrder(V[p - 1], q[p])
      /\ \A p, s \in 0 .. n : p <= s => Later(V[p], V[s])
      /\ \A p \in 0 .. n : V[p].known \subseteq V[p].ever
  BY DEF Path
<1> HIDE DEF n, t
<1>4. /\ 1 \in 1 .. n /\ 1 - 1 = 0 /\ 0 \in 0 .. n /\ 1 \in 0 .. n
      /\ \A p \in 0 .. n - 1 : p + 1 \in 0 .. n
      /\ 0 \in 0 .. n - 1 /\ n - 1 \in 0 .. n - 1 /\ 0 + 1 = 1 /\ (n - 1) + 1 = n
  BY <1>1
<1>5. X \in [0 .. n - 1 -> Views] /\ \A p \in 0 .. n - 1 : X[p] = V[p + 1]
  BY <1>3, <1>4
<1> HIDE DEF X
<1>6. ASSUME NEW p \in 1 .. n - 1 PROVE Hears(X[p - 1], t[p], X[p]) /\ InOrder(X[p - 1], t[p])
  <2>1. /\ p - 1 \in 0 .. n - 1 /\ (p - 1) + 1 = p /\ p \in 0 .. n - 1
        /\ p + 1 \in 1 .. n /\ (p + 1) - 1 = p
    BY <1>1
  <2>2. X[p - 1] = V[(p + 1) - 1] /\ X[p] = V[p + 1] /\ t[p] = q[p + 1]
    BY <1>2, <1>5, <2>1
  <2> QED
    BY <1>3, <2>1, <2>2
<1>7. ASSUME NEW p \in 0 .. n - 1, NEW s \in 0 .. n - 1, p <= s PROVE Later(X[p], X[s])
  <2>1. p + 1 \in 0 .. n /\ s + 1 \in 0 .. n /\ p + 1 <= s + 1
    BY <1>1, <1>7
  <2> QED
    BY <1>3, <1>5, <2>1
<1>8. \A p \in 0 .. n - 1 : X[p].known \subseteq X[p].ever
  BY <1>3, <1>4, <1>5
<1>9. Path(X, t)
  BY <1>1, <1>5, <1>6, <1>7, <1>8 DEF Path
<1>10. X[0] = V[1] /\ X[n - 1] = V[n]
  BY <1>4, <1>5
<1>11. Hears(V[0], q[1], V[1]) /\ InOrder(V[0], q[1]) /\ V[0] \in Views /\ V[1] \in Views
  BY <1>3, <1>4
<1> QED
  BY <1>1, <1>3, <1>4, <1>9, <1>10, <1>11 DEF n, t

(* One path after the other.                                                *)
LEMMA PathsJoin ==
  ASSUME NEW q \in Seq(Events), NEW c \in Seq(Events), NEW V, NEW W,
         Path(V, q), Path(W, c), V[Len(q)] = W[0]
  PROVE  \E X : /\ Path(X, q \o c) /\ X[0] = V[0]
                /\ X[Len(q \o c)] = W[Len(c)]
<1> DEFINE n == Len(q)
           m == Len(c)
           r == q \o c
           X == [p \in 0 .. n + m |-> IF p <= n THEN V[p] ELSE W[p - n]]
<1>1. /\ n \in Nat /\ m \in Nat /\ Len(r) = n + m
      /\ \A p \in 1 .. n : r[p] = q[p]
      /\ \A p \in 1 .. n + m : ~(p <= n) => r[p] = c[p - n]
  OBVIOUS
<1>2. /\ V \in [0 .. n -> Views]
      /\ \A p \in 1 .. n : Hears(V[p - 1], q[p], V[p]) /\ InOrder(V[p - 1], q[p])
      /\ \A p, s \in 0 .. n : p <= s => Later(V[p], V[s])
      /\ \A p \in 0 .. n : V[p].known \subseteq V[p].ever
  BY DEF Path
<1>3. /\ W \in [0 .. m -> Views]
      /\ \A p \in 1 .. m : Hears(W[p - 1], c[p], W[p]) /\ InOrder(W[p - 1], c[p])
      /\ \A p, s \in 0 .. m : p <= s => Later(W[p], W[s])
      /\ \A p \in 0 .. m : W[p].known \subseteq W[p].ever
  BY DEF Path
<1>4. V[n] = W[0]
  OBVIOUS
<1> HIDE DEF n, m, r
<1>5. \A p \in 0 .. n + m : ~(p <= n) => p - n \in 0 .. m
  BY <1>1
<1>6. X \in [0 .. n + m -> Views]
  BY <1>1, <1>2, <1>3, <1>5
<1>7. /\ \A p \in 0 .. n : X[p] = V[p]
      /\ \A p \in 0 .. n + m : n <= p => p - n \in 0 .. m /\ X[p] = W[p - n]
  <2>1. \A p \in 0 .. n : X[p] = V[p]
    BY <1>1
  <2>2. ASSUME NEW p \in 0 .. n + m, n <= p PROVE p - n \in 0 .. m /\ X[p] = W[p - n]
    <3>1. CASE p = n
      <4>1. p - n = 0 /\ 0 \in 0 .. m /\ n \in 0 .. n + m
        BY <1>1, <3>1
      <4> QED
        BY <1>4, <3>1, <4>1
    <3>2. CASE p # n
      <4>1. ~(p <= n)
        BY <1>1, <2>2, <3>2
      <4> QED
        BY <1>5, <4>1
    <3> QED
      BY <3>1, <3>2
  <2> QED
    BY <2>1, <2>2
<1> HIDE DEF X
<1>8. ASSUME NEW p \in 1 .. n + m PROVE Hears(X[p - 1], r[p], X[p]) /\ InOrder(X[p - 1], r[p])
  <2>1. CASE p <= n
    <3>1. p \in 1 .. n /\ p \in 0 .. n /\ p - 1 \in 0 .. n
      BY <1>1, <2>1
    <3> QED
      BY <1>1, <1>2, <1>7, <3>1
  <2>2. CASE ~(p <= n)
    <3>1. /\ p - n \in 1 .. m /\ p \in 0 .. n + m /\ n <= p
          /\ p - 1 \in 0 .. n + m /\ n <= p - 1 /\ (p - 1) - n = (p - n) - 1
      BY <1>1, <2>2
    <3>2. X[p - 1] = W[(p - n) - 1] /\ X[p] = W[p - n] /\ r[p] = c[p - n]
      BY <1>1, <1>7, <2>2, <3>1
    <3> QED
      BY <1>3, <3>1, <3>2
  <2> QED
    BY <2>1, <2>2
<1>9. ASSUME NEW p \in 0 .. n + m, NEW s \in 0 .. n + m, p <= s PROVE Later(X[p], X[s])
  <2>1. CASE s <= n
    <3>1. p \in 0 .. n /\ s \in 0 .. n
      BY <1>1, <1>9, <2>1
    <3> QED
      BY <1>2, <1>7, <1>9, <3>1
  <2>2. CASE ~(p <= n)
    <3>1. n <= p /\ n <= s /\ p - n <= s - n
      BY <1>1, <1>9, <2>2
    <3> QED
      BY <1>3, <1>7, <3>1
  <2>3. CASE p <= n /\ ~(s <= n)
    <3>1. p \in 0 .. n /\ n \in 0 .. n /\ n <= s /\ 0 \in 0 .. m /\ 0 <= s - n
      BY <1>1, <2>3
    <3>2. Later(V[p], V[n]) /\ X[p] = V[p]
      BY <1>2, <1>7, <2>3, <3>1
    <3>3. s - n \in 0 .. m /\ X[s] = W[s - n]
      BY <1>7, <3>1
    <3>4. Later(W[0], W[s - n])
      BY <1>3, <3>1, <3>3
    <3> QED
      BY <1>4, <3>2, <3>3, <3>4, LaterAdds
  <2> QED
    BY <2>1, <2>2, <2>3
<1>10. ASSUME NEW p \in 0 .. n + m PROVE X[p].known \subseteq X[p].ever
  <2>1. CASE p <= n
    <3>1. p \in 0 .. n
      BY <1>1, <2>1
    <3> QED
      BY <1>2, <1>7, <3>1
  <2>2. CASE ~(p <= n)
    <3>1. n <= p
      BY <1>1, <2>2
    <3> QED
      BY <1>3, <1>7, <3>1
  <2> QED
    BY <2>1, <2>2
<1>11. Path(X, r)
  BY <1>1, <1>6, <1>8, <1>9, <1>10 DEF Path
<1>12. 0 \in 0 .. n /\ n + m \in 0 .. n + m /\ n <= n + m /\ (n + m) - n = m
  BY <1>1
<1>13. X[0] = V[0] /\ X[n + m] = W[m]
  BY <1>7, <1>12
<1> QED
  BY <1>1, <1>11, <1>13 DEF n, m, r

-----------------------------------------------------------------------------
(* What a refresh makes of a view *)

Announced(h) == {e.id : e \in {x \in h : IsWs(x)}}
Gone(h)      == {e.id : e \in {x \in h : x.kind = "removed"}}
Tells(e)     == e.kind \in {"workspace", "state"}
On(h)        == {e.id : e \in {x \in h : Tells(x) /\ x.active}}
Off(h)       == {e.id : e \in {x \in h : x.kind = "removed" \/ (Tells(x) /\ ~x.active)}}

After(v, h) ==
  [known |-> (v.known \cup Announced(h)) \ Gone(h), lit |-> (v.lit \cup On(h)) \ Off(h),
   ever |-> v.ever \cup Announced(h), open |-> v.open \/ h # {}]

(* What is told of a workspace.                                             *)
LEMMA WordsAreTyped ==
  ASSUME NEW e \in Words
  PROVE  /\ e.id \in Ids /\ e.kind \in {"workspace", "name", "state", "removed"}
         /\ Tells(e) => e.active \in BOOLEAN
         /\ IsWs(e) \/ e.kind = "name" => e.name \in Names
BY DEF Words, Tells, IsWs

(* The words of one refresh do not contradict each other.                   *)
LEMMA TrueWords ==
  ASSUME Typed, NEW h \in SUBSET Words, \A e \in h : True(e)
  PROVE  /\ Announced(h) \subseteq live \ handles /\ Gone(h) \subseteq handles \ live
         /\ On(h) \subseteq {activeId} /\ activeId \notin Off(h)
<1>1. \A e \in h : IsWs(e) => e.id \in live \ handles
  BY DEF True, IsWs
<1>2. \A e \in h : e.kind = "removed" => e.id \in handles \ live
  BY DEF True
<1>3. \A e \in h : Tells(e) => (e.active <=> e.id = activeId)
  BY DEF True, Tells
<1>4. \A e \in h : (e.kind = "removed" \/ (Tells(e) /\ ~e.active)) => e.id # activeId
  BY <1>2, <1>3 DEF Typed
<1> QED
  BY <1>1, <1>2, <1>3, <1>4 DEF Announced, Gone, On, Off

(* A view with some words heard is a view.                                  *)
LEMMA AfterIsView ==
  ASSUME NEW v \in Views, NEW h \in SUBSET Words
  PROVE  After(v, h) \in Views
<1>1. Announced(h) \subseteq Ids /\ On(h) \subseteq Ids
  BY WordsAreTyped DEF Announced, On
<1>2. v.known \subseteq Ids /\ v.lit \subseteq Ids /\ v.ever \subseteq Ids /\ v.open \in BOOLEAN
  BY DEF Views
<1>3. (v.open \/ h # {}) \in BOOLEAN
  OBVIOUS
<1> QED
  BY <1>1, <1>2, <1>3 DEF After, Views

(* Hearing one more word of a refresh leads to the view of all words so     *)
(* far.                                                                     *)
LEMMA OneWordMore ==
  ASSUME Typed, NEW v \in Views, NEW h \in SUBSET Words, NEW e \in Words, True(e),
         \A x \in h : True(x)
  PROVE  Hears(After(v, h), e, After(v, h \cup {e}))
<1> DEFINE g == h \cup {e}
<1>1. \A x \in g : True(x)
  OBVIOUS
<1>2. /\ Announced(g) = Announced(h) \cup (IF IsWs(e) THEN {e.id} ELSE {})
      /\ Gone(g) = Gone(h) \cup (IF e.kind = "removed" THEN {e.id} ELSE {})
  BY DEF Announced, Gone
<1>3. /\ On(g) = On(h) \cup (IF Tells(e) /\ e.active THEN {e.id} ELSE {})
      /\ Off(g) = Off(h) \cup (IF e.kind = "removed" \/ (Tells(e) /\ ~e.active) THEN {e.id} ELSE {})
  BY DEF On, Off
<1>4. /\ Announced(g) \subseteq live \ handles /\ Gone(g) \subseteq handles \ live
      /\ On(g) \subseteq {activeId} /\ activeId \notin Off(g)
  BY <1>1, TrueWords
<1>5. e.kind \in {"workspace", "name", "state", "removed"}
  BY WordsAreTyped
<1> HIDE DEF g
<1>6. /\ After(v, g).known = (v.known \cup Announced(g)) \ Gone(g)
      /\ After(v, h).known = (v.known \cup Announced(h)) \ Gone(h)
      /\ After(v, g).lit = (v.lit \cup On(g)) \ Off(g)
      /\ After(v, h).lit = (v.lit \cup On(h)) \ Off(h)
      /\ After(v, g).open = (v.open \/ g # {})
  BY DEF After
<1>7. After(v, g).known = IF e.kind = "workspace" THEN After(v, h).known \cup {e.id}
                          ELSE IF e.kind = "removed" THEN After(v, h).known \ {e.id}
                          ELSE After(v, h).known
  <2>1. CASE e.kind = "workspace"
    <3>1. Announced(g) = Announced(h) \cup {e.id} /\ Gone(g) = Gone(h)
      BY <1>2, <2>1 DEF IsWs
    <3>2. e.id \notin Gone(g)
      BY <1>4, <3>1
    <3> QED
      BY <1>6, <2>1, <3>1, <3>2
  <2>2. CASE e.kind = "removed"
    <3>1. Announced(g) = Announced(h) /\ Gone(g) = Gone(h) \cup {e.id}
      BY <1>2, <2>2 DEF IsWs
    <3> QED
      BY <1>6, <2>2, <3>1
  <2>3. CASE e.kind \notin {"workspace", "removed"}
    <3>1. Announced(g) = Announced(h) /\ Gone(g) = Gone(h)
      BY <1>2, <2>3 DEF IsWs
    <3> QED
      BY <1>6, <2>3, <3>1
  <2> QED
    BY <2>1, <2>2, <2>3
<1>8. After(v, g).lit = IF e.kind \in {"workspace", "state"} /\ e.active
                        THEN After(v, h).lit \cup {e.id}
                        ELSE IF e.kind \in {"workspace", "state", "removed"}
                        THEN After(v, h).lit \ {e.id} ELSE After(v, h).lit
  <2>1. CASE Tells(e) /\ e.active
    <3>1. On(g) = On(h) \cup {e.id} /\ Off(g) = Off(h)
      BY <1>3, <2>1 DEF Tells
    <3>2. e.id \notin Off(g)
      BY <1>4, <3>1
    <3> QED
      BY <1>6, <2>1, <3>1, <3>2 DEF Tells
  <2>2. CASE e.kind = "removed" \/ (Tells(e) /\ ~e.active)
    <3>1. On(g) = On(h) /\ Off(g) = Off(h) \cup {e.id}
      BY <1>3, <2>2 DEF Tells
    <3>2. ~(e.kind \in {"workspace", "state"} /\ e.active)
          /\ e.kind \in {"workspace", "state", "removed"}
      BY <2>2 DEF Tells
    <3> QED
      BY <1>6, <3>1, <3>2
  <2>3. CASE e.kind # "removed" /\ ~Tells(e)
    <3>1. On(g) = On(h) /\ Off(g) = Off(h)
      BY <1>3, <2>3
    <3> QED
      BY <1>6, <2>3, <3>1 DEF Tells
  <2>4. \/ Tells(e) /\ e.active
        \/ e.kind = "removed" \/ (Tells(e) /\ ~e.active)
        \/ e.kind # "removed" /\ ~Tells(e)
    BY WordsAreTyped DEF Tells
  <2> QED
    BY <2>1, <2>2, <2>3, <2>4
<1>9. After(v, g).open = TRUE
  BY <1>6 DEF g
<1> QED
  BY <1>5, <1>7, <1>8, <1>9 DEF Hears, g

(* When it has told all, the view is what is.                               *)
LEMMA AfterAll ==
  ASSUME Typed, NEW v \in Views, Whole(v), NEW h \in SUBSET Words, \A e \in h : True(e),
         \A i \in Ids : Changed(i) => \E e \in h : Due(i, e)
  PROVE  /\ After(v, h).known = live /\ After(v, h).lit = {activeId}
         /\ After(v, h).ever \subseteq v.ever \cup live
<1>1. /\ Announced(h) \subseteq live \ handles /\ Gone(h) \subseteq handles \ live
      /\ On(h) \subseteq {activeId} /\ activeId \notin Off(h)
  BY TrueWords
<1>2. /\ v.known = handles /\ v.lit = {i \in handles : snapshot[i].active}
  BY DEF Whole
<1>3. handles \subseteq Ids /\ live \subseteq Ids /\ activeId \in live
  BY DEF Typed
<1>4. ASSUME NEW i \in handles \ live PROVE i \in Gone(h) /\ i \in Off(h)
  <2>1. PICK e \in h : Due(i, e)
    BY <1>3 DEF Changed
  <2>2. e.id = i /\ e.kind = "removed"
    BY <2>1 DEF Due
  <2>3. i \in Gone(h)
    BY <2>2 DEF Gone
  <2>4. e \in {x \in h : x.kind = "removed" \/ (Tells(x) /\ ~x.active)}
    BY <2>2 DEF Tells
  <2>5. i \in Off(h)
    BY <2>2, <2>4 DEF Off
  <2> QED
    BY <2>3, <2>5
<1>5. ASSUME NEW i \in live \ handles PROVE i \in Announced(h) /\ (i = activeId => i \in On(h))
  <2>1. PICK e \in h : Due(i, e)
    BY <1>3 DEF Changed
  <2>2. e.id = i /\ e.kind = "workspace" /\ e.active = (i = activeId)
    BY <2>1 DEF Due, True
  <2> QED
    BY <2>2 DEF Announced, On, IsWs, Tells
<1>6. ASSUME NEW i \in live \cap handles, snapshot[i].active # (i = activeId)
      PROVE  IF i = activeId THEN i \in On(h) ELSE i \in Off(h)
  <2>1. PICK e \in h : Due(i, e)
    BY <1>3, <1>6 DEF Changed
  <2>2. e.id = i /\ e.kind = "state" /\ e.active = (i = activeId)
    BY <1>6, <2>1 DEF Due, True
  <2> QED
    BY <2>2 DEF On, Off, Tells
<1>7. After(v, h).known = live
  BY <1>1, <1>2, <1>4, <1>5 DEF After
<1>8. ASSUME NEW i PROVE i \in After(v, h).lit <=> i = activeId
  <2>1. i \in After(v, h).lit <=> (i \in v.lit \/ i \in On(h)) /\ i \notin Off(h)
    BY DEF After
  <2>2. CASE i = activeId
    <3>1. CASE i \in handles
      <4>1. i \in live \cap handles
        BY <1>3, <2>2, <3>1
      <4>2. CASE snapshot[i].active
        BY <1>1, <1>2, <2>1, <2>2, <3>1, <4>2
      <4>3. CASE ~snapshot[i].active
        <5>1. snapshot[i].active # (i = activeId)
          BY <2>2, <4>3
        <5> QED
          BY <1>1, <1>6, <2>1, <2>2, <4>1, <5>1
      <4> QED
        BY <4>2, <4>3
    <3>2. CASE i \notin handles
      BY <1>1, <1>3, <1>5, <2>1, <2>2, <3>2
    <3> QED
      BY <3>1, <3>2
  <2>3. CASE i # activeId
    <3>1. i \notin On(h)
      BY <1>1, <2>3
    <3>2. CASE i \in v.lit
      <4>1. i \in handles /\ snapshot[i].active
        BY <1>2, <3>2
      <4>2. CASE i \in live
        <5>1. snapshot[i].active # (i = activeId)
          BY <2>3, <4>1
        <5> QED
          BY <1>6, <2>1, <2>3, <4>1, <4>2, <5>1
      <4>3. CASE i \notin live
        BY <1>4, <2>1, <2>3, <4>1, <4>3
      <4> QED
        BY <4>2, <4>3
    <3> QED
      BY <2>1, <2>3, <3>1, <3>2
  <2> QED
    BY <2>2, <2>3
<1>9. After(v, h).ever \subseteq v.ever \cup live
  BY <1>1 DEF After
<1> QED
  BY <1>7, <1>8, <1>9

(* The words of one refresh lead from a whole view to the state of the      *)
(* moment.                                                                  *)
LEMMA UpdatesPath ==
  ASSUME Typed, IdsGrow, NEW v \in Views, Whole(v), v.known \subseteq v.ever,
         NEW q \in Seq(Words), Told(q)
  PROVE  \E W : /\ Path(W, q) /\ W[0] = v
                /\ W[Len(q)].known = live /\ W[Len(q)].lit = {activeId}
                /\ W[Len(q)].ever \subseteq v.ever \cup live
<1> DEFINE n == Len(q)
           H(k) == {q[m] : m \in 1 .. k}
           W == [k \in 0 .. n |-> After(v, H(k))]
<1>1. n \in Nat /\ \A k \in 1 .. n : q[k] \in Words
  OBVIOUS
<1>2. /\ \A k \in 1 .. n : True(q[k])
      /\ \A j, k \in 1 .. n : j < k /\ IsWs(q[j]) /\ IsWs(q[k]) => q[j].id < q[k].id
      /\ \A i \in Ids : Changed(i) => \E k \in 1 .. n : Due(i, q[k])
  BY DEF Told
<1>3. /\ v.known = handles /\ ~v.open
      /\ v.lit = {i \in handles : snapshot[i].active}
      /\ \A i \in v.ever : Mentioned(i)
  BY DEF Whole
<1>4. v.known \in SUBSET Ids /\ v.lit \in SUBSET Ids /\ v.ever \in SUBSET Ids /\ v.open \in BOOLEAN
  BY DEF Views
<1> HIDE DEF n
<1>5. ASSUME NEW k \in 0 .. n
      PROVE  /\ H(k) \in SUBSET Words /\ \A e \in H(k) : True(e)
             /\ \A m \in 1 .. k : m \in 1 .. n
  <2>1. \A m \in 1 .. k : m \in 1 .. n
    BY <1>1
  <2> QED
    BY <1>1, <1>2, <2>1
<1>6. /\ W \in [0 .. n -> Views] /\ \A k \in 0 .. n : W[k] = After(v, H(k))
  <2> HIDE DEF H
  <2> QED
    BY <1>5, AfterIsView
<1>7. W[0] = v
  <2>1. 0 \in 0 .. n /\ H(0) = {}
    BY <1>1
  <2>2. After(v, {}) = [known |-> v.known, lit |-> v.lit, ever |-> v.ever, open |-> FALSE]
    BY <1>4, <1>3 DEF After, Announced, Gone, On, Off
  <2>3. v = [known |-> v.known, lit |-> v.lit, ever |-> v.ever, open |-> v.open]
    BY DEF Views
  <2>4. v.open = FALSE
    BY <1>3, <1>4
  <2> QED
    BY <1>6, <2>1, <2>2, <2>3, <2>4
<1>8. ASSUME NEW k \in 1 .. n PROVE Hears(W[k - 1], q[k], W[k])
  <2>1. k \in 0 .. n /\ k - 1 \in 0 .. n /\ k \in 1 .. k
    BY <1>1
  <2>2. H(k) = H(k - 1) \cup {q[k]}
    <3>1. \A m : m \in 1 .. k <=> m \in 1 .. k - 1 \/ m = k
      BY <1>1
    <3> QED
      BY <3>1
  <2>3. q[k] \in Words /\ True(q[k])
    BY <1>1, <1>2
  <2>4. H(k - 1) \in SUBSET Words /\ \A e \in H(k - 1) : True(e)
    BY <1>5, <2>1
  <2> HIDE DEF W, H
  <2>5. Hears(After(v, H(k - 1)), q[k], After(v, H(k - 1) \cup {q[k]}))
    BY <2>3, <2>4, OneWordMore
  <2>6. W[k - 1] = After(v, H(k - 1)) /\ W[k] = After(v, H(k))
    BY <1>6, <2>1
  <2> QED
    BY <2>2, <2>5, <2>6
(* What has been heard of by then, and what of it has gone.                 *)
<1>9. ASSUME NEW k \in 0 .. n
      PROVE  /\ Announced(H(k)) \subseteq live \ handles /\ Gone(H(k)) \subseteq handles \ live
             /\ W[k].known = (v.known \cup Announced(H(k))) \ Gone(H(k))
             /\ W[k].ever = v.ever \cup Announced(H(k))
             /\ \A i \in Announced(H(k)) : \E m \in 1 .. k : IsWs(q[m]) /\ q[m].id = i
             /\ \A m \in 1 .. k : IsWs(q[m]) => q[m].id \in Announced(H(k))
  <2>1. H(k) \in SUBSET Words /\ \A e \in H(k) : True(e)
    BY <1>5
  <2>2. \A i \in Announced(H(k)) : \E m \in 1 .. k : IsWs(q[m]) /\ q[m].id = i
    BY DEF Announced
  <2>3. \A m \in 1 .. k : IsWs(q[m]) => q[m].id \in Announced(H(k))
    BY DEF Announced
  <2> HIDE DEF H
  <2>4. /\ Announced(H(k)) \subseteq live \ handles /\ Gone(H(k)) \subseteq handles \ live
    BY <2>1, TrueWords
  <2>5. /\ W[k].known = (v.known \cup Announced(H(k))) \ Gone(H(k))
        /\ W[k].ever = v.ever \cup Announced(H(k))
    BY <1>6 DEF After
  <2> QED
    BY <2>2, <2>3, <2>4, <2>5
<1>10. ASSUME NEW k \in 1 .. n PROVE InOrder(W[k - 1], q[k])
  <2>1. k - 1 \in 0 .. n /\ q[k] \in Words /\ True(q[k])
    BY <1>1, <1>2
  <2>2. q[k].kind \in {"workspace", "name", "state", "removed"}
    BY <2>1, WordsAreTyped
  <2>3. ASSUME q[k].kind = "workspace", NEW i \in W[k - 1].ever PROVE i < q[k].id
    <3>1. q[k].id \in live \ handles /\ IsWs(q[k])
      BY <2>1, <2>3 DEF True, IsWs
    <3>2. CASE i \in v.ever
      BY <1>3, <3>1, <3>2 DEF Mentioned
    <3>3. CASE i \in Announced(H(k - 1))
      <4>1. PICK m \in 1 .. k - 1 : IsWs(q[m]) /\ q[m].id = i
        BY <1>9, <2>1, <3>3
      <4>2. m \in 1 .. n /\ m < k
        BY <1>1, <4>1
      <4> QED
        BY <1>2, <3>1, <4>1, <4>2
    <3> QED
      BY <1>9, <2>1, <2>3, <3>2, <3>3
  <2>4. ASSUME q[k].kind = "state" PROVE q[k].id \in W[k - 1].known
    <3>1. q[k].id \in live \cap handles
      BY <2>1, <2>4 DEF True
    <3> QED
      BY <1>3, <1>9, <2>1, <3>1
  <2> QED
    BY <2>2, <2>3, <2>4 DEF InOrder
<1>11. ASSUME NEW p \in 0 .. n, NEW r \in 0 .. n, p <= r PROVE Later(W[p], W[r])
  <2>1. \A m \in 1 .. p : m \in 1 .. r
    BY <1>1, <1>11
  <2>2. H(p) \subseteq H(r)
    BY <2>1
  <2>3. Announced(H(p)) \subseteq Announced(H(r)) /\ Gone(H(p)) \subseteq Gone(H(r))
    BY <2>2 DEF Announced, Gone
  <2> HIDE DEF W, H
  <2>4. W[p].ever \subseteq W[r].ever
    BY <1>9, <2>3
  <2>5. ASSUME NEW j \in W[r].known, j \notin W[p].known, NEW i \in W[p].ever PROVE i < j
    <3>1. j \in Announced(H(r)) /\ j \notin Announced(H(p))
      BY <1>9, <2>3, <2>5
    <3>2. PICK m \in 1 .. r : IsWs(q[m]) /\ q[m].id = j
      BY <1>9, <3>1
    <3>3. m \in 1 .. n /\ m \notin 1 .. p /\ m > p
      BY <1>1, <1>9, <3>1, <3>2
    <3>4. CASE i \in v.ever
      <4>1. j \in live \ handles
        BY <1>9, <3>1
      <4> QED
        BY <1>3, <3>4, <4>1 DEF Mentioned
    <3>5. CASE i \in Announced(H(p))
      <4>1. PICK l \in 1 .. p : IsWs(q[l]) /\ q[l].id = i
        BY <1>9, <3>5
      <4>2. l \in 1 .. n /\ l < m
        BY <1>1, <3>3, <4>1
      <4> QED
        BY <1>2, <3>2, <3>3, <4>1, <4>2
    <3> QED
      BY <1>9, <2>5, <3>4, <3>5
  <2> QED
    BY <2>4, <2>5 DEF Later
<1>12. \A p \in 0 .. n : W[p].known \subseteq W[p].ever
  <2> HIDE DEF W, H
  <2> QED
    BY <1>9
<1>13. Path(W, q)
  <2> HIDE DEF W, H
  <2> QED
    BY <1>6, <1>8, <1>10, <1>11, <1>12 DEF Path, n
<1>14. W[n].known = live /\ W[n].lit = {activeId} /\ W[n].ever \subseteq v.ever \cup live
  <2>1. n \in 0 .. n
    BY <1>1
  <2>2. ASSUME NEW i \in Ids, Changed(i) PROVE \E e \in H(n) : Due(i, e)
    BY <1>2, <2>2
  <2>3. H(n) \in SUBSET Words /\ \A e \in H(n) : True(e)
    BY <1>5, <2>1
  <2> HIDE DEF W, H
  <2>4. W[n] = After(v, H(n))
    BY <1>6, <2>1
  <2> QED
    BY <2>2, <2>3, <2>4, AfterAll
<1> HIDE DEF W, H
<1> QED
  BY <1>7, <1>13, <1>14 DEF n

(* One refresh takes the bar from one whole state to the next.              *)
LEMMA BatchPath ==
  ASSUME Typed, IdsGrow, NEW v \in Views, Whole(v), v.known \subseteq v.ever
  PROVE  /\ Batch(Updates) \in Seq(Events)
         /\ \E W : LET w == W[Len(Batch(Updates))] IN
              /\ Path(W, Batch(Updates)) /\ W[0] = v
              /\ w.known = live /\ w.lit = {activeId} /\ ~w.open
              /\ w.ever \subseteq v.ever \cup live
<1> DEFINE q == Updates
<1>1. q \in Seq(Words) /\ Told(q)
  BY UpdatesTold
<1> HIDE DEF q
<1>2. PICK W : /\ Path(W, q) /\ W[0] = v
               /\ W[Len(q)].known = live /\ W[Len(q)].lit = {activeId}
               /\ W[Len(q)].ever \subseteq v.ever \cup live
  BY <1>1, UpdatesPath
<1>3. q \in Seq(Events) /\ Event("done", 0) \in Events
  BY <1>1 DEF Events, Done, Event
<1>4. CASE q = << >>
  <2>1. Batch(q) = q /\ Len(q) = 0
    BY <1>4 DEF Batch
  <2>2. ~v.open
    BY DEF Whole
  <2> QED
    BY <1>2, <1>3, <2>1, <2>2 DEF q
<1>5. CASE q # << >>
  <2> DEFINE e == Event("done", 0)
             u == W[Len(q)]
             w == [u EXCEPT !.open = FALSE]
  <2>1. Batch(q) = Append(q, e) /\ Len(q) \in Nat /\ Len(Append(q, e)) = Len(q) + 1
    BY <1>3, <1>5 DEF Batch
  <2>2. u \in Views /\ u.known \subseteq u.ever
    <3>1. Len(q) \in 0 .. Len(q)
      BY <2>1
    <3> QED
      BY <1>2, <3>1 DEF Path
  <2>3. /\ w \in Views /\ w.known = u.known /\ w.lit = u.lit /\ w.ever = u.ever
        /\ w.open = FALSE
    BY <2>2 DEF Views
  <2>4. e.kind = "done" /\ e \in Events
    BY <1>3 DEF Event
  <2>5. u.lit = {activeId} /\ u.known = live /\ u.ever \subseteq v.ever \cup live
    BY <1>2
  <2> HIDE DEF e, u, w
  <2>6. Hears(u, e, w)
    BY <2>3, <2>4 DEF Hears
  <2>7. InOrder(u, e)
    BY <2>4, <2>5 DEF InOrder
  <2>8. Later(u, w)
    BY <2>3 DEF Later
  <2>9. PICK X : Path(X, Append(q, e)) /\ X[0] = W[0] /\ X[Len(q) + 1] = w
    BY <1>2, <1>3, <2>2, <2>3, <2>4, <2>6, <2>7, <2>8, PathGrows DEF u
  <2>10. Append(q, e) \in Seq(Events)
    BY <1>3, <2>4
  <2> QED
    BY <1>2, <2>1, <2>3, <2>5, <2>9, <2>10 DEF q
<1> QED
  BY <1>4, <1>5

-----------------------------------------------------------------------------
(* The bar handles one event *)

(* A request joins those on their way: if it is a commit, it has a whole    *)
(* frame.                                                                   *)
LEMMA OneRequestMore ==
  ASSUME NEW s, WholeRequests(s), NEW r \in Requests, r.kind = "commit" => WholeFrame(r.frame)
  PROVE  WholeRequests(Append(s, r))
<1>1. s \in Seq(Requests) /\ \A k \in 1 .. Len(s) : s[k].kind = "commit" => WholeFrame(s[k].frame)
  BY DEF WholeRequests
<1>2. /\ Append(s, r) \in Seq(Requests) /\ Len(Append(s, r)) = Len(s) + 1 /\ Len(s) \in Nat
      /\ \A k \in 1 .. Len(s) : Append(s, r)[k] = s[k]
      /\ Append(s, r)[Len(s) + 1] = r
  BY <1>1
<1>3. \A k \in 1 .. Len(s) + 1 : k \in 1 .. Len(s) \/ k = Len(s) + 1
  BY <1>2
<1> QED
  BY <1>1, <1>2, <1>3 DEF WholeRequests

(* So do the two of create_layer, whose commit is empty.                    *)
LEMMA TwoRequestsMore ==
  ASSUME NEW s, WholeRequests(s), NEW r \in Requests, NEW c \in Requests,
         r.kind # "commit", WholeFrame(c.frame)
  PROVE  WholeRequests(s \o << r, c >>)
<1> DEFINE t == << r, c >>
<1>1. s \in Seq(Requests) /\ \A k \in 1 .. Len(s) : s[k].kind = "commit" => WholeFrame(s[k].frame)
  BY DEF WholeRequests
<1>2. t \in Seq(Requests) /\ Len(t) = 2 /\ t[1] = r /\ t[2] = c
  OBVIOUS
<1> HIDE DEF t
<1>3. /\ s \o t \in Seq(Requests) /\ Len(s \o t) = Len(s) + 2 /\ Len(s) \in Nat
      /\ \A k \in 1 .. Len(s) : (s \o t)[k] = s[k]
      /\ (s \o t)[Len(s) + 1] = r /\ (s \o t)[Len(s) + 2] = c
  <2>0. s \in Seq(Requests) /\ t \in Seq(Requests)
    BY <1>1, <1>2
  <2>1. s \o t \in Seq(Requests) /\ Len(s \o t) = Len(s) + Len(t) /\ Len(s) \in Nat
    BY <2>0
  <2>2. \A k \in 1 .. Len(s) : (s \o t)[k] = s[k]
    BY <2>0
  <2>3. \A k \in 1 .. Len(s) + Len(t) : ~(k <= Len(s)) => (s \o t)[k] = t[k - Len(s)]
    BY <2>0
  <2>4. /\ Len(s) + 1 \in 1 .. Len(s) + Len(t) /\ Len(s) + 2 \in 1 .. Len(s) + Len(t)
        /\ ~(Len(s) + 1 <= Len(s)) /\ ~(Len(s) + 2 <= Len(s))
        /\ (Len(s) + 1) - Len(s) = 1 /\ (Len(s) + 2) - Len(s) = 2
    BY <1>2, <2>1
  <2>5. (s \o t)[Len(s) + 1] = t[1] /\ (s \o t)[Len(s) + 2] = t[2]
    BY <2>3, <2>4
  <2> QED
    BY <1>2, <2>1, <2>2, <2>5
<1>4. \A k \in 1 .. Len(s) + 2 : k \in 1 .. Len(s) \/ k = Len(s) + 1 \/ k = Len(s) + 2
  BY <1>3
<1>5. \A k \in 1 .. Len(s) + 2 : (s \o t)[k].kind = "commit" => WholeFrame((s \o t)[k].frame)
  BY <1>1, <1>3, <1>4
<1> QED
  BY <1>3, <1>5 DEF WholeRequests, t

(* The first of the requests on their way, and the rest.                    *)
LEMMA OneRequestLess ==
  ASSUME NEW s, WholeRequests(s), s # << >>
  PROVE  Head(s) \in Requests /\ WholeRequests(Tail(s))
         /\ (Head(s).kind = "commit" => WholeFrame(Head(s).frame))
<1>1. s \in Seq(Requests) /\ \A k \in 1 .. Len(s) : s[k].kind = "commit" => WholeFrame(s[k].frame)
  BY DEF WholeRequests
<1>2. /\ Tail(s) \in Seq(Requests) /\ Len(Tail(s)) = Len(s) - 1 /\ Len(s) \in Nat \ {0}
      /\ \A k \in 1 .. Len(s) - 1 : Tail(s)[k] = s[k + 1]
      /\ Head(s) = s[1] /\ Head(s) \in Requests
  BY <1>1
<1>3. \A k \in 1 .. Len(s) - 1 : k + 1 \in 1 .. Len(s)
  BY <1>2
<1> QED
  BY <1>1, <1>2, <1>3 DEF WholeRequests

(* The left edges are defined one by one.                                   *)
LEMMA EdgeByEdge ==
  ASSUME NEW n \in Nat, NEW width \in [1 .. n -> Nat \ {0}]
  PROVE  /\ Edges(width) \in [1 .. n -> Nat]
         /\ \A k \in 1 .. n : Edges(width)[k] = IF k = 1 THEN BarPad
                                                ELSE Edges(width)[k - 1] + width[k - 1] + PillGap
<1> DEFINE Edge(f, k) == IF k = 1 THEN BarPad ELSE f[k - 1] + width[k - 1] + PillGap
           Steps(m, f) == f \in [1 .. m -> Nat] /\ \A k \in 1 .. m : f[k] = Edge(f, k)
           Some(m) == \E f : Steps(m, f)
           T == {m \in Nat : m <= n => Some(m)}
           left == Edges(width)
<1>0. BarPad \in Nat /\ PillGap \in Nat
  BY PillAssumption
<1>1. Some(0)
  <2> DEFINE f == [k \in 1 .. 0 |-> 0]
  <2>1. Steps(0, f)
    OBVIOUS
  <2> QED
    BY <2>1
<1>2. ASSUME NEW m \in Nat, m + 1 <= n, Some(m) PROVE Some(m + 1)
  <2>1. PICK f : Steps(m, f)
    BY <1>2
  <2>2. PICK x : x = Edge(f, m + 1)
    OBVIOUS
  <2>3. x \in Nat
    <3>1. CASE m = 0
      BY <1>0, <2>2, <3>1
    <3>2. CASE m # 0
      <4>1. m \in 1 .. m /\ m \in 1 .. n /\ m + 1 # 1 /\ (m + 1) - 1 = m
        BY <1>2, <3>2
      <4>2. f[m] \in Nat /\ width[m] \in Nat
        BY <2>1, <4>1
      <4>3. x = f[(m + 1) - 1] + width[(m + 1) - 1] + PillGap
        BY <2>2, <4>1
      <4>4. x = f[m] + width[m] + PillGap
        BY <4>1, <4>3
      <4> QED
        BY <1>0, <4>2, <4>4
    <3> QED
      BY <3>1, <3>2
  <2> DEFINE g == [k \in 1 .. m + 1 |-> IF k <= m THEN f[k] ELSE x]
  <2>4. g \in [1 .. m + 1 -> Nat]
    BY <2>1, <2>3
  <2>5. \A k \in 1 .. m : f[k] = Edge(f, k)
    BY <2>1
  <2>6. g[m + 1] = x /\ \A k \in 1 .. m : g[k] = f[k]
    OBVIOUS
  <2>7. \A k \in 1 .. m + 1 : Edge(g, k) = Edge(f, k)
    <3> SUFFICES ASSUME NEW k \in 1 .. m + 1, k # 1 PROVE g[k - 1] = f[k - 1]
      OBVIOUS
    <3>1. k - 1 \in 1 .. m
      OBVIOUS
    <3> QED
      BY <2>6, <3>1
  <2>8. \A k \in 1 .. m + 1 : k \in 1 .. m \/ k = m + 1
    OBVIOUS
  <2> HIDE DEF g, Edge
  <2>9. \A k \in 1 .. m + 1 : g[k] = Edge(g, k)
    BY <2>2, <2>5, <2>6, <2>7, <2>8
  <2>10. Steps(m + 1, g)
    BY <2>4, <2>9
  <2> QED
    BY <2>10
<1> HIDE DEF Some
<1>3. 0 \in T /\ \A m \in Nat \cap T : m + 1 \in T
  BY <1>1, <1>2
<1>4. n \in T
  <2> HIDE DEF T
  <2> QED
    BY <1>3, AllNumbers
<1>5. PICK f : Steps(n, f)
  <2>1. Some(n)
    BY <1>4
  <2> QED
    BY <2>1 DEF Some
<1> HIDE DEF Edge
<1>6. left = [k \in 1 .. n |-> Edge(left, k)]
  <2>1. f = [k \in 1 .. n |-> Edge(f, k)]
    <3>1. f = [k \in 1 .. n |-> f[k]]
      BY <1>5
    <3> QED
      BY <1>5, <3>1
  <2>2. DOMAIN width = 1 .. n
    OBVIOUS
  <2>3. left = CHOOSE h : h = [k \in 1 .. n |-> Edge(h, k)]
    BY <2>2 DEF Edges, Edge
  <2> HIDE DEF left
  <2> QED
    BY <2>1, <2>3
<1> HIDE DEF left
<1>7. \A k \in 1 .. n : left[k] = Edge(left, k)
  BY <1>6
<1>8. ASSUME NEW m \in Nat, m \in 1 .. n => left[m] = f[m], m + 1 \in 1 .. n
      PROVE  left[m + 1] = f[m + 1]
  <2>1. left[m + 1] = Edge(left, m + 1) /\ f[m + 1] = Edge(f, m + 1)
    BY <1>5, <1>7, <1>8
  <2>2. CASE m = 0
    <3>1. m + 1 = 1
      BY <2>2
    <3> QED
      BY <2>1, <3>1 DEF Edge
  <2>3. CASE m # 0
    <3>1. m \in 1 .. n /\ m + 1 # 1 /\ (m + 1) - 1 = m
      BY <1>8, <2>3
    <3>2. left[(m + 1) - 1] = f[(m + 1) - 1]
      BY <1>8, <3>1
    <3> QED
      BY <2>1, <3>1, <3>2 DEF Edge
  <2> QED
    BY <2>2, <2>3
<1>9. \A k \in 1 .. n : left[k] = f[k]
  <2> DEFINE U == {m \in Nat : m \in 1 .. n => left[m] = f[m]}
  <2>1. 0 \in U /\ \A m \in Nat \cap U : m + 1 \in U
    BY <1>8
  <2> SUFFICES ASSUME NEW k \in 1 .. n PROVE left[k] = f[k]
    OBVIOUS
  <2> HIDE DEF U
  <2>2. Nat \subseteq U
    BY <2>1, AllNumbers
  <2>3. k \in U
    BY <2>2
  <2> QED
    BY <2>3 DEF U
<1>10. left \in [1 .. n -> Nat]
  BY <1>5, <1>6, <1>9
<1>11. \A k \in 1 .. n : left[k] = IF k = 1 THEN BarPad ELSE left[k - 1] + width[k - 1] + PillGap
  BY <1>7 DEF Edge
<1> QED
  BY <1>10, <1>11 DEF left

(* Tiles lie side by side,                                                  *)
Tiled(ts) ==
  \A k \in 1 .. Len(ts) :
    /\ ts[k].width # 0
    /\ ts[k].left = IF k = 1 THEN BarPad ELSE ts[k - 1].left + ts[k - 1].width + PillGap

(* and so they are drawn, each as an entry but for its place.               *)
LEMMA LaidTiles ==
  ASSUME NEW es \in Seq(Listings)
  PROVE  /\ Laid(es) \in Seq(Listings) /\ Len(Laid(es)) = Len(es) /\ Tiled(Laid(es))
         /\ \A k \in 1 .. Len(es) : /\ Laid(es)[k].id = es[k].id
                                    /\ Laid(es)[k].active = es[k].active
<1> DEFINE n == Len(es)
           width == [k \in 1 .. n |-> PillWidth[<<es[k].id, es[k].name>>]]
           left == Edges(width)
           ts == [k \in 1 .. n |-> [es[k] EXCEPT !.left = left[k], !.width = width[k]]]
<1>1. n \in Nat /\ DOMAIN es = 1 .. n
  OBVIOUS
<1>2. Laid(es) = ts
  BY <1>1 DEF Laid
<1>3. width \in [1 .. n -> Nat \ {0}]
  <2> SUFFICES ASSUME NEW k \in 1 .. n PROVE PillWidth[<<es[k].id, es[k].name>>] \in Nat \ {0}
    OBVIOUS
  <2>1. es[k] \in Listings
    BY <1>1
  <2>2. <<es[k].id, es[k].name>> \in Ids \X Names
    BY <2>1 DEF Listings
  <2> QED
    BY <2>2, PillAssumption
<1> HIDE DEF width
<1>4. /\ left \in [1 .. n -> Nat]
      /\ \A k \in 1 .. n : left[k] = IF k = 1 THEN BarPad
                                     ELSE left[k - 1] + width[k - 1] + PillGap
  <2> HIDE DEF n
  <2> QED
    BY <1>1, <1>3, EdgeByEdge
<1> HIDE DEF left
<1>5. ASSUME NEW k \in 1 .. n
      PROVE  /\ ts[k] \in Listings /\ ts[k].id = es[k].id /\ ts[k].active = es[k].active
             /\ ts[k].left = left[k] /\ ts[k].width = width[k]
  <2>1. es[k] \in Listings /\ left[k] \in Nat /\ width[k] \in Nat
    BY <1>1, <1>3, <1>4
  <2> QED
    BY <2>1 DEF Listings
<1>6. DOMAIN ts = 1 .. n
  OBVIOUS
<1>7. ts \in Seq(Listings) /\ Len(ts) = n
  <2>1. ts = [k \in 1 .. n |-> ts[k]]
    OBVIOUS
  <2> HIDE DEF ts
  <2> QED
    BY <1>1, <1>5, <1>6, <2>1
<1> HIDE DEF ts
<1>8. Tiled(ts)
  <2> SUFFICES ASSUME NEW k \in 1 .. n
               PROVE  /\ ts[k].width # 0
                      /\ ts[k].left = IF k = 1 THEN BarPad
                                      ELSE ts[k - 1].left + ts[k - 1].width + PillGap
    BY <1>7 DEF Tiled
  <2>1. ts[k].width # 0
    BY <1>3, <1>5
  <2>2. k # 1 => k - 1 \in 1 .. n
    BY <1>1
  <2>3. ts[k].left = IF k = 1 THEN BarPad ELSE ts[k - 1].left + ts[k - 1].width + PillGap
    BY <1>4, <1>5, <2>2
  <2> QED
    BY <2>1, <2>3
<1> QED
  BY <1>2, <1>5, <1>7, <1>8

(* What is drawn, and what the entries remember of it.                      *)
LEMMA DrawnWhole ==
  ASSUME NEW es \in Seq(Listings), Ascending(es), NEW i, Lit(es) = {i},
         WholeRequests(toServer), mine \in Nat, surfaceSize' \in Sizes, Draw(es, toServer)
  PROVE  /\ entries' \in Seq(Listings) /\ Ascending(entries')
         /\ Listed(entries') = Listed(es) /\ Lit(entries') = Lit(es)
         /\ WholeRequests(toServer')
<1> DEFINE n == Len(es)
<1>0. PICK ts : ts = Laid(es)
  OBVIOUS
<1> DEFINE f == Frame(surfaceSize', ts)
           r == Commit(mine, f)
<1>1. /\ entries' = ts /\ toServer' = Append(toServer, r) /\ n \in Nat
  BY <1>0 DEF Draw
<1>2. /\ ts \in Seq(Listings) /\ Len(ts) = n
      /\ \A k \in 1 .. n : ts[k].id = es[k].id /\ ts[k].active = es[k].active
  BY <1>0, LaidTiles
<1>4. Ascending(ts) /\ Listed(ts) = Listed(es) /\ Lit(ts) = Lit(es)
  <2>1. Ascending(ts) = Ascending(es) /\ Listed(ts) = Listed(es)
    BY <1>2, SameIds
  <2>2. {j \in 1 .. n : ts[j].active} = {j \in 1 .. n : es[j].active}
    BY <1>2
  <2>3. Lit(ts) = Lit(es)
    BY <1>2, <2>2 DEF Lit
  <2> QED
    BY <2>1, <2>3
<1>5. f \in Frames
  BY <1>2 DEF Frame, Frames
<1>6. r \in Requests /\ r.kind = "commit" /\ r.frame = f
  BY <1>5 DEF Commit, Requests
<1>7. WholeFrame(f)
  BY <1>2, <1>4, OneTile
<1> HIDE DEF r, f
<1>8. WholeRequests(toServer')
  BY <1>1, <1>6, <1>7, OneRequestMore
<1> QED
  BY <1>1, <1>2, <1>4, <1>8

(* Both lists of the bar ascend, and the pending entries come after the     *)
(* listed ones.                                                             *)
LEMMA BarLists ==
  ASSUME BarOK
  PROVE  /\ Ascending(entries) /\ Ascending(pending)
         /\ \A j \in 1 .. Len(entries), k \in 1 .. Len(pending) : entries[j].id < pending[k].id
BY Joined DEF BarOK

(* What changes neither list leaves the bar with the view it has.           *)
LEMMA NowIs ==
  ASSUME NEW v, NEW w, Now(v), w.known = v.known, w.lit = v.lit, w.open = v.open,
         UNCHANGED <<pending, entries>>
  PROVE  Now(w)'
BY DEF Now

(* A new workspace waits for the end of the batch.                          *)
LEMMA WorkspaceHeard ==
  ASSUME BarOK, NEW v \in Views, NEW w, NEW e \in Words, Now(v), v.known \subseteq v.ever,
         Hears(v, e, w), InOrder(v, e), e.kind = "workspace", OnWorkspace(e)
  PROVE  BarOK' /\ Now(w)'
<1> DEFINE x == Entry(e.id, e.name, e.active)
           n == Len(pending)
<1>1. e.id \in Ids /\ e.active \in BOOLEAN /\ e.name \in Names
  BY WordsAreTyped DEF Tells, IsWs
<1>2. x \in Listings /\ x.id = e.id /\ x.active = e.active
  BY <1>1 DEF Entry, Listings
<1>3. /\ pending' = Append(pending, x) /\ entries' = entries
      /\ UNCHANGED <<toServer, mine, surfaceSize, layers>>
  BY DEF OnWorkspace
<1> HIDE DEF x
<1>4. /\ pending \in Seq(Listings) /\ entries \in Seq(Listings) /\ n \in Nat
      /\ pending' \in Seq(Listings) /\ Len(pending') = n + 1
      /\ \A k \in 1 .. n : pending'[k] = pending[k]
      /\ pending'[n + 1] = x
  BY <1>2, <1>3 DEF BarOK
<1>5. v.known = Listed(entries) \cup Listed(pending) /\ v.lit = Lit(entries) \cup Lit(pending)
  BY DEF Now
<1>6. \A i \in v.known : i < e.id
  BY DEF InOrder
<1>7. /\ Ascending(entries) /\ Ascending(pending)
      /\ \A j \in 1 .. Len(entries), k \in 1 .. n : entries[j].id < pending[k].id
  BY BarLists
<1>8. \A k \in 1 .. n + 1 : k \in 1 .. n \/ k = n + 1
  BY <1>4
<1>9. \A k \in 1 .. n : pending[k].id < x.id
  BY <1>2, <1>5, <1>6 DEF Listed
<1>10. \A k \in 1 .. Len(entries) : entries[k].id < x.id
  BY <1>2, <1>5, <1>6 DEF Listed
<1>11. Ascending(pending')
  <2> SUFFICES ASSUME NEW j \in 1 .. n + 1, NEW k \in 1 .. n + 1, j < k
               PROVE  pending'[j].id < pending'[k].id
    BY <1>4 DEF Ascending
  <2>1. j \in 1 .. n
    BY <1>4
  <2> QED
    BY <1>4, <1>7, <1>8, <1>9, <2>1 DEF Ascending
<1>12. \A j \in 1 .. Len(entries), k \in 1 .. Len(pending') : entries[j].id < pending'[k].id
  BY <1>4, <1>7, <1>8, <1>10
<1>13. Ascending(entries' \o pending')
  BY <1>3, <1>4, <1>7, <1>11, <1>12, Joined
<1>14. BarOK'
  BY <1>3, <1>4, <1>13 DEF BarOK
<1>15. n + 1 \in 1 .. n + 1 /\ \A k \in 1 .. n : k \in 1 .. n + 1
  BY <1>4
<1>16. Listed(pending') = Listed(pending) \cup {x.id}
  BY <1>4, <1>8, <1>15 DEF Listed
<1>17. Lit(pending') = Lit(pending) \cup (IF x.active THEN {x.id} ELSE {})
  BY <1>4, <1>8, <1>15 DEF Lit
<1>18. /\ w.known = v.known \cup {e.id} /\ w.open
       /\ w.lit = IF e.active THEN v.lit \cup {e.id} ELSE v.lit \ {e.id}
  BY DEF Hears
<1>19. e.id \notin v.lit
  <2>1. v.lit \subseteq v.known
    BY <1>5 DEF Lit, Listed
  <2>2. e.id \in Nat
    BY <1>1, IdsAreNumbers
  <2> QED
    BY <1>6, <2>1, <2>2
<1>20. Now(w)'
  BY <1>2, <1>3, <1>5, <1>16, <1>17, <1>18, <1>19 DEF Now
<1> QED
  BY <1>14, <1>20

(* A workspace has another name.                                            *)
LEMMA NameHeard ==
  ASSUME BarOK, NEW v \in Views, NEW w, NEW e \in Words, Now(v),
         Hears(v, e, w), e.kind = "name", OnHandleEvent(e)
  PROVE  BarOK' /\ Now(w)'
<1>1. /\ pending' = Renamed(pending, e) /\ entries' = Renamed(entries, e)
      /\ UNCHANGED <<toServer, mine, surfaceSize, layers>>
  BY DEF OnHandleEvent
<1>2. e.id \in Ids /\ e.name \in Names /\ pending \in Seq(Listings) /\ entries \in Seq(Listings)
  BY WordsAreTyped DEF BarOK
<1>3. ASSUME NEW es \in Seq(Listings)
      PROVE  /\ Renamed(es, e) \in Seq(Listings) /\ Len(Renamed(es, e)) = Len(es)
             /\ \A k \in 1 .. Len(es) : Renamed(es, e)[k].id = es[k].id
             /\ Ascending(Renamed(es, e)) = Ascending(es)
             /\ Listed(Renamed(es, e)) = Listed(es) /\ Lit(Renamed(es, e)) = Lit(es)
  <2>1. /\ Renamed(es, e) \in Seq(Listings) /\ Len(Renamed(es, e)) = Len(es)
        /\ \A k \in 1 .. Len(es) : /\ Renamed(es, e)[k].id = es[k].id
                                   /\ Renamed(es, e)[k].active = es[k].active
    BY <1>2, RenamedInPlace
  <2>2. PICK r : r = Renamed(es, e)
    OBVIOUS
  <2>3. {j \in 1 .. Len(es) : r[j].active} = {j \in 1 .. Len(es) : es[j].active}
    BY <2>1, <2>2
  <2>4. Lit(r) = Lit(es)
    BY <2>1, <2>2, <2>3 DEF Lit
  <2> QED
    BY <2>1, <2>2, <2>4, SameIds
<1>4. /\ Ascending(entries) /\ Ascending(pending)
      /\ \A j \in 1 .. Len(entries), k \in 1 .. Len(pending) : entries[j].id < pending[k].id
  BY BarLists
<1>5. Ascending(entries' \o pending')
  <2>1. /\ entries' \in Seq(Listings) /\ pending' \in Seq(Listings)
        /\ Ascending(entries') /\ Ascending(pending')
    BY <1>1, <1>2, <1>3, <1>4
  <2>2. /\ Len(entries') = Len(entries) /\ Len(pending') = Len(pending)
        /\ \A k \in 1 .. Len(entries) : entries'[k].id = entries[k].id
        /\ \A k \in 1 .. Len(pending) : pending'[k].id = pending[k].id
    BY <1>1, <1>2, <1>3
  <2>3. \A j \in 1 .. Len(entries'), k \in 1 .. Len(pending') : entries'[j].id < pending'[k].id
    BY <1>4, <2>2
  <2> QED
    BY <2>1, <2>3, Joined
<1>6. BarOK'
  BY <1>1, <1>2, <1>3, <1>5 DEF BarOK
<1>7. w.known = v.known /\ w.lit = v.lit /\ w.open
  BY DEF Hears
<1>8. Now(w)'
  BY <1>1, <1>2, <1>3, <1>7 DEF Now
<1> QED
  BY <1>6, <1>8

(* It has become active, or is no longer.                                   *)
LEMMA StateHeard ==
  ASSUME BarOK, NEW v \in Views, NEW w, NEW e \in Words, Now(v),
         Hears(v, e, w), InOrder(v, e), e.kind = "state", OnHandleEvent(e)
  PROVE  BarOK' /\ Now(w)'
<1>1. /\ pending' = Restated(pending, e) /\ entries' = Restated(entries, e)
      /\ UNCHANGED <<toServer, mine, surfaceSize, layers>>
  BY DEF OnHandleEvent
<1>2. /\ e.id \in Ids /\ e.active \in BOOLEAN
      /\ pending \in Seq(Listings) /\ entries \in Seq(Listings)
  BY WordsAreTyped DEF BarOK, Tells
<1>3. ASSUME NEW es \in Seq(Listings)
      PROVE  /\ Restated(es, e) \in Seq(Listings) /\ Len(Restated(es, e)) = Len(es)
             /\ \A k \in 1 .. Len(es) : Restated(es, e)[k].id = es[k].id
             /\ Ascending(Restated(es, e)) = Ascending(es)
             /\ Listed(Restated(es, e)) = Listed(es)
             /\ e.active => Lit(Restated(es, e)) = Lit(es) \cup ({e.id} \cap Listed(es))
             /\ ~e.active => Lit(Restated(es, e)) = Lit(es) \ {e.id}
  <2>1. /\ Restated(es, e) \in Seq(Listings) /\ Len(Restated(es, e)) = Len(es)
        /\ \A k \in 1 .. Len(es) :
             /\ Restated(es, e)[k].id = es[k].id
             /\ Restated(es, e)[k].active = IF es[k].id = e.id THEN e.active ELSE es[k].active
    <3>1. e.active \in BOOLEAN
      BY <1>2
    <3>2. /\ Restated(es, e) \in Seq(Listings) /\ Len(Restated(es, e)) = Len(es)
          /\ \A k \in 1 .. Len(es) :
               /\ Restated(es, e)[k].id = es[k].id
               /\ es[k].id = e.id => Restated(es, e)[k].active = e.active
               /\ es[k].id # e.id => Restated(es, e)[k].active = es[k].active
      BY <3>1, RestatedInPlace
    <3> QED
      BY <3>2
  <2>2. PICK r : r = Restated(es, e)
    OBVIOUS
  <2>3. Ascending(r) = Ascending(es) /\ Listed(r) = Listed(es)
    BY <2>1, <2>2, SameIds
  <2>4. ASSUME e.active PROVE Lit(r) = Lit(es) \cup ({e.id} \cap Listed(es))
    <3>1. \A k \in 1 .. Len(es) : r[k].active <=> es[k].active \/ es[k].id = e.id
      BY <2>1, <2>2, <2>4, IdsAreNumbers
    <3> QED
      BY <2>1, <2>2, <3>1 DEF Lit, Listed
  <2>5. ASSUME ~e.active PROVE Lit(r) = Lit(es) \ {e.id}
    <3>1. \A k \in 1 .. Len(es) : r[k].active <=> es[k].active /\ es[k].id # e.id
      BY <2>1, <2>2, <2>5, IdsAreNumbers
    <3> QED
      BY <2>1, <2>2, <3>1 DEF Lit
  <2> QED
    BY <2>1, <2>2, <2>3, <2>4, <2>5
<1>4. /\ Ascending(entries) /\ Ascending(pending)
      /\ \A j \in 1 .. Len(entries), k \in 1 .. Len(pending) : entries[j].id < pending[k].id
  BY BarLists
<1>5. Ascending(entries' \o pending')
  <2>1. /\ entries' \in Seq(Listings) /\ pending' \in Seq(Listings)
        /\ Ascending(entries') /\ Ascending(pending')
    BY <1>1, <1>2, <1>3, <1>4
  <2>2. /\ Len(entries') = Len(entries) /\ Len(pending') = Len(pending)
        /\ \A k \in 1 .. Len(entries) : entries'[k].id = entries[k].id
        /\ \A k \in 1 .. Len(pending) : pending'[k].id = pending[k].id
    BY <1>1, <1>2, <1>3
  <2>3. \A j \in 1 .. Len(entries'), k \in 1 .. Len(pending') : entries'[j].id < pending'[k].id
    BY <1>4, <2>2
  <2> QED
    BY <2>1, <2>3, Joined
<1>6. BarOK'
  BY <1>1, <1>2, <1>3, <1>5 DEF BarOK
<1>7. /\ w.known = v.known /\ w.open /\ e.id \in v.known
      /\ w.lit = IF e.active THEN v.lit \cup {e.id} ELSE v.lit \ {e.id}
  BY DEF Hears, InOrder
<1>8. /\ Listed(entries') = Listed(entries) /\ Listed(pending') = Listed(pending)
      /\ e.active => /\ Lit(entries') = Lit(entries) \cup ({e.id} \cap Listed(entries))
                     /\ Lit(pending') = Lit(pending) \cup ({e.id} \cap Listed(pending))
      /\ ~e.active => Lit(entries') = Lit(entries) \ {e.id} /\ Lit(pending') = Lit(pending) \ {e.id}
  BY <1>1, <1>2, <1>3
<1>9. v.known = Listed(entries) \cup Listed(pending) /\ v.lit = Lit(entries) \cup Lit(pending)
  BY DEF Now
<1>10. w.lit = Lit(entries') \cup Lit(pending')
  <2>1. CASE e.active
    BY <1>7, <1>8, <1>9, <2>1
  <2>2. CASE ~e.active
    BY <1>7, <1>8, <1>9, <2>2
  <2> QED
    BY <2>1, <2>2
<1>11. Now(w)'
  BY <1>7, <1>8, <1>9, <1>10 DEF Now
<1> QED
  BY <1>6, <1>11

(* It is gone.                                                              *)
LEMMA RemovedHeard ==
  ASSUME BarOK, NEW v \in Views, NEW w, NEW e \in Words, Now(v),
         Hears(v, e, w), e.kind = "removed", OnHandleEvent(e)
  PROVE  BarOK' /\ Now(w)'
<1>1. /\ pending' = Without(pending, e.id) /\ entries' = Without(entries, e.id)
      /\ UNCHANGED <<toServer, mine, surfaceSize, layers>>
  BY DEF OnHandleEvent
<1>2. pending \in Seq(Listings) /\ entries \in Seq(Listings)
  BY DEF BarOK
<1>3. ASSUME NEW es \in Seq(Listings), Ascending(es)
      PROVE  /\ Without(es, e.id) \in Seq(Listings) /\ Ascending(Without(es, e.id))
             /\ \A k \in 1 .. Len(Without(es, e.id)) :
                  \E j \in 1 .. Len(es) : Without(es, e.id)[k] = es[j]
             /\ Listed(Without(es, e.id)) = Listed(es) \ {e.id}
             /\ Lit(Without(es, e.id)) = Lit(es) \ {e.id}
  <2>1. PICK r : r = Without(es, e.id)
    OBVIOUS
  <2>2. /\ r \in Seq(Listings) /\ Ascending(r)
        /\ \A k \in 1 .. Len(r) : r[k].id # e.id /\ \E j \in 1 .. Len(es) : r[k] = es[j]
        /\ \A j \in 1 .. Len(es) : es[j].id # e.id => \E k \in 1 .. Len(r) : r[k] = es[j]
    <3>1. PICK i : i = e.id
      OBVIOUS
    <3>2. r = Without(es, i)
      BY <2>1, <3>1
    <3>3. /\ r \in Seq(Listings) /\ Ascending(r)
          /\ \A k \in 1 .. Len(r) : r[k].id # i /\ \E j \in 1 .. Len(es) : r[k] = es[j]
          /\ \A j \in 1 .. Len(es) : es[j].id # i => \E k \in 1 .. Len(r) : r[k] = es[j]
      BY <1>3, <3>2, TakenOut
    <3> QED
      BY <3>1, <3>3
  <2>3. Listed(r) \subseteq Listed(es) \ {e.id}
    BY <2>2 DEF Listed
  <2>4. Listed(es) \ {e.id} \subseteq Listed(r)
    <3> SUFFICES ASSUME NEW j \in 1 .. Len(es), es[j].id # e.id PROVE es[j].id \in Listed(r)
      BY DEF Listed
    <3>1. PICK k \in 1 .. Len(r) : r[k] = es[j]
      BY <2>2
    <3> QED
      BY <3>1 DEF Listed
  <2>5. Lit(r) \subseteq Lit(es) \ {e.id}
    BY <2>2 DEF Lit
  <2>6. Lit(es) \ {e.id} \subseteq Lit(r)
    <3> SUFFICES ASSUME NEW j \in 1 .. Len(es), es[j].active, es[j].id # e.id
                 PROVE  es[j].id \in Lit(r)
      BY DEF Lit
    <3>1. PICK k \in 1 .. Len(r) : r[k] = es[j]
      BY <2>2
    <3> QED
      BY <3>1 DEF Lit
  <2> QED
    BY <2>1, <2>2, <2>3, <2>4, <2>5, <2>6
<1>4. /\ Ascending(entries) /\ Ascending(pending)
      /\ \A j \in 1 .. Len(entries), k \in 1 .. Len(pending) : entries[j].id < pending[k].id
  BY BarLists
<1>5. ASSUME NEW j \in 1 .. Len(entries'), NEW k \in 1 .. Len(pending')
      PROVE  entries'[j].id < pending'[k].id
  <2>1. PICK m \in 1 .. Len(entries) : entries'[j] = entries[m]
    BY <1>1, <1>2, <1>3, <1>4
  <2>2. PICK n \in 1 .. Len(pending) : pending'[k] = pending[n]
    BY <1>1, <1>2, <1>3, <1>4
  <2> QED
    BY <1>4, <2>1, <2>2
<1>6. /\ entries' \in Seq(Listings) /\ pending' \in Seq(Listings)
      /\ Ascending(entries') /\ Ascending(pending')
      /\ Listed(entries') = Listed(entries) \ {e.id} /\ Listed(pending') = Listed(pending) \ {e.id}
      /\ Lit(entries') = Lit(entries) \ {e.id} /\ Lit(pending') = Lit(pending) \ {e.id}
  BY <1>1, <1>2, <1>3, <1>4
<1>7. Ascending(entries' \o pending')
  BY <1>5, <1>6, Joined
<1>8. BarOK'
  BY <1>1, <1>6, <1>7 DEF BarOK
<1>9. w.known = v.known \ {e.id} /\ w.lit = v.lit \ {e.id} /\ w.open
  BY DEF Hears
<1>10. Now(w)'
  BY <1>6, <1>9 DEF Now
<1> QED
  BY <1>8, <1>10

(* The end of a batch: the bar shows what it now knows.                     *)
LEMMA DoneHeard ==
  ASSUME BarOK, NEW v \in Views, NEW w, NEW e, Now(v),
         Hears(v, e, w), InOrder(v, e), e.kind = "done", OnDone
  PROVE  BarOK' /\ Now(w)'
<1> DEFINE es == entries \o pending
<1>1. pending' = << >> /\ UpdateVisibility(Sorted(pending, entries))
  BY DEF OnDone
<1>2. /\ pending \in Seq(Listings) /\ entries \in Seq(Listings) /\ Ascending(es)
      /\ mine \in Nat /\ layers \in Nat /\ surfaceSize \in Sizes /\ WholeRequests(toServer)
  BY DEF BarOK
<1>3. Sorted(pending, entries) = es
  BY <1>2, SortedAlready
<1>4. es \in Seq(Listings) /\ Listed(es) = v.known /\ Lit(es) = v.lit
  BY <1>2, Joined DEF Now
<1> HIDE DEF es
<1>5. w.known = v.known /\ w.lit = v.lit /\ w.open = FALSE
  BY DEF Hears
<1>6. PICK a : v.lit = {a}
  BY DEF InOrder
<1>7. /\ entries' \in Seq(Listings) /\ Ascending(entries') /\ Listed(entries') = Listed(es)
      /\ Lit(entries') = Lit(es) /\ WholeRequests(toServer')
      /\ mine' \in Nat /\ layers' \in Nat /\ surfaceSize' \in Sizes
  <2>1. CASE CreateLayer /\ entries' = es
    <3> DEFINE r == Event("layer", layers + 1)
               c == Commit(layers + 1, None)
    <3>1. /\ layers' = layers + 1 /\ mine' = layers + 1 /\ surfaceSize' = surfaceSize
          /\ toServer' = toServer \o << r, c >>
      BY <2>1 DEF CreateLayer
    <3>2. layers + 1 \in Nat
      BY <1>2
    <3>3. /\ r \in Requests /\ r.kind = "layer"
          /\ c \in Requests /\ c.frame = None
      BY <3>2 DEF Requests, Event, Commit
    <3> HIDE DEF r, c
    <3>4. WholeFrame(c.frame)
      BY <3>3 DEF WholeFrame
    <3>5. WholeRequests(toServer')
      BY <1>2, <3>1, <3>3, <3>4, TwoRequestsMore
    <3> QED
      BY <1>2, <1>4, <2>1, <3>1, <3>2, <3>5
  <2>2. CASE DestroyLayer /\ entries' = es
    <3> DEFINE r == Event("destroy", mine)
    <3>1. /\ layers' = layers /\ mine' = 0 /\ surfaceSize' = None
          /\ toServer' = Append(toServer, r)
      BY <2>2 DEF DestroyLayer
    <3>2. r \in Requests /\ r.kind = "destroy"
      BY <1>2 DEF Requests, Event
    <3> HIDE DEF r
    <3>3. WholeRequests(toServer')
      BY <1>2, <3>1, <3>2, OneRequestMore
    <3>4. None \in Sizes
      BY DEF Sizes
    <3> QED
      BY <1>2, <1>4, <2>2, <3>1, <3>3, <3>4
  <2>3. CASE Draw(es, toServer) /\ UNCHANGED <<mine, surfaceSize, layers>>
    <3>1. mine' \in Nat /\ layers' \in Nat /\ surfaceSize' \in Sizes
      BY <1>2, <2>3
    <3>2. Lit(es) = {a}
      BY <1>4, <1>6
    <3> QED
      BY <1>2, <1>4, <2>3, <3>1, <3>2, DrawnWhole
  <2>4. CASE entries' = es /\ UNCHANGED <<toServer, mine, surfaceSize, layers>>
    BY <1>2, <1>4, <2>4
  <2> QED
    BY <1>1, <1>3, <2>1, <2>2, <2>3, <2>4 DEF UpdateVisibility
<1>8. Listed(<< >>) = {} /\ Lit(<< >>) = {} /\ << >> \in Seq(Listings)
  BY DEF Listed, Lit
<1>9. Ascending(entries' \o << >>)
  <2>1. entries' \o << >> = entries'
    BY <1>7
  <2> QED
    BY <1>7, <2>1
<1>10. BarOK'
  BY <1>1, <1>7, <1>8, <1>9 DEF BarOK
<1>11. Now(w)'
  BY <1>1, <1>4, <1>5, <1>7, <1>8 DEF Now
<1> QED
  BY <1>10, <1>11

(* A configure draws at once, but never in the middle of a batch.           *)
LEMMA ConfigureHeard ==
  ASSUME BarOK, NEW v \in Views, NEW w, NEW e \in Events, Now(v),
         Hears(v, e, w), InOrder(v, e), e.kind = "configure", OnConfigure(e)
  PROVE  BarOK' /\ Now(w)'
<1>1. w.known = v.known /\ w.lit = v.lit /\ w.open = v.open
  BY DEF Hears
<1>2. CASE e.id # mine
  <2>1. UNCHANGED <<toServer, barVars>>
    BY <1>2 DEF OnConfigure
  <2>2. Now(w)'
    BY <1>1, <2>1, NowIs DEF barVars
  <2> QED
    BY <2>1, <2>2 DEF barVars, BarOK
<1>3. CASE e.id = mine
  <2>1. /\ surfaceSize' = e.size /\ Draw(entries, toServer)
        /\ pending' = pending /\ mine' = mine /\ layers' = layers
    BY <1>3 DEF OnConfigure
  <2>2. PICK a : v.lit = {a}
    BY DEF InOrder
  <2>3. ~v.open
    BY DEF InOrder
  <2>4. pending = << >>
    BY <2>3 DEF Now
  <2>5. Listed(<< >>) = {} /\ Lit(<< >>) = {}
    BY DEF Listed, Lit
  <2>6. v.known = Listed(entries) /\ v.lit = Lit(entries)
    BY <2>4, <2>5 DEF Now
  <2>7. /\ entries \in Seq(Listings) /\ mine \in Nat /\ WholeRequests(toServer)
        /\ layers \in Nat /\ Ascending(entries)
    BY BarLists DEF BarOK
  <2>8. e.size \in Sizes
    BY DEF Events, Words, Done, Sizes
  <2>9. Lit(entries) = {a}
    BY <2>2, <2>6
  <2>10. /\ entries' \in Seq(Listings) /\ Ascending(entries')
         /\ Listed(entries') = Listed(entries) /\ Lit(entries') = Lit(entries)
         /\ WholeRequests(toServer')
    BY <2>1, <2>7, <2>8, <2>9, DrawnWhole
  <2>11. Ascending(entries' \o << >>)
    <3>1. entries' \o << >> = entries'
      BY <2>10
    <3> QED
      BY <2>10, <3>1
  <2>12. BarOK'
    BY <2>1, <2>4, <2>7, <2>8, <2>10, <2>11 DEF BarOK
  <2>13. Now(w)'
    BY <1>1, <2>1, <2>4, <2>5, <2>6, <2>10 DEF Now
  <2> QED
    BY <2>12, <2>13
<1> QED
  BY <1>2, <1>3

(* The entry that a press hits.                                             *)
LEMMA HitIsThere ==
  ASSUME NEW x, Hit(x) # {}, entries \in Seq(Listings)
  PROVE  Lowest(Hit(x)) \in 1 .. Len(entries) /\ Within(entries[Lowest(Hit(x))], x)
<1>1. Hit(x) \subseteq 1 .. Len(entries) /\ \A n \in Hit(x) : Within(entries[n], x)
  BY DEF Hit
<1>2. Hit(x) \in SUBSET Nat
  BY <1>1
<1>3. \E m \in Hit(x) : \A n \in Hit(x) : m <= n
  BY <1>2, LeastNumber
<1>4. Lowest(Hit(x)) \in Hit(x)
  BY <1>3 DEF Lowest
<1> QED
  BY <1>1, <1>4

(* A press changes neither list.                                            *)
LEMMA PressHeard ==
  ASSUME BarOK, NEW v \in Views, NEW w, NEW e \in Events, Now(v),
         Hears(v, e, w), e.kind = "press", OnPress(e)
  PROVE  BarOK' /\ Now(w)'
<1>1. w.known = v.known /\ w.lit = v.lit /\ w.open = v.open
  BY DEF Hears
<1>2. UNCHANGED barVars
  BY DEF OnPress
<1>3. Now(w)'
  BY <1>1, <1>2, NowIs DEF barVars
<1>4. WholeRequests(toServer')
  <2>1. CASE toServer' = toServer
    BY <2>1 DEF BarOK
  <2>2. CASE toServer' # toServer
    <3> DEFINE x == entries[Lowest(Hit(e.at))]
               r == Event("activate", x.id)
    <3>1. Hit(e.at) # {} /\ toServer' = Append(toServer, r)
      BY <2>2 DEF OnPress
    <3>2. entries \in Seq(Listings) /\ WholeRequests(toServer)
      BY DEF BarOK
    <3>3. x.id \in Nat
      BY <3>1, <3>2, HitIsThere, IdsAreNumbers
    <3> HIDE DEF x
    <3>4. r \in Requests /\ r.kind = "activate"
      BY <3>3 DEF Requests, Event
    <3> HIDE DEF r
    <3> QED
      BY <3>1, <3>2, <3>4, OneRequestMore
  <2> QED
    BY <2>1, <2>2
<1>5. BarOK'
  BY <1>2, <1>4 DEF BarOK, barVars
<1> QED
  BY <1>3, <1>5

(* What the kind of an event says of it.                                    *)
LEMMA EventKinds ==
  ASSUME NEW e \in Events, e.kind \in {"workspace", "name", "state", "removed"}
  PROVE  e \in Words
BY DEF Events, Words, Done

(* The bar takes the first of its events (main and the event handlers).     *)
LEMMA EventKeeps ==
  ASSUME WholeInv, HandleEvent
  PROVE  WholeInv'
<1> DEFINE e == Head(toBar)
<1>1. /\ running /\ toBar # << >> /\ toBar' = Tail(toBar)
      /\ UNCHANGED <<phase, wsVars, instVars, mapVars, running, changes, clicks>>
      /\ \/ e.kind = "workspace" /\ OnWorkspace(e)
         \/ e.kind \in {"name", "state", "removed"} /\ OnHandleEvent(e)
         \/ e.kind = "done" /\ OnDone
         \/ e.kind = "configure" /\ OnConfigure(e)
         \/ e.kind = "press" /\ OnPress(e)
  BY DEF HandleEvent
<1>2. /\ live' = live /\ activeId' = activeId /\ nextId' = nextId /\ name' = name
      /\ bound' = bound /\ handles' = handles /\ snapshot' = snapshot
      /\ layer' = layer /\ screen' = screen /\ running' = running
  BY <1>1 DEF wsVars, instVars, mapVars
<1>3. Typed /\ IdsGrow /\ BarOK /\ InStep
  BY <1>1 DEF WholeInv
<1>4. toBar \in Seq(Events) /\ toBar' \in Seq(Events)
  BY <1>1, <1>3 DEF Typed
<1>5. PICK V : Path(V, toBar) /\ Now(V[0]) /\ Whole(V[Len(toBar)])
  BY <1>3 DEF InStep, OnePath
<1> HIDE DEF e
<1>6. /\ e \in Events /\ V[0] \in Views /\ V[1] \in Views /\ Hears(V[0], e, V[1])
      /\ InOrder(V[0], e) /\ V[0].known \subseteq V[0].ever
      /\ \E X : Path(X, Tail(toBar)) /\ X[0] = V[1] /\ X[Len(Tail(toBar))] = V[Len(toBar)]
  BY <1>1, <1>4, <1>5, PathShrinks DEF e
<1>7. PICK X : Path(X, Tail(toBar)) /\ X[0] = V[1] /\ X[Len(Tail(toBar))] = V[Len(toBar)]
  BY <1>6
<1>8. PICK v : v = V[0]
  OBVIOUS
<1>9. PICK w : w = V[1]
  OBVIOUS
<1>10. BarOK' /\ Now(w)'
  <2>1. /\ BarOK /\ v \in Views /\ e \in Events /\ Now(v) /\ Hears(v, e, w) /\ InOrder(v, e)
        /\ v.known \subseteq v.ever
    BY <1>3, <1>5, <1>6, <1>8, <1>9
  <2>2. CASE e.kind = "workspace" /\ OnWorkspace(e)
    BY <2>1, <2>2, EventKinds, WorkspaceHeard
  <2>3. CASE e.kind \in {"name", "state", "removed"} /\ OnHandleEvent(e)
    <3>1. e \in Words
      BY <2>1, <2>3, EventKinds
    <3>2. CASE e.kind = "name"
      BY <2>1, <2>3, <3>1, <3>2, NameHeard
    <3>3. CASE e.kind = "state"
      BY <2>1, <2>3, <3>1, <3>3, StateHeard
    <3>4. CASE e.kind = "removed"
      BY <2>1, <2>3, <3>1, <3>4, RemovedHeard
    <3> QED
      BY <2>3, <3>2, <3>3, <3>4
  <2>4. CASE e.kind = "done" /\ OnDone
    BY <2>1, <2>4, DoneHeard
  <2>5. CASE e.kind = "configure" /\ OnConfigure(e)
    BY <2>1, <2>5, ConfigureHeard
  <2>6. CASE e.kind = "press" /\ OnPress(e)
    BY <2>1, <2>6, PressHeard
  <2> QED
    BY <1>1, <2>2, <2>3, <2>4, <2>5, <2>6
<1>11. Typed'
  BY <1>2, <1>3, <1>4 DEF Typed
<1>12. IdsGrow'
  BY <1>2, <1>3 DEF IdsGrow, Mentioned
<1>13. PICK u : u = X[Len(Tail(toBar))]
  OBVIOUS
<1>14. OnePath(X)'
  <2>1. Now(X[0])'
    BY <1>7, <1>9, <1>10
  <2>2. Whole(u)
    BY <1>5, <1>7, <1>13
  <2>3. Whole(u)'
    BY <1>2, <2>2 DEF Whole, Mentioned
  <2>4. u = X[Len(toBar')]
    BY <1>1, <1>13
  <2>5. Path(X, toBar)'
    BY <1>1, <1>7
  <2> QED
    BY <2>1, <2>3, <2>4, <2>5 DEF OnePath
<1>15. InStep'
  BY <1>1, <1>2, <1>3, <1>14 DEF InStep
<1> QED
  BY <1>10, <1>11, <1>12, <1>15 DEF WholeInv

-----------------------------------------------------------------------------
(* The other steps *)

(* A configure or a press follows all that is on its way.                   *)
LEMMA OneEventMore ==
  ASSUME toBar \in Seq(Events), NEW V, OnePath(V), handles # {},
         NEW e \in Events, e.kind \in {"configure", "press"}, toBar' = Append(toBar, e),
         UNCHANGED <<pending, entries, live, nextId, handles, snapshot>>
  PROVE  \E X : OnePath(X)'
<1> DEFINE n == Len(toBar)
           w == V[n]
<1>1. Path(V, toBar) /\ Now(V[0]) /\ Whole(w)
  BY DEF OnePath
<1>2. n \in Nat /\ Len(toBar') = n + 1
  OBVIOUS
<1>3. w \in Views /\ w.known \subseteq w.ever
  <2>1. n \in 0 .. n
    BY <1>2
  <2> QED
    BY <1>1, <2>1 DEF Path
<1> HIDE DEF w
<1>4. (\E a : w.lit = {a}) /\ ~w.open
  BY <1>1 DEF Whole
<1>5. Hears(w, e, w)
  BY DEF Hears
<1>6. InOrder(w, e)
  BY <1>4 DEF InOrder
<1>7. Later(w, w)
  BY DEF Later
<1>8. PICK X : Path(X, Append(toBar, e)) /\ X[0] = V[0] /\ X[n + 1] = w
  BY <1>1, <1>3, <1>5, <1>6, <1>7, PathGrows DEF w
<1>9. PICK u : u = V[0]
  OBVIOUS
<1>10. Now(u)'
  BY <1>1, <1>9 DEF Now
<1>11. PICK z : z = X[Len(toBar')]
  OBVIOUS
<1>12. Whole(z)
  BY <1>1, <1>2, <1>8, <1>11
<1>13. Whole(z)'
  BY <1>12 DEF Whole, Mentioned
<1>14. Path(X, toBar)'
  BY <1>8
<1>15. OnePath(X)'
  BY <1>8, <1>9, <1>10, <1>11, <1>13, <1>14 DEF OnePath
<1> QED
  BY <1>15

(* The workspaces change, and nobody has been told.                         *)
LEMMA UntoldKeeps ==
  ASSUME WholeInv, Typed', IdsGrow', \A i \in Ids : Mentioned(i) => Mentioned(i)',
         UNCHANGED <<bound, handles, snapshot, screen, toBar, toServer, running, barVars>>
  PROVE  WholeInv'
<1>1. /\ bound' = bound /\ handles' = handles /\ snapshot' = snapshot /\ screen' = screen
      /\ toBar' = toBar /\ toServer' = toServer /\ running' = running
      /\ pending' = pending /\ entries' = entries /\ mine' = mine
      /\ surfaceSize' = surfaceSize /\ layers' = layers
  BY DEF barVars
<1>2. BarOK'
  BY <1>1 DEF WholeInv, BarOK
<1>3. ASSUME running PROVE InStep'
  <2>1. InStep
    BY <1>3 DEF WholeInv
  <2>2. PICK V : OnePath(V)
    BY <2>1 DEF InStep
  <2>3. Path(V, toBar) /\ Now(V[0]) /\ Whole(V[Len(toBar)]) /\ toBar \in Seq(Events)
    BY <2>2 DEF OnePath, WholeInv, Typed
  <2>4. PICK u : u = V[0]
    OBVIOUS
  <2>5. PICK z : z = V[Len(toBar)]
    OBVIOUS
  <2>6. z \in Views
    <3>1. Len(toBar) \in 0 .. Len(toBar)
      BY <2>3
    <3> QED
      BY <2>3, <2>5, <3>1 DEF Path
  <2>7. Now(u)'
    BY <1>1, <2>3, <2>4 DEF Now
  <2>8. Whole(z) /\ \A i \in z.ever : i \in Ids
    BY <2>3, <2>5, <2>6 DEF Views
  <2>9. \A i \in z.ever : Mentioned(i)'
    BY <2>8 DEF Whole
  <2>10. Whole(z)'
    BY <1>1, <2>8, <2>9 DEF Whole
  <2>11. Path(V, toBar)'
    BY <1>1, <2>3
  <2>12. OnePath(V)'
    BY <1>1, <2>4, <2>5, <2>7, <2>10, <2>11 DEF OnePath
  <2> QED
    BY <1>1, <2>1, <2>12 DEF InStep
<1> QED
  BY <1>1, <1>2, <1>3 DEF WholeInv

(* New workspaces are newer than all that were mentioned.                   *)
LEMMA MentionedStays ==
  ASSUME Typed, handles' = handles, live' \subseteq live \cup {nextId},
         nextId' \in Nat, nextId <= nextId'
  PROVE  \A i \in Ids : Mentioned(i) => Mentioned(i)'
<1> SUFFICES ASSUME NEW i \in Ids, Mentioned(i) PROVE Mentioned(i)'
  OBVIOUS
<1>1. i < nextId /\ i \in Nat /\ \A j \in live \ handles : i < j
  BY IdsAreNumbers DEF Mentioned
<1>2. nextId \in Nat
  BY DEF Typed
<1>3. i < nextId' /\ \A j \in live' \ handles' : i < j
  BY <1>1, <1>2
<1> QED
  BY <1>3 DEF Mentioned

(* A new frame has a number that nobody was told of.                        *)
LEMMA NewFrameUntold ==
  ASSUME WholeInv, NewFrame
  PROVE  WholeInv'
<1>1. Typed /\ IdsGrow
  BY DEF WholeInv
<1>2. /\ nextId <= MaxWs /\ live' = live \cup {nextId} /\ activeId' = nextId
      /\ nextId' = nextId + 1 /\ name' = name /\ layer' = layer
      /\ UNCHANGED <<bound, handles, snapshot, screen, toBar, toServer, running, barVars>>
  BY DEF NewFrame, instVars
<1>3. nextId \in Ids /\ nextId \in Nat
  BY <1>1, <1>2, BarAssumption DEF Typed, Ids
<1>4. Typed'
  BY <1>1, <1>2, <1>3 DEF Typed
<1>5. \A i \in Ids : Mentioned(i) => Mentioned(i)'
  BY <1>1, <1>2, <1>3, MentionedStays
<1>6. IdsGrow'
  <2>1. handles \subseteq Ids /\ live \subseteq Ids
    BY <1>1 DEF Typed
  <2>2. \A i \in live' : i < nextId'
    <3> SUFFICES ASSUME NEW i \in live' PROVE i < nextId + 1
      BY <1>2
    <3>1. CASE i \in live
      <4>1. i < nextId /\ i \in Nat
        BY <1>1, <2>1, <3>1, IdsAreNumbers DEF IdsGrow
      <4> QED
        BY <1>3, <4>1
    <3>2. CASE i = nextId
      BY <1>3, <3>2
    <3> QED
      BY <1>2, <3>1, <3>2
  <2>3. \A i \in handles' : Mentioned(i)'
    BY <1>1, <1>2, <1>5, <2>1 DEF IdsGrow
  <2> QED
    BY <2>2, <2>3 DEF IdsGrow
<1> QED
  BY <1>2, <1>4, <1>5, <1>6, UntoldKeeps

(* A workspace ends, or another one becomes active, or is renamed.          *)
LEMMA LiveUntold ==
  ASSUME WholeInv, live' \subseteq live, activeId' \in live', nextId' = nextId,
         name' \in [Ids -> Names], layer' = layer,
         UNCHANGED <<bound, handles, snapshot, screen, toBar, toServer, running, barVars>>
  PROVE  WholeInv'
<1>1. Typed /\ IdsGrow
  BY DEF WholeInv
<1>2. Typed'
  BY <1>1 DEF Typed
<1>3. \A i \in Ids : Mentioned(i) => Mentioned(i)'
  BY DEF Mentioned
<1>4. handles \subseteq Ids
  BY <1>1 DEF Typed
<1>5. IdsGrow'
  BY <1>1, <1>3, <1>4 DEF IdsGrow
<1> QED
  BY <1>2, <1>3, <1>5, UntoldKeeps

(* refresh_workspace_state                                                  *)
LEMMA RefreshTells ==
  ASSUME WholeInv, Refresh
  PROVE  WholeInv'
<1>1. Typed /\ IdsGrow /\ BarOK
  BY DEF WholeInv
<1>2. /\ live' = live /\ activeId' = activeId /\ nextId' = nextId /\ name' = name
      /\ bound' = bound /\ layer' = layer /\ screen' = screen /\ running' = running
      /\ toServer' = toServer /\ pending' = pending /\ entries' = entries /\ mine' = mine
      /\ surfaceSize' = surfaceSize /\ layers' = layers
  BY DEF Refresh, wsVars, mapVars, barVars
<1>3. BarOK'
  BY <1>1, <1>2 DEF BarOK
<1>4. CASE ~bound
  <2>1. UNCHANGED <<toBar, handles, snapshot>>
    BY <1>4 DEF Refresh
  <2>2. Typed'
    BY <1>1, <1>2, <2>1 DEF Typed
  <2>3. IdsGrow'
    BY <1>1, <1>2, <2>1 DEF IdsGrow, Mentioned
  <2>4. ~running
    BY <1>4 DEF WholeInv, InStep
  <2> QED
    BY <1>2, <1>3, <2>2, <2>3, <2>4 DEF WholeInv
<1>5. CASE bound
  <2>1. /\ toBar' = IF running THEN toBar \o Batch(Updates) ELSE toBar
        /\ handles' = live
        /\ snapshot' = [i \in Ids |-> IF i \in live THEN Info(i) ELSE Unknown]
    BY <1>5 DEF Refresh
  <2>2. snapshot' \in [Ids -> Infos] /\ \A i \in live : snapshot'[i].active = (i = activeId)
    <3>1. \A i \in Ids : Info(i) \in Infos
      BY <1>1 DEF Typed, Info, Infos
    <3>2. Unknown \in Infos
      BY DEF Unknown, Infos, Names
    <3>3. live \subseteq Ids
      BY <1>1 DEF Typed
    <3>4. \A i \in live : snapshot'[i] = Info(i)
      BY <2>1, <3>3
    <3>5. snapshot' \in [Ids -> Infos]
      BY <2>1, <3>1, <3>2
    <3>6. \A i \in live : Info(i).active = (i = activeId)
      BY DEF Info
    <3> QED
      BY <3>4, <3>5, <3>6
  <2>3. live' \ handles' = {}
    BY <1>2, <2>1
  <2>4. \A i : i < nextId => Mentioned(i)'
    BY <1>2, <2>3 DEF Mentioned
  <2>5. IdsGrow'
    BY <1>1, <1>2, <2>1, <2>4 DEF IdsGrow
  <2>6. CASE ~running
    <3>1. Typed'
      BY <1>1, <1>2, <2>1, <2>2, <2>6 DEF Typed
    <3> QED
      BY <1>2, <1>3, <2>5, <2>6, <3>1 DEF WholeInv
  <2>7. CASE running
    <3> DEFINE c == Batch(Updates)
    <3>1. toBar \in Seq(Events) /\ toBar' = toBar \o c
      BY <1>1, <2>1, <2>7 DEF Typed
    <3>2. InStep
      BY <2>7 DEF WholeInv
    <3>3. PICK V : Path(V, toBar) /\ Now(V[0]) /\ Whole(V[Len(toBar)])
      BY <3>2 DEF InStep, OnePath
    <3>4. PICK v : v = V[Len(toBar)]
      OBVIOUS
    <3>5. v \in Views /\ v.known \subseteq v.ever
      <4>1. Len(toBar) \in 0 .. Len(toBar)
        BY <3>1
      <4> QED
        BY <3>3, <3>4, <4>1 DEF Path
    <3>6. /\ c \in Seq(Events)
          /\ \E W : LET w == W[Len(c)] IN
               /\ Path(W, c) /\ W[0] = v
               /\ w.known = live /\ w.lit = {activeId} /\ ~w.open
               /\ w.ever \subseteq v.ever \cup live
      BY <1>1, <3>3, <3>4, <3>5, BatchPath
    <3> HIDE DEF c
    <3>7. PICK W : LET w == W[Len(c)] IN
            /\ Path(W, c) /\ W[0] = v
            /\ w.known = live /\ w.lit = {activeId} /\ ~w.open
            /\ w.ever \subseteq v.ever \cup live
      BY <3>6
    <3>8. PICK X : Path(X, toBar \o c) /\ X[0] = V[0] /\ X[Len(toBar \o c)] = W[Len(c)]
      BY <3>1, <3>3, <3>4, <3>6, <3>7, PathsJoin
    <3>9. PICK u : u = V[0]
      OBVIOUS
    <3>10. Now(u)'
      BY <1>2, <3>3, <3>9 DEF Now
    <3>11. PICK w : w = W[Len(c)]
      OBVIOUS
    <3>12. /\ w.known = live /\ w.lit = {activeId} /\ ~w.open
           /\ w.ever \subseteq v.ever \cup live
      BY <3>7, <3>11
    <3>13. Whole(w)'
      <4>1. \A i \in v.ever : i < nextId
        BY <3>3, <3>4 DEF Whole, Mentioned
      <4>2. \A i \in w.ever : Mentioned(i)'
        BY <1>1, <2>4, <3>12, <4>1 DEF IdsGrow
      <4>3. w.lit = {i \in handles' : snapshot'[i].active}
        BY <1>1, <2>1, <2>2, <3>12 DEF Typed
      <4> QED
        BY <2>1, <3>12, <4>2, <4>3 DEF Whole
    <3>14. Path(X, toBar)'
      BY <3>1, <3>8
    <3>15. w = X[Len(toBar')]
      BY <3>1, <3>8, <3>11
    <3>16. OnePath(X)'
      BY <3>8, <3>9, <3>10, <3>13, <3>14, <3>15 DEF OnePath
    <3>17. toBar' \in Seq(Events)
      BY <3>1, <3>6
    <3>18. Typed'
      BY <1>1, <1>2, <2>1, <2>2, <3>17 DEF Typed
    <3>19. InStep'
      <4>1. handles' # {} /\ bound'
        BY <1>1, <1>2, <1>5, <2>1 DEF Typed
      <4> QED
        BY <3>16, <4>1 DEF InStep
    <3> QED
      BY <1>3, <2>5, <3>18, <3>19 DEF WholeInv
  <2> QED
    BY <2>6, <2>7
<1> QED
  BY <1>4, <1>5

(* The configure of a request's answer, or the user's press.                *)
LEMMA SentKeeps ==
  ASSUME WholeInv, NEW e \in Events, e.kind \in {"configure", "press"}, Send(e),
         running => handles # {},
         UNCHANGED <<live, activeId, nextId, name, bound, handles, snapshot, running, barVars>>,
         layer' \in Nat, screen' \in Frames \cup {None}, WholeRequests(toServer')
  PROVE  WholeInv'
<1>1. Typed /\ IdsGrow /\ BarOK
  BY DEF WholeInv
<1>2. toBar' = IF running THEN Append(toBar, e) ELSE toBar
  BY DEF Send
<1>3. toBar \in Seq(Events) /\ toBar' \in Seq(Events)
  BY <1>1, <1>2 DEF Typed
<1>4. Typed'
  BY <1>1, <1>3 DEF Typed
<1>5. IdsGrow'
  BY <1>1 DEF IdsGrow, Mentioned
<1>6. BarOK'
  BY <1>1 DEF BarOK, barVars
<1>7. ASSUME running PROVE InStep'
  <2>1. InStep /\ toBar' = Append(toBar, e)
    BY <1>2, <1>7 DEF WholeInv
  <2>2. PICK V : OnePath(V)
    BY <2>1 DEF InStep
  <2>3. \E X : OnePath(X)'
    BY <1>3, <1>7, <2>1, <2>2, OneEventMore DEF barVars
  <2> QED
    BY <1>7, <2>1, <2>3 DEF InStep
<1> QED
  BY <1>4, <1>5, <1>6, <1>7 DEF WholeInv

(* Nothing is sent to the bar.                                              *)
LEMMA QuietKeeps ==
  ASSUME WholeInv, toServer # << >> => (running => handles # {}),
         toServer' # << >> \/ screen' # None =>
           toServer # << >> \/ screen # None \/ ~running,
         UNCHANGED <<live, activeId, nextId, name, bound, handles, snapshot, running, barVars,
                     toBar>>,
         layer' \in Nat, screen' \in Frames \cup {None}, WholeRequests(toServer')
  PROVE  WholeInv'
<1>1. Typed /\ IdsGrow /\ BarOK
  BY DEF WholeInv
<1>2. Typed'
  BY <1>1 DEF Typed
<1>3. IdsGrow'
  BY <1>1 DEF IdsGrow, Mentioned
<1>4. BarOK'
  BY <1>1 DEF BarOK, barVars
<1>5. ASSUME running PROVE InStep'
  <2>1. InStep
    BY <1>5 DEF WholeInv
  <2>2. PICK V : Path(V, toBar) /\ Now(V[0]) /\ Whole(V[Len(toBar)])
    BY <2>1 DEF InStep, OnePath
  <2>3. PICK u : u = V[0]
    OBVIOUS
  <2>4. PICK z : z = V[Len(toBar)]
    OBVIOUS
  <2>5. Now(u)'
    BY <2>2, <2>3 DEF Now, barVars
  <2>6. Whole(z)'
    BY <2>2, <2>4 DEF Whole, Mentioned
  <2>7. OnePath(V)'
    BY <2>2, <2>3, <2>4, <2>5, <2>6 DEF OnePath
  <2>8. toBar' # << >> \/ toServer' # << >> \/ screen' # None => handles' # {}
    BY <1>5, <2>1 DEF InStep
  <2> QED
    BY <2>1, <2>7, <2>8 DEF InStep
<1> QED
  BY <1>2, <1>3, <1>4, <1>5 DEF WholeInv

(* The requests of the bar, in the order it made them.                      *)
LEMMA RequestTaken ==
  ASSUME WholeInv, HandleRequest
  PROVE  WholeInv'
<1> DEFINE r == Head(toServer)
<1>1. /\ toServer # << >> /\ toServer' = Tail(toServer)
      /\ UNCHANGED <<live, activeId, nextId, name, bound, handles, snapshot, running, barVars>>
      /\ \/ r.kind = "layer" /\ NewLayerSurface(r)
         \/ r.kind = "commit" /\ LayerCommit(r)
         \/ r.kind = "destroy" /\ LayerDestroyed
         \/ r.kind = "activate" /\ Activate(r)
  BY DEF HandleRequest, wsVars
<1>2. WholeRequests(toServer) /\ layer \in Nat /\ screen \in Frames \cup {None}
  BY DEF WholeInv, Typed, BarOK
<1>3. r \in Requests /\ WholeRequests(toServer')
  BY <1>1, <1>2, OneRequestLess
<1>4. running => handles # {}
  BY <1>1 DEF WholeInv, InStep
<1> HIDE DEF r
<1>5. /\ r.id \in Nat
      /\ r.kind = "commit" => r.frame \in Frames \cup {None}
  BY <1>3 DEF Requests
<1>6. CASE r.kind = "layer" /\ NewLayerSurface(r)
  <2> DEFINE e == Configure(r.id, "output")
  <2>1. layer' = r.id /\ Send(e) /\ screen' = screen
    BY <1>6 DEF NewLayerSurface
  <2>2. e \in Events /\ e.kind = "configure"
    BY <1>5 DEF Events, Configure
  <2> HIDE DEF e
  <2> QED
    BY <1>1, <1>2, <1>3, <1>4, <1>5, <2>1, <2>2, SentKeeps
<1>7. CASE r.kind = "commit" /\ LayerCommit(r)
  <2>1. layer' = layer
    BY <1>7 DEF LayerCommit
  <2>2. CASE r.frame = None
    <3> DEFINE e == Configure(r.id, "strip")
    <3>1. Send(e) /\ screen' = screen
      BY <1>7, <2>2 DEF LayerCommit
    <3>2. e \in Events /\ e.kind = "configure"
      BY <1>5 DEF Events, Configure
    <3> HIDE DEF e
    <3> QED
      BY <1>1, <1>2, <1>3, <1>4, <2>1, <3>1, <3>2, SentKeeps
  <2>3. CASE r.frame # None
    <3>1. screen' = r.frame /\ toBar' = toBar
      BY <1>7, <2>3 DEF LayerCommit
    <3> QED
      BY <1>1, <1>2, <1>3, <1>4, <1>5, <1>7, <2>1, <3>1, QuietKeeps
  <2> QED
    BY <2>2, <2>3
<1>8. CASE r.kind = "destroy" /\ LayerDestroyed
  <2>1. layer' = 0 /\ screen' = None /\ toBar' = toBar
    BY <1>8 DEF LayerDestroyed
  <2> QED
    BY <1>1, <1>3, <1>4, <2>1, QuietKeeps
<1>9. CASE r.kind = "activate" /\ Activate(r)
  <2>1. layer' = layer /\ screen' = screen /\ toBar' = toBar
    BY <1>9 DEF Activate, mapVars
  <2> QED
    BY <1>1, <1>2, <1>3, <1>4, <2>1, QuietKeeps
<1> QED
  BY <1>1, <1>6, <1>7, <1>8, <1>9

(* Once the bar has exited nothing is drawn.                                *)
LEMMA EndKeeps ==
  ASSUME WholeInv, ~running', Typed', IdsGrow', UNCHANGED <<toServer, barVars>>
  PROVE  WholeInv'
<1>1. BarOK'
  BY DEF WholeInv, BarOK, barVars
<1> QED
  BY <1>1 DEF WholeInv

(* The server takes leave of a bar that has ended.                          *)
LEMMA ClientGoneKeeps ==
  ASSUME WholeInv, ClientGone
  PROVE  WholeInv'
<1>1. Typed /\ IdsGrow
  BY DEF WholeInv
<1>2. /\ ~running /\ bound' = FALSE /\ handles' = {}
      /\ snapshot' = [i \in Ids |-> Unknown]
      /\ \/ LayerDestroyed
         \/ screen' = None /\ UNCHANGED <<layer, zone, strip, toBar>>
      /\ UNCHANGED <<live, activeId, nextId, name, toServer, running, barVars>>
  BY DEF ClientGone, wsVars
<1>3. layer' \in Nat /\ screen' = None /\ toBar' = toBar
  <2>1. CASE LayerDestroyed
    BY <2>1 DEF LayerDestroyed
  <2>2. CASE screen' = None /\ UNCHANGED <<layer, zone, strip, toBar>>
    BY <1>1, <2>2 DEF Typed
  <2> QED
    BY <1>2, <2>1, <2>2
<1>4. snapshot' \in [Ids -> Infos]
  <2>1. Unknown \in Infos
    BY DEF Unknown, Infos, Names
  <2> QED
    BY <1>2, <2>1
<1>5. Typed'
  BY <1>1, <1>2, <1>3, <1>4 DEF Typed
<1>6. IdsGrow'
  BY <1>1, <1>2 DEF IdsGrow
<1> QED
  BY <1>2, <1>5, <1>6, EndKeeps

(* The layer surface that is left behind goes after the bar.                *)
LEMMA CleanupKeeps ==
  ASSUME WholeInv, Cleanup
  PROVE  WholeInv'
<1>1. Typed /\ IdsGrow
  BY DEF WholeInv
<1>2. /\ ~bound /\ layer' = 0
      /\ UNCHANGED <<live, activeId, nextId, name, bound, handles, snapshot, screen, toBar,
                     toServer, running, barVars>>
  BY DEF Cleanup, wsVars, instVars
<1>3. ~running
  BY <1>2 DEF WholeInv, InStep
<1>4. Typed'
  BY <1>1, <1>2 DEF Typed
<1>5. IdsGrow'
  BY <1>1, <1>2 DEF IdsGrow, Mentioned
<1> QED
  BY <1>2, <1>3, <1>4, <1>5, EndKeeps

(* A bar that ends hears no more.                                           *)
LEMMA BarExitsKeeps ==
  ASSUME WholeInv, BarExits
  PROVE  WholeInv'
<1>1. Typed /\ IdsGrow
  BY DEF WholeInv
<1>2. /\ running' = FALSE /\ toBar' = << >>
      /\ UNCHANGED <<live, activeId, nextId, name, bound, handles, snapshot, layer, screen,
                     toServer, barVars>>
  BY DEF BarExits, wsVars, instVars, mapVars
<1>3. << >> \in Seq(Events)
  OBVIOUS
<1>4. Typed'
  BY <1>1, <1>2, <1>3 DEF Typed
<1>5. IdsGrow'
  BY <1>1, <1>2 DEF IdsGrow, Mentioned
<1> QED
  BY <1>2, <1>4, <1>5, EndKeeps

(* A press tells nothing about workspaces.                                  *)
LEMMA ClickKeeps ==
  ASSUME WholeInv, NEW k \in Ids, Click(k)
  PROVE  WholeInv'
<1>1. PICK x \in Nat : Send([kind |-> "press", id |-> layer, at |-> x, saw |-> k,
                             tiles |-> screen.tiles])
  BY DEF Click
<1> DEFINE e == [kind |-> "press", id |-> layer, at |-> x, saw |-> k, tiles |-> screen.tiles]
<1>2. /\ running /\ screen # None /\ Send(e)
      /\ UNCHANGED <<live, activeId, nextId, name, bound, handles, snapshot, layer, screen,
                     toServer, running, barVars>>
  BY <1>1 DEF Click, wsVars, instVars, mapVars
<1>3. Typed /\ BarOK /\ InStep
  BY <1>2 DEF WholeInv
<1>4. screen \in Frames /\ layer \in Nat /\ k \in Nat
  BY <1>2, <1>3, IdsAreNumbers DEF Typed
<1>5. screen.tiles \in Seq(Listings)
  BY <1>4 DEF Frames
<1>6. e \in Events /\ e.kind = "press"
  BY <1>4, <1>5 DEF Events
<1> HIDE DEF e
<1>7. handles # {} /\ WholeRequests(toServer')
  BY <1>2, <1>3 DEF InStep, BarOK
<1> QED
  BY <1>2, <1>4, <1>6, <1>7, SentKeeps

(* All of it holds at first: the bar knows no workspace.                    *)
LEMMA WholeAtFirst == Init => WholeInv
<1> SUFFICES ASSUME Init PROVE WholeInv
  OBVIOUS
<1>1. 1 \in Ids
  BY BarAssumption DEF Ids
<1>2. << >> \in Seq(Events) /\ << >> \in Seq(Listings) /\ << >> \in Seq(Requests)
      /\ Len(<< >>) = 0 /\ 1 .. 0 = {}
  OBVIOUS
<1>3. snapshot \in [Ids -> Infos] /\ name \in [Ids -> Names]
  <2>1. Unknown \in Infos /\ None \in Names
    BY DEF Unknown, Infos, Names
  <2> QED
    BY <2>1 DEF Init, ServerInit
<1>4. Typed
  BY <1>1, <1>2, <1>3 DEF Init, ServerInit, Typed
<1>5. IdsGrow
  BY DEF Init, ServerInit, IdsGrow
<1>6. << >> \o << >> = << >> /\ Ascending(<< >>)
  BY <1>2 DEF Ascending
<1>7. BarOK
  BY <1>2, <1>6 DEF Init, BarInit, BarOK, WholeRequests, Sizes
<1>8. InStep
  <2> DEFINE v == [known |-> {}, lit |-> {}, ever |-> {}, open |-> FALSE]
             V == [p \in 0 .. 0 |-> v]
  <2>1. v \in Views /\ v.known \subseteq v.ever
    BY DEF Views
  <2>2. V[0] = v
    OBVIOUS
  <2>3. v.known = {} /\ v.lit = {} /\ v.ever = {} /\ ~v.open
    OBVIOUS
  <2> HIDE DEF v
  <2>4. Path(V, << >>)
    BY <2>1, PathOfNone
  <2> HIDE DEF V
  <2>5. Listed(<< >>) = {} /\ Lit(<< >>) = {}
    BY <1>2 DEF Listed, Lit
  <2>6. Now(v)
    BY <2>3, <2>5 DEF Now, Init, BarInit
  <2>7. Whole(v)
    BY <2>3 DEF Whole, Init, ServerInit
  <2>8. toBar = << >>
    BY DEF Init
  <2>9. OnePath(V)
    BY <1>2, <2>2, <2>4, <2>6, <2>7, <2>8 DEF OnePath
  <2> QED
    BY <2>9 DEF InStep, Init, ServerInit
<1> QED
  BY <1>4, <1>5, <1>7, <1>8 DEF WholeInv

(* And it is kept by every step.                                            *)
LEMMA WholeSteps == WholeInv /\ [Next]_vars => WholeInv'
<1> SUFFICES ASSUME WholeInv, [Next]_vars PROVE WholeInv'
  OBVIOUS
<1>0. activeId \in live /\ name \in [Ids -> Names] /\ live \subseteq Ids /\ Typed
  BY DEF WholeInv, Typed
<1>1. CASE NewFrame BY <1>1, NewFrameUntold
<1>2. CASE \E i \in Ids : FrameDies(i) \/ IpcSwitch(i)
  <2>1. PICK i \in Ids : FrameDies(i) \/ IpcSwitch(i) BY <1>2
  <2>2. CASE FrameDies(i)
    <3>1. /\ live' \subseteq live /\ activeId' \in live'
          /\ UNCHANGED <<nextId, name, layer, bound, handles, snapshot, screen, toBar,
                         toServer, running, barVars>>
      BY <1>0, <2>2 DEF FrameDies, instVars, mapVars
    <3> QED BY <1>0, <3>1, LiveUntold
  <2>3. CASE IpcSwitch(i)
    <3>1. /\ live' = live /\ activeId' \in live'
          /\ UNCHANGED <<nextId, name, layer, bound, handles, snapshot, screen, toBar,
                         toServer, running, barVars>>
      BY <1>0, <2>3 DEF IpcSwitch, instVars, mapVars
    <3> QED BY <1>0, <3>1, LiveUntold
  <2> QED BY <2>1, <2>2, <2>3
<1>3. CASE \E i \in Ids, title \in Titles : TitleChanged(i, title)
  <2>1. PICK i \in Ids, title \in Titles : TitleChanged(i, title) BY <1>3
  <2>2. /\ live' = live /\ activeId' = activeId /\ name' = [name EXCEPT ![i] = title]
        /\ UNCHANGED <<nextId, layer, bound, handles, snapshot, screen, toBar,
                       toServer, running, barVars>>
    BY <2>1 DEF TitleChanged, instVars, mapVars
  <2>3. name' \in [Ids -> Names] BY <1>0, <2>2 DEF Names
  <2> QED BY <1>0, <2>2, <2>3, LiveUntold
<1>4. CASE BeginTick \/ DetectDead \/ UNCHANGED vars
  <2>1. UNCHANGED <<nextId, name, layer, bound, handles, snapshot, screen, toBar, toServer,
                    running, barVars>>
    BY <1>4 DEF BeginTick, DetectDead, vars, wsVars, instVars, mapVars
  <2>2. live' \subseteq live /\ activeId' \in live'
    BY <1>0, <1>4 DEF BeginTick, DetectDead, vars, wsVars
  <2> QED BY <1>0, <2>1, <2>2, LiveUntold
<1>5. CASE ProcessAction
  <2>1. /\ live' = live /\ activeId' \in live'
        /\ UNCHANGED <<nextId, name, layer, bound, handles, snapshot, screen, toBar,
                       toServer, running, barVars>>
    BY <1>0, <1>5 DEF ProcessAction, mapVars
  <2> QED BY <1>0, <2>1, LiveUntold
<1>6. CASE Refresh BY <1>6, RefreshTells
<1>7. CASE HandleRequest BY <1>7, RequestTaken
<1>8. CASE ClientGone BY <1>8, ClientGoneKeeps
<1>9. CASE Cleanup BY <1>9, CleanupKeeps
<1>10. CASE HandleEvent BY <1>10, EventKeeps
<1>11. CASE BarExits BY <1>11, BarExitsKeeps
<1>12. CASE \E k \in Ids : Click(k) BY <1>12, ClickKeeps
<1> QED
  BY <1>1, <1>2, <1>3, <1>4, <1>5, <1>6, <1>7, <1>8, <1>9, <1>10, <1>11, <1>12 DEF Next

(* Every frame that the bar draws is a whole state (update_visibility,      *)
(* draw and the Dispatch handlers of the bar, refresh_instance).            *)
THEOREM BarDrawsWholeStates == Spec => []FramesAreWhole
<1>1. WholeInv => FramesAreWhole
  <2> SUFFICES ASSUME WholeInv PROVE FramesAreWhole
    OBVIOUS
  <2>1. WholeRequests(toServer)
    BY DEF WholeInv, BarOK
  <2> QED
    BY <2>1 DEF WholeRequests, FramesAreWhole
<1> QED
  BY <1>1, WholeAtFirst, WholeSteps, PTL DEF Spec

-----------------------------------------------------------------------------
(* Where a click lands *)

(* What was drawn at a place is the workspace of that number, as long as no *)
(* workspace up to it has gone.                                             *)
SeenAt(i, k) == Mentioned(i) /\ k <= i /\ (1 .. k \subseteq handles => i = k)

TilesSeen(ts) == Tiled(ts) /\ \A k \in 1 .. Len(ts) : SeenAt(ts[k].id, k)
FrameSeen(f)  == f # None => TilesSeen(f.tiles)

(* The entries remember their places from one such frame, or have none yet. *)
Placed(ts, x) ==
  x.width # 0 => \E k \in 1 .. Len(ts) :
                   x.id = ts[k].id /\ x.left = ts[k].left /\ x.width = ts[k].width

Undrawn(es) == \A k \in 1 .. Len(es) : es[k].width = 0
Drawn(es)   == \E ts \in Seq(Listings) :
                 TilesSeen(ts) /\ \A k \in 1 .. Len(es) : Placed(ts, es[k])

FramesSeen(s)  == \A k \in 1 .. Len(s) : s[k].kind = "commit" => FrameSeen(s[k].frame)
PressSeen(e) ==
  /\ TilesSeen(e.tiles) /\ e.saw \in 1 .. Len(e.tiles)
  /\ Within(e.tiles[e.saw], e.at)
PressesSeen(q) == \A k \in 1 .. Len(q) : q[k].kind = "press" => PressSeen(q[k])

Seen ==
  /\ Undrawn(pending) /\ Drawn(entries)
  /\ FramesSeen(toServer) /\ FrameSeen(screen) /\ PressesSeen(toBar)

ClickInv == WholeInv /\ (running => Seen)

(* An entry is never further to the right than its number,                  *)
LEMMA IdAtLeastPlace ==
  ASSUME NEW es \in Seq(Listings), Ascending(es), NEW k \in 1 .. Len(es)
  PROVE  k <= es[k].id
<1> DEFINE T == {n \in Nat : n \in 1 .. Len(es) => n <= es[n].id}
<1>1. Len(es) \in Nat /\ \A n \in 1 .. Len(es) : es[n].id \in Nat /\ es[n].id >= 1
  BY IdsAreNumbers
<1>2. 0 \in T
  OBVIOUS
<1>3. ASSUME NEW n \in Nat \cap T PROVE n + 1 \in T
  <2> SUFFICES ASSUME n + 1 \in 1 .. Len(es) PROVE n + 1 <= es[n + 1].id
    OBVIOUS
  <2>1. CASE n = 0
    BY <1>1, <2>1
  <2>2. CASE n # 0
    <3>1. n \in 1 .. Len(es) /\ n < n + 1
      BY <1>1, <2>2
    <3>2. es[n].id < es[n + 1].id /\ n <= es[n].id
      BY <3>1 DEF Ascending
    <3>3. es[n].id \in Nat /\ es[n + 1].id \in Nat
      BY <1>1, <3>1
    <3> QED
      BY <3>2, <3>3
  <2> QED
    BY <2>1, <2>2
<1> HIDE DEF T
<1>4. k \in T
  BY <1>1, <1>2, <1>3, AllNumbers
<1> QED
  BY <1>4 DEF T

(* and where none is missing before it, it is where its number says.        *)
LEMMA PlaceOfFull ==
  ASSUME NEW es \in Seq(Listings), Ascending(es), NEW k \in Nat \ {0}, 1 .. k \subseteq Listed(es)
  PROVE  k \in 1 .. Len(es) /\ es[k].id = k
<1> DEFINE OK(n) == n # 0 /\ 1 .. n \subseteq Listed(es) => n \in 1 .. Len(es) /\ es[n].id = n
           T == {n \in Nat : OK(n)}
<1>1. Len(es) \in Nat /\ \A n \in 1 .. Len(es) : es[n].id \in Nat /\ es[n].id >= 1
  BY IdsAreNumbers
<1>2. 0 \in T
  OBVIOUS
<1>3. ASSUME NEW n \in Nat \cap T PROVE n + 1 \in T
  <2> SUFFICES ASSUME 1 .. n + 1 \subseteq Listed(es)
               PROVE  n + 1 \in 1 .. Len(es) /\ es[n + 1].id = n + 1
    OBVIOUS
  <2>1. n + 1 \in Listed(es) /\ 1 .. n \subseteq Listed(es)
    <3>1. n + 1 \in 1 .. n + 1 /\ \A m \in 1 .. n : m \in 1 .. n + 1
      OBVIOUS
    <3> QED
      BY <3>1
  <2>2. PICK j \in 1 .. Len(es) : es[j].id = n + 1
    BY <2>1 DEF Listed
  <2>3. n # 0 => n \in 1 .. Len(es) /\ es[n].id = n
    BY <2>1
  <2>4. n < j
    <3> SUFFICES ASSUME j <= n PROVE FALSE
      BY <1>1
    <3>1. n # 0 /\ n \in 1 .. Len(es) /\ es[n].id = n
      BY <1>1, <2>3
    <3>2. j = n \/ j < n
      BY <1>1
    <3>3. es[j].id <= es[n].id
      BY <1>1, <3>1, <3>2 DEF Ascending
    <3> QED
      BY <2>2, <3>1, <3>3
  <2>5. n + 1 \in 1 .. Len(es)
    BY <1>1, <2>4
  <2>6. j = n + 1
    <3> SUFFICES ASSUME n + 1 < j PROVE FALSE
      BY <1>1, <2>4
    <3>1. es[n + 1].id < n + 1
      BY <2>2, <2>5 DEF Ascending
    <3>2. n + 1 <= es[n + 1].id
      BY <2>5, IdAtLeastPlace
    <3>3. es[n + 1].id \in Nat
      BY <1>1, <2>5
    <3> QED
      BY <3>1, <3>2, <3>3
  <2> QED
    BY <2>2, <2>5, <2>6
<1> HIDE DEF T
<1>4. k \in T
  BY <1>2, <1>3, AllNumbers
<1> QED
  BY <1>4 DEF T

(* The bar knows all that is there up to the highest it has heard of.       *)
LEMMA KnownUpTo ==
  ASSUME WholeInv, running
  PROVE  \E v \in Views :
           /\ Now(v) /\ \A s \in v.known : Mentioned(s) /\ s \in Ids
           /\ \A s \in v.known : \A j \in handles : j <= s => j \in v.known
           /\ toBar # << >> => InOrder(v, Head(toBar))
<1>1. InStep /\ toBar \in Seq(Events) /\ handles \subseteq Ids
  BY DEF WholeInv, Typed
<1>2. PICK V : Path(V, toBar) /\ Now(V[0]) /\ Whole(V[Len(toBar)])
  BY <1>1 DEF InStep, OnePath
<1>3. PICK v : v = V[0]
  OBVIOUS
<1>4. PICK w : w = V[Len(toBar)]
  OBVIOUS
<1>5. v \in Views /\ v.known \subseteq v.ever /\ Later(v, w)
  <2>1. /\ 0 \in 0 .. Len(toBar) /\ Len(toBar) \in 0 .. Len(toBar) /\ 0 <= Len(toBar)
    BY <1>1
  <2>2. /\ V \in [0 .. Len(toBar) -> Views]
        /\ \A p, r \in 0 .. Len(toBar) : p <= r => Later(V[p], V[r])
        /\ \A p \in 0 .. Len(toBar) : V[p].known \subseteq V[p].ever
    BY <1>2 DEF Path
  <2> QED
    BY <1>3, <1>4, <2>1, <2>2
<1>6. w.known = handles /\ \A i \in w.ever : Mentioned(i)
  BY <1>2, <1>4 DEF Whole
<1>7. \A s \in v.known : Mentioned(s) /\ s \in Ids
  BY <1>5, <1>6 DEF Later, Views
<1>8. ASSUME NEW s \in v.known, NEW j \in handles, j <= s PROVE j \in v.known
  <2>1. j \in v.known \/ s < j
    BY <1>5, <1>6 DEF Later
  <2>2. s \in Nat /\ j \in Nat
    BY <1>1, <1>7, IdsAreNumbers
  <2> QED
    BY <1>8, <2>1, <2>2
<1>9. Now(v)
  BY <1>2, <1>3
<1>10. ASSUME toBar # << >> PROVE InOrder(v, Head(toBar))
  BY <1>1, <1>2, <1>3, <1>10, PathShrinks
<1> QED
  BY <1>5, <1>7, <1>8, <1>9, <1>10

(* So what it draws is where its number says.                               *)
LEMMA DrawnSeen ==
  ASSUME NEW es \in Seq(Listings), Ascending(es), handles \subseteq Ids,
         \A s \in Listed(es) : Mentioned(s),
         \A s \in Listed(es) : \A j \in handles : j <= s => j \in Listed(es),
         FramesSeen(toServer), toServer \in Seq(Requests), Draw(es, toServer),
         UNCHANGED <<live, nextId, handles>>
  PROVE  Drawn(entries)' /\ FramesSeen(toServer)'
<1> DEFINE n == Len(es)
<1>0. PICK ts : ts = Laid(es)
  OBVIOUS
<1>00. PICK f : f = Frame(surfaceSize', ts)
  OBVIOUS
<1>1. entries' = ts /\ toServer' = Append(toServer, Commit(mine, f)) /\ n \in Nat
  BY <1>0, <1>00 DEF Draw
<1>01. /\ ts \in Seq(Listings) /\ Len(ts) = n /\ Tiled(ts)
       /\ \A k \in 1 .. n : ts[k].id = es[k].id
  BY <1>0, LaidTiles
<1>2. ASSUME NEW k \in 1 .. n, 1 .. k \subseteq handles PROVE es[k].id = k
  <2>1. es[k].id \in Listed(es) /\ k <= es[k].id /\ es[k].id \in Nat
    BY IdAtLeastPlace, IdsAreNumbers DEF Listed
  <2>2. \A j \in 1 .. k : j <= es[k].id
    BY <1>1, <2>1
  <2>3. 1 .. k \subseteq Listed(es)
    BY <1>2, <2>1, <2>2
  <2>4. k \in Nat \ {0}
    BY <1>1
  <2> QED
    BY <2>3, <2>4, PlaceOfFull
<1>3. ASSUME NEW k \in 1 .. n PROVE SeenAt(ts[k].id, k)
  <2>1. Mentioned(es[k].id) /\ k <= es[k].id
    BY IdAtLeastPlace DEF Listed
  <2> QED
    BY <1>01, <1>2, <2>1 DEF SeenAt
<1>4. TilesSeen(ts)'
  <2>1. TilesSeen(ts)
    BY <1>01, <1>3 DEF TilesSeen
  <2> QED
    BY <2>1 DEF TilesSeen, SeenAt, Mentioned
<1>5. FrameSeen(f)' /\ Drawn(entries)'
  <2>1. f.tiles = ts
    BY <1>00 DEF Frame
  <2>2. \A k \in 1 .. Len(ts) : Placed(ts, ts[k])
    BY DEF Placed
  <2>3. Drawn(entries)'
    BY <1>1, <1>01, <1>4, <2>2 DEF Drawn, Placed
  <2> QED
    BY <1>4, <2>1, <2>3 DEF FrameSeen
<1>6. PICK r : r = Commit(mine, f)
  OBVIOUS
<1>7. r.kind = "commit" /\ r.frame = f
  BY <1>6 DEF Commit
<1>8. FramesSeen(toServer)'
  <2>1. /\ toServer' = Append(toServer, r) /\ Len(toServer') = Len(toServer) + 1
        /\ Len(toServer) \in Nat
        /\ \A k \in 1 .. Len(toServer) : toServer'[k] = toServer[k]
        /\ toServer'[Len(toServer) + 1] = r
    BY <1>1, <1>6
  <2>2. \A k \in 1 .. Len(toServer) + 1 : k \in 1 .. Len(toServer) \/ k = Len(toServer) + 1
    BY <2>1
  <2>3. \A g : FrameSeen(g) => FrameSeen(g)'
    BY DEF FrameSeen, TilesSeen, SeenAt, Mentioned
  <2>4. ASSUME NEW k \in 1 .. Len(toServer'), NEW x, x = toServer'[k], x.kind = "commit"
        PROVE  FrameSeen(x.frame)'
    <3>1. CASE k \in 1 .. Len(toServer)
      <4>1. FrameSeen(x.frame)
        BY <2>1, <2>4, <3>1 DEF FramesSeen
      <4> QED
        BY <2>3, <4>1
    <3>2. CASE k = Len(toServer) + 1
      BY <1>5, <1>7, <2>1, <2>4, <3>2
    <3> QED
      BY <2>1, <2>2, <3>1, <3>2
  <2> QED
    BY <2>4 DEF FramesSeen, FrameSeen, TilesSeen, SeenAt, Mentioned
<1> QED
  BY <1>5, <1>8

(* A workspace of which the bar hears later is newer than all it has drawn. *)
LEMMA SeenStays ==
  ASSUME handles' \subseteq handles \cup live, \A i \in Ids : Mentioned(i) => Mentioned(i)'
  PROVE  /\ \A f \in Frames \cup {None} : FrameSeen(f) => FrameSeen(f)'
         /\ \A s \in Seq(Requests) : FramesSeen(s) => FramesSeen(s)'
         /\ \A q \in Seq(Events) : PressesSeen(q) => PressesSeen(q)'
         /\ \A es : Drawn(es) => Drawn(es)'
<1>1. ASSUME NEW i \in Ids, Mentioned(i), NEW n \in Nat, n <= i, 1 .. n \subseteq handles'
      PROVE  1 .. n \subseteq handles
  <2> SUFFICES ASSUME NEW j \in 1 .. n, j \in live \ handles PROVE FALSE
    BY <1>1
  <2>1. i < j /\ i \in Nat
    BY <1>1, IdsAreNumbers DEF Mentioned
  <2> QED
    BY <1>1, <2>1
<1>2. ASSUME NEW i \in Ids, NEW k \in Nat, SeenAt(i, k) PROVE SeenAt(i, k)'
  <2>1. Mentioned(i) /\ Mentioned(i)' /\ k <= i
    BY <1>2 DEF SeenAt
  <2>2. 1 .. k \subseteq handles' => 1 .. k \subseteq handles
    BY <1>1, <1>2, <2>1
  <2> QED
    BY <1>2, <2>1, <2>2 DEF SeenAt
<1>0. ASSUME NEW ts \in Seq(Listings), TilesSeen(ts) PROVE TilesSeen(ts)'
  <2>1. ASSUME NEW k \in 1 .. Len(ts) PROVE SeenAt(ts[k].id, k)'
    <3>1. ts[k].id \in Ids /\ k \in Nat
      BY IdsAreNumbers
    <3>2. SeenAt(ts[k].id, k)
      BY <1>0 DEF TilesSeen
    <3> QED
      BY <1>2, <3>1, <3>2
  <2> QED
    BY <1>0, <2>1 DEF TilesSeen
<1>3. ASSUME NEW f \in Frames \cup {None}, FrameSeen(f) PROVE FrameSeen(f)'
  <2>1. f # None => f \in Frames /\ TilesSeen(f.tiles)
    BY <1>3 DEF FrameSeen
  <2>2. f # None => f.tiles \in Seq(Listings)
    BY <2>1 DEF Frames
  <2> QED
    BY <1>0, <2>1, <2>2 DEF FrameSeen
<1>4. ASSUME NEW s \in Seq(Requests), FramesSeen(s) PROVE FramesSeen(s)'
  <2>1. \A k \in 1 .. Len(s) : s[k].kind = "commit" => s[k].frame \in Frames \cup {None}
    <3> SUFFICES ASSUME NEW k \in 1 .. Len(s), s[k].kind = "commit"
                 PROVE  s[k].frame \in Frames \cup {None}
      OBVIOUS
    <3>1. s[k] \in Requests
      OBVIOUS
    <3> QED
      BY <3>1 DEF Requests
  <2>2. \A k \in 1 .. Len(s) : s[k].kind = "commit" => FrameSeen(s[k].frame)'
    BY <1>3, <1>4, <2>1 DEF FramesSeen
  <2> QED
    BY <2>2 DEF FramesSeen
<1>5. ASSUME NEW q \in Seq(Events), PressesSeen(q) PROVE PressesSeen(q)'
  <2>1. \A k \in 1 .. Len(q) : q[k].kind = "press" => q[k].tiles \in Seq(Listings)
    <3> SUFFICES ASSUME NEW k \in 1 .. Len(q), q[k].kind = "press"
                 PROVE  q[k].tiles \in Seq(Listings)
      OBVIOUS
    <3>1. q[k] \in Events
      OBVIOUS
    <3> QED
      BY <3>1 DEF Events, Words, Done
  <2>2. \A k \in 1 .. Len(q) : q[k].kind = "press" => PressSeen(q[k])'
    BY <1>0, <1>5, <2>1 DEF PressesSeen, PressSeen
  <2> QED
    BY <2>2 DEF PressesSeen
<1>6. ASSUME NEW es, Drawn(es) PROVE Drawn(es)'
  <2>1. PICK ts \in Seq(Listings) : TilesSeen(ts) /\ \A k \in 1 .. Len(es) : Placed(ts, es[k])
    BY <1>6 DEF Drawn
  <2> QED
    BY <1>0, <2>1 DEF Drawn
<1> QED
  BY <1>3, <1>4, <1>5, <1>6

(* The parts of Seen, where each has got a value.                           *)
LEMMA SeenNext ==
  ASSUME NEW p, p = pending', Undrawn(p), NEW es, es = entries', Drawn(es)',
         NEW s, s = toServer', FramesSeen(s)', NEW f, f = screen', FrameSeen(f)',
         NEW q, q = toBar', PressesSeen(q)'
  PROVE  Seen'
<1>1. Undrawn(pending)'
  BY DEF Undrawn
<1>2. Drawn(entries)'
  BY DEF Drawn, TilesSeen, SeenAt, Mentioned
<1>3. FramesSeen(toServer)'
  BY DEF FramesSeen, FrameSeen, TilesSeen, SeenAt, Mentioned
<1>4. FrameSeen(screen)'
  BY DEF FrameSeen, TilesSeen, SeenAt, Mentioned
<1>5. PressesSeen(toBar)'
  BY DEF PressesSeen, PressSeen, TilesSeen, SeenAt, Mentioned
<1> QED
  BY <1>1, <1>2, <1>3, <1>4, <1>5 DEF Seen

(* What was told stays told: a step that keeps the bar's lists need only    *)
(* account for the frames and presses on their way.                         *)
LEMMA SeenKept ==
  ASSUME Seen,
         handles' \subseteq handles \cup live, \A i \in Ids : Mentioned(i) => Mentioned(i)',
         UNCHANGED <<pending, entries>>,
         NEW s \in Seq(Requests), s = toServer', FramesSeen(s),
         NEW f \in Frames \cup {None}, f = screen', FrameSeen(f),
         NEW q \in Seq(Events), q = toBar', PressesSeen(q)
  PROVE  Seen'
<1>1. PICK es : es = entries
  OBVIOUS
<1>2. PICK p : p = pending
  OBVIOUS
<1>3. Drawn(es) /\ Undrawn(p)
  BY <1>1, <1>2 DEF Seen
<1>4. Drawn(es)' /\ FramesSeen(s)' /\ FrameSeen(f)' /\ PressesSeen(q)'
  BY <1>3, SeenStays
<1>5. es = entries' /\ p = pending'
  BY <1>1, <1>2
<1> QED
  BY <1>3, <1>4, <1>5, SeenNext

(* The workspaces change, or a refresh tells of them.                       *)
LEMMA ServerSeen ==
  ASSUME WholeInv, running, Seen,
         handles' \subseteq handles \cup live, \A i \in Ids : Mentioned(i) => Mentioned(i)',
         UNCHANGED <<barVars, toServer, screen>>,
         NEW c \in Seq(Events), toBar' = toBar \o c, \A k \in 1 .. Len(c) : c[k].kind # "press"
  PROVE  Seen'
<1>1. PICK s : s = toServer
  OBVIOUS
<1>2. PICK f : f = screen
  OBVIOUS
<1>3. PICK q : q = toBar \o c
  OBVIOUS
<1>4. s \in Seq(Requests) /\ f \in Frames \cup {None} /\ FramesSeen(s) /\ FrameSeen(f)
  BY <1>1, <1>2 DEF WholeInv, BarOK, WholeRequests, Typed, Seen
<1>5. toBar \in Seq(Events) /\ PressesSeen(toBar)
  BY DEF WholeInv, Typed, Seen
<1>6. q \in Seq(Events) /\ PressesSeen(q)
  <2>1. /\ q \in Seq(Events) /\ Len(q) = Len(toBar) + Len(c) /\ Len(toBar) \in Nat
        /\ \A k \in 1 .. Len(toBar) : q[k] = toBar[k]
        /\ \A k \in 1 .. Len(q) : ~(k <= Len(toBar)) => q[k] = c[k - Len(toBar)]
    BY <1>3, <1>5
  <2>2. ASSUME NEW k \in 1 .. Len(q), q[k].kind = "press" PROVE k \in 1 .. Len(toBar)
    <3> SUFFICES ASSUME ~(k <= Len(toBar)) PROVE FALSE
      BY <2>1
    <3>1. k - Len(toBar) \in 1 .. Len(c)
      BY <2>1
    <3> QED
      BY <2>1, <2>2, <3>1
  <2> QED
    BY <1>5, <2>1, <2>2 DEF PressesSeen
<1> QED
  BY <1>1, <1>2, <1>3, <1>4, <1>6, SeenKept DEF barVars

(* A frame joins those on their way.                                        *)
LEMMA OneFrameMore ==
  ASSUME NEW s \in Seq(Requests), FramesSeen(s), NEW r \in Requests,
         r.kind = "commit" => FrameSeen(r.frame)
  PROVE  FramesSeen(Append(s, r))
<1>1. /\ Len(Append(s, r)) = Len(s) + 1 /\ Len(s) \in Nat
      /\ \A k \in 1 .. Len(s) : Append(s, r)[k] = s[k]
      /\ Append(s, r)[Len(s) + 1] = r
  OBVIOUS
<1>2. \A k \in 1 .. Len(s) + 1 : k \in 1 .. Len(s) \/ k = Len(s) + 1
  BY <1>1
<1> QED
  BY <1>1, <1>2 DEF FramesSeen

(* A press joins the events on their way.                                   *)
LEMMA OnePressMore ==
  ASSUME NEW q \in Seq(Events), PressesSeen(q), NEW e \in Events,
         e.kind = "press" => PressSeen(e)
  PROVE  PressesSeen(Append(q, e)) /\ Append(q, e) \in Seq(Events)
<1>1. /\ Len(Append(q, e)) = Len(q) + 1 /\ Len(q) \in Nat
      /\ \A k \in 1 .. Len(q) : Append(q, e)[k] = q[k]
      /\ Append(q, e)[Len(q) + 1] = e
  OBVIOUS
<1>2. \A k \in 1 .. Len(q) + 1 : k \in 1 .. Len(q) \/ k = Len(q) + 1
  BY <1>1
<1> QED
  BY <1>1, <1>2 DEF PressesSeen

(* The server takes a request.                                              *)
LEMMA RequestSeen ==
  ASSUME WholeInv, running, Seen, HandleRequest
  PROVE  Seen'
<1> DEFINE r == Head(toServer)
           s == Tail(toServer)
<1>1. /\ toServer # << >> /\ toServer' = s
      /\ UNCHANGED <<live, nextId, handles, barVars>>
      /\ \/ r.kind = "layer" /\ NewLayerSurface(r)
         \/ r.kind = "commit" /\ LayerCommit(r)
         \/ r.kind = "destroy" /\ LayerDestroyed
         \/ r.kind = "activate" /\ Activate(r)
  BY DEF HandleRequest, wsVars
<1>2. toServer \in Seq(Requests) /\ FramesSeen(toServer)
  BY DEF WholeInv, BarOK, WholeRequests, Seen
<1>3. /\ r \in Requests /\ s \in Seq(Requests) /\ FramesSeen(s)
      /\ r.kind = "commit" => FrameSeen(r.frame)
  <2>1. /\ s \in Seq(Requests) /\ Len(s) = Len(toServer) - 1 /\ Len(toServer) \in Nat \ {0}
        /\ \A k \in 1 .. Len(toServer) - 1 : s[k] = toServer[k + 1]
        /\ r = toServer[1] /\ r \in Requests
    BY <1>1, <1>2
  <2>2. 1 \in 1 .. Len(toServer) /\ \A k \in 1 .. Len(toServer) - 1 : k + 1 \in 1 .. Len(toServer)
    BY <2>1
  <2> HIDE DEF r, s
  <2> QED
    BY <1>2, <2>1, <2>2 DEF FramesSeen
<1> HIDE DEF r, s
<1>4. /\ screen \in Frames \cup {None} /\ FrameSeen(screen)
      /\ toBar \in Seq(Events) /\ PressesSeen(toBar)
  BY DEF WholeInv, Typed, Seen
<1>5. PICK f : f = screen'
  OBVIOUS
<1>6. PICK q : q = toBar'
  OBVIOUS
<1>7. f \in Frames \cup {None} /\ FrameSeen(f)
  <2>1. screen' = screen \/ screen' = None \/ (r.kind = "commit" /\ screen' = r.frame)
    BY <1>1 DEF NewLayerSurface, LayerCommit, LayerDestroyed, Activate, mapVars
  <2>2. r.kind = "commit" => r.frame \in Frames \cup {None}
    BY <1>3 DEF Requests
  <2>3. FrameSeen(None)
    BY DEF FrameSeen
  <2> QED
    BY <1>3, <1>4, <1>5, <2>1, <2>2, <2>3
<1>8. q \in Seq(Events) /\ PressesSeen(q)
  <2>1. r.id \in Nat
    BY <1>3 DEF Requests
  <2>2. \/ toBar' = toBar
        \/ Send(Configure(r.id, "output")) \/ Send(Configure(r.id, "strip"))
    BY <1>1 DEF NewLayerSurface, LayerCommit, LayerDestroyed, Activate
  <2>3. ASSUME NEW z \in {"output", "strip"}, Send(Configure(r.id, z))
        PROVE  q \in Seq(Events) /\ PressesSeen(q)
    <3>1. PICK e : e = Configure(r.id, z)
      OBVIOUS
    <3>2. e \in Events /\ e.kind = "configure"
      BY <2>1, <3>1 DEF Events, Configure
    <3>3. q = Append(toBar, e)
      BY <1>6, <2>3, <3>1 DEF Send
    <3> QED
      BY <1>4, <3>2, <3>3, OnePressMore
  <2> QED
    BY <1>4, <1>6, <2>2, <2>3
<1>9. \A i \in Ids : Mentioned(i) => Mentioned(i)'
  BY <1>1 DEF Mentioned
<1>10. PICK t : t = s
  OBVIOUS
<1> QED
  BY <1>1, <1>3, <1>5, <1>6, <1>7, <1>8, <1>9, <1>10, SeenKept DEF barVars

(* A press is of a tile that is shown.                                      *)
LEMMA ClickSeen ==
  ASSUME WholeInv, running, Seen, NEW k \in Ids, Click(k)
  PROVE  Seen'
<1>0. PICK x \in Nat :
        /\ Within(screen.tiles[k], x)
        /\ Send([kind |-> "press", id |-> layer, at |-> x, saw |-> k, tiles |-> screen.tiles])
  BY DEF Click
<1>1. PICK e : e = [kind |-> "press", id |-> layer, at |-> x, saw |-> k, tiles |-> screen.tiles]
  OBVIOUS
<1>2. /\ screen # None /\ k \in DOMAIN screen.tiles /\ toBar' = Append(toBar, e)
      /\ UNCHANGED <<live, nextId, handles, screen, toServer, barVars>>
  BY <1>0, <1>1 DEF Click, Send, wsVars, instVars, mapVars
<1>3. /\ screen \in Frames \cup {None} /\ FrameSeen(screen) /\ layer \in Nat
      /\ toBar \in Seq(Events) /\ PressesSeen(toBar)
      /\ toServer \in Seq(Requests) /\ FramesSeen(toServer)
  BY DEF WholeInv, Typed, Seen, BarOK, WholeRequests
<1>4. screen.tiles \in Seq(Listings) /\ TilesSeen(screen.tiles)
  BY <1>2, <1>3 DEF Frames, FrameSeen
<1>5. k \in 1 .. Len(screen.tiles) /\ k \in Nat
  BY <1>2, <1>4, IdsAreNumbers
<1>6. e \in Events
  BY <1>1, <1>3, <1>4, <1>5 DEF Events
<1>7. PressSeen(e)
  BY <1>0, <1>1, <1>4, <1>5 DEF PressSeen
<1>8. PICK q : q = Append(toBar, e)
  OBVIOUS
<1>9. q \in Seq(Events) /\ PressesSeen(q)
  BY <1>3, <1>6, <1>7, <1>8, OnePressMore
<1>10. PICK f : f = screen
  OBVIOUS
<1>11. PICK s : s = toServer
  OBVIOUS
<1>12. \A i \in Ids : Mentioned(i) => Mentioned(i)'
  BY <1>2 DEF Mentioned
<1> QED
  BY <1>2, <1>3, <1>8, <1>9, <1>10, <1>11, <1>12, SeenKept DEF barVars

(* Places stay right while no handle comes or goes.                         *)
LEMMA SamePlaces ==
  ASSUME UNCHANGED <<live, nextId, handles>>, NEW es, es = entries', Drawn(es)
  PROVE  Drawn(entries)'
BY DEF Drawn, TilesSeen, SeenAt, Mentioned

(* So do the frames on their way.                                           *)
LEMMA SameFrames ==
  ASSUME UNCHANGED <<live, nextId, handles>>, NEW s, s = toServer', FramesSeen(s)
  PROVE  FramesSeen(toServer)'
BY DEF FramesSeen, FrameSeen, TilesSeen, SeenAt, Mentioned

(* What an event changes of an entry is neither its number nor its place.   *)
LEMMA PlacesKept ==
  ASSUME NEW a, NEW b, Drawn(a),
         \A k \in 1 .. Len(b) : \E j \in 1 .. Len(a) :
           b[k].id = a[j].id /\ b[k].left = a[j].left /\ b[k].width = a[j].width
  PROVE  Drawn(b)
<1>1. PICK ts \in Seq(Listings) : TilesSeen(ts) /\ \A k \in 1 .. Len(a) : Placed(ts, a[k])
  BY DEF Drawn
<1>2. \A k \in 1 .. Len(b) : Placed(ts, b[k])
  BY <1>1 DEF Placed
<1> QED
  BY <1>1, <1>2 DEF Drawn

(* A new entry has no place until it is drawn.                              *)
LEMMA WorkspaceSeen ==
  ASSUME BarOK, Seen, NEW e \in Words, e.kind = "workspace", OnWorkspace(e),
         UNCHANGED <<live, nextId, handles>>
  PROVE  Undrawn(pending)' /\ Drawn(entries)' /\ FramesSeen(toServer)'
<1>1. PICK x : x = Entry(e.id, e.name, e.active)
  OBVIOUS
<1>2. x.width = 0 /\ x \in Listings
  <2>1. e.id \in Ids /\ e.active \in BOOLEAN /\ e.name \in Names
    BY WordsAreTyped DEF Tells, IsWs
  <2> QED
    BY <1>1, <2>1 DEF Entry, Listings
<1>3. pending' = Append(pending, x) /\ entries' = entries /\ toServer' = toServer
  BY <1>1 DEF OnWorkspace
<1>4. pending \in Seq(Listings) /\ Undrawn(pending) /\ Drawn(entries) /\ FramesSeen(toServer)
  BY DEF BarOK, Seen
<1>5. Undrawn(pending)'
  <2>1. /\ Len(pending') = Len(pending) + 1 /\ Len(pending) \in Nat
        /\ \A k \in 1 .. Len(pending) : pending'[k] = pending[k]
        /\ pending'[Len(pending) + 1] = x
    BY <1>2, <1>3, <1>4
  <2>2. \A k \in 1 .. Len(pending) + 1 : k \in 1 .. Len(pending) \/ k = Len(pending) + 1
    BY <2>1
  <2> QED
    BY <1>2, <1>4, <2>1, <2>2 DEF Undrawn
<1>6. Drawn(entries)' /\ FramesSeen(toServer)'
  BY <1>3, <1>4, SamePlaces, SameFrames
<1> QED
  BY <1>5, <1>6

(* Events about a workspace change no place.                                *)
LEMMA HandleEventSeen ==
  ASSUME BarOK, Seen, NEW e \in Words, e.kind \in {"name", "state", "removed"}, OnHandleEvent(e),
         UNCHANGED <<live, nextId, handles>>
  PROVE  Undrawn(pending)' /\ Drawn(entries)' /\ FramesSeen(toServer)'
<1>1. /\ pending \in Seq(Listings) /\ entries \in Seq(Listings)
      /\ Undrawn(pending) /\ Drawn(entries) /\ FramesSeen(toServer)
  BY DEF BarOK, Seen
<1>2. toServer' = toServer
  BY DEF OnHandleEvent
<1> DEFINE From(a, b) ==
             \A k \in 1 .. Len(b) : \E j \in 1 .. Len(a) :
               b[k].id = a[j].id /\ b[k].left = a[j].left /\ b[k].width = a[j].width
<1>3. From(pending, pending') /\ From(entries, entries')
  <2>1. CASE e.kind = "name"
    <3>1. pending' = Renamed(pending, e) /\ entries' = Renamed(entries, e)
      BY <2>1 DEF OnHandleEvent
    <3>2. e.name \in Names
      BY <2>1, WordsAreTyped
    <3>3. ASSUME NEW a \in Seq(Listings) PROVE From(a, Renamed(a, e))
      <4>1. /\ Len(Renamed(a, e)) = Len(a)
            /\ \A k \in 1 .. Len(a) : /\ Renamed(a, e)[k].id = a[k].id
                                      /\ Renamed(a, e)[k].left = a[k].left
                                      /\ Renamed(a, e)[k].width = a[k].width
        BY <3>2, RenamedInPlace
      <4> QED
        BY <4>1
    <3> HIDE DEF From
    <3> QED
      BY <1>1, <3>1, <3>3
  <2>2. CASE e.kind = "state"
    <3>1. pending' = Restated(pending, e) /\ entries' = Restated(entries, e)
      BY <2>2 DEF OnHandleEvent
    <3>2. e.active \in BOOLEAN
      BY <2>2, WordsAreTyped DEF Tells
    <3>3. ASSUME NEW a \in Seq(Listings) PROVE From(a, Restated(a, e))
      <4>1. /\ Len(Restated(a, e)) = Len(a)
            /\ \A k \in 1 .. Len(a) :
                 /\ Restated(a, e)[k].id = a[k].id
                 /\ Restated(a, e)[k].active = IF a[k].id = e.id THEN e.active ELSE a[k].active
                 /\ Restated(a, e)[k].left = a[k].left
                 /\ Restated(a, e)[k].width = a[k].width
        BY <3>2, RestatedInPlace
      <4> QED
        BY <4>1
    <3> HIDE DEF From
    <3> QED
      BY <1>1, <3>1, <3>3
  <2>3. CASE e.kind = "removed"
    <3>1. pending' = Without(pending, e.id) /\ entries' = Without(entries, e.id)
      BY <2>3 DEF OnHandleEvent
    <3>2. ASSUME NEW a \in Seq(Listings), Ascending(a) PROVE From(a, Without(a, e.id))
      <4>1. PICK i : i = e.id
        OBVIOUS
      <4>2. \A k \in 1 .. Len(Without(a, i)) : \E j \in 1 .. Len(a) : Without(a, i)[k] = a[j]
        BY <3>2, TakenOut
      <4> QED
        BY <4>1, <4>2
    <3>3. Ascending(entries) /\ Ascending(pending)
      BY BarLists
    <3> HIDE DEF From
    <3> QED
      BY <1>1, <3>1, <3>2, <3>3
  <2> QED
    BY <2>1, <2>2, <2>3
<1>4. Undrawn(pending)'
  BY <1>1, <1>3 DEF Undrawn
<1>5. PICK es : es = entries'
  OBVIOUS
<1>6. Drawn(es)
  BY <1>1, <1>3, <1>5, PlacesKept
<1>7. Drawn(entries)' /\ FramesSeen(toServer)'
  BY <1>1, <1>2, <1>5, <1>6, SamePlaces, SameFrames
<1> QED
  BY <1>4, <1>7

(* At the end of a batch the bar draws its list, and every entry gets the   *)
(* place at which it is drawn.                                              *)
LEMMA DoneSeen ==
  ASSUME WholeInv, running, Seen, OnDone, UNCHANGED <<live, nextId, handles>>
  PROVE  Undrawn(pending)' /\ Drawn(entries)' /\ FramesSeen(toServer)'
<1>0. PICK es : es = entries \o pending
  OBVIOUS
<1>1. pending' = << >> /\ UpdateVisibility(Sorted(pending, entries))
  BY DEF OnDone
<1>2. /\ pending \in Seq(Listings) /\ entries \in Seq(Listings) /\ Ascending(es)
      /\ toServer \in Seq(Requests) /\ mine \in Nat /\ layers \in Nat /\ handles \subseteq Ids
      /\ Undrawn(pending) /\ Drawn(entries) /\ FramesSeen(toServer)
  BY <1>0 DEF WholeInv, BarOK, WholeRequests, Seen, Typed
<1>3. Sorted(pending, entries) = es
  BY <1>0, <1>2, SortedAlready
<1>4. es \in Seq(Listings) /\ Listed(es) = Listed(entries) \cup Listed(pending)
  BY <1>0, <1>2, Joined
<1>5. Undrawn(pending)'
  <2>1. Len(<< >>) = 0 /\ 1 .. 0 = {}
    OBVIOUS
  <2> QED
    BY <1>1, <2>1 DEF Undrawn
<1>6. Drawn(es)
  <2>1. /\ Len(es) = Len(entries) + Len(pending) /\ Len(entries) \in Nat /\ Len(pending) \in Nat
        /\ \A k \in 1 .. Len(entries) : es[k] = entries[k]
        /\ \A k \in 1 .. Len(es) : ~(k <= Len(entries)) => es[k] = pending[k - Len(entries)]
    BY <1>0, <1>2
  <2>2. PICK ts \in Seq(Listings) :
          TilesSeen(ts) /\ \A k \in 1 .. Len(entries) : Placed(ts, entries[k])
    BY <1>2 DEF Drawn
  <2> SUFFICES ASSUME NEW k \in 1 .. Len(es) PROVE Placed(ts, es[k])
    BY <2>2 DEF Drawn
  <2>3. CASE k <= Len(entries)
    <3>1. k \in 1 .. Len(entries)
      BY <2>1, <2>3
    <3> QED
      BY <2>1, <2>2, <3>1
  <2>4. CASE ~(k <= Len(entries))
    <3>1. k - Len(entries) \in 1 .. Len(pending)
      BY <2>1, <2>4
    <3>2. es[k].width = 0
      BY <1>2, <2>1, <2>4, <3>1 DEF Undrawn
    <3> QED
      BY <3>2 DEF Placed
  <2> QED
    BY <2>3, <2>4
<1>7. PICK s : s = toServer'
  OBVIOUS
<1>8. CASE CreateLayer /\ entries' = es
  <2> DEFINE r == Event("layer", layers + 1)
             c == Commit(layers + 1, None)
  <2>1. s = toServer \o << r, c >>
    BY <1>7, <1>8 DEF CreateLayer
  <2>2. r \in Requests /\ c \in Requests /\ r.kind # "commit" /\ c.frame = None
    <3>1. layers + 1 \in Nat
      BY <1>2
    <3> QED
      BY <3>1 DEF Requests, Event, Commit
  <2> HIDE DEF r, c
  <2>3. << r, c >> \in Seq(Requests) /\ Len(<< r, c >>) = 2
        /\ << r, c >>[1] = r /\ << r, c >>[2] = c
    BY <2>2
  <2>4. PICK t : t = << r, c >>
    OBVIOUS
  <2>5. t \in Seq(Requests) /\ Len(t) = 2 /\ t[1] = r /\ t[2] = c
    BY <2>3, <2>4
  <2>6. /\ Len(s) = Len(toServer) + 2 /\ Len(toServer) \in Nat
        /\ \A k \in 1 .. Len(toServer) : s[k] = toServer[k]
        /\ \A k \in 1 .. Len(s) : ~(k <= Len(toServer)) => s[k] = t[k - Len(toServer)]
    BY <1>2, <2>1, <2>4, <2>5
  <2>7. FramesSeen(s)
    <3> SUFFICES ASSUME NEW k \in 1 .. Len(s), s[k].kind = "commit" PROVE FrameSeen(s[k].frame)
      BY DEF FramesSeen
    <3>1. CASE k <= Len(toServer)
      <4>1. k \in 1 .. Len(toServer)
        BY <2>6, <3>1
      <4> QED
        BY <1>2, <2>6, <4>1 DEF FramesSeen
    <3>2. CASE ~(k <= Len(toServer))
      <4>1. k - Len(toServer) = 1 \/ k - Len(toServer) = 2
        BY <2>6, <3>2
      <4>2. s[k] = r \/ s[k] = c
        BY <2>5, <2>6, <3>2, <4>1
      <4> QED
        BY <2>2, <4>2 DEF FrameSeen
    <3> QED
      BY <3>1, <3>2
  <2> QED
    BY <1>5, <1>6, <1>7, <1>8, <2>7, SamePlaces, SameFrames
<1>9. CASE DestroyLayer /\ entries' = es
  <2>1. PICK r : r = Event("destroy", mine)
    OBVIOUS
  <2>2. s = Append(toServer, r)
    BY <1>7, <1>9, <2>1 DEF DestroyLayer
  <2>3. r \in Requests /\ r.kind = "destroy"
    BY <1>2, <2>1 DEF Requests, Event
  <2>4. FramesSeen(s)
    BY <1>2, <2>2, <2>3, OneFrameMore
  <2> QED
    BY <1>5, <1>6, <1>7, <1>9, <2>4, SamePlaces, SameFrames
<1>10. CASE Draw(es, toServer)
  <2>1. PICK v \in Views :
          /\ Now(v) /\ \A i \in v.known : Mentioned(i) /\ i \in Ids
          /\ \A i \in v.known : \A j \in handles : j <= i => j \in v.known
    BY KnownUpTo
  <2>2. v.known = Listed(es)
    BY <1>4, <2>1 DEF Now
  <2> QED
    BY <1>2, <1>4, <1>5, <1>10, <2>1, <2>2, DrawnSeen
<1>11. CASE entries' = es /\ toServer' = toServer
  BY <1>2, <1>5, <1>6, <1>11, SamePlaces, SameFrames
<1> QED
  BY <1>1, <1>3, <1>8, <1>9, <1>10, <1>11 DEF UpdateVisibility

(* So it does when its surface is configured.                               *)
LEMMA ConfigureSeen ==
  ASSUME WholeInv, running, Seen, NEW e, toBar # << >>, e = Head(toBar),
         e.kind = "configure", OnConfigure(e), UNCHANGED <<live, nextId, handles>>
  PROVE  Undrawn(pending)' /\ Drawn(entries)' /\ FramesSeen(toServer)'
<1>1. /\ pending \in Seq(Listings) /\ entries \in Seq(Listings) /\ Ascending(entries)
      /\ toServer \in Seq(Requests) /\ handles \subseteq Ids
      /\ Undrawn(pending) /\ Drawn(entries) /\ FramesSeen(toServer)
  BY BarLists DEF WholeInv, BarOK, WholeRequests, Seen, Typed
<1>2. pending' = pending
  BY DEF OnConfigure, barVars
<1>3. Undrawn(pending)'
  BY <1>1, <1>2 DEF Undrawn
<1>4. CASE UNCHANGED <<toServer, entries>>
  BY <1>1, <1>3, <1>4, SamePlaces, SameFrames
<1>5. CASE Draw(entries, toServer)
  <2>0. PICK v \in Views :
          /\ Now(v) /\ \A i \in v.known : Mentioned(i) /\ i \in Ids
          /\ \A i \in v.known : \A j \in handles : j <= i => j \in v.known
          /\ toBar # << >> => InOrder(v, Head(toBar))
    BY KnownUpTo
  <2>1. pending = << >>
    BY <2>0 DEF InOrder, Now
  <2>2. Listed(<< >>) = {}
    BY DEF Listed
  <2>3. v.known = Listed(entries)
    BY <2>0, <2>1, <2>2 DEF Now
  <2> QED
    BY <1>1, <1>3, <1>5, <2>0, <2>3, DrawnSeen
<1> QED
  BY <1>4, <1>5 DEF OnConfigure, barVars

(* A press changes neither lists nor places.                                *)
LEMMA PressHeardSeen ==
  ASSUME WholeInv, Seen, NEW e, OnPress(e), UNCHANGED <<live, nextId, handles>>
  PROVE  Undrawn(pending)' /\ Drawn(entries)' /\ FramesSeen(toServer)'
<1>1. /\ entries \in Seq(Listings) /\ toServer \in Seq(Requests)
      /\ Undrawn(pending) /\ Drawn(entries) /\ FramesSeen(toServer)
  BY DEF WholeInv, BarOK, WholeRequests, Seen
<1>2. pending' = pending /\ entries' = entries
  BY DEF OnPress, barVars
<1>3. Undrawn(pending)'
  BY <1>1, <1>2 DEF Undrawn
<1>4. PICK s : s = toServer'
  OBVIOUS
<1>5. FramesSeen(s)
  <2>1. CASE Hit(e.at) = {} \/ e.id # mine
    BY <1>1, <1>4, <2>1 DEF OnPress
  <2>2. CASE Hit(e.at) # {} /\ e.id = mine
    <3>1. PICK r : r = Event("activate", entries[Lowest(Hit(e.at))].id)
      OBVIOUS
    <3>2. s = Append(toServer, r)
      BY <1>4, <2>2, <3>1 DEF OnPress
    <3>3. entries[Lowest(Hit(e.at))].id \in Nat
      BY <1>1, <2>2, HitIsThere, IdsAreNumbers
    <3>4. r \in Requests /\ r.kind = "activate"
      BY <3>1, <3>3 DEF Requests, Event
    <3> QED
      BY <1>1, <3>2, <3>4, OneFrameMore
  <2> QED
    BY <2>1, <2>2
<1> QED
  BY <1>1, <1>2, <1>3, <1>4, <1>5, SamePlaces, SameFrames

(* The bar handles one event.                                               *)
LEMMA EventSeen ==
  ASSUME WholeInv, running, Seen, HandleEvent
  PROVE  Seen'
<1> DEFINE e == Head(toBar)
<1>1. /\ toBar # << >> /\ toBar' = Tail(toBar)
      /\ UNCHANGED <<live, nextId, handles, screen>>
      /\ \/ e.kind = "workspace" /\ OnWorkspace(e)
         \/ e.kind \in {"name", "state", "removed"} /\ OnHandleEvent(e)
         \/ e.kind = "done" /\ OnDone
         \/ e.kind = "configure" /\ OnConfigure(e)
         \/ e.kind = "press" /\ OnPress(e)
  BY DEF HandleEvent, wsVars, instVars, mapVars
<1>2. toBar \in Seq(Events) /\ PressesSeen(toBar) /\ FrameSeen(screen) /\ BarOK
  BY DEF WholeInv, Typed, Seen
<1>3. e \in Events
  BY <1>1, <1>2
<1> HIDE DEF e
<1>4. Undrawn(pending)' /\ Drawn(entries)' /\ FramesSeen(toServer)'
  <2>1. CASE e.kind = "workspace" /\ OnWorkspace(e)
    BY <1>1, <1>2, <1>3, <2>1, EventKinds, WorkspaceSeen
  <2>2. CASE e.kind \in {"name", "state", "removed"} /\ OnHandleEvent(e)
    BY <1>1, <1>2, <1>3, <2>2, EventKinds, HandleEventSeen
  <2>3. CASE e.kind = "done" /\ OnDone
    BY <1>1, <2>3, DoneSeen
  <2>4. CASE e.kind = "configure" /\ OnConfigure(e)
    BY <1>1, <2>4, ConfigureSeen DEF e
  <2>5. CASE e.kind = "press" /\ OnPress(e)
    BY <1>1, <2>5, PressHeardSeen
  <2> QED
    BY <1>1, <2>1, <2>2, <2>3, <2>4, <2>5
<1>5. FrameSeen(screen)'
  BY <1>1, <1>2 DEF FrameSeen, TilesSeen, SeenAt, Mentioned
<1>6. PressesSeen(toBar)'
  <2>1. PICK q : q = Tail(toBar)
    OBVIOUS
  <2>2. /\ Len(q) = Len(toBar) - 1 /\ Len(toBar) \in Nat \ {0}
        /\ \A k \in 1 .. Len(toBar) - 1 : q[k] = toBar[k + 1]
    BY <1>1, <1>2, <2>1
  <2>3. \A k \in 1 .. Len(toBar) - 1 : k + 1 \in 1 .. Len(toBar)
    BY <2>2
  <2>4. PressesSeen(q)
    BY <1>2, <2>2, <2>3 DEF PressesSeen
  <2> QED
    BY <1>1, <2>1, <2>4 DEF PressesSeen, PressSeen, TilesSeen, SeenAt, Mentioned
<1> QED
  BY <1>4, <1>5, <1>6 DEF Seen

(* The server tells of no presses while it refreshes.                       *)
LEMMA BatchHasNoPress ==
  ASSUME Typed
  PROVE  \A k \in 1 .. Len(Batch(Updates)) : Batch(Updates)[k].kind # "press"
<1>1. PICK q : q = Updates
  OBVIOUS
<1>2. q \in Seq(Words) /\ \A k \in 1 .. Len(q) : q[k].kind # "press"
  <2>1. q \in Seq(Words)
    BY <1>1, UpdatesTold
  <2>2. \A k \in 1 .. Len(q) : q[k] \in Words
    BY <2>1
  <2> QED
    BY <2>1, <2>2, WordsAreTyped
<1>3. PICK e : e = Event("done", 0)
  OBVIOUS
<1>4. CASE q = << >>
  BY <1>1, <1>2, <1>4 DEF Batch
<1>5. CASE q # << >>
  <2>1. Batch(Updates) = Append(q, e) /\ e.kind = "done"
    BY <1>1, <1>3, <1>5 DEF Batch, Event
  <2>2. /\ Len(Append(q, e)) = Len(q) + 1 /\ Len(q) \in Nat
        /\ \A k \in 1 .. Len(q) : Append(q, e)[k] = q[k]
        /\ Append(q, e)[Len(q) + 1] = e
    BY <1>2
  <2>3. \A k \in 1 .. Len(q) + 1 : k \in 1 .. Len(q) \/ k = Len(q) + 1
    BY <2>2
  <2> QED
    BY <1>2, <2>1, <2>2, <2>3
<1> QED
  BY <1>4, <1>5

(* A step of the server that says nothing to the bar.                       *)
LEMMA QuietSeen ==
  ASSUME WholeInv, running, Seen, handles' = handles, live' \subseteq live \cup {nextId},
         nextId' \in Nat, nextId <= nextId', UNCHANGED <<barVars, toServer, screen, toBar>>
  PROVE  Seen'
<1>1. Typed
  BY DEF WholeInv
<1>2. << >> \in Seq(Events) /\ \A k \in 1 .. Len(<< >>) : << >>[k].kind # "press"
  OBVIOUS
<1>3. toBar' = toBar \o << >>
  BY <1>1 DEF Typed
<1>4. \A i \in Ids : Mentioned(i) => Mentioned(i)'
  BY <1>1, MentionedStays
<1> QED
  BY <1>2, <1>3, <1>4, ServerSeen

(* A refresh, which gives and takes handles.                                *)
LEMMA RefreshSeen ==
  ASSUME WholeInv, running, Seen, Refresh
  PROVE  Seen'
<1>1. Typed /\ IdsGrow /\ bound
  BY DEF WholeInv, InStep
<1>2. /\ toBar' = toBar \o Batch(Updates) /\ handles' = live
      /\ UNCHANGED <<live, nextId, barVars, toServer, screen>>
  BY <1>1 DEF Refresh, wsVars, mapVars
<1>3. \A i \in Ids : Mentioned(i) => Mentioned(i)'
  BY <1>2 DEF Mentioned
<1>4. Batch(Updates) \in Seq(Events)
  <2>1. PICK V : Path(V, toBar) /\ Whole(V[Len(toBar)])
    BY DEF WholeInv, InStep, OnePath
  <2>2. Len(toBar) \in 0 .. Len(toBar)
    BY <1>1 DEF Typed
  <2>3. V[Len(toBar)] \in Views /\ V[Len(toBar)].known \subseteq V[Len(toBar)].ever
    BY <2>1, <2>2 DEF Path
  <2> QED
    BY <1>1, <2>1, <2>3, BatchPath
<1>5. PICK c : c = Batch(Updates)
  OBVIOUS
<1>6. c \in Seq(Events) /\ toBar' = toBar \o c /\ \A k \in 1 .. Len(c) : c[k].kind # "press"
  BY <1>1, <1>2, <1>4, <1>5, BatchHasNoPress
<1> QED
  BY <1>2, <1>3, <1>6, ServerSeen

(* Every step keeps it.                                                     *)
LEMMA SeenSteps == ClickInv /\ [Next]_vars => ClickInv'
<1> SUFFICES ASSUME ClickInv, [Next]_vars PROVE ClickInv'
  OBVIOUS
<1>1. WholeInv /\ WholeInv'
  BY WholeSteps DEF ClickInv
<1> SUFFICES ASSUME running' PROVE Seen'
  BY <1>1 DEF ClickInv
<1>2. running
  BY DEF Next, NewFrame, FrameDies, IpcSwitch, TitleChanged, BeginTick, ProcessAction,
         DetectDead, Refresh, HandleRequest, ClientGone, Cleanup, HandleEvent, BarExits,
         Click, vars
<1>3. Seen
  BY <1>2 DEF ClickInv
<1>4. nextId \in Nat /\ nextId <= nextId /\ nextId + 1 \in Nat /\ nextId <= nextId + 1
  BY <1>1 DEF WholeInv, Typed
<1>5. CASE NewFrame
  <2>1. /\ live' = live \cup {nextId} /\ nextId' = nextId + 1 /\ handles' = handles
        /\ UNCHANGED <<barVars, toServer, screen, toBar>>
    BY <1>5 DEF NewFrame, instVars
  <2> QED
    BY <1>1, <1>2, <1>3, <1>4, <2>1, QuietSeen
<1>6. CASE \/ BeginTick \/ ProcessAction \/ DetectDead \/ UNCHANGED vars
           \/ \E i \in Ids : FrameDies(i) \/ IpcSwitch(i)
           \/ \E i \in Ids, title \in Titles : TitleChanged(i, title)
  <2>1. /\ live' \subseteq live /\ nextId' = nextId /\ handles' = handles
        /\ UNCHANGED <<barVars, toServer, screen, toBar>>
    BY <1>6 DEF FrameDies, IpcSwitch, TitleChanged, BeginTick, ProcessAction, DetectDead, vars,
                wsVars, instVars, mapVars
  <2> QED
    BY <1>1, <1>2, <1>3, <1>4, <2>1, QuietSeen
<1>7. CASE Refresh BY <1>1, <1>2, <1>3, <1>7, RefreshSeen
<1>8. CASE HandleRequest BY <1>1, <1>2, <1>3, <1>8, RequestSeen
<1>9. CASE ClientGone BY <1>2, <1>9 DEF ClientGone
<1>10. CASE Cleanup BY <1>1, <1>2, <1>10 DEF Cleanup, WholeInv, InStep
<1>11. CASE HandleEvent BY <1>1, <1>2, <1>3, <1>11, EventSeen
<1>12. CASE BarExits BY <1>12 DEF BarExits
<1>13. CASE \E k \in Ids : Click(k) BY <1>1, <1>2, <1>3, <1>13, ClickSeen
<1> QED
  BY <1>5, <1>6, <1>7, <1>8, <1>9, <1>10, <1>11, <1>12, <1>13 DEF Next

(* Tiles do not overlap,                                                    *)
LEMMA TilesApart ==
  ASSUME NEW ts \in Seq(Listings), Tiled(ts), NEW j \in 1 .. Len(ts), NEW k \in 1 .. Len(ts),
         j < k
  PROVE  ts[j].left + ts[j].width <= ts[k].left
<1> DEFINE OK(m) == m \in 1 .. Len(ts) /\ j < m => ts[j].left + ts[j].width <= ts[m].left
           T == {m \in Nat : OK(m)}
<1>0. \A m \in 1 .. Len(ts) : ts[m].left \in Nat /\ ts[m].width \in Nat
  <2> SUFFICES ASSUME NEW m \in 1 .. Len(ts) PROVE ts[m] \in Listings
    BY DEF Listings
  <2> QED
    OBVIOUS
<1>1. 0 \in T
  OBVIOUS
<1>2. ASSUME NEW m \in Nat \cap T PROVE m + 1 \in T
  <2> SUFFICES ASSUME m + 1 \in 1 .. Len(ts), j < m + 1
               PROVE  ts[j].left + ts[j].width <= ts[m + 1].left
    OBVIOUS
  <2>1. m \in 1 .. Len(ts) /\ m + 1 # 1 /\ (m + 1) - 1 = m /\ (j = m \/ j < m)
    OBVIOUS
  <2>2. ts[m + 1].left = ts[m].left + ts[m].width + PillGap
    BY <2>1 DEF Tiled
  <2>3. j < m => ts[j].left + ts[j].width <= ts[m].left
    BY <2>1
  <2>4. /\ ts[m].left \in Nat /\ ts[m].width \in Nat /\ PillGap \in Nat
        /\ ts[j].left \in Nat /\ ts[j].width \in Nat
    BY <1>0, <2>1, PillAssumption
  <2>5. CASE j = m
    BY <2>2, <2>4, <2>5
  <2>6. CASE j < m
    BY <2>2, <2>3, <2>4, <2>6
  <2> QED
    BY <2>1, <2>5, <2>6
<1> HIDE DEF T
<1>3. k \in T
  BY <1>1, <1>2, AllNumbers
<1> QED
  BY <1>3 DEF T

(* and tiles as wide as those of another frame are where those are.         *)
LEMMA SameEdges ==
  ASSUME NEW ts \in Seq(Listings), Tiled(ts), NEW us \in Seq(Listings), Tiled(us),
         NEW m \in 1 .. Len(ts), m <= Len(us), \A k \in 1 .. m : ts[k].width = us[k].width
  PROVE  ts[m].left = us[m].left
<1> DEFINE T == {k \in Nat : k \in 1 .. m => ts[k].left = us[k].left}
<1>1. 0 \in T
  OBVIOUS
<1>2. ASSUME NEW k \in Nat \cap T PROVE k + 1 \in T
  <2> SUFFICES ASSUME k + 1 \in 1 .. m PROVE ts[k + 1].left = us[k + 1].left
    OBVIOUS
  <2>1. k + 1 \in 1 .. Len(ts) /\ k + 1 \in 1 .. Len(us)
    OBVIOUS
  <2>2. CASE k = 0
    BY <2>1, <2>2 DEF Tiled
  <2>3. CASE k # 0
    <3>1. k \in 1 .. m /\ k + 1 # 1 /\ (k + 1) - 1 = k
      BY <2>3
    <3>2. /\ ts[k + 1].left = ts[k].left + ts[k].width + PillGap
          /\ us[k + 1].left = us[k].left + us[k].width + PillGap
      BY <2>1, <3>1 DEF Tiled
    <3> QED
      BY <3>1, <3>2
  <2> QED
    BY <2>2, <2>3
<1> HIDE DEF T
<1>3. m \in T
  BY <1>1, <1>2, AllNumbers
<1> QED
  BY <1>3 DEF T

(* The press takes the entry that was drawn there last.                     *)
LEMMA PressHits ==
  ASSUME WholeInv, running, Seen, NEW e \in Events, e = Head(toBar), toBar # << >>,
         e.kind = "press", OnPress(e), toServer' # toServer, ~Moved(e)
  PROVE  toServer'[Len(toServer')].id = e.tiles[e.saw].id
<1>1. PICK n : n = Lowest(Hit(e.at))
  OBVIOUS
<1>2. PICK r : r = Event("activate", entries[n].id)
  OBVIOUS
<1>3. Hit(e.at) # {} /\ toServer' = Append(toServer, r)
  BY <1>1, <1>2 DEF OnPress
<1>4. /\ entries \in Seq(Listings) /\ toServer \in Seq(Requests) /\ toBar \in Seq(Events)
      /\ Drawn(entries) /\ PressesSeen(toBar) /\ BarOK
  BY DEF WholeInv, Typed, BarOK, WholeRequests, Seen
<1>5. toServer'[Len(toServer')].id = entries[n].id
  <2>1. Len(toServer') = Len(toServer) + 1 /\ toServer'[Len(toServer) + 1] = r
    BY <1>3, <1>4
  <2> QED
    BY <1>2, <2>1 DEF Event
<1>6. n \in 1 .. Len(entries) /\ Within(entries[n], e.at)
  BY <1>1, <1>3, <1>4, HitIsThere
<1>7. PICK us : us = e.tiles
  OBVIOUS
<1>8. PICK p : p = e.saw
  OBVIOUS
<1>9. /\ us \in Seq(Listings) /\ TilesSeen(us) /\ p \in 1 .. Len(us) /\ p \in Nat
      /\ Within(us[p], e.at) /\ e.at \in Nat
  <2>1. 1 \in 1 .. Len(toBar) /\ toBar[1] = e
    BY <1>4
  <2>2. PressSeen(e)
    BY <1>4, <2>1 DEF PressesSeen
  <2>3. e.tiles \in Seq(Listings) /\ e.saw \in Nat /\ e.at \in Nat
    BY DEF Events, Words, Done
  <2> QED
    BY <1>7, <1>8, <2>2, <2>3 DEF PressSeen
<1>10. PICK ts \in Seq(Listings) :
         TilesSeen(ts) /\ \A k \in 1 .. Len(entries) : Placed(ts, entries[k])
  BY <1>4 DEF Drawn
<1>11. ASSUME NEW zs \in Seq(Listings), NEW k \in 1 .. Len(zs)
       PROVE  /\ zs[k].id \in Ids /\ zs[k].id \in Nat /\ zs[k].left \in Nat /\ zs[k].width \in Nat
  <2>1. zs[k] \in Listings
    OBVIOUS
  <2>2. zs[k].id \in Ids /\ zs[k].left \in Nat /\ zs[k].width \in Nat
    BY <2>1 DEF Listings
  <2> QED
    BY <2>2, IdsAreNumbers
(* Nothing up to the tile that the user saw has gone.                       *)
<1>12. us[p].id = p /\ 1 .. p \subseteq handles
  <2>1. us[p].id \in Nat /\ p <= us[p].id
    BY <1>9, <1>11 DEF TilesSeen, SeenAt
  <2>2. \A i \in 1 .. us[p].id : i \in Ids /\ i <= us[p].id
    BY <1>9, <1>11, BarAssumption DEF Ids
  <2>3. 1 .. us[p].id \subseteq handles
    BY <1>7, <1>8, <2>2 DEF Moved
  <2>4. 1 .. p \subseteq 1 .. us[p].id
    BY <1>9, <2>1
  <2> QED
    BY <1>9, <2>3, <2>4 DEF TilesSeen, SeenAt
<1>13. ASSUME NEW zs \in Seq(Listings), TilesSeen(zs), NEW j \in 1 .. Len(zs), j <= p
       PROVE  zs[j].id = j
  <2>1. 1 .. j \subseteq 1 .. p
    BY <1>9, <1>13
  <2> QED
    BY <1>12, <1>13, <2>1 DEF TilesSeen, SeenAt
<1>14. /\ entries[n].id \in Nat /\ entries[n].left \in Nat /\ entries[n].width \in Nat
       /\ entries[n].left <= e.at /\ e.at < entries[n].left + entries[n].width
  BY <1>4, <1>6, <1>11 DEF Within
<1>15. PICK k \in 1 .. Len(ts) : /\ entries[n].id = ts[k].id
                                 /\ entries[n].left = ts[k].left
                                 /\ entries[n].width = ts[k].width
  <2>1. entries[n].width # 0
    BY <1>9, <1>14
  <2> QED
    BY <1>6, <1>10, <2>1 DEF Placed
<1>16. k \in Nat /\ k <= ts[k].id
  BY <1>10 DEF TilesSeen, SeenAt
(* Up to there the tiles are as wide as the user saw them.                  *)
<1>17. ASSUME NEW j \in 1 .. p, j <= k
       PROVE  ts[j].width = us[j].width
  <2>1. j \in 1 .. Len(ts) /\ j \in 1 .. Len(us) /\ j \in Nat /\ j <= p
    BY <1>9, <1>16, <1>17
  <2>2. ts[j].id = j /\ us[j].id = j /\ us[j].width # 0
    BY <1>9, <1>10, <1>13, <2>1 DEF TilesSeen, Tiled
  <2>3. PICK m \in 1 .. Len(entries) : entries[m].id = j
    <3>1. PICK v \in Views :
            Now(v) /\ \A i \in v.known : \A h \in handles : h <= i => h \in v.known
      BY KnownUpTo
    <3>2. v.known = Listed(entries) \cup Listed(pending)
      BY <3>1 DEF Now
    <3>3. entries[n].id \in v.known
      BY <1>6, <3>2 DEF Listed
    <3>4. j \in handles /\ j <= entries[n].id
      BY <1>12, <1>14, <1>15, <1>16, <1>17, <2>1
    <3>5. j \in Listed(entries) \cup Listed(pending)
      BY <3>1, <3>2, <3>3, <3>4
    <3>6. \A h \in 1 .. Len(pending) : entries[n].id < pending[h].id
      BY <1>4, <1>6, BarLists
    <3>7. j \notin Listed(pending)
      BY <1>14, <2>1, <3>4, <3>6 DEF Listed
    <3> QED
      BY <3>5, <3>7 DEF Listed
  <2>4. entries[m].width = us[j].width
    BY <1>4, <1>7, <1>8, <1>9, <2>2, <2>3 DEF Moved
  <2>5. PICK h \in 1 .. Len(ts) : ts[h].id = j /\ ts[h].width = us[j].width
    BY <1>10, <2>2, <2>3, <2>4 DEF Placed
  <2>6. h <= j
    BY <1>10, <2>5 DEF TilesSeen, SeenAt
  <2>7. h = j
    BY <1>9, <1>10, <1>13, <2>1, <2>5, <2>6
  <2> QED
    BY <2>5, <2>7
<1>18. CASE k = p
  BY <1>5, <1>7, <1>8, <1>10, <1>12, <1>13, <1>15, <1>18
<1>19. CASE k < p
  <2>1. k \in 1 .. Len(us) /\ k <= Len(us) /\ \A j \in 1 .. k : ts[j].width = us[j].width
    BY <1>9, <1>16, <1>17, <1>19
  <2>2. ts[k].left = us[k].left /\ ts[k].width = us[k].width
    BY <1>9, <1>10, <1>16, <2>1, SameEdges DEF TilesSeen
  <2>3. us[k].left + us[k].width <= us[p].left
    BY <1>9, <1>19, <2>1, TilesApart DEF TilesSeen
  <2>4. us[p].left <= e.at
    BY <1>9 DEF Within
  <2>5. us[k].left \in Nat /\ us[k].width \in Nat /\ us[p].left \in Nat
    BY <1>9, <1>11, <2>1
  <2> QED
    BY <1>9, <1>14, <1>15, <2>2, <2>3, <2>4, <2>5
<1>20. CASE p < k
  <2>1. p \in 1 .. Len(ts) /\ p <= Len(us) /\ \A j \in 1 .. p : ts[j].width = us[j].width
    BY <1>9, <1>16, <1>17, <1>20
  <2>2. ts[p].left = us[p].left /\ ts[p].width = us[p].width
    BY <1>9, <1>10, <2>1, SameEdges DEF TilesSeen
  <2>3. ts[p].left + ts[p].width <= ts[k].left
    BY <1>10, <1>20, <2>1, TilesApart DEF TilesSeen
  <2>4. e.at < us[p].left + us[p].width
    BY <1>9 DEF Within
  <2>5. ts[p].left \in Nat /\ ts[p].width \in Nat
    BY <1>10, <1>11, <2>1
  <2> QED
    BY <1>9, <1>14, <1>15, <2>2, <2>3, <2>4, <2>5
<1> QED
  BY <1>9, <1>16, <1>18, <1>19, <1>20

(* A click reaches the workspace that the user saw, unless its tile or one  *)
(* before it has gone or is drawn with another width by then (handle_click, *)
(* hit_test and draw of the bar).                                           *)
THEOREM BarClicksHit == Spec => ClickHitsSeen
<1>1. Init => ClickInv
  <2> SUFFICES ASSUME Init PROVE Seen
    BY WholeAtFirst DEF ClickInv
  <2>1. Len(<< >>) = 0 /\ 1 .. 0 = {}
    OBVIOUS
  <2>2. Drawn(<< >>)
    <3>1. PICK ts : ts = << >>
      OBVIOUS
    <3>2. ts \in Seq(Listings) /\ Len(ts) = 0
      BY <3>1
    <3> QED
      BY <2>1, <3>2 DEF Drawn, TilesSeen, Tiled
  <2> QED
    BY <2>1, <2>2 DEF Init, BarInit, Seen, Undrawn, FramesSeen, FrameSeen, PressesSeen
<1>2. ClickInv /\ [Next]_vars
        => [running /\ toBar # <<>> /\ toBar' = Tail(toBar) /\ Head(toBar).kind = "press"
              /\ toServer' # toServer
            => LET press == Head(toBar)
               IN toServer'[Len(toServer')].id = press.tiles[press.saw].id \/ Moved(press)]_vars
  <2> SUFFICES ASSUME ClickInv, [Next]_vars, running, toBar # << >>, toBar' = Tail(toBar),
                      Head(toBar).kind = "press", toServer' # toServer, ~Moved(Head(toBar))
               PROVE  toServer'[Len(toServer')].id = Head(toBar).tiles[Head(toBar).saw].id
    OBVIOUS
  <2>1. WholeInv /\ Seen /\ toBar \in Seq(Events)
    BY DEF ClickInv, WholeInv, Typed
  <2>2. Len(toBar') = Len(toBar) - 1 /\ Len(toBar) \in Nat
    <3>1. \A q \in Seq(Events) : q # << >> => Len(Tail(q)) = Len(q) - 1 /\ Len(q) \in Nat
      OBVIOUS
    <3> QED
      BY <2>1, <3>1
  <2>3. CASE HandleEvent
    <3>1. PICK e : e = Head(toBar)
      OBVIOUS
    <3>2. e \in Events /\ e.kind = "press" /\ OnPress(e)
      BY <2>1, <2>3, <3>1 DEF HandleEvent
    <3> QED
      BY <2>1, <3>1, <3>2, PressHits
  <2>4. CASE HandleRequest
    <3>1. \A x : Len(Append(toBar, x)) = Len(toBar) + 1
      BY <2>1
    <3>2. toBar' = toBar \/ \E x : toBar' = Append(toBar, x)
      BY <2>4 DEF HandleRequest, NewLayerSurface, LayerCommit, LayerDestroyed, Activate, Send
    <3>3. Len(toBar') = Len(toBar) \/ Len(toBar') = Len(toBar) + 1
      BY <3>1, <3>2
    <3>4. \A m \in Nat : \A n : n = m - 1 => ~(n = m \/ n = m + 1)
      OBVIOUS
    <3>5. Len(toBar) \in Nat /\ Len(toBar') = Len(toBar) - 1
      BY <2>2
    <3> QED
      BY <3>3, <3>4, <3>5
  <2>5. CASE ~HandleEvent /\ ~HandleRequest
    <3>1. toServer' = toServer
      BY <2>5 DEF Next, NewFrame, FrameDies, IpcSwitch, TitleChanged, BeginTick, ProcessAction,
                  DetectDead, Refresh, ClientGone, Cleanup, BarExits, Click, vars
    <3> QED
      BY <3>1
  <2> QED
    BY <2>3, <2>4, <2>5
<1>3. ClickInv /\ [Next]_vars => ClickInv'
  BY SeenSteps
<1> QED
  BY <1>1, <1>2, <1>3, PTL DEF Spec, ClickHitsSeen

=============================================================================
