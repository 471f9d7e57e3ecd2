----------------------------- MODULE ImeProofs -----------------------------
(* Ime for any clients, carets and bounds: its types, that the caret shown  *)
(* is the owner's own, that the owner settles on the client with the        *)
(* keyboard and text goes there, and that the host follows the bridge.      *)
(* CaretIsOwners is not inductive: it needs that the seat's text input      *)
(* follows the focused surface, that a tip owner is that surface, that the  *)
(* cache holds each client's own carets, and that a caret that differs from *)
(* the snapshot was reported by the tip owner.  OwnerSettles needs what is  *)
(* on its way through the four queues between a client and the bridge.      *)
EXTENDS Ime, TLAPS

(* The text input's focus and a tip owner are where the keyboard is.        *)
Placed ==
  /\ focusedSurface # None => tiFocus = focusedSurface
  /\ owner.kind = "tip" => owner.app = focusedSurface

OwnRects(rects) == \A a \in Apps : rects[a] # NoRect => rects[a].by = a

(* News for the tip owner is from the tip owner.                            *)
NewsIsOwners ==
  owner.kind = "tip" /\ tiRect.caret \notin {0, tipSnapshot} => tiRect.by = owner.app

(* TypeOK's part about the owner and its caret, with what is shown of it.   *)
OwnerTyped ==
  /\ owner \in Owners /\ origin \in Places /\ cursor \in Areas
  /\ cursorIsReal \in BOOLEAN /\ tipSnapshot \in Carets \cup {0}
  /\ settling \in BOOLEAN /\ received \in BOOLEAN
  /\ owner = NoOwner => cursor = NoArea /\ ~cursorIsReal
  /\ owner.kind = "dbus" => (cursor # NoArea <=> cursorIsReal)

OwnerOK == OwnerTyped /\ CaretIsOwners /\ NewsIsOwners
CacheOK == cache \in [Apps -> Rects] /\ OwnRects(cache)
Inv == TypeOK /\ Placed /\ OwnRects(cache) /\ CaretIsOwners /\ NewsIsOwners

(* The rest of TypeOK, by the parts that actions leave alone together.      *)
SeatTyped ==
  /\ phase \in {"dispatch", "drain"}
  /\ keyboard \in Places /\ alive \subseteq Apps /\ bound \subseteq TipApps
  /\ tiFocus \in Places /\ tiRect \in Rects /\ focusedSurface \in Places
  /\ prefixActive \in BOOLEAN
  /\ moves \in 0..MaxMoves /\ reports \in 0..MaxReports

HostTyped ==
  /\ lastAllowed \in BOOLEAN /\ lastArea \in Areas
  /\ hostAllowed \in BOOLEAN /\ hostArea \in Areas

WireTyped ==
  /\ inbox \in [IcApps -> Seq({"enter", "leave"})] /\ pipe \in [IcApps -> Seq(Calls)]
  /\ events \in Seq(Calls) /\ draining \in Seq(Calls) /\ placed \in Places

(* The invariant is its parts, before a step and after it.                  *)
LEMMA InvParts ==
  /\ Inv <=> OwnerOK /\ CacheOK /\ SeatTyped /\ HostTyped /\ WireTyped /\ Placed
  /\ Inv' <=> OwnerOK' /\ CacheOK' /\ SeatTyped' /\ HostTyped' /\ WireTyped' /\ Placed'
BY DEF Inv, TypeOK, OwnerOK, OwnerTyped, CacheOK, SeatTyped, HostTyped, WireTyped

(* None is no client, and no caret of a client is none at all.              *)
LEMMA Names ==
  /\ None \notin Apps /\ TipApps \subseteq Apps /\ IcApps \subseteq Apps
  /\ NoRect \in Rects /\ NoArea \in Areas /\ NoOwner \in Owners
  /\ \A a \in Apps, v \in Carets \cup {0} :
       /\ Rect(a, v) \in Rects /\ Rect(a, v) # NoRect
       /\ Rect(a, v).by = a /\ Rect(a, v).caret = v
  /\ \A r \in Rects, at \in Places :
       /\ Area(at, r) \in Areas /\ Area(at, r).at = at /\ Area(at, r).rect = r
       /\ r # NoRect => Area(at, r) # NoArea
BY AppsAssumption DEF Apps, NoRect, NoArea, Rect, Area, Rects, Areas, Places, Owners

(* Owners are of three kinds, and only NoOwner is of no client.             *)
LEMMA Kinds ==
  /\ \A a : /\ Tip(a).kind = "tip" /\ Tip(a).app = a
            /\ Dbus(a).kind = "dbus" /\ Dbus(a).app = a
            /\ Tip(a) # NoOwner /\ Dbus(a) # NoOwner
  /\ NoOwner.kind = "none"
  /\ \A o \in Owners :
       /\ o.kind = "none" <=> o = NoOwner
       /\ o.kind = "tip" => o.app \in TipApps /\ o = Tip(o.app)
       /\ o.kind = "dbus" => o.app \in IcApps /\ o = Dbus(o.app)
       /\ o # NoOwner => o.app \in Apps /\ o.kind \in {"tip", "dbus"}
BY DEF Tip, Dbus, NoOwner, Owners, Apps

(* set_owner for another owner: its caret is from the cache, or none, and   *)
(* the seat's rectangle is no news.                                         *)
LEMMA OwnKeeps ==
  ASSUME NEW new \in Owners, NEW at \in Places, NEW rects \in [Apps -> Rects],
         OwnRects(rects), tiRect \in Rects, tiRect' = tiRect,
         new.kind = "tip" => at = new.app,
         Own(new, at, rects)
  PROVE  OwnerOK'
<1>1. owner' = new BY DEF Own
<1>2. /\ origin' \in Places /\ settling' \in BOOLEAN /\ received' \in BOOLEAN
      /\ cursorIsReal' \in BOOLEAN
  BY DEF Own, Places
<1>3. tipSnapshot' \in Carets \cup {0}
  BY DEF Own, Rects
<1>4. NewsIsOwners'
  BY DEF Own, NewsIsOwners
<1>5. CASE new = NoOwner
  <2>1. cursor' = NoArea /\ ~cursorIsReal' BY <1>5, Kinds DEF Own
  <2>2. new.kind = "none" BY <1>5, Kinds
  <2> QED BY <1>1, <1>2, <1>3, <1>4, <2>1, <2>2, Names DEF OwnerOK, OwnerTyped, CaretIsOwners
<1>6. CASE new # NoOwner
  <2>1. new.app \in Apps /\ new.kind \in {"tip", "dbus"} BY <1>6, Kinds
  <2>2. rects[new.app] \in Rects BY <2>1
  <2>3. CASE rects[new.app] # NoRect
    <3>1. cursor' = Area(at, rects[new.app]) /\ cursorIsReal'
      BY <2>1, <2>3 DEF Own
    <3>2. rects[new.app].by = new.app BY <2>1, <2>3 DEF OwnRects
    <3>3. /\ cursor' \in Areas /\ cursor' # NoArea
          /\ cursor'.at = at /\ cursor'.rect.by = new.app
      BY <2>2, <2>3, <3>1, <3>2, Names
    <3> QED BY <1>1, <1>2, <1>3, <1>4, <1>6, <3>1, <3>3 DEF OwnerOK, OwnerTyped, CaretIsOwners
  <2>4. CASE rects[new.app] = NoRect /\ new.kind = "tip"
    <3>1. cursor' = Area(at, Rect(new.app, 0)) /\ ~cursorIsReal'
      BY <2>1, <2>4 DEF Own
    <3>2. Rect(new.app, 0) \in Rects /\ Rect(new.app, 0).by = new.app BY <2>1, Names
    <3>3. cursor' \in Areas /\ cursor'.at = at /\ cursor'.rect.by = new.app
      BY <3>1, <3>2, Names
    <3> QED BY <1>1, <1>2, <1>3, <1>4, <1>6, <2>4, <3>1, <3>3
            DEF OwnerOK, OwnerTyped, CaretIsOwners
  <2>5. CASE rects[new.app] = NoRect /\ new.kind = "dbus"
    <3>1. cursor' = NoArea /\ ~cursorIsReal' BY <2>1, <2>5 DEF Own
    <3> QED BY <1>1, <1>2, <1>3, <1>4, <1>6, <2>5, <3>1, Names
            DEF OwnerOK, OwnerTyped, CaretIsOwners
  <2> QED BY <2>1, <2>3, <2>4, <2>5
<1> QED BY <1>5, <1>6

(* set_owner: an owner that is the same keeps what it has.                  *)
LEMMA SetOwnerKeeps ==
  ASSUME NEW new \in Owners, NEW at \in Places, OwnerOK, CacheOK, tiRect \in Rects,
         tiRect' = tiRect, new.kind = "tip" => at = new.app,
         SetOwner(new, at)
  PROVE  OwnerOK' /\ owner' = new
<1>1. CASE new = owner
  BY <1>1 DEF SetOwner, ownerVars, cursorVars, OwnerOK, OwnerTyped, CaretIsOwners, NewsIsOwners
<1>2. CASE new # owner
  <2>1. Own(new, at, cache) BY <1>2 DEF SetOwner
  <2> QED BY <2>1, OwnKeeps DEF CacheOK, Own
<1> QED BY <1>1, <1>2

(* report_tip_cursor_change: what is new in the seat's rectangle is the     *)
(* owner's.                                                                 *)
LEMMA ReportTipKeeps ==
  ASSUME OwnerOK, CacheOK, tiRect \in Rects, tiRect' = tiRect, ReportTip
  PROVE  OwnerOK' /\ CacheOK' /\ owner' = owner
<1>1. CASE owner.kind = "tip" /\ tiRect.caret \notin {0, tipSnapshot}
  <2>1. /\ tipSnapshot' = tiRect.caret /\ cursorIsReal' = TRUE
        /\ cursor' = Area(owner.app, tiRect)
        /\ cache' = [cache EXCEPT ![owner.app] = tiRect]
        /\ UNCHANGED <<owner, origin, settling, received>>
    BY <1>1 DEF ReportTip
  <2>2. owner \in Owners /\ owner.app \in Apps /\ owner # NoOwner
    BY <1>1, Kinds, Names DEF OwnerOK, OwnerTyped
  <2>3. tiRect.by = owner.app BY <1>1 DEF OwnerOK, NewsIsOwners
  <2>4. tiRect.caret \in Carets \cup {0} BY DEF Rects
  <2>5. cursor' \in Areas /\ cursor'.at = owner.app /\ cursor'.rect = tiRect
    BY <2>1, <2>2, Names DEF Places
  <2>6. OwnerTyped'
    BY <1>1, <2>1, <2>2, <2>4, <2>5 DEF OwnerOK, OwnerTyped
  <2>7. CaretIsOwners' /\ NewsIsOwners'
    BY <2>1, <2>3, <2>5 DEF CaretIsOwners, NewsIsOwners
  <2>8. CacheOK'
    BY <2>1, <2>2, <2>3 DEF CacheOK, OwnRects
  <2> QED BY <2>1, <2>6, <2>7, <2>8 DEF OwnerOK
<1>2. CASE ~(owner.kind = "tip" /\ tiRect.caret \notin {0, tipSnapshot})
  BY <1>2 DEF ReportTip, ownerVars, cursorVars, OwnerOK, OwnerTyped, CaretIsOwners,
     NewsIsOwners, CacheOK, OwnRects
<1> QED BY <1>1, <1>2

(* report_dbus_cursor: only the owner's carets are taken.                   *)
LEMMA ReportDbusKeeps ==
  ASSUME NEW a \in IcApps, NEW v \in Carets \cup {0}, OwnerOK, CacheOK, tiRect \in Rects,
         tiRect' = tiRect, ReportDbus(a, v)
  PROVE  OwnerOK' /\ CacheOK' /\ owner' = owner
<1>1. CASE owner = Dbus(a) /\ ~(received /\ settling)
  <2>1. /\ cursor' = Area(origin, Rect(a, v)) /\ cursorIsReal' = TRUE /\ received' = TRUE
        /\ cache' = [cache EXCEPT ![a] = Rect(a, v)]
        /\ UNCHANGED <<owner, origin, tipSnapshot, settling>>
    BY <1>1 DEF ReportDbus
  <2>2. a \in Apps /\ Rect(a, v) \in Rects /\ Rect(a, v).by = a /\ Rect(a, v) # NoRect
    BY Names
  <2>3. cursor' \in Areas /\ cursor' # NoArea /\ cursor'.rect = Rect(a, v)
    BY <2>1, <2>2, Names DEF OwnerOK, OwnerTyped
  <2>4. owner.kind = "dbus" /\ owner.app = a /\ owner # NoOwner BY <1>1, Kinds
  <2>5. OwnerTyped'
    BY <2>1, <2>3, <2>4 DEF OwnerOK, OwnerTyped
  <2>6. CaretIsOwners' /\ NewsIsOwners'
    BY <2>1, <2>2, <2>3, <2>4 DEF CaretIsOwners, NewsIsOwners
  <2>7. CacheOK'
    BY <2>1, <2>2 DEF CacheOK, OwnRects
  <2> QED BY <2>1, <2>5, <2>6, <2>7 DEF OwnerOK
<1>2. CASE ~(owner = Dbus(a) /\ ~(received /\ settling))
  BY <1>2 DEF ReportDbus, ownerVars, cursorVars, OwnerOK, OwnerTyped, CaretIsOwners,
     NewsIsOwners, CacheOK, OwnRects
<1> QED BY <1>1, <1>2

-----------------------------------------------------------------------------
(* The initial states.                                                      *)
LEMMA InitInv == ASSUME Init PROVE Inv
<1>1. OwnerOK
  BY Names, Kinds DEF Init, OwnerOK, OwnerTyped, CaretIsOwners, NewsIsOwners, Places
<1>2. CacheOK BY Names DEF Init, CacheOK, OwnRects
<1>3. moves \in 0..MaxMoves /\ reports \in 0..MaxReports
  BY AppsAssumption DEF Init
<1>6. SeatTyped /\ HostTyped
  BY <1>3, Names DEF Init, SeatTyped, HostTyped, Places
<1>4. WireTyped BY DEF Init, WireTyped, Places
<1>5. Placed BY Kinds DEF Init, Placed
<1> QED BY <1>1, <1>2, <1>4, <1>5, <1>6, InvParts

(* The clients told of a focus change have one more event to handle.        *)
LEMMA TellTyped ==
  ASSUME NEW old, NEW new, inbox \in [IcApps -> Seq({"enter", "leave"})]
  PROVE  TellBoth(old, new) \in [IcApps -> Seq({"enter", "leave"})]
<1>1. Told(old, "leave") \in [IcApps -> Seq({"enter", "leave"})] BY DEF Told
<1> QED BY <1>1 DEF TellBoth

(* The owner wanted is the client that gets the keyboard, and has the text  *)
(* input's focus.                                                           *)
LEMMA WantedTyped ==
  ASSUME NEW new \in Places, NEW ti, bound \subseteq TipApps, new # None => ti = new
  PROVE  /\ WantedOwner(new, ti) \in Owners
         /\ WantedOwner(new, ti).kind = "tip" => WantedOwner(new, ti) = Tip(new)
BY Names, Kinds DEF WantedOwner, HasTextInput, Owners

(* What leaves the owner and its caret alone keeps what is known of them.   *)
LEMMA OwnerAlone ==
  ASSUME OwnerOK, UNCHANGED ownerVars, tiRect' = tiRect
  PROVE  OwnerOK'
BY DEF OwnerOK, OwnerTyped, CaretIsOwners, NewsIsOwners, ownerVars, cursorVars

LEMMA CacheAlone == ASSUME CacheOK, cache' = cache PROVE CacheOK'
BY DEF CacheOK, OwnRects

LEMMA HostAlone == ASSUME HostTyped, UNCHANGED hostVars PROVE HostTyped'
BY DEF HostTyped, hostVars

-----------------------------------------------------------------------------
(* One lemma per action that touches the owner, the text input or the cache *)

LEMMA FocusMovesKeeps ==
  ASSUME Inv, NEW new \in Places, FocusMoves(new)
  PROVE  Inv'
<1> USE DEF FocusMoves
<1>0. OwnerOK /\ CacheOK /\ SeatTyped /\ HostTyped /\ WireTyped /\ Placed BY InvParts
<1>1. tiFocus' \in Places /\ (new # None => tiFocus' = new)
  BY <1>0 DEF Transition, SeatTyped, Placed
<1>2. /\ WantedOwner(new, tiFocus') \in Owners
      /\ WantedOwner(new, tiFocus').kind = "tip" => WantedOwner(new, tiFocus') = Tip(new)
  BY <1>0, <1>1, WantedTyped DEF SeatTyped
<1>3. OwnerOK' /\ owner' = WantedOwner(new, tiFocus')
  BY <1>0, <1>2, Kinds, SetOwnerKeeps DEF SeatTyped
<1>4. Placed' BY <1>1, <1>2, <1>3, Kinds DEF Placed
<1>5. SeatTyped'
  <2>1. moves' \in 0..MaxMoves BY <1>0, AppsAssumption DEF SeatTyped
  <2> QED BY <1>0, <1>1, <2>1 DEF SeatTyped, Places
<1>6. WireTyped' BY <1>0, TellTyped DEF WireTyped, drainVars
<1> QED BY <1>0, <1>3, <1>4, <1>5, <1>6, CacheAlone, HostAlone, InvParts

LEMMA SwitchWorkspaceKeeps ==
  ASSUME Inv, NEW new \in Places, SwitchWorkspace(new)
  PROVE  Inv'
<1> DEFINE none == [a \in Apps |-> NoRect]
<1>0. OwnerOK /\ CacheOK /\ SeatTyped /\ HostTyped /\ WireTyped /\ Placed BY InvParts
<1>1. tiFocus' \in Places /\ (new # None => tiFocus' = new)
  BY <1>0 DEF Transition, SeatTyped, SwitchWorkspace
<1>2. /\ WantedOwner(new, tiFocus') \in Owners
      /\ WantedOwner(new, tiFocus').kind = "tip" => WantedOwner(new, tiFocus') = Tip(new)
  BY <1>0, <1>1, WantedTyped DEF SeatTyped
<1>3. none \in [Apps -> Rects] /\ OwnRects(none) BY Names DEF OwnRects
<1>4. Own(WantedOwner(new, tiFocus'), new, none) /\ tiRect' = tiRect
  BY DEF SwitchWorkspace
<1>5. tiRect \in Rects BY <1>0 DEF SeatTyped
<1>6. WantedOwner(new, tiFocus').kind = "tip" => new = WantedOwner(new, tiFocus').app
  BY <1>2, Kinds
<1>7. OwnerOK'
  <2> HIDE DEF none
  <2> QED BY <1>2, <1>3, <1>4, <1>5, <1>6, OwnKeeps
<1>8. owner' = WantedOwner(new, tiFocus') BY <1>4 DEF Own
<1>9. Placed' BY <1>1, <1>2, <1>8, Kinds DEF Placed, SwitchWorkspace
<1>10. SeatTyped'
  <2>1. moves' \in 0..MaxMoves BY <1>0, AppsAssumption DEF SeatTyped, SwitchWorkspace
  <2> QED BY <1>0, <1>1, <2>1 DEF SeatTyped, SwitchWorkspace, Places
<1>11. WireTyped' BY <1>0, TellTyped DEF WireTyped, drainVars, SwitchWorkspace
<1>12. CacheOK' BY <1>3 DEF CacheOK, SwitchWorkspace
<1> QED BY <1>0, <1>7, <1>9, <1>10, <1>11, <1>12, HostAlone, InvParts DEF SwitchWorkspace

LEMMA OnFcitxEventKeeps ==
  ASSUME Inv, OnFcitxEvent
  PROVE  Inv'
<1>0. OwnerOK /\ CacheOK /\ SeatTyped /\ HostTyped /\ WireTyped /\ Placed BY InvParts
<1> DEFINE e == Head(draining)
<1>1. /\ e \in Calls /\ draining' = Tail(draining) /\ draining \in Seq(Calls)
      /\ draining # <<>>
  BY <1>0 DEF OnFcitxEvent, WireTyped
<1>2. /\ UNCHANGED <<phase, seatVars, focusedSurface, prefixActive, hostVars, wireVars, events,
                     placed, counters>>
      /\ \/ e.kind = "in" /\ FocusIn(e)
         \/ e.kind = "out" /\ FocusOut(e)
         \/ e.kind = "rect" /\ ReportDbus(e.app, e.caret)
         \/ e.kind = "destroyed" /\ IcDestroyed(e)
  BY DEF OnFcitxEvent
<1> HIDE DEF e
<1>3. /\ e.app \in IcApps /\ e.caret \in Carets \cup {0} /\ placed \in Places
      /\ tiRect \in Rects /\ tiRect' = tiRect
  BY <1>0, <1>1, <1>2 DEF Calls, WireTyped, SeatTyped, seatVars
<1>4. Dbus(e.app) \in Owners /\ Dbus(e.app).kind = "dbus" BY <1>3, Kinds DEF Owners
<1>5. ASSUME ClearOwner PROVE OwnerOK' /\ owner' = NoOwner
  BY <1>0, <1>3, <1>5, Names, Kinds, SetOwnerKeeps DEF ClearOwner, Places
<1>6. OwnerOK' /\ CacheOK' /\ (owner' = owner \/ owner'.kind # "tip")
  <2>1. CASE FocusIn(e)
    <3>1. SetOwner(Dbus(e.app), placed) /\ cache' = cache BY <2>1 DEF FocusIn
    <3> QED BY <1>0, <1>3, <1>4, <3>1, SetOwnerKeeps, CacheAlone
  <2>2. CASE FocusOut(e)
    <3>1. CASE owner = Dbus(e.app)
      BY <1>0, <1>5, <2>2, <3>1, Kinds, CacheAlone DEF FocusOut
    <3>2. CASE owner # Dbus(e.app)
      <4>1. UNCHANGED <<ownerVars, cache>> BY <2>2, <3>2 DEF FocusOut
      <4> QED BY <1>0, <1>3, <4>1, OwnerAlone, CacheAlone DEF ownerVars
    <3> QED BY <3>1, <3>2
  <2>3. CASE ReportDbus(e.app, e.caret)
    BY <1>0, <1>3, <2>3, ReportDbusKeeps
  <2>4. CASE IcDestroyed(e)
    <3>1. CacheOK'
      BY <1>0, <2>4, Names DEF IcDestroyed, CacheOK, OwnRects
    <3>2. OwnerOK' /\ (owner' = owner \/ owner'.kind # "tip")
      <4>1. CASE owner = Dbus(e.app)
        BY <1>5, <2>4, <4>1, Kinds DEF IcDestroyed
      <4>2. CASE owner # Dbus(e.app)
        <5>1. UNCHANGED ownerVars BY <2>4, <4>2 DEF IcDestroyed
        <5> QED BY <1>0, <1>3, <5>1, OwnerAlone DEF ownerVars
      <4> QED BY <4>1, <4>2
    <3> QED BY <3>1, <3>2
  <2> QED BY <1>2, <2>1, <2>2, <2>3, <2>4
<1>7. Placed' BY <1>0, <1>2, <1>6 DEF Placed, seatVars
<1>8. SeatTyped' BY <1>0, <1>2 DEF SeatTyped, seatVars, counters
<1>9. WireTyped' BY <1>0, <1>1, <1>2 DEF WireTyped, wireVars
<1> QED BY <1>0, <1>2, <1>6, <1>7, <1>8, <1>9, HostAlone, InvParts

LEMMA PollTipFreshnessKeeps ==
  ASSUME Inv, PollTipFreshness
  PROVE  Inv'
<1>0. OwnerOK /\ CacheOK /\ SeatTyped /\ HostTyped /\ WireTyped /\ Placed BY InvParts
<1>1. /\ tiRect \in Rects /\ tiRect' = tiRect /\ tiFocus' = tiFocus
      /\ focusedSurface' = focusedSurface /\ focusedSurface \in Places
  BY <1>0 DEF SeatTyped, PollTipFreshness, seatVars
<1>2. OwnerOK' /\ CacheOK' /\ Placed'
  <2>1. CASE owner = NoOwner /\ focusedSurface # None /\ HasTextInput(tiFocus)
    <3>1. Own(Tip(focusedSurface), focusedSurface, cache) /\ cache' = cache
      BY <2>1 DEF PollTipFreshness, Poll
    <3>2. focusedSurface \in TipApps
      BY <1>0, <2>1 DEF Placed, SeatTyped, HasTextInput
    <3>3. Tip(focusedSurface) \in Owners BY <3>2 DEF Owners
    <3>4. OwnerOK' BY <1>0, <1>1, <3>1, <3>3, Kinds, OwnKeeps DEF CacheOK
    <3>5. Placed' BY <1>0, <1>1, <3>1, Kinds DEF Placed, Own
    <3> QED BY <1>0, <3>1, <3>4, <3>5, CacheAlone
  <2>2. CASE ~(owner = NoOwner /\ focusedSurface # None /\ HasTextInput(tiFocus))
    <3>1. ReportTip BY <2>2 DEF PollTipFreshness, Poll
    <3>2. OwnerOK' /\ CacheOK' /\ owner' = owner BY <1>0, <1>1, <3>1, ReportTipKeeps
    <3> QED BY <1>0, <1>1, <3>2 DEF Placed
  <2> QED BY <2>1, <2>2
<1>3. SeatTyped' BY <1>0 DEF SeatTyped, seatVars, counters, PollTipFreshness
<1>4. WireTyped' BY <1>0 DEF WireTyped, wireVars, PollTipFreshness, Places
<1> QED BY <1>0, <1>2, <1>3, <1>4, HostAlone, InvParts DEF PollTipFreshness

(* The window's end, a chord and the redraw only change what they show.     *)
LEMMA RedrawKeeps ==
  ASSUME Inv, Redraw
  PROVE  Inv'
<1>0. OwnerOK /\ CacheOK /\ SeatTyped /\ HostTyped /\ WireTyped /\ Placed BY InvParts
<1>1. OwnerOK' /\ CacheOK' /\ Placed' /\ SeatTyped' /\ WireTyped'
  BY <1>0, OwnerAlone, CacheAlone
     DEF Redraw, Placed, SeatTyped, WireTyped, imeVars, ownerVars, seatVars, wireVars,
         drainVars, counters
<1>2. HostTyped'
  BY <1>0, Names DEF Redraw, HostTyped, OwnerOK, OwnerTyped, DesiredAllowed, SyncToWinit, Pushed
<1> QED BY <1>1, <1>2, InvParts

LEMMA SettleEndsKeeps ==
  ASSUME Inv, SettleEnds
  PROVE  Inv'
<1>0. OwnerOK /\ CacheOK /\ SeatTyped /\ HostTyped /\ WireTyped /\ Placed BY InvParts
<1>1. OwnerOK'
  BY <1>0 DEF SettleEnds, OwnerOK, OwnerTyped, CaretIsOwners, NewsIsOwners, seatVars
<1>2. Placed' /\ SeatTyped' /\ WireTyped'
  BY <1>0 DEF SettleEnds, Placed, SeatTyped, WireTyped, seatVars, wireVars, drainVars, counters
<1> QED BY <1>0, <1>1, <1>2, CacheAlone, HostAlone, InvParts DEF SettleEnds

LEMMA HostImeEventKeeps ==
  ASSUME Inv, HostImeEvent
  PROVE  Inv'
<1>0. OwnerOK /\ CacheOK /\ SeatTyped /\ HostTyped /\ WireTyped /\ Placed BY InvParts
<1>1. ReportTip /\ tiRect' = tiRect /\ tiRect \in Rects
  BY <1>0 DEF HostImeEvent, seatVars, SeatTyped
<1>2. OwnerOK' /\ CacheOK' /\ owner' = owner BY <1>0, <1>1, ReportTipKeeps
<1>3. Placed' /\ SeatTyped' /\ WireTyped'
  BY <1>0, <1>2 DEF HostImeEvent, Placed, SeatTyped, WireTyped, seatVars, wireVars, drainVars,
     counters
<1> QED BY <1>0, <1>2, <1>3, HostAlone, InvParts DEF HostImeEvent

(* A rectangle comes from the client with the text input's focus: if there  *)
(* is a tip owner, that is it.                                              *)
LEMMA SetCursorRectangleKeeps ==
  ASSUME Inv, NEW a \in TipApps, SetCursorRectangle(a)
  PROVE  Inv'
<1>0. OwnerOK /\ CacheOK /\ SeatTyped /\ HostTyped /\ WireTyped /\ Placed BY InvParts
<1>1. PICK v \in Carets : tiRect' = Rect(a, v) BY DEF SetCursorRectangle
<1>2. tiRect' \in Rects /\ tiRect'.by = a BY <1>1, Names
<1>3. UNCHANGED ownerVars /\ focusedSurface' = focusedSurface /\ tiFocus' = tiFocus
  BY DEF SetCursorRectangle, imeVars
<1>4. owner.kind = "tip" => owner.app = a
  <2>1. HAVE owner.kind = "tip"
  <2>2. owner \in Owners /\ owner.app = focusedSurface
    BY <1>0, <2>1 DEF OwnerOK, OwnerTyped, Placed
  <2>3. focusedSurface # None BY <2>1, <2>2, Kinds, Names
  <2> QED BY <1>0, <2>2, <2>3 DEF Placed, SetCursorRectangle
<1>5. OwnerOK'
  BY <1>0, <1>2, <1>3, <1>4
     DEF OwnerOK, OwnerTyped, CaretIsOwners, NewsIsOwners, ownerVars, cursorVars
<1>6. Placed' BY <1>0, <1>3 DEF Placed, ownerVars
<1>7. SeatTyped'
  <2>1. reports' \in 0..MaxReports BY <1>0, AppsAssumption DEF SeatTyped, SetCursorRectangle
  <2> QED BY <1>0, <1>2, <2>1 DEF SeatTyped, SetCursorRectangle, imeVars
<1>8. WireTyped' BY <1>0 DEF WireTyped, SetCursorRectangle, wireVars, drainVars
<1> QED BY <1>0, <1>5, <1>6, <1>7, <1>8, CacheAlone, HostAlone, InvParts
        DEF SetCursorRectangle, imeVars

(* The steps of clients and broker only move messages, or end a client.     *)
LEMMA OthersKeep ==
  ASSUME Inv,
         \/ SetPrefixActive \/ Tick
         \/ \E a \in TipApps : BindTextInput(a)
         \/ \E a \in IcApps : HandleKeyboard(a) \/ SetCursorRect(a) \/ PumpClient(a)
         \/ \E a \in Apps : Exits(a)
  PROVE  Inv'
<1>0. OwnerOK /\ CacheOK /\ SeatTyped /\ HostTyped /\ WireTyped /\ Placed BY InvParts
<1>1. ASSUME NEW k \in {"in", "out", "rect", "destroyed"}, NEW a \in IcApps,
             NEW v \in Carets \cup {0}
      PROVE  Call(k, a, v) \in Calls
  BY DEF Call, Calls
<1>2. UNCHANGED <<ownerVars, focusedSurface, tiFocus, tiRect, cache, hostVars>>
  BY DEF SetPrefixActive, Tick, BindTextInput, HandleKeyboard, SetCursorRect, PumpClient, Exits,
     seatVars, imeVars
<1>3. OwnerOK' /\ CacheOK' /\ HostTyped' /\ Placed'
  BY <1>0, <1>2, OwnerAlone, CacheAlone, HostAlone DEF Placed, ownerVars
<1>4. SeatTyped'
  <2>1. moves' \in 0..MaxMoves /\ reports' \in 0..MaxReports
    BY <1>0, AppsAssumption
       DEF SeatTyped, SetPrefixActive, Tick, BindTextInput, HandleKeyboard, SetCursorRect,
           PumpClient, Exits, counters
  <2>2. phase' \in {"dispatch", "drain"} /\ prefixActive' \in BOOLEAN
    BY <1>0
       DEF SeatTyped, SetPrefixActive, Tick, BindTextInput, HandleKeyboard, SetCursorRect,
           PumpClient, Exits, imeVars
  <2>3. keyboard' \in Places /\ alive' \subseteq Apps /\ bound' \subseteq TipApps
    BY <1>0
       DEF SeatTyped, SetPrefixActive, Tick, BindTextInput, HandleKeyboard, SetCursorRect,
           PumpClient, Exits, seatVars
  <2> QED BY <1>0, <1>2, <2>1, <2>2, <2>3 DEF SeatTyped
<1>5. WireTyped'
  <2>1. CASE SetPrefixActive
    BY <1>0, <2>1 DEF WireTyped, SetPrefixActive, wireVars, drainVars
  <2>2. CASE Tick
    BY <1>0, <2>2 DEF WireTyped, Tick, wireVars, SeatTyped
  <2>3. CASE \E a \in TipApps : BindTextInput(a)
    BY <1>0, <2>3 DEF WireTyped, BindTextInput, wireVars, drainVars
  <2>4. ASSUME NEW a \in IcApps, HandleKeyboard(a) PROVE WireTyped'
    <3>1. inbox[a] \in Seq({"enter", "leave"}) /\ inbox[a] # <<>> /\ pipe[a] \in Seq(Calls)
      BY <1>0, <2>4 DEF WireTyped, HandleKeyboard
    <3>2. Tail(inbox[a]) \in Seq({"enter", "leave"}) BY <3>1
    <3>3. Call(IF Head(inbox[a]) = "enter" THEN "in" ELSE "out", a, 0) \in Calls BY <1>1
    <3>4. Append(pipe[a], Call(IF Head(inbox[a]) = "enter" THEN "in" ELSE "out", a, 0))
            \in Seq(Calls)
      BY <3>1, <3>3
    <3> QED BY <1>0, <2>4, <3>2, <3>4 DEF WireTyped, HandleKeyboard, drainVars
  <2>5. ASSUME NEW a \in IcApps, SetCursorRect(a) PROVE WireTyped'
    <3>1. PICK v \in Carets : pipe' = [pipe EXCEPT ![a] = Append(@, Call("rect", a, v))]
      BY <2>5 DEF SetCursorRect
    <3>2. Append(pipe[a], Call("rect", a, v)) \in Seq(Calls)
      BY <1>0, <1>1 DEF WireTyped
    <3> QED BY <1>0, <2>5, <3>1, <3>2 DEF WireTyped, SetCursorRect, drainVars
  <2>6. ASSUME NEW a \in IcApps, PumpClient(a) PROVE WireTyped'
    <3>1. pipe[a] \in Seq(Calls) /\ pipe[a] # <<>> /\ events \in Seq(Calls)
      BY <1>0, <2>6 DEF WireTyped, PumpClient
    <3>2. Head(pipe[a]) \in Calls /\ Tail(pipe[a]) \in Seq(Calls) BY <3>1
    <3>3. Append(events, Head(pipe[a])) \in Seq(Calls) BY <3>1, <3>2
    <3> QED BY <1>0, <2>6, <3>2, <3>3 DEF WireTyped, PumpClient
  <2>7. ASSUME NEW a \in Apps, Exits(a) PROVE WireTyped'
    <3>1. pipe' \in [IcApps -> Seq(Calls)]
      <4>1. CASE pipe' = pipe BY <1>0, <4>1 DEF WireTyped
      <4>2. CASE a \in IcApps /\ pipe' = [pipe EXCEPT ![a] = Append(@, Call("destroyed", a, 0))]
        <5>1. Append(pipe[a], Call("destroyed", a, 0)) \in Seq(Calls)
          BY <1>0, <1>1, <4>2 DEF WireTyped
        <5> QED BY <1>0, <4>2, <5>1 DEF WireTyped
      <4> QED BY <2>7, <4>1, <4>2 DEF Exits
    <3>2. inbox' \in [IcApps -> Seq({"enter", "leave"})]
      BY <1>0, <2>7 DEF WireTyped, Exits
    <3> QED BY <1>0, <2>7, <3>1, <3>2 DEF WireTyped, Exits, drainVars
  <2> QED BY <2>1, <2>2, <2>3, <2>4, <2>5, <2>6, <2>7
<1> QED BY <1>3, <1>4, <1>5, InvParts

-----------------------------------------------------------------------------
(* A step that changes nothing.                                             *)
LEMMA StutterKeeps == ASSUME Inv, UNCHANGED vars PROVE Inv'
<1>0. OwnerOK /\ CacheOK /\ SeatTyped /\ HostTyped /\ WireTyped /\ Placed BY InvParts
<1>1. OwnerOK' /\ CacheOK' /\ HostTyped'
  BY <1>0, OwnerAlone, CacheAlone, HostAlone DEF vars, imeVars, seatVars
<1>2. Placed' /\ SeatTyped' /\ WireTyped'
  BY <1>0 DEF vars, Placed, SeatTyped, WireTyped, imeVars, ownerVars, seatVars, wireVars,
     drainVars, counters
<1> QED BY <1>1, <1>2, InvParts

(* The invariant, and what it says.                                         *)
THEOREM Invariance == Spec => []Inv
<1>1. Init => Inv BY InitInv
<1>2. Inv /\ [Next]_vars => Inv'
  <2> SUFFICES ASSUME Inv, [Next]_vars PROVE Inv' OBVIOUS
  <2>1. CASE \E a \in Apps \cup {None} : FocusMoves(a) \/ SwitchWorkspace(a)
    BY <2>1, FocusMovesKeeps, SwitchWorkspaceKeeps DEF Places
  <2>2. CASE OnFcitxEvent BY <2>2, OnFcitxEventKeeps
  <2>3. CASE PollTipFreshness BY <2>3, PollTipFreshnessKeeps
  <2>4. CASE SettleEnds BY <2>4, SettleEndsKeeps
  <2>5. CASE Redraw BY <2>5, RedrawKeeps
  <2>6. CASE HostImeEvent BY <2>6, HostImeEventKeeps
  <2>7. CASE \E a \in TipApps : BindTextInput(a) \/ SetCursorRectangle(a)
    BY <2>7, OthersKeep, SetCursorRectangleKeeps
  <2>8. CASE SetPrefixActive \/ Tick BY <2>8, OthersKeep
  <2>9. CASE \E a \in IcApps : HandleKeyboard(a) \/ SetCursorRect(a) \/ PumpClient(a)
    BY <2>9, OthersKeep
  <2>10. CASE \E a \in Apps : Exits(a) BY <2>10, OthersKeep
  <2>11. CASE UNCHANGED vars BY <2>11, StutterKeeps
  <2> QED
    BY <2>1, <2>2, <2>3, <2>4, <2>5, <2>6, <2>7, <2>8, <2>9, <2>10, <2>11 DEF Next
<1> QED BY <1>1, <1>2, PTL DEF Spec

(* TypeOK holds of every behaviour (ImeBridge and what surrounds it).       *)
THEOREM TypesHold == Spec => []TypeOK
<1>1. Inv => TypeOK BY DEF Inv
<1> QED BY <1>1, Invariance, PTL

(* The candidate window is never placed by another client's caret (the      *)
(* cache, the snapshot and set_owner in state/ime.rs).                      *)
THEOREM CaretsAreOwners == Spec => []CaretIsOwners
<1>1. Inv => CaretIsOwners BY DEF Inv
<1> QED BY <1>1, Invariance, PTL

-----------------------------------------------------------------------------
(* The owner settles.  What a client of IcApps says of its focus passes     *)
(* four queues: the keyboard events it has not handled, its calls, the      *)
(* broker's events and those of the tick.  The last word on its way says    *)
(* whether it has the keyboard; when no word is on its way, it is not the   *)
(* owner unless it has the keyboard.                                        *)
IsFocusCall(c, a) == c.app = a /\ c.kind \in {"in", "out"}
FocusCalls(q, a) == {i \in DOMAIN q : IsFocusCall(q[i], a)}

LastSays(q, a, place) ==
  \A i \in FocusCalls(q, a) :
    (\A j \in FocusCalls(q, a) : j <= i) => (q[i].kind = "in" <=> place = a)

Heard(a) ==
  IF inbox[a] # <<>> THEN inbox[a][Len(inbox[a])] = "enter" <=> keyboard = a
  ELSE IF FocusCalls(pipe[a], a) # {} THEN LastSays(pipe[a], a, keyboard)
  ELSE IF FocusCalls(events, a) # {} THEN LastSays(events, a, keyboard)
  ELSE IF FocusCalls(draining, a) # {} THEN LastSays(draining, a, keyboard)
  ELSE owner = Dbus(a) => keyboard = a

AllHeard == \A a \in IcApps \cap alive : Heard(a)

(* The bridge's focused surface is the seat's, and a tick's events are      *)
(* placed where the keyboard is.                                            *)
KeysAgree ==
  /\ focusedSurface = keyboard
  /\ phase = "drain" => placed = keyboard
  /\ phase = "dispatch" => draining = <<>>

OwnerThere ==
  /\ owner.kind = "tip" => owner.app \in bound
  /\ owner.kind # "dbus" => origin = None
  /\ owner.kind = "dbus" /\ owner.app = keyboard => origin = keyboard

(* A client's calls come over its own connection.                           *)
OwnCalls == \A a \in IcApps : \A i \in DOMAIN pipe[a] : pipe[a][i].app = a

SettleInv == KeysAgree /\ OwnerThere /\ OwnCalls /\ AllHeard

(* A call put at the end of a queue is the last word, if it is one.         *)
LEMMA Sent ==
  ASSUME NEW q \in Seq(Calls), NEW c \in Calls, NEW a, NEW place
  PROVE  /\ ~IsFocusCall(c, a) =>
              /\ FocusCalls(Append(q, c), a) = FocusCalls(q, a)
              /\ LastSays(Append(q, c), a, place) <=> LastSays(q, a, place)
         /\ IsFocusCall(c, a) =>
              /\ FocusCalls(Append(q, c), a) # {}
              /\ LastSays(Append(q, c), a, place) <=> (c.kind = "in" <=> place = a)
<1> DEFINE r == Append(q, c)
           n == Len(q)
<1>1. /\ n \in Nat /\ DOMAIN q = 1..n /\ DOMAIN r = 1..(n + 1)
      /\ r[n + 1] = c /\ \A i \in 1..n : r[i] = q[i]
  OBVIOUS
<1> HIDE DEF r, n
<1>2. CASE ~IsFocusCall(c, a)
  <2>1. FocusCalls(r, a) = FocusCalls(q, a) BY <1>1, <1>2 DEF FocusCalls
  <2>2. \A i \in FocusCalls(q, a) : r[i] = q[i] BY <1>1 DEF FocusCalls
  <2> QED BY <1>2, <2>1, <2>2 DEF LastSays, r
<1>3. CASE IsFocusCall(c, a)
  <2>1. n + 1 \in FocusCalls(r, a) BY <1>1, <1>3 DEF FocusCalls
  <2>2. \A j \in FocusCalls(r, a) : j \in Nat /\ j <= n + 1 BY <1>1 DEF FocusCalls
  <2>3. \A i \in FocusCalls(r, a) : (\A j \in FocusCalls(r, a) : j <= i) <=> i = n + 1
    BY <1>1, <2>1, <2>2
  <2>4. LastSays(r, a, place) <=> (c.kind = "in" <=> place = a)
    BY <1>1, <2>1, <2>3 DEF LastSays
  <2> QED BY <1>3, <2>1, <2>4 DEF r
<1> QED BY <1>2, <1>3

(* A call taken from the head of a queue was the last word only if no other *)
(* follows it.                                                              *)
LEMMA Taken ==
  ASSUME NEW q \in Seq(Calls), q # <<>>, NEW a, NEW place
  PROVE  /\ LastSays(q, a, place) => LastSays(Tail(q), a, place)
         /\ ~IsFocusCall(Head(q), a) => (FocusCalls(Tail(q), a) = {} <=> FocusCalls(q, a) = {})
         /\ IsFocusCall(Head(q), a) =>
              /\ FocusCalls(q, a) # {}
              /\ FocusCalls(Tail(q), a) = {} /\ LastSays(q, a, place)
                   => (Head(q).kind = "in" <=> place = a)
<1> DEFINE t == Tail(q)
           n == Len(q)
<1>1. /\ n \in Nat \ {0} /\ DOMAIN q = 1..n /\ DOMAIN t = 1..(n - 1) /\ Head(q) = q[1]
      /\ \A i \in 1..(n - 1) : t[i] = q[i + 1]
  OBVIOUS
<1> HIDE DEF t, n
<1>2. \A i \in 1..(n - 1) : i \in FocusCalls(t, a) <=> i + 1 \in FocusCalls(q, a)
  BY <1>1 DEF FocusCalls
<1>3. FocusCalls(t, a) \subseteq 1..(n - 1) /\ FocusCalls(q, a) \subseteq 1..n
  BY <1>1 DEF FocusCalls
<1>4. \A k \in FocusCalls(q, a) : k = 1 \/ (k - 1 \in 1..(n - 1) /\ k - 1 \in FocusCalls(t, a))
  <2> SUFFICES ASSUME NEW k \in FocusCalls(q, a), k # 1
               PROVE  k - 1 \in 1..(n - 1) /\ k - 1 \in FocusCalls(t, a)
    OBVIOUS
  <2>1. k - 1 \in 1..(n - 1) /\ (k - 1) + 1 = k BY <1>1, <1>3
  <2> QED BY <1>2, <2>1
<1>5. 1 \in FocusCalls(q, a) <=> IsFocusCall(Head(q), a) BY <1>1 DEF FocusCalls
<1>6. ASSUME LastSays(q, a, place) PROVE LastSays(t, a, place)
  <2> SUFFICES ASSUME NEW i \in FocusCalls(t, a), \A j \in FocusCalls(t, a) : j <= i
               PROVE  t[i].kind = "in" <=> place = a
    BY DEF LastSays
  <2>1. i \in 1..(n - 1) /\ i + 1 \in FocusCalls(q, a) /\ t[i] = q[i + 1] BY <1>1, <1>2, <1>3
  <2>2. \A k \in FocusCalls(q, a) : k <= i + 1
    <3> SUFFICES ASSUME NEW k \in FocusCalls(q, a) PROVE k <= i + 1 OBVIOUS
    <3>1. CASE k = 1 BY <2>1, <3>1
    <3>2. CASE k # 1
      <4>1. k - 1 \in FocusCalls(t, a) /\ k \in 1..n BY <1>3, <1>4, <3>2
      <4>2. k - 1 <= i BY <4>1
      <4> QED BY <2>1, <4>1, <4>2
    <3> QED BY <3>1, <3>2
  <2> QED BY <1>6, <2>1, <2>2 DEF LastSays
<1>7. ~IsFocusCall(Head(q), a) => (FocusCalls(t, a) = {} <=> FocusCalls(q, a) = {})
  BY <1>2, <1>3, <1>4, <1>5
<1>8. ASSUME IsFocusCall(Head(q), a), FocusCalls(t, a) = {}, LastSays(q, a, place)
      PROVE  Head(q).kind = "in" <=> place = a
  <2>1. 1 \in FocusCalls(q, a) /\ \A k \in FocusCalls(q, a) : k = 1 BY <1>4, <1>5, <1>8
  <2>2. \A k \in FocusCalls(q, a) : k <= 1 BY <2>1
  <2> QED BY <1>1, <1>8, <2>1, <2>2 DEF LastSays
<1> QED BY <1>5, <1>6, <1>7, <1>8 DEF t

-----------------------------------------------------------------------------
(* Each link of the chain keeps what is heard of a.  A change of the        *)
(* keyboard focus tells a, if it is about a.                                *)
LEMMA MoveHeard ==
  ASSUME Inv, NEW new \in Places, NEW a \in IcApps, Heard(a), keyboard' = new,
         inbox' = IF new = keyboard THEN inbox ELSE TellBoth(keyboard, new),
         UNCHANGED <<pipe, events, draining>>,
         new # keyboard => owner' # Dbus(a),
         new = keyboard /\ owner' = Dbus(a) => owner = Dbus(a)
  PROVE  Heard(a)'
<1>0. /\ inbox \in [IcApps -> Seq({"enter", "leave"})]
      /\ inbox[a] \in Seq({"enter", "leave"})
  BY DEF Inv, TypeOK
<1>1. CASE new = keyboard
  BY <1>1 DEF Heard
<1>2. CASE new # keyboard /\ a = new
  <2>1. PICK q \in Seq({"enter", "leave"}) : inbox'[a] = Append(q, "enter")
    BY <1>0, <1>2 DEF TellBoth, Told
  <2>2. inbox'[a] # <<>> /\ inbox'[a][Len(inbox'[a])] = "enter" BY <2>1
  <2> QED BY <1>2, <2>2 DEF Heard
<1>3. CASE new # keyboard /\ a = keyboard
  <2>1. inbox'[a] = Append(inbox[a], "leave")
    BY <1>0, <1>3 DEF TellBoth, Told
  <2>2. inbox'[a] # <<>> /\ inbox'[a][Len(inbox'[a])] = "leave" BY <1>0, <2>1
  <2> QED BY <1>3, <2>2 DEF Heard
<1>4. CASE new # keyboard /\ a # new /\ a # keyboard
  <2>1. inbox'[a] = inbox[a] BY <1>0, <1>4 DEF TellBoth, Told
  <2>2. /\ LastSays(pipe[a], a, new) <=> LastSays(pipe[a], a, keyboard)
        /\ LastSays(events, a, new) <=> LastSays(events, a, keyboard)
        /\ LastSays(draining, a, new) <=> LastSays(draining, a, keyboard)
    BY <1>4 DEF LastSays
  <2> QED BY <1>4, <2>1, <2>2 DEF Heard
<1> QED BY <1>1, <1>2, <1>3, <1>4

(* What leaves the queues, the keyboard and the owner alone, or makes a     *)
(* tip or nobody the owner.                                                 *)
LEMMA QueuesAlone ==
  ASSUME NEW a \in IcApps, Heard(a), UNCHANGED <<keyboard, inbox, pipe, events, draining>>,
         owner' = owner \/ owner'.kind # "dbus"
  PROVE  Heard(a)'
BY Kinds DEF Heard

LEMMA SettleAlone ==
  ASSUME SettleInv, UNCHANGED <<phase, focusedSurface, keyboard, alive, bound, inbox, pipe,
                                events, draining, placed, owner, origin>>
  PROVE  SettleInv'
<1>1. KeysAgree' /\ OwnerThere' /\ OwnCalls'
  BY DEF SettleInv, KeysAgree, OwnerThere, OwnCalls
<1>2. AllHeard' BY QueuesAlone DEF SettleInv, AllHeard
<1> QED BY <1>1, <1>2 DEF SettleInv

-----------------------------------------------------------------------------
(* One lemma per action that moves the keyboard, the owner or a message     *)

LEMMA MovesSettle ==
  ASSUME Inv, SettleInv, NEW new \in Places, FocusMoves(new) \/ SwitchWorkspace(new)
  PROVE  SettleInv'
<1> DEFINE want == WantedOwner(new, tiFocus')
<1>0. /\ OwnerOK /\ SeatTyped /\ Placed /\ KeysAgree /\ OwnerThere /\ OwnCalls /\ AllHeard
      /\ owner \in Owners
  BY InvParts DEF SettleInv, OwnerOK, OwnerTyped
<1>1. /\ keyboard' = new /\ focusedSurface' = new /\ phase = "dispatch"
      /\ UNCHANGED <<phase, alive, bound, pipe, events, draining, placed>>
      /\ inbox' = IF new = keyboard THEN inbox ELSE TellBoth(keyboard, new)
  BY DEF FocusMoves, SwitchWorkspace, drainVars
<1>2. new # None => tiFocus' = new
  BY <1>0 DEF FocusMoves, SwitchWorkspace, Transition, Placed, KeysAgree, SeatTyped
<1>3. want = NoOwner \/ (want = Tip(new) /\ new \in bound)
  BY <1>2 DEF WantedOwner, HasTextInput
<1>4. want.kind # "dbus" /\ (want.kind = "tip" => want.app \in bound) BY <1>3, Kinds
<1> HIDE DEF want
<1>5. owner' = want /\ origin' = None
  <2>1. CASE SwitchWorkspace(new) BY <1>4, <2>1 DEF SwitchWorkspace, Own, want
  <2>2. CASE FocusMoves(new)
    <3>1. SetOwner(want, new) BY <2>2 DEF FocusMoves, want
    <3>2. CASE want = owner
      BY <1>0, <1>4, <3>1, <3>2 DEF SetOwner, ownerVars, OwnerThere
    <3>3. CASE want # owner
      BY <1>4, <3>1, <3>3 DEF SetOwner, Own
    <3> QED BY <3>2, <3>3
  <2> QED BY <2>1, <2>2
<1>6. KeysAgree' BY <1>0, <1>1 DEF KeysAgree
<1>7. OwnerThere' BY <1>1, <1>4, <1>5 DEF OwnerThere
<1>8. OwnCalls' BY <1>0, <1>1 DEF OwnCalls
<1>9. AllHeard'
  <2> SUFFICES ASSUME NEW a \in IcApps, a \in alive' PROVE Heard(a)' BY DEF AllHeard
  <2>1. Heard(a) BY <1>0, <1>1 DEF AllHeard
  <2>2. owner' # Dbus(a) BY <1>4, <1>5, Kinds
  <2> QED BY <1>1, <2>1, <2>2, MoveHeard
<1> QED BY <1>6, <1>7, <1>8, <1>9 DEF SettleInv

LEMMA TickSettles ==
  ASSUME Inv, SettleInv, Tick
  PROVE  SettleInv'
<1>0. KeysAgree /\ OwnerThere /\ OwnCalls /\ AllHeard BY DEF SettleInv
<1>1. /\ UNCHANGED <<keyboard, alive, bound, focusedSurface, owner, origin, inbox, pipe>>
      /\ phase' = "drain" /\ placed' = keyboard /\ draining' = events /\ events' = <<>>
      /\ draining = <<>>
  BY <1>0 DEF Tick, seatVars, imeVars, ownerVars, wireVars, KeysAgree
<1>2. KeysAgree' /\ OwnerThere' /\ OwnCalls'
  BY <1>0, <1>1 DEF KeysAgree, OwnerThere, OwnCalls
<1>3. AllHeard'
  <2> SUFFICES ASSUME NEW a \in IcApps, a \in alive' PROVE Heard(a)' BY DEF AllHeard
  <2>1. Heard(a) BY <1>0, <1>1 DEF AllHeard
  <2>2. FocusCalls(<<>>, a) = {} BY DEF FocusCalls
  <2> QED BY <1>1, <2>1, <2>2 DEF Heard
<1> QED BY <1>2, <1>3 DEF SettleInv

(* An event of the tick: a FocusIn makes its client the owner, a FocusOut   *)
(* or the end of its context ends that, and nothing else changes the owner. *)
LEMMA EventOwner ==
  ASSUME Inv, OnFcitxEvent
  PROVE  LET e == Head(draining)
         IN /\ e \in Calls
            /\ e.kind = "in" =>
                 /\ owner' = Dbus(e.app)
                 /\ origin' = IF owner = Dbus(e.app) THEN origin ELSE placed
            /\ e.kind # "in" =>
                 \/ owner' = owner /\ origin' = origin
                 \/ owner' = NoOwner /\ origin' = None
            /\ e.kind = "out" => owner' # Dbus(e.app)
<1> DEFINE e == Head(draining)
<1>1. e \in Calls BY InvParts DEF OnFcitxEvent, WireTyped
<1>2. \/ e.kind = "in" /\ FocusIn(e)
      \/ e.kind = "out" /\ FocusOut(e)
      \/ e.kind = "rect" /\ ReportDbus(e.app, e.caret)
      \/ e.kind = "destroyed" /\ IcDestroyed(e)
  BY DEF OnFcitxEvent
<1> HIDE DEF e
<1>3. ASSUME ClearOwner
      PROVE  owner' = NoOwner /\ ((owner' = owner /\ origin' = origin) \/ origin' = None)
  BY <1>3, Kinds DEF ClearOwner, SetOwner, Own, ownerVars
<1>4. e.kind = "in" =>
        owner' = Dbus(e.app) /\ origin' = IF owner = Dbus(e.app) THEN origin ELSE placed
  BY <1>2, Kinds DEF FocusIn, SetOwner, Own, ownerVars
<1>5. e.kind = "out" => owner' # Dbus(e.app)
  BY <1>2, <1>3, Kinds DEF FocusOut, ownerVars
<1>6. e.kind # "in" =>
        (owner' = owner /\ origin' = origin) \/ (owner' = NoOwner /\ origin' = None)
  BY <1>2, <1>3 DEF FocusOut, IcDestroyed, ReportDbus, ownerVars
<1> QED BY <1>1, <1>4, <1>5, <1>6 DEF e

LEMMA EventSettles ==
  ASSUME Inv, SettleInv, OnFcitxEvent
  PROVE  SettleInv'
<1> DEFINE e == Head(draining)
<1>0. KeysAgree /\ OwnerThere /\ OwnCalls /\ AllHeard BY DEF SettleInv
<1>1. /\ UNCHANGED <<phase, keyboard, alive, bound, focusedSurface, inbox, pipe, events, placed>>
      /\ phase = "drain" /\ draining # <<>> /\ draining \in Seq(Calls)
      /\ draining' = Tail(draining)
  BY InvParts DEF OnFcitxEvent, seatVars, wireVars, WireTyped
<1>2. /\ e.kind = "in" =>
           owner' = Dbus(e.app) /\ origin' = IF owner = Dbus(e.app) THEN origin ELSE placed
      /\ e.kind # "in" =>
           (owner' = owner /\ origin' = origin) \/ (owner' = NoOwner /\ origin' = None)
      /\ e.kind = "out" => owner' # Dbus(e.app)
  BY EventOwner
<1>3. KeysAgree' /\ OwnCalls' BY <1>0, <1>1 DEF KeysAgree, OwnCalls
<1>4. OwnerThere'
  <2>1. placed = keyboard BY <1>0, <1>1 DEF KeysAgree
  <2>2. CASE e.kind = "in"
    BY <1>0, <1>1, <1>2, <2>1, <2>2, Kinds DEF OwnerThere
  <2>3. CASE e.kind # "in"
    <3> HIDE DEF e
    <3> QED BY <1>0, <1>1, <1>2, <2>3, Kinds DEF OwnerThere
  <2> QED BY <2>2, <2>3
<1>5. AllHeard'
  <2> SUFFICES ASSUME NEW a \in IcApps, a \in alive' PROVE Heard(a)' BY DEF AllHeard
  <2>1. Heard(a) BY <1>0, <1>1 DEF AllHeard
  <2>2. /\ LastSays(draining, a, keyboard) => LastSays(draining', a, keyboard)
        /\ ~IsFocusCall(e, a) => (FocusCalls(draining', a) = {} <=> FocusCalls(draining, a) = {})
        /\ IsFocusCall(e, a) =>
             /\ FocusCalls(draining, a) # {}
             /\ FocusCalls(draining', a) = {} /\ LastSays(draining, a, keyboard)
                  => (e.kind = "in" <=> keyboard = a)
    BY <1>1, Taken
  <2> HIDE DEF e
  <2>3. CASE IsFocusCall(e, a)
    <3>1. e.app = a /\ e.kind \in {"in", "out"} BY <2>3 DEF IsFocusCall
    <3>2. e.kind = "out" => owner' # Dbus(a) BY <1>2, <3>1
    <3> QED BY <1>1, <2>1, <2>2, <2>3, <3>1, <3>2 DEF Heard
  <2>4. CASE ~IsFocusCall(e, a)
    <3>1. owner' = Dbus(a) => owner = Dbus(a)
      <4>1. CASE e.kind = "in"
        <5>1. e.app # a BY <2>4, <4>1 DEF IsFocusCall
        <5>2. Dbus(e.app) # Dbus(a) BY <5>1, Kinds
        <5> QED BY <1>2, <4>1, <5>2
      <4>2. CASE e.kind # "in" BY <1>2, <4>2, Kinds
      <4> QED BY <4>1, <4>2
    <3> QED BY <1>1, <2>1, <2>2, <2>4, <3>1 DEF Heard
  <2> QED BY <2>3, <2>4
<1> QED BY <1>3, <1>4, <1>5 DEF SettleInv

(* poll_tip_freshness: who becomes the owner has the keyboard and has bound *)
(* text_input.                                                              *)
LEMMA PollSettles ==
  ASSUME Inv, SettleInv, PollTipFreshness
  PROVE  SettleInv'
<1>0. SeatTyped /\ Placed /\ KeysAgree /\ OwnerThere /\ OwnCalls /\ AllHeard
  BY InvParts DEF SettleInv
<1>1. /\ UNCHANGED <<keyboard, alive, bound, focusedSurface, inbox, pipe, events, draining>>
      /\ draining = <<>> /\ phase' = "dispatch"
  BY DEF PollTipFreshness, seatVars, wireVars
<1>2. (owner' = owner /\ origin' = origin) \/
      (owner'.kind = "tip" /\ owner'.app \in bound /\ origin' = None)
  <2>1. CASE owner = NoOwner /\ focusedSurface # None /\ HasTextInput(tiFocus)
    <3>1. owner' = Tip(focusedSurface) /\ origin' = None
      BY <2>1, Kinds DEF PollTipFreshness, Poll, Own
    <3>2. focusedSurface \in bound BY <1>0, <2>1 DEF Placed, HasTextInput
    <3> QED BY <3>1, <3>2, Kinds
  <2>2. CASE ~(owner = NoOwner /\ focusedSurface # None /\ HasTextInput(tiFocus))
    BY <2>2 DEF PollTipFreshness, Poll, ReportTip, ownerVars
  <2> QED BY <2>1, <2>2
<1>3. KeysAgree' /\ OwnCalls' BY <1>0, <1>1 DEF KeysAgree, OwnCalls
<1>4. OwnerThere' BY <1>0, <1>1, <1>2 DEF OwnerThere
<1>5. AllHeard'
  <2> SUFFICES ASSUME NEW a \in IcApps, a \in alive' PROVE Heard(a)' BY DEF AllHeard
  <2> QED BY <1>0, <1>1, <1>2, QueuesAlone DEF AllHeard
<1> QED BY <1>3, <1>4, <1>5 DEF SettleInv

(* A client that handles its keyboard focus passes the word on: the last    *)
(* event it handles becomes the last call.                                  *)
LEMMA HandleSettles ==
  ASSUME Inv, SettleInv, NEW b \in IcApps, HandleKeyboard(b)
  PROVE  SettleInv'
<1> DEFINE c == Call(IF Head(inbox[b]) = "enter" THEN "in" ELSE "out", b, 0)
<1>0. KeysAgree /\ OwnerThere /\ OwnCalls /\ AllHeard /\ WireTyped
  BY InvParts DEF SettleInv
<1>1. /\ UNCHANGED <<phase, keyboard, alive, bound, focusedSurface, owner, origin, events,
                     draining, placed>>
      /\ inbox[b] # <<>>
      /\ inbox' = [inbox EXCEPT ![b] = Tail(inbox[b])]
      /\ pipe' = [pipe EXCEPT ![b] = Append(pipe[b], c)]
  BY DEF HandleKeyboard, seatVars, imeVars, ownerVars, drainVars
<1>2. /\ inbox[b] \in Seq({"enter", "leave"}) /\ pipe[b] \in Seq(Calls)
      /\ inbox'[b] = Tail(inbox[b]) /\ pipe'[b] = Append(pipe[b], c)
      /\ \A a \in IcApps \ {b} : inbox'[a] = inbox[a] /\ pipe'[a] = pipe[a]
  BY <1>0, <1>1 DEF WireTyped
<1>3. /\ c \in Calls /\ c.app = b /\ IsFocusCall(c, b)
      /\ c.kind = "in" <=> Head(inbox[b]) = "enter"
  BY DEF Call, Calls, IsFocusCall
<1> HIDE DEF c
<1>4. KeysAgree' /\ OwnerThere' BY <1>0, <1>1 DEF KeysAgree, OwnerThere
<1>5. OwnCalls'
  <2>1. \A i \in DOMAIN pipe'[b] : pipe'[b][i].app = b
    <3>1. \A i \in DOMAIN pipe[b] : pipe[b][i].app = b BY <1>0 DEF OwnCalls
    <3> QED BY <1>2, <1>3, <3>1
  <2> QED BY <1>0, <1>2, <2>1 DEF OwnCalls
<1>6. AllHeard'
  <2> SUFFICES ASSUME NEW a \in IcApps, a \in alive' PROVE Heard(a)' BY DEF AllHeard
  <2>1. Heard(a) BY <1>0, <1>1 DEF AllHeard
  <2>2. CASE a # b BY <1>1, <1>2, <2>1, <2>2 DEF Heard
  <2>3. CASE a = b /\ Tail(inbox[b]) # <<>>
    <3>1. Tail(inbox[b])[Len(Tail(inbox[b]))] = inbox[b][Len(inbox[b])] BY <1>1, <1>2, <2>3
    <3> QED BY <1>1, <1>2, <2>1, <2>3, <3>1 DEF Heard
  <2>4. CASE a = b /\ Tail(inbox[b]) = <<>>
    <3>1. Head(inbox[b]) = inbox[b][Len(inbox[b])]
      <4> DEFINE q == inbox[b]
                 t == Tail(q)
      <4>1. Len(t) = Len(q) - 1 /\ Len(q) \in Nat BY <1>1, <1>2
      <4>2. t = <<>> BY <2>4
      <4> HIDE DEF t
      <4>3. Len(q) = 1 BY <4>1, <4>2
      <4> QED BY <1>1, <1>2, <4>3
    <3>2. Head(inbox[b]) = "enter" <=> keyboard = b BY <1>1, <2>1, <2>4, <3>1 DEF Heard
    <3>3. /\ FocusCalls(Append(pipe[b], c), b) # {}
          /\ LastSays(Append(pipe[b], c), b, keyboard) <=> (c.kind = "in" <=> keyboard = b)
      BY <1>2, <1>3, Sent
    <3>4. FocusCalls(pipe'[b], b) # {} /\ LastSays(pipe'[b], b, keyboard)
      BY <1>2, <1>3, <3>2, <3>3
    <3> QED BY <1>1, <1>2, <2>4, <3>4 DEF Heard
  <2> QED BY <2>2, <2>3, <2>4
<1> QED BY <1>4, <1>5, <1>6 DEF SettleInv

(* A call that is no word about the focus (a caret, the end of a context).  *)
LEMMA OtherCallSettles ==
  ASSUME Inv, SettleInv, NEW b \in IcApps, NEW c \in Calls, c.app = b,
         c.kind \notin {"in", "out"}, pipe' = [pipe EXCEPT ![b] = Append(pipe[b], c)],
         NEW a \in IcApps, Heard(a), inbox'[a] = inbox[a],
         UNCHANGED <<keyboard, owner, events, draining>>
  PROVE  OwnCalls' /\ Heard(a)'
<1>1. /\ pipe[b] \in Seq(Calls) /\ pipe'[b] = Append(pipe[b], c)
      /\ \A d \in IcApps \ {b} : pipe'[d] = pipe[d]
      /\ OwnCalls
  BY InvParts DEF WireTyped, SettleInv
<1>2. OwnCalls'
  <2>1. \A i \in DOMAIN pipe'[b] : pipe'[b][i].app = b
    <3>1. \A i \in DOMAIN pipe[b] : pipe[b][i].app = b BY <1>1 DEF OwnCalls
    <3> QED BY <1>1, <3>1
  <2> QED BY <1>1, <2>1 DEF OwnCalls
<1>3. Heard(a)'
  <2>1. CASE a # b BY <1>1, <2>1 DEF Heard
  <2>2. CASE a = b
    <3>1. /\ FocusCalls(pipe'[b], b) = FocusCalls(pipe[b], b)
          /\ LastSays(pipe'[b], b, keyboard) <=> LastSays(pipe[b], b, keyboard)
      BY <1>1, Sent DEF IsFocusCall
    <3> QED BY <2>2, <3>1 DEF Heard
  <2> QED BY <2>1, <2>2
<1> QED BY <1>2, <1>3

LEMMA CaretSettles ==
  ASSUME Inv, SettleInv, NEW b \in IcApps, SetCursorRect(b)
  PROVE  SettleInv'
<1>0. KeysAgree /\ OwnerThere /\ OwnCalls /\ AllHeard BY DEF SettleInv
<1>1. UNCHANGED <<phase, keyboard, alive, bound, focusedSurface, owner, origin, inbox, events,
                  draining, placed>>
  BY DEF SetCursorRect, seatVars, imeVars, ownerVars, drainVars
<1>2. PICK v \in Carets : pipe' = [pipe EXCEPT ![b] = Append(pipe[b], Call("rect", b, v))]
  BY DEF SetCursorRect
<1>3. /\ Call("rect", b, v) \in Calls /\ Call("rect", b, v).app = b
      /\ Call("rect", b, v).kind \notin {"in", "out"}
  BY DEF Call, Calls
<1>4. KeysAgree' /\ OwnerThere' BY <1>0, <1>1 DEF KeysAgree, OwnerThere
<1>5. AllHeard'
  <2> SUFFICES ASSUME NEW a \in IcApps, a \in alive' PROVE Heard(a)' BY DEF AllHeard
  <2>1. Heard(a) BY <1>0, <1>1 DEF AllHeard
  <2> QED BY <1>1, <1>2, <1>3, <2>1, OtherCallSettles
<1>6. OwnCalls'
  <2>1. b \in alive /\ Heard(b) BY <1>0 DEF SetCursorRect, AllHeard
  <2> QED BY <1>1, <1>2, <1>3, <2>1, OtherCallSettles
<1> QED BY <1>4, <1>5, <1>6 DEF SettleInv

(* The broker's events are in the order of each client's calls.             *)
LEMMA PumpSettles ==
  ASSUME Inv, SettleInv, NEW b \in IcApps, PumpClient(b)
  PROVE  SettleInv'
<1> DEFINE c == Head(pipe[b])
<1>0. KeysAgree /\ OwnerThere /\ OwnCalls /\ AllHeard /\ WireTyped
  BY InvParts DEF SettleInv
<1>1. /\ UNCHANGED <<phase, keyboard, alive, bound, focusedSurface, owner, origin, inbox,
                     draining, placed>>
      /\ pipe[b] # <<>> /\ events' = Append(events, c)
      /\ pipe' = [pipe EXCEPT ![b] = Tail(pipe[b])]
  BY DEF PumpClient, seatVars, imeVars, ownerVars
<1>2. /\ pipe[b] \in Seq(Calls) /\ events \in Seq(Calls) /\ pipe'[b] = Tail(pipe[b])
      /\ \A a \in IcApps \ {b} : pipe'[a] = pipe[a]
  BY <1>0, <1>1 DEF WireTyped
<1>3. c \in Calls /\ c.app = b
  <2>1. c = pipe[b][1] /\ 1 \in DOMAIN pipe[b] BY <1>1, <1>2
  <2> QED BY <1>0, <1>1, <1>2, <2>1 DEF OwnCalls
<1>4. KeysAgree' /\ OwnerThere' BY <1>0, <1>1 DEF KeysAgree, OwnerThere
<1>5. OwnCalls'
  <2>1. \A i \in DOMAIN pipe'[b] : pipe'[b][i].app = b
    <3>1. \A i \in DOMAIN pipe[b] : pipe[b][i].app = b BY <1>0 DEF OwnCalls
    <3> QED BY <1>1, <1>2, <3>1
  <2> QED BY <1>0, <1>2, <2>1 DEF OwnCalls
<1>6. AllHeard'
  <2> SUFFICES ASSUME NEW a \in IcApps, a \in alive' PROVE Heard(a)' BY DEF AllHeard
  <2>1. Heard(a) BY <1>0, <1>1 DEF AllHeard
  <2>2. /\ LastSays(pipe[b], a, keyboard) => LastSays(Tail(pipe[b]), a, keyboard)
        /\ ~IsFocusCall(c, a) =>
             (FocusCalls(Tail(pipe[b]), a) = {} <=> FocusCalls(pipe[b], a) = {})
        /\ IsFocusCall(c, a) =>
             /\ FocusCalls(pipe[b], a) # {}
             /\ FocusCalls(Tail(pipe[b]), a) = {} /\ LastSays(pipe[b], a, keyboard)
                  => (c.kind = "in" <=> keyboard = a)
    BY <1>1, <1>2, Taken
  <2>3. /\ ~IsFocusCall(c, a) =>
             /\ FocusCalls(events', a) = FocusCalls(events, a)
             /\ LastSays(events', a, keyboard) <=> LastSays(events, a, keyboard)
        /\ IsFocusCall(c, a) =>
             /\ FocusCalls(events', a) # {}
             /\ LastSays(events', a, keyboard) <=> (c.kind = "in" <=> keyboard = a)
    <3> HIDE DEF c
    <3> QED BY <1>1, <1>2, <1>3, Sent
  <2> HIDE DEF c
  <2>4. CASE a = b
    <3>1. CASE IsFocusCall(c, a)
      BY <1>1, <1>2, <2>1, <2>2, <2>3, <2>4, <3>1 DEF Heard
    <3>2. CASE ~IsFocusCall(c, a)
      BY <1>1, <1>2, <2>1, <2>2, <2>3, <2>4, <3>2 DEF Heard
    <3> QED BY <3>1, <3>2
  <2>5. CASE a # b
    <3>1. ~IsFocusCall(c, a) BY <1>3, <2>5 DEF IsFocusCall
    <3> QED BY <1>1, <1>2, <2>1, <2>3, <2>5, <3>1 DEF Heard
  <2> QED BY <2>4, <2>5
<1> QED BY <1>4, <1>5, <1>6 DEF SettleInv

(* Nothing is promised of a client that has exited.                         *)
LEMMA ExitSettles ==
  ASSUME Inv, SettleInv, NEW b \in Apps, Exits(b)
  PROVE  SettleInv'
<1>0. KeysAgree /\ OwnerThere /\ OwnCalls /\ AllHeard /\ WireTyped
  BY InvParts DEF SettleInv
<1>1. /\ UNCHANGED <<phase, keyboard, bound, focusedSurface, owner, origin, events, draining,
                     placed>>
      /\ alive' = alive \ {b}
      /\ inbox' = IF b \in IcApps THEN [inbox EXCEPT ![b] = <<>>] ELSE inbox
  BY DEF Exits, imeVars, ownerVars, drainVars
<1>2. KeysAgree' /\ OwnerThere' BY <1>0, <1>1 DEF KeysAgree, OwnerThere
<1>3. \A a \in IcApps \ {b} : inbox'[a] = inbox[a] BY <1>0, <1>1 DEF WireTyped
<1>4. CASE pipe' = pipe
  <2>1. OwnCalls' BY <1>0, <1>4 DEF OwnCalls
  <2>2. AllHeard'
    <3> SUFFICES ASSUME NEW a \in IcApps, a \in alive' PROVE Heard(a)' BY DEF AllHeard
    <3>1. Heard(a) /\ inbox'[a] = inbox[a] BY <1>0, <1>1, <1>3 DEF AllHeard
    <3> QED BY <1>1, <1>4, <3>1 DEF Heard
  <2> QED BY <1>2, <2>1, <2>2 DEF SettleInv
<1>5. CASE b \in IcApps /\ pipe' = [pipe EXCEPT ![b] = Append(pipe[b], Call("destroyed", b, 0))]
  <2> DEFINE c == Call("destroyed", b, 0)
  <2>1. c \in Calls /\ c.app = b /\ c.kind \notin {"in", "out"} BY <1>5 DEF Call, Calls
  <2> HIDE DEF c
  <2>2. /\ pipe' = [pipe EXCEPT ![b] = Append(pipe[b], c)]
        /\ pipe[b] \in Seq(Calls) /\ pipe'[b] = Append(pipe[b], c)
        /\ \A d \in IcApps \ {b} : pipe'[d] = pipe[d]
    BY <1>0, <1>5 DEF WireTyped, c
  <2>3. OwnCalls'
    <3>1. \A i \in DOMAIN pipe'[b] : pipe'[b][i].app = b
      <4>1. \A i \in DOMAIN pipe[b] : pipe[b][i].app = b BY <1>0, <1>5 DEF OwnCalls
      <4> QED BY <2>1, <2>2, <4>1
    <3> QED BY <1>0, <2>2, <3>1 DEF OwnCalls
  <2>4. AllHeard'
    <3> SUFFICES ASSUME NEW a \in IcApps, a \in alive' PROVE Heard(a)' BY DEF AllHeard
    <3>1. a # b /\ Heard(a) BY <1>0, <1>1 DEF AllHeard
    <3> QED BY <1>1, <1>3, <2>2, <3>1 DEF Heard
  <2> QED BY <1>2, <2>3, <2>4 DEF SettleInv
<1> QED BY <1>4, <1>5 DEF Exits

(* A client that binds text_input changes nothing of this yet.              *)
LEMMA BindSettles ==
  ASSUME Inv, SettleInv, NEW b \in TipApps, BindTextInput(b)
  PROVE  SettleInv'
<1>0. KeysAgree /\ OwnerThere /\ OwnCalls /\ AllHeard BY DEF SettleInv
<1>1. /\ UNCHANGED <<phase, keyboard, alive, focusedSurface, inbox, pipe, events, draining,
                     placed, owner, origin>>
      /\ bound \subseteq bound'
  BY DEF BindTextInput, imeVars, ownerVars, wireVars, drainVars
<1>2. KeysAgree' /\ OwnerThere' /\ OwnCalls'
  BY <1>0, <1>1 DEF KeysAgree, OwnerThere, OwnCalls
<1>3. AllHeard' BY <1>0, <1>1, QueuesAlone DEF AllHeard
<1> QED BY <1>2, <1>3 DEF SettleInv

-----------------------------------------------------------------------------
(* What is on its way to the bridge about focus tells it in the end who has  *)
(* the keyboard (on_focus_changed, drain_fcitx_events).                      *)
THEOREM Settling == Spec => []SettleInv
<1>1. ASSUME Init PROVE SettleInv
  <2>1. KeysAgree /\ OwnerThere /\ OwnCalls
    BY <1>1, Kinds DEF Init, KeysAgree, OwnerThere, OwnCalls
  <2>2. AllHeard
    <3> SUFFICES ASSUME NEW a \in IcApps PROVE Heard(a) BY DEF AllHeard
    <3>1. FocusCalls(<<>>, a) = {} BY DEF FocusCalls
    <3> QED BY <1>1, <3>1, Kinds DEF Init, Heard
  <2> QED BY <2>1, <2>2 DEF SettleInv
<1>2. Inv /\ SettleInv /\ [Next]_vars => SettleInv'
  <2> SUFFICES ASSUME Inv, SettleInv, [Next]_vars PROVE SettleInv' OBVIOUS
  <2>1. CASE \E a \in Apps \cup {None} : FocusMoves(a) \/ SwitchWorkspace(a)
    BY <2>1, MovesSettle DEF Places
  <2>2. CASE OnFcitxEvent BY <2>2, EventSettles
  <2>3. CASE PollTipFreshness BY <2>3, PollSettles
  <2>4. CASE Tick BY <2>4, TickSettles
  <2>5. CASE \E a \in TipApps : BindTextInput(a) BY <2>5, BindSettles
  <2>6. CASE \E a \in IcApps : HandleKeyboard(a) \/ SetCursorRect(a) \/ PumpClient(a)
    BY <2>6, HandleSettles, CaretSettles, PumpSettles
  <2>7. CASE \E a \in Apps : Exits(a) BY <2>7, ExitSettles
  <2>8. CASE \/ SettleEnds \/ Redraw \/ HostImeEvent \/ SetPrefixActive \/ UNCHANGED vars
             \/ \E a \in TipApps : SetCursorRectangle(a)
    <3>1. UNCHANGED <<phase, focusedSurface, keyboard, alive, bound, inbox, pipe, events,
                      draining, placed, owner, origin>>
      BY <2>8 DEF SettleEnds, Redraw, HostImeEvent, SetPrefixActive, SetCursorRectangle,
         ReportTip, vars, seatVars, imeVars, ownerVars, wireVars, drainVars
    <3> QED BY <3>1, SettleAlone
  <2> QED BY <2>1, <2>2, <2>3, <2>4, <2>5, <2>6, <2>7, <2>8 DEF Next
<1> QED BY <1>1, <1>2, Invariance, PTL DEF Spec

(* When every message has arrived, the input method's owner is the client   *)
(* with the keyboard, however D-Bus calls and focus changes have crossed    *)
(* (on_focus_changed, on_fcitx_event and poll_tip_freshness in              *)
(* state/ime.rs, drain_fcitx_events).                                       *)
THEOREM TheOwnerSettles == Spec => []OwnerSettles
<1>1. ASSUME Inv, SettleInv PROVE OwnerSettles
  <2> SUFFICES ASSUME Quiet, owner # NoOwner, owner.app \in alive
               PROVE  owner.app = keyboard /\ origin \in {None, keyboard}
    BY DEF OwnerSettles
  <2>0. Placed /\ KeysAgree /\ OwnerThere /\ AllHeard /\ owner \in Owners
    BY <1>1, InvParts DEF SettleInv, OwnerOK, OwnerTyped
  <2>1. CASE owner.kind = "tip"
    BY <2>0, <2>1 DEF Placed, KeysAgree, OwnerThere
  <2>2. CASE owner.kind = "dbus"
    <3>1. owner.app \in IcApps /\ owner = Dbus(owner.app) BY <2>0, <2>2, Kinds
    <3>2. Heard(owner.app) BY <2>0, <3>1 DEF AllHeard
    <3>3. FocusCalls(<<>>, owner.app) = {} BY DEF FocusCalls
    <3>4. draining = <<>> BY <2>0 DEF KeysAgree, Quiet
    <3>5. owner.app = keyboard BY <3>1, <3>2, <3>3, <3>4 DEF Heard, Quiet
    <3> QED BY <2>0, <2>2, <3>5 DEF OwnerThere
  <2> QED BY <2>0, <2>1, <2>2, Kinds
<1> QED BY <1>1, Invariance, Settling, PTL

(* Then what the user types goes to the client with the keyboard, and to no *)
(* second one (on_host_ime_event).                                          *)
THEOREM TextGoesToKeyboard == Spec => []TextToKeyboard
<1>1. ASSUME Inv, SettleInv, OwnerSettles PROVE TextToKeyboard
  <2> SUFFICES ASSUME Quiet, DesiredAllowed, owner.app \in alive
               PROVE  TextGoesTo = {keyboard}
    BY DEF TextToKeyboard
  <2>0. Placed /\ KeysAgree /\ OwnerThere /\ owner \in Owners
    BY <1>1, InvParts DEF SettleInv, OwnerOK, OwnerTyped
  <2>1. owner.kind \in {"tip", "dbus"} BY DEF DesiredAllowed
  <2>2. owner # NoOwner BY <2>1, Kinds
  <2>3. owner.app = keyboard /\ keyboard \in alive BY <1>1, <2>2 DEF OwnerSettles
  <2>4. keyboard \in Apps BY <2>0, <2>2, <2>3, Kinds
  <2>5. tiFocus = keyboard BY <2>0, <2>4, Names DEF Placed, KeysAgree
  <2>6. CASE owner.kind = "tip"
    <3>1. \A a : owner # Dbus(a) BY <2>6, Kinds
    <3>2. keyboard \in bound BY <2>0, <2>3, <2>6 DEF OwnerThere
    <3> QED BY <2>3, <2>5, <3>1, <3>2 DEF TextGoesTo
  <2>7. CASE owner.kind = "dbus"
    <3>1. owner = Dbus(keyboard) BY <2>0, <2>3, <2>7, Kinds
    <3>2. \A a : owner = Dbus(a) => a = keyboard BY <2>3, Kinds
    <3> QED BY <2>3, <2>5, <3>1, <3>2 DEF TextGoesTo
  <2> QED BY <2>1, <2>6, <2>7
<1> QED BY <1>1, Invariance, Settling, TheOwnerSettles, PTL

-----------------------------------------------------------------------------
(* What the bridge has told the host is what the host knows.                *)
HostKnown == hostAllowed = lastAllowed /\ (lastAllowed => hostArea = lastArea)

(* A caret is known whenever text is wanted: a tip owner has its fallback.  *)
LEMMA WantedHasArea == ASSUME Inv, DesiredAllowed PROVE cursor # NoArea
<1>1. OwnerOK BY InvParts
<1>2. CASE owner.kind = "dbus"
  BY <1>1, <1>2, Kinds DEF OwnerOK, OwnerTyped, DesiredAllowed
<1>3. CASE owner.kind = "tip"
  <2>1. owner.app \in Apps /\ cursor.at = owner.app
    BY <1>1, <1>3, Kinds, Names DEF OwnerOK, OwnerTyped, CaretIsOwners
  <2> QED BY <2>1, Names DEF NoArea, Area
<1> QED BY <1>2, <1>3 DEF DesiredAllowed

LEMMA RedrawTells ==
  ASSUME Inv, HostKnown, Redraw
  PROVE  /\ hostAllowed' = DesiredAllowed /\ lastAllowed' = DesiredAllowed
         /\ DesiredAllowed => hostArea' = cursor /\ lastArea' = cursor
<1>1. /\ hostAllowed' = DesiredAllowed /\ lastAllowed' = DesiredAllowed
      /\ lastArea' = Pushed(lastArea)
      /\ hostArea' = Pushed(IF DesiredAllowed /\ ~hostAllowed THEN NoArea ELSE hostArea)
  BY DEF Redraw, SyncToWinit
<1>2. ASSUME DesiredAllowed PROVE hostArea' = cursor /\ lastArea' = cursor
  <2>1. cursor # NoArea BY <1>2, WantedHasArea
  <2>2. CASE AreaPushed BY <1>1, <2>2 DEF Pushed
  <2>3. CASE ~AreaPushed
    <3>1. cursor = lastArea /\ lastAllowed BY <1>2, <2>1, <2>3 DEF AreaPushed
    <3>2. hostAllowed /\ hostArea = cursor BY <3>1 DEF HostKnown
    <3> QED BY <1>1, <2>3, <3>1, <3>2 DEF Pushed
  <2> QED BY <2>2, <2>3
<1> QED BY <1>1, <1>2

(* What the bridge remembers of the host is what the host has               *)
(* (last_ime_allowed and last_ime_area in sync_to_winit).                    *)
THEOREM HostIsKnown == Spec => []HostKnown
<1>1. Init => HostKnown BY DEF Init, HostKnown
<1>2. ASSUME Inv, HostKnown, Redraw PROVE HostKnown'
  BY <1>2, RedrawTells DEF HostKnown
<1>3. HostKnown /\ UNCHANGED hostVars => HostKnown' BY DEF HostKnown, hostVars
<1>4. [Next]_vars => Redraw \/ UNCHANGED hostVars
  BY DEF Next, vars, hostVars, FocusMoves, SwitchWorkspace, SetPrefixActive, Tick, OnFcitxEvent,
     PollTipFreshness, SettleEnds, HostImeEvent, BindTextInput, SetCursorRectangle,
     HandleKeyboard, SetCursorRect, PumpClient, Exits
<1>5. Inv /\ HostKnown /\ [Next]_vars => HostKnown' BY <1>2, <1>3, <1>4
<1> QED BY <1>1, <1>5, Invariance, PTL DEF Spec

(* Every redraw leaves the host with what the bridge wants, also when       *)
(* enabling has made it forget the area (sync_to_winit).                    *)
THEOREM HostFollowsBridge == Spec => HostFollows
<1>1. ASSUME Inv, HostKnown, Redraw
      PROVE  hostAllowed' = DesiredAllowed /\ (DesiredAllowed => hostArea' = cursor)
  BY <1>1, RedrawTells
<1> QED BY <1>1, Invariance, HostIsKnown, PTL DEF HostFollows
=============================================================================
