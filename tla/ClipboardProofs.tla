-------------------------- MODULE ClipboardProofs --------------------------
(***************************************************************************)
(* The echo counter of a data-control host, for any number of copies and   *)
(* clears by both sides, crossing or not, whatever other hosts there are;  *)
(* and for Wayland hosts that both sides agree once all news has come.     *)
(*                                                                         *)
(* CounterSettles is not inductive: it speaks of quiet states only.  What   *)
(* every step preserves is that the counter never exceeds the echoes still *)
(* to come: a request on its way will be answered by one, and an echo on   *)
(* its way is one.                                                         *)
(***************************************************************************)
EXTENDS Clipboard, FiniteSetTheorems, SequenceTheorems, WellFoundedInduction, TLAPS

HostOrNone == [from : {"app", "us"}, data : Nat] \cup {None}
Event      == [ev : {"selection"}, sel : HostOrNone, own : BOOLEAN]
                \cup [ev : {"cancelled", "enter"}, sel : HostOrNone, own : {FALSE}]
Request    == [op : {"set", "clear"}, data : Nat]

Own(q) == {i \in 1 .. Len(q) : q[i].own}              \* where q holds an echo

Typed ==
  /\ hostSel \in HostOrNone
  /\ toHost \in Seq(Request)
  /\ toUs \in Seq(Event)
  /\ suppress \in Nat
  /\ ops \in Nat

EchoesOwed ==
  backend = "data_control" => suppress <= Len(toHost) + Cardinality(Own(toUs))

IInv == Typed /\ EchoesOwed

-----------------------------------------------------------------------------
(* Echoes in a queue *)

LEMMA OwnFinite ==
  ASSUME NEW q \in Seq(Event)
  PROVE  IsFiniteSet(Own(q)) /\ Cardinality(Own(q)) \in Nat
<1>1. IsFiniteSet(1 .. Len(q))
  BY FS_Interval
<1>2. Own(q) \in SUBSET (1 .. Len(q))
  BY DEF Own
<1>3. IsFiniteSet(Own(q))
  BY <1>1, <1>2, FS_Subset
<1> QED
  BY <1>3, FS_CardinalityType

(* An event that joins the queue adds an echo exactly if it is one.         *)
LEMMA OwnOfAppend ==
  ASSUME NEW q \in Seq(Event), NEW e \in Event
  PROVE  Cardinality(Own(Append(q, e))) = Cardinality(Own(q)) + IF e.own THEN 1 ELSE 0
<1>1. Own(Append(q, e)) = IF e.own THEN Own(q) \cup {Len(q) + 1} ELSE Own(q)
  BY DEF Own
<1>2. Len(q) + 1 \notin Own(q)
  BY DEF Own
<1>3. IsFiniteSet(Own(q)) /\ Cardinality(Own(q)) \in Nat
  BY OwnFinite
<1>4. Cardinality(Own(q) \cup {Len(q) + 1}) = Cardinality(Own(q)) + 1
  BY <1>2, <1>3, FS_AddElement
<1> QED
  BY <1>1, <1>3, <1>4

(* The event at the head takes its echo with it.                            *)
LEMMA OwnOfTail ==
  ASSUME NEW q \in Seq(Event), q # << >>
  PROVE  Cardinality(Own(Tail(q))) = Cardinality(Own(q)) - IF Head(q).own THEN 1 ELSE 0
<1> DEFINE shift == [i \in Own(Tail(q)) |-> i + 1]
<1>1. Tail(q) \in Seq(Event) /\ Len(Tail(q)) = Len(q) - 1
  OBVIOUS
<1>2. \A i \in 1 .. Len(Tail(q)) : Tail(q)[i] = q[i + 1]
  OBVIOUS
<1>3. \A i \in Own(Tail(q)) : i + 1 \in Own(q) \ {1}
  BY <1>1, <1>2 DEF Own
<1>4. \A j \in Own(q) \ {1} : j - 1 \in Own(Tail(q)) /\ shift[j - 1] = j
  BY <1>1, <1>2 DEF Own
<1>5. shift \in Bijection(Own(Tail(q)), Own(q) \ {1})
  <2>1. shift \in [Own(Tail(q)) -> Own(q) \ {1}]
    BY <1>3
  <2>2. \A a, b \in Own(Tail(q)) : shift[a] = shift[b] => a = b
    BY DEF Own
  <2>3. \A j \in Own(q) \ {1} : \E i \in Own(Tail(q)) : shift[i] = j
    BY <1>4
  <2> QED
    BY <2>1, <2>2, <2>3 DEF Bijection, Injection, Surjection, IsInjective
<1>6. Cardinality(Own(q) \ {1}) = Cardinality(Own(Tail(q)))
  BY <1>1, <1>5, OwnFinite, FS_Bijection DEF ExistsBijection
<1>7. 1 \in Own(q) <=> Head(q).own
  BY DEF Own
<1>8. IsFiniteSet(Own(q)) /\ Cardinality(Own(q)) \in Nat
  BY OwnFinite
<1>9. Cardinality(Own(q) \ {1}) = IF Head(q).own THEN Cardinality(Own(q)) - 1 ELSE Cardinality(Own(q))
  BY <1>7, <1>8, FS_RemoveElement
<1> QED
  BY <1>6, <1>8, <1>9

-----------------------------------------------------------------------------

LEMMA SelectionTyped ==
  ASSUME NEW sel \in HostOrNone, NEW own \in BOOLEAN
  PROVE  Selection(sel, own) \in Event /\ Selection(sel, own).own = own
BY DEF Selection, Event

(* What the host announces is one selection event at most, and before it    *)
(* perhaps a cancelled; a data-control host always tells of the selection.  *)
LEMMA Announced ==
  ASSUME Typed, NEW sel \in HostOrNone, NEW own \in BOOLEAN
  PROVE  /\ Announce(sel, own) \in Seq(Event)
         /\ Cardinality(Own(Announce(sel, own)))
              = Cardinality(Own(toUs)) + IF own /\ ~Deaf THEN 1 ELSE 0
         /\ backend = "data_control" => ~Deaf
<1>1. Selection(sel, own) \in Event /\ Selection(sel, own).own = own
  BY SelectionTyped
<1>2. toUs \in Seq(Event) /\ Cardinality(Own(toUs)) \in Nat
  BY OwnFinite DEF Typed
<1>3. Replaced \in Seq(Event) /\ Cardinality(Own(Replaced)) = Cardinality(Own(toUs))
  <2> DEFINE c == Cancelled(hostSel.data)
  <2>1. CASE Replaced = Append(toUs, c) /\ hostSel # None
    <3>1. c \in Event /\ ~c.own
      BY <2>1 DEF Typed, HostOrNone, Cancelled, Event
    <3> QED
      BY <1>2, <2>1, <3>1, OwnOfAppend
  <2>2. CASE Replaced = toUs
    BY <1>2, <2>2
  <2> QED
    BY <2>1, <2>2 DEF Replaced
<1>4. Append(Replaced, Selection(sel, own)) \in Seq(Event)
  BY <1>1, <1>3
<1>5. Cardinality(Own(Append(Replaced, Selection(sel, own))))
        = Cardinality(Own(toUs)) + IF own THEN 1 ELSE 0
  BY <1>1, <1>3, OwnOfAppend
<1>6. backend = "data_control" => ~Deaf
  BY DEF Deaf
<1>7. CASE Deaf
  BY <1>2, <1>3, <1>6, <1>7 DEF Announce
<1>8. CASE ~Deaf
  <2>1. Announce(sel, own) = Append(Replaced, Selection(sel, own))
    BY <1>8 DEF Announce
  <2> QED
    BY <1>4, <1>5, <1>6, <1>8, <2>1
<1> QED
  BY <1>7, <1>8

LEMMA InitIInv == Init => IInv
<1> SUFFICES ASSUME Init PROVE IInv
  OBVIOUS
<1>1. Typed
  BY DEF Init, Typed, HostOrNone
<1>2. EchoesOwed
  <2>1. Cardinality(Own(toUs)) \in Nat
    BY <1>1, OwnFinite DEF Typed
  <2> QED
    BY <2>1 DEF Init, EchoesOwed
<1> QED
  BY <1>1, <1>2 DEF IInv

(* A request adds one to the counter, and one echo to come.                 *)
LEMMA RequestOwed ==
  ASSUME IInv, SetHostSelection(ops + 1) \/ ClearHostSelection,
         ops' = ops + 1, UNCHANGED <<backend, hostSel, toUs>>
  PROVE  IInv'
<1> USE DEF IInv, Typed
<1>1. PICK r \in Request : toHost' = Append(toHost, r)
  BY DEF SetHostSelection, ClearHostSelection, Request
<1>2. suppress' = suppress + 1
  BY DEF SetHostSelection, ClearHostSelection, SuppressMore
<1>3. Len(toHost') = Len(toHost) + 1 /\ toHost' \in Seq(Request)
  BY <1>1
<1>4. Own(toUs') = Own(toUs) /\ Cardinality(Own(toUs)) \in Nat
  BY OwnFinite DEF Own
<1> QED
  BY <1>2, <1>3, <1>4 DEF EchoesOwed

(* The host turns a request into an echo; only by wl_data_device may it     *)
(* refuse.                                                                  *)
LEMMA HostTakesRequestOwed ==
  ASSUME IInv, HostTakesRequest
  PROVE  IInv'
<1> USE DEF IInv, Typed
<1> DEFINE r == Head(toHost)
<1>1. Cardinality(Own(toUs)) \in Nat /\ Len(toHost) \in Nat
  BY OwnFinite
<1>2. r \in Request /\ toHost' \in Seq(Request) /\ Len(toHost') = Len(toHost) - 1
  BY DEF HostTakesRequest
<1>3. UNCHANGED <<backend, suppress, ops>>
  BY DEF HostTakesRequest, backendVars
<1>4. CASE Grants(r)
  <2> DEFINE sel == IF r.op = "set" THEN [from |-> "us", data |-> r.data] ELSE None
  <2>1. sel \in HostOrNone
    BY <1>2 DEF HostOrNone, Request
  <2>2. hostSel' = sel /\ toUs' = Announce(sel, TRUE)
    BY <1>4 DEF Grants
  <2> HIDE DEF sel, r
  <2>3. toUs' \in Seq(Event)
        /\ (backend = "data_control" => Cardinality(Own(toUs')) = Cardinality(Own(toUs)) + 1)
    BY <2>1, <2>2, Announced DEF Own
  <2>4. Typed'
    BY <1>2, <1>3, <2>1, <2>2, <2>3
  <2>5. EchoesOwed'
    BY <1>1, <1>2, <1>3, <2>3 DEF EchoesOwed
  <2> QED
    BY <2>4, <2>5
<1>5. CASE Refuses(r)
  <2>1. Cancelled(r.data) \in Event
    BY <1>2 DEF Cancelled, Event, HostOrNone, Request
  <2>2. toUs' \in Seq(Event) /\ hostSel' = hostSel /\ backend # "data_control"
    BY <1>5, <2>1 DEF Refuses, Deaf
  <2> QED
    BY <1>2, <1>3, <2>2 DEF EchoesOwed
<1> QED
  BY <1>4, <1>5 DEF HostTakesRequest

(* What applications of the host do adds no echo.                           *)
LEMMA HostOwed ==
  ASSUME IInv, HostCopy \/ HostClear
  PROVE  IInv'
<1> USE DEF IInv, Typed
<1>1. Cardinality(Own(toUs)) \in Nat /\ Len(toHost) \in Nat
  BY OwnFinite
<1>2. ops' = ops + 1 /\ UNCHANGED <<backend, toHost, suppress>>
  BY DEF HostCopy, HostClear, HostActs, backendVars
<1>3. hostSel' \in HostOrNone
  <2>1. CASE HostCopy
    BY <2>1 DEF HostCopy, HostOrNone
  <2>2. CASE HostClear
    BY <2>2 DEF HostClear, HostOrNone
  <2> QED
    BY <2>1, <2>2
<1>4. toUs' = Announce(hostSel', FALSE)
  BY DEF HostCopy, HostClear
<1>5. toUs' \in Seq(Event)
      /\ (backend = "data_control" => Cardinality(Own(toUs')) = Cardinality(Own(toUs)) + 0)
  BY <1>3, <1>4, Announced
<1> QED
  BY <1>1, <1>2, <1>3, <1>5 DEF EchoesOwed

(* The keyboard matters to wl_data_device only.                             *)
LEMMA KeyboardOwed ==
  ASSUME IInv, FocusEnters \/ FocusLeaves
  PROVE  IInv'
<1> USE DEF IInv, Typed
<1>1. UNCHANGED <<backend, hostSel, toHost, suppress>> /\ ops' \in Nat
  <2>1. CASE FocusEnters
    BY <2>1 DEF FocusEnters, backendVars
  <2>2. CASE FocusLeaves
    BY <2>2 DEF FocusLeaves, backendVars
  <2> QED
    BY <2>1, <2>2
<1>2. CASE FocusEnters
  <2> DEFINE s == Selection(hostSel, FALSE)
  <2>1. s \in Event
    BY SelectionTyped
  <2>2. Entered \in Event
    BY DEF Entered, Event, HostOrNone
  <2>3. toUs' = Append(Append(toUs, s), Entered) /\ backend # "data_control"
    BY <1>2 DEF FocusEnters
  <2> HIDE DEF s
  <2>4. toUs' \in Seq(Event)
    <3>1. Append(toUs, s) \in Seq(Event)
      BY <2>1
    <3> QED
      BY <2>2, <2>3, <3>1
  <2> QED
    BY <1>1, <2>3, <2>4 DEF EchoesOwed
<1>3. CASE FocusLeaves
  <2>1. UNCHANGED toUs
    BY <1>3 DEF FocusLeaves
  <2> QED
    BY <1>1, <2>1 DEF EchoesOwed, Own
<1> QED
  BY <1>2, <1>3

(* On Wayland every selection event uses up a suppression, if there is one;  *)
(* no other event is an echo.                                               *)
LEMMA DispatchOwed ==
  ASSUME IInv, Dispatch
  PROVE  IInv'
<1> USE DEF IInv, Typed
<1>1. Cardinality(Own(toUs)) \in Nat /\ Len(toHost) \in Nat /\ toUs # << >>
  BY OwnFinite DEF Dispatch
<1>2. toUs' = Tail(toUs) /\ toUs' \in Seq(Event) /\ UNCHANGED <<backend, hostSel, toHost, ops>>
  BY DEF Dispatch, hostVars
<1>3. Cardinality(Own(toUs')) = Cardinality(Own(toUs)) - IF Head(toUs).own THEN 1 ELSE 0
  BY <1>1, <1>2, OwnOfTail DEF Own
<1>4. CASE Head(toUs).ev = "selection"
  <2>1. \/ suppress > 0 /\ suppress' = suppress - 1
        \/ suppress = 0 /\ suppress' = 0
        \/ backend # "data_control" /\ suppress' = suppress
    BY <1>4 DEF Dispatch, OnSelection, OwnedByUs
  <2>2. Cardinality(Own(toUs')) \in Nat
    BY <1>2, OwnFinite
  <2>3. Cardinality(Own(toUs')) >= Cardinality(Own(toUs)) - 1
    BY <1>1, <1>3
  <2> QED
    BY <1>1, <1>2, <2>1, <2>2, <2>3 DEF EchoesOwed
<1>5. CASE Head(toUs).ev \in {"cancelled", "enter"}
  <2>1. UNCHANGED suppress
    BY <1>5 DEF Dispatch, OnCancelled, backendVars
  <2>2. Head(toUs) \in Event
    BY <1>1
  <2>3. ~Head(toUs).own
    BY <1>5, <2>2 DEF Event
  <2> QED
    BY <1>1, <1>2, <1>3, <2>1, <2>3 DEF EchoesOwed
<1> QED
  BY <1>4, <1>5 DEF Dispatch

LEMMA StepIInv == IInv /\ [Next]_vars => IInv'
<1> SUFFICES ASSUME IInv, [Next]_vars PROVE IInv'
  OBVIOUS
<1>1. CASE Dispatch
  BY <1>1, DispatchOwed
<1>2. CASE ClientCopy /\ ipcConnected /\ MayRequest
  BY <1>2, RequestOwed DEF ClientCopy, ClientActs, hostVars
<1>3. CASE ClientClear /\ MayRequest
  BY <1>3, RequestOwed DEF ClientClear, ClientActs, hostVars
<1>4. CASE HostTakesRequest
  BY <1>4, HostTakesRequestOwed
<1>5. CASE HostCopy \/ HostClear
  BY <1>5, HostOwed
<1>6. CASE FocusEnters \/ FocusLeaves
  BY <1>6, KeyboardOwed
<1>7. CASE TakeEvents \/ EmacsConnects \/ EmacsDisconnects
           \/ (ClientCopy /\ ~(ipcConnected /\ MayRequest))
           \/ (ClientClear /\ ~MayRequest) \/ UNCHANGED vars
  <2>1. UNCHANGED <<backend, hostSel, toHost, toUs, suppress>> /\ ops' \in Nat
    BY <1>7 DEF TakeEvents, EmacsConnects, EmacsDisconnects, ClientCopy, ClientClear,
       ClientActs, vars, hostVars, backendVars, IInv, Typed
  <2> QED
    BY <2>1 DEF IInv, Typed, EchoesOwed, Own
<1> QED
  BY <1>1, <1>2, <1>3, <1>4, <1>5, <1>6, <1>7 DEF Next

LEMMA IInvSettles == IInv => CounterSettles
<1> SUFFICES ASSUME IInv, backend = "data_control", Quiet PROVE suppress = 0
  BY DEF CounterSettles
<1>1. Own(toUs) = {} /\ Len(toHost) = 0
  BY DEF Quiet, Own
<1> QED
  BY <1>1, FS_EmptySet DEF IInv, Typed, EchoesOwed

(* On a data-control host the counter never exceeds the echoes to come, so   *)
(* it is zero when all news has arrived (on_selection, set_host_selection,  *)
(* clear_host_selection).  The other two backends break this: by X11 the    *)
(* echo is not counted, by wl_data_device it may not come.                  *)
THEOREM EchoesComeBack == Spec => [](CounterSettles /\ EchoesOwed)
<1>1. IInv => CounterSettles /\ EchoesOwed
  BY IInvSettles DEF IInv
<1> QED
  BY <1>1, StepIInv, InitIInv, PTL DEF Spec
-----------------------------------------------------------------------------
(* Both sides agree.  Below, a word is a selection that is not an echo, and *)
(* what is late is of something that emskin has done itself.                *)
Word(e) == e.ev = "selection" /\ ~e.own
Late(e) == e.own \/ e.ev = "cancelled"
Ours(sel) == sel # None /\ sel.from = "us"
Inside == inner # None => inner.from = "client"

(* No word overtakes what is late.                                          *)
Sorted(q) == \A i, j \in 1 .. Len(q) : i < j /\ Word(q[i]) => ~Late(q[j])

Earlier(q) == {q[i] : i \in 1 .. Len(q) - 1}          \* all but the last

MoreTyped ==
  /\ backend \in Backends
  /\ inner \in [from : {"client", "host", "echo"}, data : Nat] \cup {None}
  /\ origin \in {"Wayland", "Host"}
  /\ events \in Seq(Event)
  /\ source \in Nat
  /\ focused => backend = "wl_data_device"

Numbered ==
  /\ Ours(hostSel) => hostSel.data \in 1 .. ops
  /\ \A r \in ToSet(toHost) : r.data \in 1 .. ops
  /\ \A e \in ToSet(toUs) : e.ev = "cancelled" => e.sel.data \in 1 .. ops

Serial == focused => serial \/ \E e \in ToSet(toUs) : e.ev = "enter"

(* The counter counts what it is meant to.                                  *)
Counted == suppress = Len(toHost) + Cardinality(Own(toUs))

(* Requests are on their way: the host has said nothing new, and the last   *)
(* request is about what is inside now.                                     *)
Asked ==
  toHost # << >> =>
    /\ events = << >> /\ ~Deaf /\ Inside
    /\ \A e \in ToSet(toUs) : Late(e)
    /\ inner = None => Last(toHost).op = "clear"
    /\ Ours(hostSel) => hostSel.data # source
    /\ \A r \in Earlier(toHost) : r.op = "set" => r.data # source

(* Every word is the host's last.                                           *)
Told ==
  /\ \A e \in ToSet(toUs) : Word(e) => e.sel = hostSel /\ ~Ours(hostSel)
  /\ \A e \in ToSet(events) : Word(e) => e.sel = hostSel /\ ~Ours(hostSel) /\ offer = hostSel

Ordered ==
  /\ Sorted(toUs) /\ Sorted(events)
  /\ (\E e \in ToSet(events) : Word(e)) => \A e \in ToSet(toUs) : ~Late(e)

(* An event waits for the tick only after all echoes.                       *)
Taken ==
  /\ \A e \in ToSet(events) : Word(e) \/ e.ev = "cancelled"
  /\ events # << >> => toHost = << >> /\ \A e \in ToSet(toUs) : ~e.own

(* What is late finds a client's selection inside, or none.                 *)
Echoing == (\E e \in ToSet(toUs) \cup ToSet(events) : Late(e)) => Inside

Cancels ==
  \A e \in ToSet(toUs) : e.ev = "cancelled" /\ e.sel.data = source =>
    toHost = << >> /\ \A f \in ToSet(toUs) : ~f.own

OursInside == Ours(hostSel) => Inside /\ (toHost = << >> => inner # None)

Agree ==
  /\ Ours(hostSel) => inner # None /\ inner.from = "client"
  /\ inner # None /\ inner.from # "client" =>
       /\ hostSel = [from |-> "app", data |-> inner.data]
       /\ origin = "Host"
       /\ offer = hostSel
  /\ inner = None => hostSel = None

NoWords == \A e \in ToSet(toUs) \cup ToSet(events) : ~Word(e)

Settled == toHost = << >> /\ NoWords /\ ~Deaf => Agree

Uncrossed ==
  /\ Counted /\ Asked /\ Told /\ Ordered /\ Taken /\ Echoing /\ Cancels /\ OursInside
  /\ Settled /\ Serial

AgreeInv == Typed /\ MoreTyped /\ Numbered /\ (~crossed => Uncrossed)

-----------------------------------------------------------------------------
(* Queues *)

LEMMA Appended ==
  ASSUME NEW S, NEW q \in Seq(S), NEW e \in S
  PROVE  /\ ToSet(Append(q, e)) = ToSet(q) \cup {e}
         /\ Earlier(Append(q, e)) = ToSet(q) /\ Last(Append(q, e)) = e
         /\ Append(q, e) \in Seq(S) /\ Append(q, e) # << >>
<1> DEFINE r == Append(q, e)
<1>1. /\ r \in Seq(S) /\ Len(r) = Len(q) + 1 /\ r[Len(q) + 1] = e
      /\ \A i \in 1 .. Len(q) : r[i] = q[i]
  OBVIOUS
<1>2. DOMAIN r = 1 .. Len(q) + 1 /\ DOMAIN q = 1 .. Len(q) /\ Len(q) \in Nat
  OBVIOUS
<1> HIDE DEF r
<1>3. ToSet(r) = ToSet(q) \cup {e}
  BY <1>1, <1>2 DEF ToSet
<1>4. Earlier(r) = ToSet(q) /\ Last(r) = e
  BY <1>1, <1>2 DEF Earlier, ToSet, Last
<1>5. r # << >>
  BY <1>1, <1>2
<1> QED
  BY <1>1, <1>3, <1>4, <1>5 DEF r

LEMMA Departed ==
  ASSUME NEW S, NEW q \in Seq(S), q # << >>
  PROVE  /\ ToSet(q) = ToSet(Tail(q)) \cup {Head(q)} /\ Head(q) \in S
         /\ Tail(q) \in Seq(S)
         /\ Tail(q) # << >> => /\ Earlier(q) = Earlier(Tail(q)) \cup {Head(q)}
                               /\ Last(Tail(q)) = Last(q)
         /\ Tail(q) = << >> => Last(q) = Head(q)
<1> DEFINE r == Tail(q)
<1>1. /\ r \in Seq(S) /\ Len(q) = Len(r) + 1 /\ Head(q) = q[1] /\ Head(q) \in S
      /\ \A i \in 1 .. Len(r) : r[i] = q[i + 1]
  OBVIOUS
<1>2. DOMAIN r = 1 .. Len(r) /\ DOMAIN q = 1 .. Len(q) /\ Len(q) \in Nat /\ Len(r) \in Nat
  BY <1>1
<1> HIDE DEF r
<1>3. r # << >> <=> Len(r) > 0
  <2>1. r # << >> => Len(r) \in Nat \ {0}
    BY <1>1, EmptySeq
  <2> QED
    BY <1>2, <2>1
<1>4. \A i \in 2 .. Len(q) : \E k \in 1 .. Len(r) : i = k + 1 /\ r[k] = q[i]
  <2> SUFFICES ASSUME NEW i \in 2 .. Len(q)
               PROVE  \E k \in 1 .. Len(r) : i = k + 1 /\ r[k] = q[i]
    OBVIOUS
  <2> DEFINE k == i - 1
  <2>1. k \in 1 .. Len(r) /\ i = k + 1
    BY <1>1, <1>2
  <2> HIDE DEF k
  <2> QED
    BY <1>1, <2>1
<1>5. ToSet(q) = ToSet(r) \cup {Head(q)}
  <2>0. \A i \in 1 .. Len(q) : i = 1 \/ i \in 2 .. Len(q)
    BY <1>2
  <2>1. ToSet(q) \subseteq ToSet(r) \cup {Head(q)}
    <3> SUFFICES ASSUME NEW i \in 1 .. Len(q) PROVE q[i] \in ToSet(r) \cup {Head(q)}
      BY <1>2 DEF ToSet
    <3> QED
      BY <1>1, <1>2, <1>4, <2>0 DEF ToSet
  <2>2. ToSet(r) \cup {Head(q)} \subseteq ToSet(q)
    BY <1>1, <1>2 DEF ToSet
  <2> QED
    BY <2>1, <2>2
<1>6. ASSUME Len(r) > 0
      PROVE  Earlier(q) = Earlier(r) \cup {Head(q)} /\ Last(r) = Last(q)
  <2>1. \A i \in 1 .. Len(q) - 1 :
          i = 1 \/ \E k \in 1 .. Len(r) - 1 : i = k + 1 /\ r[k] = q[i]
    BY <1>1, <1>2, <1>4
  <2>2. Earlier(q) \subseteq Earlier(r) \cup {Head(q)}
    BY <1>1, <1>2, <2>1 DEF Earlier
  <2>3. Earlier(r) \cup {Head(q)} \subseteq Earlier(q)
    BY <1>1, <1>2, <1>6 DEF Earlier
  <2> QED
    BY <1>1, <1>2, <1>6, <2>2, <2>3 DEF Last
<1>7. Len(r) = 0 => Last(q) = Head(q)
  BY <1>1 DEF Last
<1> QED
  BY <1>1, <1>2, <1>3, <1>5, <1>6, <1>7 DEF r

LEMMA SortedAppend ==
  ASSUME NEW q \in Seq(Event), NEW e \in Event, Sorted(q),
         Late(e) => \A f \in ToSet(q) : ~Word(f)
  PROVE  Sorted(Append(q, e))
<1> DEFINE r == Append(q, e)
<1>1. /\ Len(r) = Len(q) + 1 /\ r[Len(q) + 1] = e /\ Len(q) \in Nat
      /\ \A i \in 1 .. Len(q) : r[i] = q[i] /\ q[i] \in ToSet(q)
  BY DEF ToSet
<1> HIDE DEF r
<1> SUFFICES ASSUME NEW i \in 1 .. Len(r), NEW j \in 1 .. Len(r), i < j, Word(r[i])
             PROVE  ~Late(r[j])
  BY DEF Sorted, r
<1>2. i \in 1 .. Len(q) /\ r[i] = q[i] /\ q[i] \in ToSet(q)
  BY <1>1
<1>3. CASE j = Len(q) + 1
  BY <1>1, <1>2, <1>3
<1>4. CASE j \in 1 .. Len(q)
  <2>1. r[j] = q[j]
    BY <1>1, <1>4
  <2> QED
    BY <1>2, <1>4, <2>1 DEF Sorted
<1> QED
  BY <1>1, <1>3, <1>4

LEMMA SortedTail ==
  ASSUME NEW q \in Seq(Event), q # << >>, Sorted(q)
  PROVE  Sorted(Tail(q)) /\ (Word(Head(q)) => \A e \in ToSet(Tail(q)) : ~Late(e))
<1> DEFINE r == Tail(q)
<1>1. /\ r \in Seq(Event) /\ Len(q) = Len(r) + 1 /\ Head(q) = q[1]
      /\ \A i \in 1 .. Len(r) : r[i] = q[i + 1]
  OBVIOUS
<1>2. DOMAIN r = 1 .. Len(r) /\ Len(r) \in Nat
  BY <1>1
<1> HIDE DEF r
<1>3. Sorted(r)
  <2> SUFFICES ASSUME NEW i \in 1 .. Len(r), NEW j \in 1 .. Len(r), i < j, Word(r[i])
               PROVE  ~Late(r[j])
    BY DEF Sorted
  <2>1. /\ i + 1 \in 1 .. Len(q) /\ j + 1 \in 1 .. Len(q) /\ i + 1 < j + 1
        /\ r[i] = q[i + 1] /\ r[j] = q[j + 1]
    BY <1>1, <1>2
  <2> QED
    BY <2>1 DEF Sorted
<1>4. ASSUME Word(Head(q)), NEW e \in ToSet(r) PROVE ~Late(e)
  <2>1. PICK i \in 1 .. Len(r) : e = r[i]
    BY <1>2 DEF ToSet
  <2>2. 1 \in 1 .. Len(q) /\ i + 1 \in 1 .. Len(q) /\ 1 < i + 1 /\ r[i] = q[i + 1]
    BY <1>1, <1>2
  <2> QED
    BY <1>1, <1>4, <2>1, <2>2 DEF Sorted
<1> QED
  BY <1>3, <1>4 DEF r

LEMMA NoneIsEmpty ==
  /\ ToSet(<< >>) = {} /\ Sorted(<< >>) /\ Own(<< >>) = {}
  /\ \A S : << >> \in Seq(S)
BY DEF ToSet, Sorted, Own

LEMMA NoOwn ==
  ASSUME NEW q \in Seq(Event)
  PROVE  Cardinality(Own(q)) = 0 <=> \A e \in ToSet(q) : ~e.own
<1>1. Own(q) = {} <=> \A e \in ToSet(q) : ~e.own
  BY DEF Own, ToSet
<1>2. IsFiniteSet(Own(q))
  BY OwnFinite
<1> QED
  BY <1>1, <1>2, FS_EmptySet

-----------------------------------------------------------------------------
(* Types and numbers, where no host is X11 *)

NoX11 == "x11" \notin Backends

LEMMA Announces ==
  ASSUME NoX11, Typed, MoreTyped, NEW sel \in HostOrNone, NEW own \in BOOLEAN
  PROVE  /\ ToSet(Announce(sel, own)) =
              ToSet(toUs) \cup (IF Ours(hostSel) THEN {Cancelled(hostSel.data)} ELSE {})
                          \cup (IF Deaf THEN {} ELSE {Selection(sel, own)})
         /\ Sorted(toUs) /\ (\A e \in ToSet(toUs) : ~Word(e)) => Sorted(Announce(sel, own))
<1> DEFINE c == Cancelled(hostSel.data)
           s == Selection(sel, own)
<1>1. s \in Event /\ toUs \in Seq(Event) /\ backend # "x11"
  BY SelectionTyped DEF Typed, MoreTyped, NoX11
<1>2. Ours(hostSel) => c \in Event /\ ~Word(c) /\ Late(c)
  BY DEF Typed, HostOrNone, Cancelled, Event, Ours, Word, Late
<1> HIDE DEF c, s
<1>3. Replaced = IF Ours(hostSel) THEN Append(toUs, c) ELSE toUs
  BY <1>1 DEF Replaced, Ours, c
<1>4. Announce(sel, own) = IF Deaf THEN Replaced ELSE Append(Replaced, s)
  BY DEF Announce, s
<1>5. /\ Replaced \in Seq(Event)
      /\ ToSet(Replaced) = ToSet(toUs) \cup (IF Ours(hostSel) THEN {c} ELSE {})
      /\ Sorted(toUs) /\ (\A e \in ToSet(toUs) : ~Word(e)) =>
           Sorted(Replaced) /\ \A e \in ToSet(Replaced) : ~Word(e)
  <2>1. CASE Ours(hostSel)
    <3>1. Append(toUs, c) \in Seq(Event) /\ ToSet(Append(toUs, c)) = ToSet(toUs) \cup {c}
      BY <1>1, <1>2, <2>1, Appended
    <3>2. Sorted(toUs) /\ (\A e \in ToSet(toUs) : ~Word(e)) => Sorted(Append(toUs, c))
      BY <1>1, <1>2, <2>1, SortedAppend
    <3> QED
      BY <1>2, <1>3, <2>1, <3>1, <3>2
  <2>2. CASE ~Ours(hostSel)
    BY <1>1, <1>3, <2>2
  <2> QED
    BY <2>1, <2>2
<1>6. CASE Deaf
  <2>1. Announce(sel, own) = Replaced
    BY <1>4, <1>6
  <2> QED
    BY <1>5, <1>6, <2>1 DEF c, s
<1>7. CASE ~Deaf
  <2>1. Announce(sel, own) = Append(Replaced, s)
    BY <1>4, <1>7
  <2>2. ToSet(Append(Replaced, s)) = ToSet(Replaced) \cup {s}
    BY <1>1, <1>5, Appended
  <2>3. Sorted(Replaced) /\ (\A e \in ToSet(Replaced) : ~Word(e)) => Sorted(Append(Replaced, s))
    BY <1>1, <1>5, SortedAppend
  <2> QED
    BY <1>5, <1>7, <2>1, <2>2, <2>3 DEF c, s
<1> QED
  BY <1>6, <1>7

(* What the events of a tick do to the bus keeps its type.                  *)
LEMMA HandleTyped ==
  ASSUME NEW e \in Event,
         NEW bus \in [inner : [from : {"client", "host", "echo"}, data : Nat] \cup {None},
                      origin : {"Wayland", "Host"}]
  PROVE  Handle(bus, e) \in [inner : [from : {"client", "host", "echo"}, data : Nat] \cup {None},
                             origin : {"Wayland", "Host"}]
BY DEF Handle, Event, HostOrNone

-----------------------------------------------------------------------------
(* What a tick's events do to the bus, by induction over their number *)

LEMMA LeastNumber ==
  ASSUME NEW T \in SUBSET Nat, T # {}
  PROVE  \E m \in T : \A n \in T : m <= n
<1> DEFINE R == OpToRel(<, Nat)
<1>1. IsWellFoundedOn(R, Nat)
  BY Zenon, NatLessThanWellFounded
<1>2. \A x, y \in Nat : x < y => <<x, y>> \in R
  BY DEF OpToRel
<1> HIDE DEF R
<1>3. \E m \in T : \A n \in T : ~ (<<n, m>> \in R)
  BY <1>1, WFMin
<1>4. \A m, n \in T : ~ (<<n, m>> \in R) => m <= n
  <2> SUFFICES ASSUME NEW m \in T, NEW n \in T, n < m PROVE <<n, m>> \in R
    OBVIOUS
  <2>1. m \in Nat /\ n \in Nat
    OBVIOUS
  <2> QED
    BY <1>2, <2>1
<1> QED
  BY <1>3, <1>4

LEMMA AllNumbers ==
  ASSUME NEW T, 0 \in T, \A n \in Nat \cap T : n + 1 \in T
  PROVE  Nat \subseteq T
<1> SUFFICES ASSUME Nat \ T # {} PROVE FALSE
  OBVIOUS
<1>1. PICK m \in Nat \ T : \A n \in Nat \ T : m <= n
  BY LeastNumber
<1>2. m # 0 /\ m - 1 \in Nat /\ m - 1 < m /\ (m - 1) + 1 = m
  BY <1>1
<1>3. m - 1 \in T
  BY <1>1, <1>2
<1> QED
  BY <1>1, <1>2, <1>3

Bus == [inner : [from : {"client", "host", "echo"}, data : Nat] \cup {None},
        origin : {"Wayland", "Host"}]

(* The definition of HandleAll is one of a function.                        *)
LEMMA HandleAllSteps ==
  ASSUME NEW bus, NEW es \in Seq(Event)
  PROVE  \E after : /\ HandleAll(bus, es) = after[Len(es)] /\ after[0] = bus
                    /\ \A i \in 1 .. Len(es) : after[i] = Handle(after[i - 1], es[i])
<1> DEFINE Steps(n, f) == f = [i \in 0 .. n |-> IF i = 0 THEN bus ELSE Handle(f[i - 1], es[i])]
           T == {n \in Nat : n <= Len(es) => \E f : Steps(n, f)}
           after == CHOOSE f : Steps(Len(es), f)
<1>1. Len(es) \in Nat
  OBVIOUS
<1>2. 0 \in T
  <2> DEFINE f == [i \in 0 .. 0 |-> bus]
  <2>1. Steps(0, f)
    OBVIOUS
  <2> QED
    BY <2>1
<1>3. ASSUME NEW n \in Nat \cap T PROVE n + 1 \in T
  <2> SUFFICES ASSUME n + 1 <= Len(es) PROVE \E f : Steps(n + 1, f)
    OBVIOUS
  <2>1. PICK f : Steps(n, f)
    BY <1>1
  <2> DEFINE g == [i \in 0 .. n + 1 |-> IF i <= n THEN f[i] ELSE Handle(f[n], es[n + 1])]
  <2>2. \A i \in 0 .. n : f[i] = IF i = 0 THEN bus ELSE Handle(f[i - 1], es[i])
    BY <2>1
  <2>3. \A i \in 0 .. n : g[i] = f[i]
    OBVIOUS
  <2>4. g[n + 1] = Handle(f[n], es[n + 1]) /\ g[n] = f[n]
    OBVIOUS
  <2> HIDE DEF g
  <2>5. \A i \in 0 .. n + 1 : g[i] = IF i = 0 THEN bus ELSE Handle(g[i - 1], es[i])
    <3> SUFFICES ASSUME NEW i \in 0 .. n + 1
                 PROVE  g[i] = IF i = 0 THEN bus ELSE Handle(g[i - 1], es[i])
      OBVIOUS
    <3>1. CASE i = 0
      BY <2>2, <2>3, <3>1
    <3>2. CASE i \in 1 .. n
      <4>1. i - 1 \in 0 .. n /\ i \in 0 .. n /\ i # 0
        BY <3>2
      <4> QED
        BY <2>2, <2>3, <4>1
    <3>3. CASE i = n + 1
      <4>1. i - 1 = n /\ i # 0
        BY <3>3
      <4> QED
        BY <2>4, <3>3, <4>1
    <3> QED
      BY <3>1, <3>2, <3>3
  <2>6. Steps(n + 1, g)
    BY <2>5 DEF g
  <2> QED
    BY <2>6
<1> HIDE DEF T
<1>4. Len(es) \in T
  BY <1>1, <1>2, <1>3, AllNumbers
<1>5. \E f : Steps(Len(es), f)
  BY <1>1, <1>4 DEF T
<1>6. Steps(Len(es), after)
  BY <1>5
<1>7. HandleAll(bus, es) = after[Len(es)]
  BY DEF HandleAll
<1> HIDE DEF after
<1>8. after[0] = bus
  BY <1>1, <1>6
<1>9. \A i \in 1 .. Len(es) : after[i] = Handle(after[i - 1], es[i])
  BY <1>1, <1>6
<1> QED
  BY <1>7, <1>8, <1>9


(* What a selection of the host is inside.                                  *)
Injected(sel) ==
  IF sel = None THEN [inner |-> None, origin |-> "Wayland"]
  ELSE [inner |-> [from |-> IF sel.from = "us" THEN "echo" ELSE "host", data |-> sel.data],
        origin |-> "Host"]

(* Cancelled sources leave what is inside alone.  A word decides it, unless *)
(* another one comes later.                                                 *)
LEMMA EventsHandled ==
  ASSUME NEW es \in Seq(Event), NEW bus \in Bus
  PROVE  /\ HandleAll(bus, es) \in Bus
         /\ (\A e \in ToSet(es) : e.ev = "cancelled") => HandleAll(bus, es).inner = bus.inner
         /\ \A sel : /\ Sorted(es) /\ \A e \in ToSet(es) : Word(e) \/ e.ev = "cancelled"
                     /\ \E e \in ToSet(es) : Word(e)
                     /\ \A e \in ToSet(es) : Word(e) => e.sel = sel
                     => HandleAll(bus, es) = Injected(sel)
<1>0. /\ Len(es) \in Nat /\ DOMAIN es = 1 .. Len(es)
      /\ \A i \in 1 .. Len(es) : es[i] \in Event /\ es[i] \in ToSet(es)
      /\ \A e \in ToSet(es) : \E i \in 1 .. Len(es) : e = es[i]
  BY DEF ToSet
<1>1. PICK after : /\ HandleAll(bus, es) = after[Len(es)] /\ after[0] = bus
                   /\ \A i \in 1 .. Len(es) : after[i] = Handle(after[i - 1], es[i])
  BY HandleAllSteps
<1>2. \A e \in Event, b \in Bus : Word(e) => Handle(b, e) = Injected(e.sel)
  BY DEF Word, Handle, Injected
<1>3. \A e \in Event, b \in Bus : e.ev = "cancelled" => Handle(b, e).inner = b.inner
  BY DEF Handle, Bus
<1>4. ASSUME NEW n \in Nat, n + 1 <= Len(es)
      PROVE  n + 1 \in 1 .. Len(es) /\ after[n + 1] = Handle(after[n], es[n + 1])
  <2>1. n + 1 \in 1 .. Len(es) /\ (n + 1) - 1 = n
    BY <1>0, <1>4
  <2> QED
    BY <1>1, <2>1
<1>5. \A n \in Nat : n <= Len(es) => after[n] \in Bus
  <2> DEFINE T == {n \in Nat : n <= Len(es) => after[n] \in Bus}
  <2>1. 0 \in T
    BY <1>1
  <2>2. ASSUME NEW n \in Nat \cap T PROVE n + 1 \in T
    <3> SUFFICES ASSUME n + 1 <= Len(es) PROVE after[n + 1] \in Bus
      OBVIOUS
    <3>1. after[n] \in Bus
      BY <1>0
    <3> QED
      BY <1>0, <1>4, <3>1, HandleTyped DEF Bus
  <2> HIDE DEF T
  <2>3. Nat \subseteq T
    BY <2>1, <2>2, AllNumbers
  <2> QED
    BY <2>3 DEF T
<1>6. ASSUME \A e \in ToSet(es) : e.ev = "cancelled"
      PROVE  HandleAll(bus, es).inner = bus.inner
  <2> DEFINE T == {n \in Nat : n <= Len(es) => after[n].inner = bus.inner}
  <2>1. 0 \in T
    BY <1>1
  <2>2. ASSUME NEW n \in Nat \cap T PROVE n + 1 \in T
    <3> SUFFICES ASSUME n + 1 <= Len(es) PROVE after[n + 1].inner = bus.inner
      OBVIOUS
    <3>1. n <= Len(es) /\ after[n].inner = bus.inner /\ after[n] \in Bus
      BY <1>0, <1>5
    <3>2. es[n + 1] \in Event /\ es[n + 1].ev = "cancelled"
      BY <1>0, <1>4, <1>6
    <3> QED
      BY <1>3, <1>4, <3>1, <3>2
  <2> HIDE DEF T
  <2>3. Nat \subseteq T
    BY <2>1, <2>2, AllNumbers
  <2> QED
    BY <1>0, <1>1, <2>3 DEF T
<1>7. ASSUME NEW sel, Sorted(es), \A e \in ToSet(es) : Word(e) \/ e.ev = "cancelled",
             \E e \in ToSet(es) : Word(e),
             \A e \in ToSet(es) : Word(e) => e.sel = sel
      PROVE  HandleAll(bus, es) = Injected(sel)
  <2>1. PICK k \in 1 .. Len(es) : Word(es[k])
    BY <1>0, <1>7
  <2> DEFINE T == {n \in Nat : k <= n /\ n <= Len(es) => after[n] = Injected(sel)}
  <2>2. 0 \in T
    BY <2>1
  <2>3. ASSUME NEW n \in Nat \cap T PROVE n + 1 \in T
    <3> SUFFICES ASSUME k <= n + 1, n + 1 <= Len(es) PROVE after[n + 1] = Injected(sel)
      OBVIOUS
    <3>1. after[n] \in Bus /\ es[n + 1] \in Event /\ es[n + 1] \in ToSet(es)
      BY <1>0, <1>4, <1>5
    <3>2. Word(es[n + 1])
      <4>1. CASE k = n + 1
        BY <2>1, <4>1
      <4>2. CASE k < n + 1
        <5>1. ~Late(es[n + 1])
          BY <1>4, <1>7, <2>1, <4>2 DEF Sorted
        <5> QED
          BY <1>7, <3>1, <5>1 DEF Late
      <4> QED
        BY <4>1, <4>2
    <3> QED
      BY <1>2, <1>4, <1>7, <3>1, <3>2
  <2> HIDE DEF T
  <2>4. Nat \subseteq T
    BY <2>2, <2>3, AllNumbers
  <2> QED
    BY <1>0, <1>1, <2>1, <2>4 DEF T
<1> QED
  BY <1>0, <1>1, <1>5, <1>6, <1>7

-----------------------------------------------------------------------------
(* Steps keep types and numbers *)

LEMMA QueueAfterDispatch ==
  ASSUME Typed, Dispatch
  PROVE  /\ ToSet(toUs) = ToSet(toUs') \cup {Head(toUs)} /\ Head(toUs) \in Event
         /\ toUs # << >> /\ toUs' = Tail(toUs) /\ toUs' \in Seq(Event)
         /\ UNCHANGED <<backend, inner, origin, hostSel, toHost, focused, ops, crossed>>
<1>1. toUs \in Seq(Event) /\ toUs # << >> /\ toUs' = Tail(toUs)
  BY DEF Typed, Dispatch
<1>2. ToSet(toUs) = ToSet(Tail(toUs)) \cup {Head(toUs)} /\ Head(toUs) \in Event
      /\ Tail(toUs) \in Seq(Event)
  BY <1>1, Departed
<1>3. ToSet(toUs') = ToSet(Tail(toUs))
  BY <1>1
<1> QED
  BY <1>1, <1>2, <1>3 DEF Dispatch, hostVars

LEMMA RequestAdded ==
  ASSUME Typed, ops' = ops + 1, SetHostSelection(ops + 1) \/ ClearHostSelection
  PROVE  /\ ToSet(toHost') = ToSet(toHost) \cup {Last(toHost')} /\ Earlier(toHost') = ToSet(toHost)
         /\ Last(toHost').data = ops + 1 /\ toHost' # << >> /\ Len(toHost') = Len(toHost) + 1
         /\ SetHostSelection(ops + 1) => Last(toHost').op = "set" /\ source' = ops + 1
         /\ ClearHostSelection => Last(toHost').op = "clear" /\ source' = 0
         /\ suppress' = suppress + 1 /\ UNCHANGED <<offer, events>>
<1>1. PICK r \in Request :
        /\ toHost' = Append(toHost, r) /\ r.data = ops + 1
        /\ SetHostSelection(ops + 1) => r.op = "set" /\ source' = ops + 1
        /\ ClearHostSelection => r.op = "clear" /\ source' = 0
  <2>1. CASE SetHostSelection(ops + 1)
    <3> DEFINE r == [op |-> "set", data |-> ops + 1]
    <3>1. r \in Request /\ toHost' = Append(toHost, r) /\ source' = ops + 1 /\ source' # 0
      BY <2>1 DEF SetHostSelection, Typed, Request
    <3>2. ~ClearHostSelection
      BY <3>1 DEF ClearHostSelection
    <3> QED
      BY <3>1, <3>2
  <2>2. CASE ClearHostSelection
    <3> DEFINE r == [op |-> "clear", data |-> ops + 1]
    <3>1. r \in Request /\ toHost' = Append(toHost, r) /\ source' = 0 /\ ops + 1 # 0
      BY <2>2 DEF ClearHostSelection, Typed, Request
    <3>2. ~SetHostSelection(ops + 1)
      BY <3>1 DEF SetHostSelection
    <3> QED
      BY <3>1, <3>2
  <2> QED
    BY <2>1, <2>2
<1>2. toHost \in Seq(Request)
  BY DEF Typed
<1> DEFINE q == Append(toHost, r)
<1>3. ToSet(q) = ToSet(toHost) \cup {r} /\ Earlier(q) = ToSet(toHost) /\ Last(q) = r /\ q # << >>
  BY <1>1, <1>2, Appended
<1>4. Len(q) = Len(toHost) + 1
  BY <1>1, <1>2
<1>5. toHost' = q
  BY <1>1
<1> HIDE DEF q
<1>6. suppress' = suppress + 1 /\ UNCHANGED <<offer, events>>
  BY DEF SetHostSelection, ClearHostSelection, SuppressMore
<1> QED
  BY <1>1, <1>3, <1>4, <1>5, <1>6

LEMMA RequestTaken ==
  ASSUME Typed, HostTakesRequest
  PROVE  /\ toHost # << >> /\ Head(toHost) \in Request /\ Len(toHost') = Len(toHost) - 1
         /\ ToSet(toHost) = ToSet(toHost') \cup {Head(toHost)}
         /\ toHost' # << >> => /\ Earlier(toHost) = Earlier(toHost') \cup {Head(toHost)}
                               /\ Last(toHost') = Last(toHost)
         /\ toHost' = << >> => Last(toHost) = Head(toHost)
         /\ UNCHANGED <<backend, inner, origin, focused, serial, offer, source, suppress, events,
                        ops, crossed>>
<1>1. toHost \in Seq(Request) /\ toHost # << >> /\ toHost' = Tail(toHost)
  BY DEF Typed, HostTakesRequest
<1> DEFINE q == Tail(toHost)
<1>2. /\ ToSet(toHost) = ToSet(q) \cup {Head(toHost)} /\ Head(toHost) \in Request
      /\ q # << >> => /\ Earlier(toHost) = Earlier(q) \cup {Head(toHost)}
                      /\ Last(q) = Last(toHost)
      /\ q = << >> => Last(toHost) = Head(toHost)
  BY <1>1, Departed
<1>3. Len(q) = Len(toHost) - 1
  BY <1>1
<1>4. toHost' = q
  BY <1>1
<1> HIDE DEF q
<1>5. UNCHANGED <<backend, inner, origin, focused, serial, offer, source, suppress, events,
                  ops, crossed>>
  BY DEF HostTakesRequest, backendVars
<1> QED
  BY <1>1, <1>2, <1>3, <1>4, <1>5

LEMMA HostSelects ==
  ASSUME Typed, HostCopy \/ HostClear
  PROVE  /\ hostSel' \in HostOrNone /\ ~Ours(hostSel')
         /\ toUs' = Announce(hostSel', FALSE) /\ ops' = ops + 1
         /\ UNCHANGED <<backend, inner, origin, focused, serial, toHost, offer, source, suppress,
                        events>>
<1>1. CASE HostCopy
  <2>1. hostSel' = [from |-> "app", data |-> ops + 1]
    BY <1>1 DEF HostCopy
  <2>2. hostSel' \in HostOrNone /\ ~Ours(hostSel')
    BY <2>1 DEF HostOrNone, Ours, Typed
  <2> QED
    BY <1>1, <2>2 DEF HostCopy, HostActs, backendVars
<1>2. CASE HostClear
  <2>1. hostSel' = None /\ toUs' = Announce(None, FALSE)
    BY <1>2 DEF HostClear
  <2>2. hostSel' \in HostOrNone /\ ~Ours(hostSel')
    BY <2>1 DEF HostOrNone, Ours
  <2> QED
    BY <1>2, <2>1, <2>2 DEF HostClear, HostActs, backendVars
<1> QED
  BY <1>1, <1>2

LEMMA KeyboardComes ==
  ASSUME Typed, FocusEnters
  PROVE  /\ ToSet(toUs') = ToSet(toUs) \cup {Selection(hostSel, FALSE), Entered}
         /\ Sorted(toUs) => Sorted(toUs')
         /\ Cardinality(Own(toUs')) = Cardinality(Own(toUs))
         /\ Selection(hostSel, FALSE) \in Event /\ Entered \in Event
         /\ UNCHANGED <<backend, inner, origin, hostSel, serial, toHost, offer, source, suppress,
                        events>>
<1> DEFINE s == Selection(hostSel, FALSE)
           q == Append(toUs, s)
<1>1. s \in Event /\ Entered \in Event /\ ~Late(s) /\ ~Late(Entered) /\ ~s.own /\ ~Entered.own
  BY DEF Selection, Entered, Event, HostOrNone, Typed, Late
<1>2. toUs \in Seq(Event) /\ toUs' = Append(q, Entered)
  BY DEF Typed, FocusEnters
<1>3. UNCHANGED <<backend, inner, origin, hostSel, serial, toHost, offer, source, suppress, events>>
  BY DEF FocusEnters, backendVars
<1> HIDE DEF s
<1>4. /\ q \in Seq(Event) /\ ToSet(q) = ToSet(toUs) \cup {s}
      /\ Cardinality(Own(q)) = Cardinality(Own(toUs)) /\ Cardinality(Own(toUs)) \in Nat
  <2>1. q \in Seq(Event) /\ ToSet(q) = ToSet(toUs) \cup {s}
    BY <1>1, <1>2, Appended
  <2>2. Cardinality(Own(q)) = Cardinality(Own(toUs)) + IF s.own THEN 1 ELSE 0
    BY <1>1, <1>2, OwnOfAppend
  <2>3. Cardinality(Own(toUs)) \in Nat
    BY <1>2, OwnFinite
  <2> QED
    BY <1>1, <2>1, <2>2, <2>3
<1>5. Sorted(toUs) => Sorted(q)
  BY <1>1, <1>2, SortedAppend
<1> HIDE DEF q
<1> DEFINE r == Append(q, Entered)
<1>6. /\ ToSet(r) = ToSet(q) \cup {Entered}
      /\ Cardinality(Own(r)) = Cardinality(Own(q)) + IF Entered.own THEN 1 ELSE 0
      /\ Sorted(q) => Sorted(r)
  <2>1. ToSet(r) = ToSet(q) \cup {Entered}
    BY <1>1, <1>4, Appended
  <2>2. Cardinality(Own(r)) = Cardinality(Own(q)) + IF Entered.own THEN 1 ELSE 0
    BY <1>1, <1>4, OwnOfAppend
  <2>3. Sorted(q) => Sorted(r)
    BY <1>1, <1>4, SortedAppend
  <2> QED
    BY <2>1, <2>2, <2>3
<1>7. toUs' = r
  BY <1>2
<1> HIDE DEF r
<1>8. Own(toUs') = Own(r) /\ ToSet(toUs') = ToSet(r) /\ (Sorted(toUs') <=> Sorted(r))
  BY <1>7
<1>9. ToSet(toUs') = ToSet(toUs) \cup {s, Entered}
  BY <1>4, <1>6, <1>8
<1>10. Cardinality(Own(toUs')) = Cardinality(Own(toUs))
  BY <1>1, <1>4, <1>6, <1>8
<1> QED
  BY <1>1, <1>3, <1>5, <1>6, <1>8, <1>9, <1>10 DEF s


(* The tick leaves the bus in one of three ways.                            *)
LEMMA BusAfterTick ==
  ASSUME Typed, MoreTyped, TakeEvents
  PROVE  /\ inner' \in [from : {"client", "host", "echo"}, data : Nat] \cup {None}
         /\ origin' \in {"Wayland", "Host"}
         /\ (\A e \in ToSet(events) : e.ev = "cancelled") => inner' = inner
         /\ \A sel : /\ Sorted(events) /\ \A e \in ToSet(events) : Word(e) \/ e.ev = "cancelled"
                     /\ \E e \in ToSet(events) : Word(e)
                     /\ \A e \in ToSet(events) : Word(e) => e.sel = sel
                     => inner' = Injected(sel).inner /\ origin' = Injected(sel).origin
         /\ events # << >> /\ events' = << >>
         /\ UNCHANGED <<backend, hostSel, focused, toHost, toUs, offer, source, suppress, serial,
                        ops, crossed>>
<1> DEFINE bus == [inner |-> inner, origin |-> origin]
<1>1. bus \in Bus /\ bus.inner = inner /\ events \in Seq(Event)
  BY DEF MoreTyped, Bus
<1>2. inner' = HandleAll(bus, events).inner /\ origin' = HandleAll(bus, events).origin
  BY DEF TakeEvents
<1> HIDE DEF bus
<1>3. HandleAll(bus, events) \in Bus
  BY <1>1, EventsHandled
<1>4. (\A e \in ToSet(events) : e.ev = "cancelled") => inner' = inner
  BY <1>1, <1>2, EventsHandled
<1>5. \A sel : /\ Sorted(events) /\ \A e \in ToSet(events) : Word(e) \/ e.ev = "cancelled"
               /\ \E e \in ToSet(events) : Word(e)
               /\ \A e \in ToSet(events) : Word(e) => e.sel = sel
               => HandleAll(bus, events) = Injected(sel)
  BY <1>1, EventsHandled
<1>6. /\ events # << >> /\ events' = << >>
      /\ UNCHANGED <<backend, hostSel, focused, toHost, toUs, offer, source, suppress, serial,
                     ops, crossed>>
  BY DEF TakeEvents, hostVars
<1> QED
  BY <1>2, <1>3, <1>4, <1>5, <1>6 DEF Bus

LEMMA StepMoreTyped ==
  ASSUME Typed, MoreTyped, Next
  PROVE  MoreTyped'
<1>1. CASE Dispatch
  <2>1. events' \in Seq(Event) /\ source' \in Nat
    <3>1. Head(toUs) \in Event
      BY <1>1, QueueAfterDispatch
    <3>2. events' \in {events, Append(events, Head(toUs))} /\ source' \in {source, 0}
      BY <1>1 DEF Dispatch, OnSelection, OnCancelled, backendVars
    <3> QED
      BY <3>1, <3>2 DEF MoreTyped
  <2> QED
    BY <1>1, <2>1, QueueAfterDispatch DEF MoreTyped
<1>2. CASE TakeEvents
  <2>1. events' \in Seq(Event)
    BY <1>2, BusAfterTick, NoneIsEmpty
  <2>2. /\ inner' \in [from : {"client", "host", "echo"}, data : Nat] \cup {None}
        /\ origin' \in {"Wayland", "Host"} /\ UNCHANGED <<backend, focused, source>>
    BY <1>2, BusAfterTick
  <2> QED
    BY <2>1, <2>2 DEF MoreTyped
<1>3. CASE ClientCopy
  <2>1. /\ inner' = [from |-> "client", data |-> ops + 1] /\ origin' = "Wayland"
        /\ UNCHANGED <<backend, focused>>
    BY <1>3 DEF ClientCopy, hostVars
  <2>2. source' \in {ops + 1, source} /\ events' = events
    BY <1>3 DEF ClientCopy, SetHostSelection, backendVars
  <2> QED
    BY <2>1, <2>2 DEF MoreTyped, Typed
<1>4. CASE ClientClear
  <2>1. inner' = None /\ UNCHANGED <<backend, focused, origin>>
    BY <1>4 DEF ClientClear, hostVars
  <2>2. source' \in {0, source} /\ events' = events
    BY <1>4 DEF ClientClear, ClearHostSelection, backendVars
  <2> QED
    BY <2>1, <2>2 DEF MoreTyped
<1>5. CASE EmacsConnects \/ EmacsDisconnects \/ HostCopy \/ HostClear
  <2>1. UNCHANGED <<backend, inner, origin, focused, source, events>>
    BY <1>5 DEF EmacsConnects, EmacsDisconnects, HostCopy, HostClear, hostVars, backendVars
  <2> QED
    BY <2>1 DEF MoreTyped
<1>6. CASE HostTakesRequest
  BY <1>6, RequestTaken DEF MoreTyped
<1>7. CASE FocusEnters \/ FocusLeaves
  BY <1>7 DEF FocusEnters, FocusLeaves, backendVars, MoreTyped
<1> QED
  BY <1>1, <1>2, <1>3, <1>4, <1>5, <1>6, <1>7 DEF Next

(* Whatever the hosts, numbers are of copies that have been.                *)
LEMMA StepNumbered ==
  ASSUME NoX11, Typed, MoreTyped, Numbered, Next
  PROVE  Numbered'
<1>0. ops \in Nat /\ ops' \in {ops, ops + 1}
  BY DEF Typed, Next, Dispatch, TakeEvents, ClientCopy, ClientClear, ClientActs, EmacsConnects,
     EmacsDisconnects, HostTakesRequest, HostCopy, HostClear, HostActs, FocusEnters, FocusLeaves
<1>1. CASE Dispatch
  BY <1>1, QueueAfterDispatch DEF Numbered
<1>2. CASE TakeEvents
  BY <1>2, BusAfterTick DEF Numbered
<1>3. CASE ClientCopy \/ ClientClear
  <2>1. ops' = ops + 1 /\ UNCHANGED <<hostSel, toUs>>
    BY <1>3 DEF ClientCopy, ClientClear, ClientActs, hostVars
  <2>2. UNCHANGED toHost \/ SetHostSelection(ops + 1) \/ ClearHostSelection
    BY <1>3 DEF ClientCopy, ClientClear
  <2>3. \A r \in ToSet(toHost') : r \in ToSet(toHost) \/ r.data = ops + 1
    BY <2>1, <2>2, RequestAdded
  <2> QED
    BY <1>0, <2>1, <2>3 DEF Numbered
<1>4. CASE EmacsConnects \/ EmacsDisconnects \/ FocusLeaves
  BY <1>4 DEF EmacsConnects, EmacsDisconnects, FocusLeaves, hostVars, Numbered
<1>5. CASE HostTakesRequest
  <2> DEFINE r == Head(toHost)
             sel == IF r.op = "set" THEN [from |-> "us", data |-> r.data] ELSE None
  <2>1. r \in ToSet(toHost) /\ r \in Request /\ r.data \in 1 .. ops
        /\ \A s \in ToSet(toHost') : s.data \in 1 .. ops
    BY <1>5, RequestTaken DEF Numbered
  <2>2. sel \in HostOrNone /\ (Ours(sel) => sel.data \in 1 .. ops) /\ ops' = ops
    BY <1>5, <2>1, RequestTaken DEF HostOrNone, Request, Ours
  <2>3. CASE Grants(r)
    <3>1. hostSel' = sel /\ toUs' = Announce(sel, TRUE)
      BY <2>3 DEF Grants
    <3> HIDE DEF sel, r
    <3>2. ToSet(toUs') \subseteq
            ToSet(toUs) \cup (IF Ours(hostSel) THEN {Cancelled(hostSel.data)} ELSE {})
                        \cup {Selection(sel, TRUE)}
      BY <2>2, <3>1, Announces
    <3> QED
      <4>1. \A e \in ToSet(toUs') : e.ev = "cancelled" => e.sel.data \in 1 .. ops
        BY <3>2 DEF Numbered, Cancelled, Selection
      <4> QED
        BY <2>1, <2>2, <3>1, <4>1 DEF Numbered
  <2>4. CASE Refuses(r)
    <3>1. UNCHANGED hostSel /\ (UNCHANGED toUs \/ toUs' = Append(toUs, Cancelled(r.data)))
      BY <2>4 DEF Refuses
    <3>2. Cancelled(r.data) \in Event
      BY <2>1 DEF Cancelled, Event, HostOrNone, Request
    <3>3. ToSet(Append(toUs, Cancelled(r.data))) = ToSet(toUs) \cup {Cancelled(r.data)}
      BY <3>2, Appended DEF Typed
    <3>4. ToSet(toUs') \subseteq ToSet(toUs) \cup {Cancelled(r.data)}
      BY <3>1, <3>3 DEF ToSet
    <3> QED
      BY <2>1, <2>2, <3>1, <3>4 DEF Numbered, Cancelled
  <2> QED
    BY <1>5, <2>3, <2>4 DEF HostTakesRequest
<1>6. CASE HostCopy \/ HostClear
  <2>1. hostSel' \in HostOrNone /\ ~Ours(hostSel') /\ UNCHANGED toHost
    BY <1>6, HostSelects
  <2>2. toUs' = Announce(hostSel', FALSE)
    BY <1>6 DEF HostCopy, HostClear
  <2>3. ToSet(toUs') \subseteq
          ToSet(toUs) \cup (IF Ours(hostSel) THEN {Cancelled(hostSel.data)} ELSE {})
                      \cup {Selection(hostSel', FALSE)}
    BY <2>1, <2>2, Announces
  <2> QED
    BY <1>0, <2>1, <2>3 DEF Numbered, Cancelled, Selection
<1>7. CASE FocusEnters
  <2>1. /\ ToSet(toUs') = ToSet(toUs) \cup {Selection(hostSel, FALSE), Entered}
        /\ UNCHANGED <<hostSel, toHost>>
    BY <1>7, KeyboardComes
  <2>2. \A e \in ToSet(toUs') : e.ev = "cancelled" => e.sel.data \in 1 .. ops
    BY <2>1 DEF Numbered, Selection, Entered
  <2>3. ToSet(toHost') = ToSet(toHost) /\ hostSel' = hostSel
    BY <2>1
  <2>4. 1 .. ops \subseteq 1 .. ops'
    BY <1>0
  <2> QED
    BY <2>2, <2>3, <2>4 DEF Numbered
<1> QED
  BY <1>1, <1>2, <1>3, <1>4, <1>5, <1>6, <1>7 DEF Next

-----------------------------------------------------------------------------
(* As long as nothing has crossed *)

LEMMA NotEmpty ==
  ASSUME NEW S, NEW q \in Seq(S)
  PROVE  q = << >> <=> ToSet(q) = {}
<1>1. q # << >> => Head(q) \in ToSet(q)
  BY Departed
<1> QED
  BY <1>1, NoneIsEmpty

(* An event that is not new to the bridge comes and goes.                   *)
LEMMA HeardOf ==
  ASSUME NoX11, Typed, MoreTyped, Uncrossed, Dispatch, NEW e, e = Head(toUs), ~Word(e),
         offer' = offer \/ Late(e),
         suppress' = suppress - IF e.own THEN 1 ELSE 0,
         serial' \/ (serial' = serial /\ e.ev # "enter"),
         UNCHANGED <<source, events>>
  PROVE  Uncrossed'
<1> USE DEF Uncrossed
<1>1. /\ ToSet(toUs) = ToSet(toUs') \cup {e} /\ e \in Event
      /\ toUs # << >> /\ toUs \in Seq(Event) /\ toUs' = Tail(toUs) /\ toUs' \in Seq(Event)
      /\ UNCHANGED <<backend, inner, origin, hostSel, toHost, focused, events, source>>
  BY QueueAfterDispatch DEF Typed
<1>2. ToSet(events') = ToSet(events) /\ (Deaf' <=> Deaf) /\ (Inside' <=> Inside)
  BY <1>1 DEF Deaf, Inside
<1>3. Counted'
  <2>1. Cardinality(Own(Tail(toUs))) = Cardinality(Own(toUs)) - IF Head(toUs).own THEN 1 ELSE 0
    BY <1>1, OwnOfTail
  <2>2. Own(toUs') = Own(Tail(toUs)) /\ Len(toHost') = Len(toHost)
    BY <1>1
  <2>3. Cardinality(Own(toUs)) \in Nat /\ Len(toHost) \in Nat
    BY <1>1, OwnFinite DEF Typed
  <2>4. suppress = Len(toHost) + Cardinality(Own(toUs))
    BY DEF Counted
  <2>5. suppress' = Len(toHost) + Cardinality(Own(toUs'))
    BY <2>1, <2>2, <2>3, <2>4
  <2> QED
    BY <2>2, <2>5 DEF Counted
<1>4. Asked'
  BY <1>1, <1>2 DEF Asked, Ours
<1>5. Told'
  BY <1>1, <1>2 DEF Told, Ours, Ordered
<1>6. Ordered'
  <2>1. Sorted(toUs') /\ Sorted(events')
    <3>1. Sorted(Tail(toUs))
      BY <1>1, SortedTail DEF Ordered
    <3> QED
      BY <1>1, <3>1 DEF Ordered
  <2> QED
    BY <1>1, <1>2, <2>1 DEF Ordered
<1>7. Taken' /\ Echoing' /\ Cancels'
  BY <1>1, <1>2 DEF Taken, Echoing, Cancels
<1>8. OursInside'
  BY <1>1, <1>2 DEF OursInside, Ours
<1>9. Settled'
  <2>1. NoWords' => NoWords
    BY <1>1, <1>2 DEF NoWords
  <2>2. offer' # offer => Inside
    BY <1>1 DEF Echoing
  <2>3. Agree => Agree'
    BY <1>1, <2>2 DEF Agree, Ours, Inside
  <2> QED
    BY <1>1, <1>2, <2>1, <2>3 DEF Settled
<1>10. Serial'
  BY <1>1 DEF Serial
<1> QED
  BY <1>3, <1>4, <1>5, <1>6, <1>7, <1>8, <1>9, <1>10

(* A word goes to the tick: there is no echo that the counter could mean.   *)
LEMMA WordComes ==
  ASSUME NoX11, Typed, MoreTyped, Uncrossed, Dispatch, Word(Head(toUs))
  PROVE  Uncrossed' /\ events' = Append(events, Head(toUs))
<1> USE DEF Uncrossed
<1>0. PICK e : e = Head(toUs)
  OBVIOUS
<1>1. /\ ToSet(toUs) = ToSet(toUs') \cup {e} /\ e \in Event
      /\ toUs # << >> /\ toUs \in Seq(Event) /\ toUs' = Tail(toUs) /\ toUs' \in Seq(Event)
      /\ UNCHANGED <<backend, inner, origin, hostSel, toHost, focused>>
  BY <1>0, QueueAfterDispatch DEF Typed
<1>2. /\ Word(e) /\ ~Late(e) /\ ~e.own /\ e.ev = "selection"
      /\ e.sel = hostSel /\ ~Ours(hostSel) /\ toHost = << >>
  BY <1>0, <1>1 DEF Word, Late, Told, Asked
<1>3. \A f \in ToSet(toUs') : ~Late(f) /\ ~f.own
  BY <1>0, <1>1, SortedTail DEF Ordered, Late
<1>4. suppress = 0 /\ Cardinality(Own(toUs')) = 0
  <2>1. Cardinality(Own(toUs)) = 0 /\ Cardinality(Own(toUs')) = 0
    BY <1>1, <1>2, <1>3, NoOwn
  <2> QED
    BY <1>2, <2>1 DEF Counted
<1>5. /\ events' = Append(events, e) /\ offer' = e.sel /\ UNCHANGED <<suppress, source, serial>>
  <2>1. backend # "x11"
    BY DEF MoreTyped, NoX11
  <2> QED
    BY <1>0, <1>2, <1>4, <2>1 DEF Dispatch, OnSelection, OwnedByUs
<1>6. /\ ToSet(events') = ToSet(events) \cup {e} /\ Sorted(events')
  <2> DEFINE q == Append(events, e)
  <2>1. ToSet(q) = ToSet(events) \cup {e} /\ Sorted(q)
    BY <1>1, <1>2, Appended, SortedAppend DEF Ordered, MoreTyped
  <2> QED
    BY <1>5, <2>1
<1>7. Counted'
  BY <1>1, <1>2, <1>4, <1>5 DEF Counted
<1>8. Asked'
  BY <1>1, <1>2 DEF Asked
<1>9. Told'
  BY <1>1, <1>2, <1>5, <1>6 DEF Told
<1>10. Ordered'
  <2>1. Sorted(Tail(toUs))
    BY <1>1, SortedTail DEF Ordered
  <2>2. Sorted(toUs')
    BY <1>1, <2>1
  <2> QED
    BY <1>3, <1>6, <2>2 DEF Ordered
<1>11. Taken'
  BY <1>1, <1>2, <1>3, <1>6 DEF Taken
<1>12. Echoing'
  BY <1>1, <1>2, <1>3, <1>6 DEF Echoing, Inside
<1>13. Cancels'
  BY <1>3 DEF Cancels, Late
<1>14. OursInside'
  BY <1>1, <1>2 DEF OursInside, Inside, Ours
<1>15. Settled'
  BY <1>2, <1>6 DEF Settled, NoWords
<1>16. Serial'
  BY <1>1, <1>2, <1>5 DEF Serial
<1> QED
  BY <1>0, <1>5, <1>7, <1>8, <1>9, <1>10, <1>11, <1>12, <1>13, <1>14, <1>15, <1>16

(* Our source has been cancelled, after all its echoes.                     *)
LEMMA SourceGone ==
  ASSUME NoX11, Typed, MoreTyped, Numbered, Uncrossed, Dispatch,
         Head(toUs).ev = "cancelled", Head(toUs).sel.data = source
  PROVE  Uncrossed'
<1> USE DEF Uncrossed
<1>0. PICK e : e = Head(toUs)
  OBVIOUS
<1>1. /\ ToSet(toUs) = ToSet(toUs') \cup {e} /\ e \in Event
      /\ toUs # << >> /\ toUs \in Seq(Event) /\ toUs' = Tail(toUs) /\ toUs' \in Seq(Event)
      /\ UNCHANGED <<backend, inner, origin, hostSel, toHost, focused>>
  BY <1>0, QueueAfterDispatch DEF Typed
<1>2. /\ Late(e) /\ ~Word(e) /\ ~e.own /\ e.ev = "cancelled" /\ Inside
      /\ toHost = << >> /\ \A f \in ToSet(toUs) : ~f.own
  BY <1>0, <1>1 DEF Word, Late, Cancels, Echoing
<1>3. \A f \in ToSet(events) : ~Word(f)
  BY <1>1, <1>2 DEF Ordered
<1>4. /\ events' = Append(events, e) /\ source' = 0 /\ UNCHANGED <<suppress, offer, serial>>
  BY <1>0, <1>2 DEF Dispatch, OnCancelled
<1>5. /\ ToSet(events') = ToSet(events) \cup {e} /\ Sorted(events')
  <2> DEFINE q == Append(events, e)
  <2>1. ToSet(q) = ToSet(events) \cup {e} /\ Sorted(q)
    BY <1>1, <1>3, Appended, SortedAppend DEF Ordered, MoreTyped
  <2> QED
    BY <1>4, <2>1
<1>6. Counted'
  <2>1. Cardinality(Own(toUs)) = 0 /\ Cardinality(Own(toUs')) = 0
    BY <1>1, <1>2, NoOwn
  <2> QED
    BY <1>1, <1>4, <2>1 DEF Counted
<1>7. Asked'
  BY <1>1, <1>2 DEF Asked
<1>8. Told'
  BY <1>1, <1>2, <1>3, <1>5 DEF Told
<1>9. Ordered'
  <2>1. Sorted(Tail(toUs))
    BY <1>1, SortedTail DEF Ordered
  <2>2. Sorted(toUs')
    BY <1>1, <2>1
  <2> QED
    BY <1>2, <1>3, <1>5, <2>2 DEF Ordered
<1>10. Taken'
  BY <1>1, <1>2, <1>5 DEF Taken
<1>11. Inside' /\ Echoing'
  BY <1>1, <1>2 DEF Echoing, Inside
<1>12. Cancels'
  BY <1>1, <1>2, <1>4 DEF Cancels
<1>13. OursInside'
  BY <1>1, <1>2, <1>11 DEF OursInside, Ours
<1>14. Settled'
  <2>1. NoWords' => NoWords
    BY <1>1, <1>2, <1>5 DEF NoWords
  <2>2. Agree => Agree'
    BY <1>1, <1>4 DEF Agree, Ours
  <2>3. Deaf' <=> Deaf
    BY <1>1 DEF Deaf
  <2> QED
    BY <1>1, <2>1, <2>2, <2>3 DEF Settled
<1>15. Serial'
  BY <1>1, <1>2, <1>4 DEF Serial
<1> QED
  BY <1>6, <1>7, <1>8, <1>9, <1>10, <1>11, <1>12, <1>13, <1>14, <1>15

LEMMA DispatchAgrees ==
  ASSUME NoX11, Typed, MoreTyped, Numbered, Uncrossed, Dispatch
  PROVE  Uncrossed'
<1>0. PICK e : e = Head(toUs)
  OBVIOUS
<1>1. e \in Event /\ ToSet(toUs) = ToSet(toUs') \cup {e} /\ toUs # << >> /\ toUs \in Seq(Event)
  BY <1>0, QueueAfterDispatch DEF Typed
<1>2. CASE e.ev = "selection" /\ ~e.own
  BY <1>0, <1>2, WordComes DEF Word
<1>3. CASE e.ev = "selection" /\ e.own
  <2>1. ~(\A f \in ToSet(toUs) : ~f.own)
    BY <1>1, <1>3
  <2>2. Cardinality(Own(toUs)) # 0 /\ Cardinality(Own(toUs)) \in Nat /\ Len(toHost) \in Nat
    BY <1>1, <2>1, NoOwn, OwnFinite DEF Typed
  <2>3. suppress > 0
    BY <2>2 DEF Uncrossed, Counted
  <2>4. backend # "x11"
    BY DEF MoreTyped, NoX11
  <2>5. suppress' = suppress - 1 /\ UNCHANGED <<source, events, serial>>
    BY <1>0, <1>3, <2>3, <2>4 DEF Dispatch, OnSelection, OwnedByUs
  <2> QED
    BY <1>0, <1>3, <2>5, HeardOf DEF Word, Late
<1>4. CASE e.ev = "cancelled" /\ e.sel.data = source
  BY <1>0, <1>4, SourceGone
<1>5. CASE e.ev = "cancelled" /\ e.sel.data # source
  <2>1. UNCHANGED <<source, events, serial, offer, suppress>>
    BY <1>0, <1>5 DEF Dispatch, OnCancelled
  <2>2. ~e.own /\ suppress \in Nat
    BY <1>1, <1>5 DEF Event, Typed
  <2> QED
    BY <1>0, <1>5, <2>1, <2>2, HeardOf DEF Word
<1>6. CASE e.ev = "enter"
  <2>1. UNCHANGED <<source, events, offer, suppress>> /\ serial' = TRUE
    BY <1>0, <1>6 DEF Dispatch, backendVars
  <2>2. ~e.own /\ suppress \in Nat
    BY <1>1, <1>6 DEF Event, Typed
  <2> QED
    BY <1>0, <1>6, <2>1, <2>2, HeardOf DEF Word
<1> QED
  BY <1>1, <1>2, <1>3, <1>4, <1>5, <1>6 DEF Event


LEMMA TickAgrees ==
  ASSUME NoX11, Typed, MoreTyped, Uncrossed, TakeEvents
  PROVE  Uncrossed'
<1> USE DEF Uncrossed
<1>1. /\ events # << >> /\ events' = << >>
      /\ UNCHANGED <<backend, hostSel, focused, toHost, toUs, offer, source, suppress, serial>>
  BY BusAfterTick
<1>2. /\ toHost = << >> /\ \A e \in ToSet(toUs) : ~e.own
      /\ \A e \in ToSet(events) : Word(e) \/ e.ev = "cancelled"
      /\ \E e \in ToSet(events) : TRUE
  BY <1>1, NotEmpty DEF Taken, MoreTyped
<1>3. ToSet(events') = {} /\ Sorted(events') /\ ToSet(toUs') = ToSet(toUs)
  BY <1>1, NoneIsEmpty
<1>4. CASE \E e \in ToSet(events) : Word(e)
  <2>1. /\ ~Ours(hostSel) /\ offer = hostSel
        /\ \A e \in ToSet(events) : Word(e) => e.sel = hostSel
    BY <1>4 DEF Told
  <2>2. inner' = Injected(hostSel).inner /\ origin' = Injected(hostSel).origin
    BY <1>2, <1>4, <2>1, BusAfterTick DEF Ordered
  <2>3. \A e \in ToSet(toUs) : ~Late(e)
    BY <1>4 DEF Ordered
  <2>4. Agree'
    <3>1. CASE hostSel = None
      BY <1>1, <2>1, <2>2, <3>1 DEF Agree, Injected, Ours
    <3>2. CASE hostSel # None
      <4>1. hostSel = [from |-> "app", data |-> hostSel.data]
        BY <2>1, <3>2 DEF Typed, HostOrNone, Ours
      <4>2. inner' = [from |-> "host", data |-> hostSel.data] /\ origin' = "Host"
        BY <2>1, <2>2, <3>2 DEF Injected, Ours
      <4>3. inner' # None /\ hostSel.data \in Nat
        <5>1. hostSel.data \in Nat
          BY <3>2 DEF Typed, HostOrNone
        <5> QED
          BY <4>2, <5>1, ClipboardAssumption DEF ClipboardAssumption
      <4> QED
        BY <1>1, <2>1, <4>1, <4>2, <4>3 DEF Agree, Ours
    <3> QED
      BY <3>1, <3>2
  <2>5. Counted' /\ Asked'
    BY <1>1, <1>2 DEF Counted, Asked, Own
  <2>6. Told' /\ Ordered'
    BY <1>1, <1>3 DEF Told, Ordered, Ours, Sorted
  <2>7. Taken' /\ Echoing' /\ Cancels'
    BY <1>1, <1>2, <1>3, <2>3 DEF Taken, Echoing, Cancels
  <2>8. OursInside' /\ Settled' /\ Serial'
    BY <1>1, <1>3, <2>1, <2>4 DEF OursInside, Settled, Serial, Ours
  <2> QED
    BY <2>5, <2>6, <2>7, <2>8
<1>5. CASE \A e \in ToSet(events) : ~Word(e)
  <2>1. inner' = inner /\ Inside /\ (Inside' <=> Inside)
    BY <1>2, <1>5, BusAfterTick DEF Echoing, Late, Inside
  <2>2. Counted' /\ Asked'
    BY <1>1, <1>2 DEF Counted, Asked, Own
  <2>3. Told' /\ Ordered'
    BY <1>1, <1>3 DEF Told, Ordered, Ours, Sorted
  <2>4. Taken' /\ Echoing' /\ Cancels'
    BY <1>1, <1>2, <1>3, <2>1 DEF Taken, Echoing, Cancels
  <2>5. OursInside'
    BY <1>1, <2>1 DEF OursInside, Ours
  <2>6. Settled'
    <3>1. NoWords' => NoWords
      BY <1>3, <1>5 DEF NoWords
    <3>2. Agree => Agree'
      BY <1>1, <2>1 DEF Agree, Ours, Inside
    <3> QED
      BY <1>1, <3>1, <3>2 DEF Settled, Deaf
  <2>7. Serial'
    BY <1>1, <1>3 DEF Serial
  <2> QED
    BY <2>2, <2>3, <2>4, <2>5, <2>6, <2>7
<1> QED
  BY <1>4, <1>5

(* A client that acts when nothing of the host is on its way can ask.       *)
LEMMA NothingNew ==
  ASSUME Typed, MoreTyped, Uncrossed, ClientActs, ~crossed'
  PROVE  /\ events = << >> /\ ~Deaf /\ MayRequest
         /\ \A e \in ToSet(toUs) : e.own /\ e.ev # "cancelled" /\ ~Word(e) /\ Late(e)
         /\ ToSet(events) = {} /\ ops' = ops + 1
<1>1. /\ events = << >> /\ ~Deaf /\ \A e \in Range(toUs) : e.own
      /\ ops' = ops + 1
  BY DEF ClientActs, HostNews
<1>2. \A e \in ToSet(toUs) : e.own /\ e \in Event
  <2>1. toUs \in Seq(Event)
    BY DEF Typed
  <2> QED
    BY <1>1, <2>1 DEF ToSet, Range
<1>3. \A e \in ToSet(toUs) : e.ev # "cancelled" /\ e.ev # "enter" /\ ~Word(e) /\ Late(e)
  BY <1>2 DEF Event, Word, Late
<1>4. MayRequest
  BY <1>1, <1>3 DEF MayRequest, Deaf, Uncrossed, Serial
<1> QED
  BY <1>1, <1>2, <1>3, <1>4, NoneIsEmpty

LEMMA ClientAgrees ==
  ASSUME Typed, MoreTyped, Numbered, Uncrossed, ClientCopy \/ ClientClear, ~crossed'
  PROVE  Uncrossed'
<1> USE DEF Uncrossed
<1>1. ClientActs /\ UNCHANGED <<backend, hostSel, focused, toUs, serial>>
  BY DEF ClientCopy, ClientClear, hostVars
<1>2. /\ events = << >> /\ ~Deaf /\ MayRequest /\ ToSet(events) = {} /\ ops' = ops + 1
      /\ \A e \in ToSet(toUs) : e.own /\ e.ev # "cancelled" /\ ~Word(e) /\ Late(e)
  BY <1>1, NothingNew
<1>3. ~Deaf' /\ ToSet(toUs') = ToSet(toUs)
  BY <1>1, <1>2 DEF Deaf
<1>4. \/ /\ SetHostSelection(ops + 1) /\ inner' = [from |-> "client", data |-> ops + 1]
      \/ /\ ClearHostSelection /\ inner' = None
      \/ /\ UNCHANGED <<toHost, backendVars>> /\ inner' = [from |-> "client", data |-> ops + 1]
  BY <1>2 DEF ClientCopy, ClientClear
<1>5. Inside' /\ (inner' # None \/ ClearHostSelection)
  <2>1. None # [from |-> "client", data |-> ops + 1]
    BY ClipboardAssumption DEF ClipboardAssumption, Typed
  <2> QED
    BY <1>4, <2>1 DEF Inside
<1>6. UNCHANGED events
  BY <1>4 DEF SetHostSelection, ClearHostSelection, backendVars
<1>7. Ordered' /\ Told'
  BY <1>1, <1>2, <1>3, <1>6 DEF Ordered, Told, Sorted
<1>8. Taken' /\ Echoing' /\ Cancels'
  BY <1>2, <1>3, <1>5, <1>6 DEF Taken, Echoing, Cancels
<1>9. Serial'
  BY <1>1, <1>3 DEF Serial
<1>10. CASE SetHostSelection(ops + 1) \/ ClearHostSelection
  <2>1. /\ ToSet(toHost') = ToSet(toHost) \cup {Last(toHost')} /\ Earlier(toHost') = ToSet(toHost)
        /\ toHost' # << >> /\ Len(toHost') = Len(toHost) + 1 /\ suppress' = suppress + 1
        /\ source' \in {0, ops + 1}
        /\ ClearHostSelection => Last(toHost').op = "clear"
    BY <1>2, <1>10, RequestAdded
  <2>2. source' \notin 1 .. ops /\ ops \in Nat
    BY <2>1 DEF Typed
  <2>3. Asked'
    <3>1. inner' = None => Last(toHost').op = "clear"
      BY <1>5, <2>1
    <3>2. \A r \in Earlier(toHost') : r.data # source'
      BY <2>1, <2>2 DEF Numbered
    <3>3. Ours(hostSel') => hostSel'.data # source'
      BY <1>1, <2>2 DEF Numbered
    <3> QED
      BY <1>2, <1>3, <1>5, <1>6, <3>1, <3>2, <3>3 DEF Asked
  <2>4. Counted'
    <3>1. Own(toUs') = Own(toUs) /\ Cardinality(Own(toUs)) \in Nat /\ Len(toHost) \in Nat
      BY <1>1, OwnFinite DEF Typed
    <3> QED
      BY <2>1, <3>1 DEF Counted
  <2>5. OursInside' /\ Settled'
    BY <1>5, <2>1 DEF OursInside, Settled
  <2> QED
    BY <1>7, <1>8, <1>9, <2>3, <2>4, <2>5
<1>11. CASE UNCHANGED <<toHost, backendVars>> /\ inner' = [from |-> "client", data |-> ops + 1]
  <2>1. inner' # None /\ inner'.from = "client"
    BY <1>11, ClipboardAssumption DEF ClipboardAssumption, Typed
  <2>2. UNCHANGED <<toHost, source, suppress, offer>>
    BY <1>11 DEF backendVars
  <2>3. Asked' /\ Counted'
    BY <1>1, <1>2, <1>3, <1>5, <1>6, <2>1, <2>2 DEF Asked, Counted, Own, Ours
  <2>4. OursInside' /\ Settled'
    BY <1>5, <2>1 DEF OursInside, Settled, Agree
  <2> QED
    BY <1>7, <1>8, <1>9, <2>3, <2>4
<1> QED
  BY <1>4, <1>10, <1>11


(* The host grants a request: what comes back is late.                      *)
LEMMA GrantAgrees ==
  ASSUME NoX11, Typed, MoreTyped, Numbered, Uncrossed, HostTakesRequest
  PROVE  Uncrossed'
<1> USE DEF Uncrossed
<1>0. PICK r : r = Head(toHost)
  OBVIOUS
<1>1. /\ toHost # << >> /\ r \in Request /\ Len(toHost') = Len(toHost) - 1
      /\ ToSet(toHost) = ToSet(toHost') \cup {r}
      /\ toHost' # << >> => Earlier(toHost) = Earlier(toHost') \cup {r} /\ Last(toHost') = Last(toHost)
      /\ toHost' = << >> => Last(toHost) = r
      /\ UNCHANGED <<backend, inner, origin, focused, serial, offer, source, suppress, events>>
  BY <1>0, RequestTaken
<1>2. /\ events = << >> /\ ~Deaf /\ Inside /\ \A e \in ToSet(toUs) : Late(e) /\ ~Word(e)
      /\ inner = None => Last(toHost).op = "clear"
      /\ Ours(hostSel) => hostSel.data # source
      /\ \A s \in Earlier(toHost) : s.op = "set" => s.data # source
  BY <1>1 DEF Asked, Late, Word
<1>3. PICK sel : sel = IF r.op = "set" THEN [from |-> "us", data |-> r.data] ELSE None
  OBVIOUS
<1>4. /\ sel \in HostOrNone /\ (Ours(sel) => r.op = "set" /\ sel.data = r.data)
      /\ sel # None => r.op = "set" /\ Ours(sel)
  BY <1>1, <1>3 DEF HostOrNone, Request, Ours
<1>5. hostSel' = sel /\ toUs' = Announce(sel, TRUE)
  BY <1>0, <1>2, <1>3 DEF HostTakesRequest, Grants, Refuses
<1> DEFINE c == Cancelled(hostSel.data)
           s == Selection(sel, TRUE)
<1>6. /\ Late(s) /\ ~Word(s) /\ Late(c) /\ ~Word(c)
      /\ s.ev = "selection" /\ c.sel.data = hostSel.data
  BY DEF Selection, Cancelled, Late, Word
<1> HIDE DEF c, s
<1>7. ToSet(toUs') = ToSet(toUs) \cup (IF Ours(hostSel) THEN {c} ELSE {}) \cup {s}
  BY <1>2, <1>4, <1>5, Announces DEF c, s
<1>8. /\ \A e \in ToSet(toUs') : Late(e) /\ ~Word(e)
      /\ \A e \in ToSet(toUs') : e.ev = "cancelled" => e.sel.data # source
  <2>1. \A e \in ToSet(toUs) : e.ev = "cancelled" => e.sel.data # source
    BY <1>1 DEF Cancels
  <2> QED
    BY <1>2, <1>6, <1>7, <2>1
<1>9. Sorted(toUs')
  <2>1. Sorted(Announce(sel, TRUE))
    BY <1>2, <1>4, Announces DEF Ordered
  <2> QED
    BY <1>5, <2>1
<1>10. ~Deaf' /\ Inside' /\ ToSet(events') = {} /\ ToSet(events) = {} /\ events' = << >>
  BY <1>1, <1>2, NoneIsEmpty DEF Deaf, Inside
<1>11. Counted'
  <2>1. Cardinality(Own(Announce(sel, TRUE))) = Cardinality(Own(toUs)) + 1
    BY <1>2, <1>4, Announced
  <2>2. Own(toUs') = Own(Announce(sel, TRUE))
    BY <1>5
  <2>3. Cardinality(Own(toUs)) \in Nat /\ Len(toHost) \in Nat
    BY OwnFinite DEF Typed
  <2>4. /\ Cardinality(Own(toUs')) = Cardinality(Own(toUs)) + 1
        /\ Len(toHost') = Len(toHost) - 1
    BY <1>1, <2>1, <2>2
  <2>5. suppress' = suppress /\ suppress = Len(toHost) + Cardinality(Own(toUs))
    BY <1>1 DEF Counted
  <2>6. suppress' = Len(toHost') + Cardinality(Own(toUs'))
    BY <2>3, <2>4, <2>5
  <2> QED
    BY <2>6 DEF Counted
<1>12. Asked'
  <2> SUFFICES ASSUME toHost' # << >>
               PROVE  /\ inner' = None => Last(toHost').op = "clear"
                      /\ Ours(hostSel') => hostSel'.data # source'
                      /\ \A q \in Earlier(toHost') : q.op = "set" => q.data # source'
    BY <1>8, <1>10 DEF Asked
  <2>1. r \in Earlier(toHost) /\ Earlier(toHost') \subseteq Earlier(toHost)
    BY <1>1
  <2> QED
    BY <1>1, <1>2, <1>4, <1>5, <2>1
<1>13. Told'
  BY <1>8, <1>10 DEF Told
<1>14. Ordered'
  BY <1>9, <1>10, NoneIsEmpty DEF Ordered
<1>15. Taken' /\ Echoing'
  BY <1>10 DEF Taken, Echoing
<1>16. Cancels'
  BY <1>1, <1>8 DEF Cancels
<1>17. toHost' = << >> /\ inner = None => sel = None
  BY <1>1, <1>2, <1>4
<1>18. OursInside'
  BY <1>1, <1>5, <1>10, <1>17 DEF OursInside, Ours
<1>19. Settled'
  <2>1. toHost' = << >> => Agree'
    BY <1>1, <1>2, <1>5, <1>17 DEF Agree, Inside, Ours
  <2> QED
    BY <2>1 DEF Settled
<1>20. Serial'
  BY <1>1, <1>7 DEF Serial
<1> QED
  BY <1>11, <1>12, <1>13, <1>14, <1>15, <1>16, <1>18, <1>19, <1>20

(* An application of the host copies or clears, when all is quiet.          *)
LEMMA HostAgrees ==
  ASSUME NoX11, Typed, MoreTyped, Numbered, Uncrossed, HostCopy \/ HostClear, ~crossed'
  PROVE  Uncrossed'
<1> USE DEF Uncrossed
<1>1. /\ hostSel' \in HostOrNone /\ ~Ours(hostSel') /\ toUs' = Announce(hostSel', FALSE)
      /\ UNCHANGED <<backend, inner, origin, focused, serial, toHost, offer, source, suppress,
                     events>>
  BY HostSelects
<1>2. toHost = << >> /\ toUs = << >> /\ events = << >>
  BY DEF HostCopy, HostClear, HostActs
<1>3. ToSet(toUs) = {} /\ ToSet(events') = {} /\ Sorted(toUs) /\ Sorted(events')
  BY <1>1, <1>2, NoneIsEmpty
<1>4. PICK sel : sel = hostSel'
  OBVIOUS
<1> DEFINE c == Cancelled(hostSel.data)
           s == Selection(sel, FALSE)
<1>5. /\ ~Late(s) /\ Word(s) /\ Late(c) /\ ~Word(c) /\ ~s.own /\ ~c.own
      /\ s.ev = "selection" /\ c.ev = "cancelled" /\ s.sel = sel
  BY DEF Selection, Cancelled, Late, Word
<1> HIDE DEF c, s
<1>6. /\ ToSet(toUs') = (IF Ours(hostSel) THEN {c} ELSE {}) \cup (IF Deaf THEN {} ELSE {s})
      /\ Sorted(toUs') /\ Cardinality(Own(toUs')) = 0
  <2> DEFINE q == Announce(sel, FALSE)
  <2>1. /\ ToSet(q) = ToSet(toUs) \cup (IF Ours(hostSel) THEN {c} ELSE {})
                        \cup (IF Deaf THEN {} ELSE {s})
        /\ Sorted(q)
    BY <1>1, <1>3, <1>4, Announces DEF c, s
  <2>2. Cardinality(Own(q)) = Cardinality(Own(toUs)) + 0
    BY <1>1, <1>4, Announced
  <2>3. Cardinality(Own(toUs)) = 0
    BY <1>2, NoneIsEmpty, FS_EmptySet
  <2>4. toUs' = q
    BY <1>1, <1>4
  <2> HIDE DEF q
  <2> QED
    BY <1>3, <2>1, <2>2, <2>3, <2>4
<1>7. (Deaf' <=> Deaf) /\ (Inside' <=> Inside)
  BY <1>1 DEF Deaf, Inside
<1>8. Counted'
  <2>1. Len(toHost) = 0 /\ Cardinality(Own(toUs)) = 0
    BY <1>2, NoneIsEmpty, FS_EmptySet
  <2>2. suppress' = 0 /\ Len(toHost') = 0
    BY <1>1, <2>1 DEF Counted
  <2> QED
    BY <1>6, <2>2 DEF Counted
<1>9. Asked'
  BY <1>1, <1>2 DEF Asked
<1>10. Told'
  BY <1>1, <1>3, <1>4, <1>5, <1>6 DEF Told
<1>11. Ordered'
  BY <1>3, <1>6 DEF Ordered
<1>12. Taken'
  BY <1>1, <1>2, <1>3 DEF Taken
<1>13. Echoing'
  BY <1>3, <1>5, <1>6, <1>7 DEF Echoing, OursInside
<1>14. Cancels'
  BY <1>1, <1>2, <1>5, <1>6 DEF Cancels
<1>15. OursInside'
  BY <1>1 DEF OursInside
<1>16. Settled'
  BY <1>5, <1>6, <1>7 DEF Settled, NoWords
<1>17. Serial'
  <2>1. \A e \in ToSet(toUs) : e.ev # "enter"
    BY <1>3
  <2> QED
    BY <1>1, <2>1 DEF Serial
<1> QED
  BY <1>8, <1>9, <1>10, <1>11, <1>12, <1>13, <1>14, <1>15, <1>16, <1>17

(* The keyboard comes, with news of a selection that is not ours.           *)
LEMMA KeyboardAgrees ==
  ASSUME Typed, MoreTyped, Uncrossed, FocusEnters, ~crossed'
  PROVE  Uncrossed'
<1> USE DEF Uncrossed
<1> DEFINE s == Selection(hostSel, FALSE)
<1>1. /\ ToSet(toUs') = ToSet(toUs) \cup {s, Entered}
      /\ Sorted(toUs') /\ Cardinality(Own(toUs')) = Cardinality(Own(toUs))
      /\ UNCHANGED <<backend, inner, origin, hostSel, serial, toHost, offer, source, suppress,
                     events>>
  BY KeyboardComes DEF Ordered
<1>2. toHost = << >> /\ ~Ours(hostSel)
  BY DEF FocusEnters, Ours
<1>3. /\ ~Late(s) /\ Word(s) /\ ~Late(Entered) /\ ~Word(Entered) /\ ~s.own /\ ~Entered.own
      /\ s.ev = "selection" /\ Entered.ev = "enter" /\ s.sel = hostSel
  BY DEF Selection, Entered, Late, Word
<1> HIDE DEF s
<1>4. ToSet(events') = ToSet(events) /\ (Inside' <=> Inside)
  BY <1>1 DEF Inside
<1>5. Counted'
  BY <1>1 DEF Counted
<1>6. Asked'
  BY <1>1, <1>2 DEF Asked
<1>7. Told'
  BY <1>1, <1>2, <1>3, <1>4 DEF Told, Ours
<1>8. Ordered'
  BY <1>1, <1>3, <1>4 DEF Ordered
<1>9. Taken'
  BY <1>1, <1>3, <1>4 DEF Taken
<1>10. Echoing'
  BY <1>1, <1>3, <1>4 DEF Echoing
<1>11. Cancels'
  BY <1>1, <1>3 DEF Cancels
<1>12. OursInside'
  BY <1>1, <1>2 DEF OursInside, Ours
<1>13. Settled'
  BY <1>1, <1>3 DEF Settled, NoWords
<1>14. Serial'
  BY <1>1, <1>3 DEF Serial
<1> QED
  BY <1>5, <1>6, <1>7, <1>8, <1>9, <1>10, <1>11, <1>12, <1>13, <1>14

(* The keyboard goes with no request on its way; Emacs comes and goes.       *)
LEMMA OthersAgree ==
  ASSUME MoreTyped, Uncrossed, ~crossed',
         FocusLeaves \/ EmacsConnects \/ EmacsDisconnects \/ UNCHANGED vars
  PROVE  Uncrossed'
<1> USE DEF Uncrossed
<1>1. /\ UNCHANGED <<backend, inner, origin, hostSel, serial, toHost, toUs, offer, source,
                     suppress, events>>
      /\ UNCHANGED focused \/ (~focused' /\ toHost = << >> /\ backend = "wl_data_device")
  BY DEF FocusLeaves, EmacsConnects, EmacsDisconnects, vars, hostVars, backendVars, MoreTyped
<1>2. ToSet(toUs') = ToSet(toUs) /\ ToSet(events') = ToSet(events) /\ Own(toUs') = Own(toUs)
      /\ Earlier(toHost') = Earlier(toHost) /\ (Sorted(toUs') <=> Sorted(toUs))
      /\ (Sorted(events') <=> Sorted(events)) /\ Last(toHost') = Last(toHost)
  BY <1>1
<1>3. /\ Inside' <=> Inside
      /\ Ours(hostSel') <=> Ours(hostSel)
      /\ NoWords' <=> NoWords
      /\ Agree' <=> Agree
  BY <1>1, <1>2 DEF Inside, Ours, NoWords, Agree
<1>4. Counted' /\ Asked'
  BY <1>1, <1>2, <1>3 DEF Counted, Asked, Deaf
<1>5. Told' /\ Ordered' /\ Taken' /\ Echoing'
  BY <1>1, <1>2, <1>3 DEF Told, Ordered, Taken, Echoing
<1>6. Cancels' /\ OursInside' /\ Settled' /\ Serial'
  BY <1>1, <1>2, <1>3 DEF Cancels, OursInside, Settled, Serial, Deaf
<1> QED
  BY <1>4, <1>5, <1>6

LEMMA StepAgrees ==
  ASSUME NoX11, Typed, Typed', AgreeInv, [Next]_vars
  PROVE  AgreeInv'
<1>1. CASE UNCHANGED vars
  <2>1. MoreTyped' /\ Numbered' /\ crossed' = crossed
    <3>1. ToSet(toHost') = ToSet(toHost) /\ ToSet(toUs') = ToSet(toUs)
      BY <1>1 DEF vars
    <3> QED
      BY <1>1, <3>1 DEF AgreeInv, MoreTyped, Numbered, vars, hostVars, backendVars, Ours
  <2> QED
    BY <1>1, <2>1, OthersAgree DEF AgreeInv
<1>2. CASE Next
  <2>1. MoreTyped' /\ Numbered'
    BY <1>2, StepMoreTyped, StepNumbered DEF AgreeInv
  <2>2. crossed => crossed'
    BY <1>2 DEF Next, Dispatch, TakeEvents, ClientCopy, ClientClear, ClientActs, EmacsConnects,
       EmacsDisconnects, HostTakesRequest, HostCopy, HostClear, HostActs, FocusEnters, FocusLeaves
  <2>3. ASSUME ~crossed' PROVE Uncrossed'
    BY <1>2, <2>2, <2>3, DispatchAgrees, TickAgrees, ClientAgrees, GrantAgrees, HostAgrees,
       KeyboardAgrees, OthersAgree DEF AgreeInv, Next
  <2> QED
    BY <2>1, <2>3 DEF AgreeInv
<1> QED
  BY <1>1, <1>2

LEMMA InitAgrees == Init => AgreeInv
<1> SUFFICES ASSUME Init PROVE AgreeInv
  OBVIOUS
<1>1. Typed /\ MoreTyped
  BY InitIInv, NoneIsEmpty DEF Init, IInv, MoreTyped
<1>2. /\ ToSet(toUs) = {} /\ ToSet(events) = {} /\ ToSet(toHost) = {}
      /\ Sorted(toUs) /\ Sorted(events) /\ Cardinality(Own(toUs)) = 0 /\ Len(toHost) = 0
  BY NoneIsEmpty, FS_EmptySet DEF Init
<1>3. Numbered /\ Serial /\ Counted /\ Asked
  BY <1>2 DEF Init, Numbered, Serial, Counted, Asked, Ours
<1>4. Told /\ Ordered /\ Taken /\ Echoing /\ Cancels
  BY <1>2 DEF Init, Told, Ordered, Taken, Echoing, Cancels
<1>5. OursInside /\ Settled
  BY DEF Init, OursInside, Settled, Agree, Ours
<1> QED
  BY <1>1, <1>3, <1>4, <1>5 DEF AgreeInv, Uncrossed

(* Once all news has arrived, what can be pasted inside is what can be      *)
(* pasted outside: new_selection tells the host of a client's copy,         *)
(* inject_host_selection the clients of the host's, and on_selection keeps  *)
(* only echoes back.  The X11 backend breaks it (section 5 of the README).  *)
THEOREM BothSidesAgree ==
  ASSUME NoX11
  PROVE  Spec => []HostAndClientsAgree
<1>1. Init => IInv /\ AgreeInv
  BY InitIInv, InitAgrees
<1>2. IInv /\ AgreeInv /\ [Next]_vars => (IInv /\ AgreeInv)'
  <2> SUFFICES ASSUME IInv, AgreeInv, [Next]_vars PROVE IInv' /\ AgreeInv'
    OBVIOUS
  <2>1. IInv'
    BY StepIInv
  <2> QED
    BY <2>1, StepAgrees DEF IInv
<1>3. AgreeInv => HostAndClientsAgree
  <2> SUFFICES ASSUME AgreeInv, Quiet, ~Deaf, ~crossed PROVE Agree
    BY DEF HostAndClientsAgree, Agree, Ours
  <2>1. Uncrossed /\ ToSet(toUs) = {} /\ ToSet(events) = {} /\ toHost = << >>
    BY NoneIsEmpty DEF AgreeInv, Quiet
  <2> QED
    BY <2>1 DEF Uncrossed, Settled, NoWords
<1> QED
  BY <1>1, <1>2, <1>3, PTL DEF Spec

(* Only dispatch makes the queue of the host's events shorter.              *)
LEMMA QueueGrows ==
  ASSUME Typed, Next, ~Dispatch
  PROVE  Len(toUs') >= Len(toUs)
<1>1. Len(toUs) \in Nat /\ toUs \in Seq(Event)
  BY DEF Typed
<1>2. \A q \in Seq(Event) : \A e : Len(Append(q, e)) = Len(q) + 1
  OBVIOUS
<1>3. ASSUME NEW sel \in HostOrNone, NEW own \in BOOLEAN, toUs' = Announce(sel, own)
      PROVE  Len(toUs') >= Len(toUs)
  <2>1. Len(Replaced) >= Len(toUs) /\ Len(Replaced) \in Nat
    BY <1>1 DEF Replaced
  <2>2. Replaced \in Seq(Event)
    <3>1. hostSel # None => Cancelled(hostSel.data) \in Event
      BY DEF Cancelled, Event, Typed, HostOrNone
    <3>2. hostSel # None => Append(toUs, Cancelled(hostSel.data)) \in Seq(Event)
      BY <1>1, <3>1
    <3> QED
      BY <1>1, <3>2 DEF Replaced
  <2>3. CASE Deaf
    BY <1>3, <2>1, <2>3 DEF Announce
  <2>4. CASE ~Deaf
    <3>1. toUs' = Append(Replaced, Selection(sel, own))
      BY <1>3, <2>4 DEF Announce
    <3>2. Len(toUs') = Len(Replaced) + 1
      BY <2>2, <3>1
    <3> QED
      BY <1>1, <2>1, <3>2
  <2> QED
    BY <2>3, <2>4
<1>4. CASE UNCHANGED toUs
  BY <1>1, <1>4
<1>5. CASE HostTakesRequest
  <2> DEFINE r == Head(toHost)
  <2>1. r \in Request
    BY <1>5, RequestTaken
  <2> HIDE DEF r
  <2>2. CASE Grants(r)
    <3> DEFINE sel == IF r.op = "set" THEN [from |-> "us", data |-> r.data] ELSE None
    <3>1. sel \in HostOrNone
      BY <2>1 DEF HostOrNone, Request
    <3>2. toUs' = Announce(sel, TRUE)
      BY <2>2 DEF Grants
    <3> HIDE DEF sel
    <3> QED
      BY <1>3, <3>1, <3>2
  <2>3. CASE Refuses(r)
    <3>1. toUs' = toUs \/ toUs' = Append(toUs, Cancelled(r.data))
      BY <2>3 DEF Refuses
    <3> QED
      BY <1>1, <3>1
  <2> QED
    BY <1>5, <2>2, <2>3 DEF HostTakesRequest, r
<1>6. CASE HostCopy \/ HostClear
  <2>1. hostSel' \in HostOrNone /\ toUs' = Announce(hostSel', FALSE)
    BY <1>6, HostSelects
  <2>2. PICK sel : sel = hostSel'
    OBVIOUS
  <2> QED
    BY <1>3, <2>1, <2>2
<1>7. CASE FocusEnters
  <2> DEFINE q == Append(toUs, Selection(hostSel, FALSE))
  <2>0. Selection(hostSel, FALSE) \in Event
    BY SelectionTyped DEF Typed
  <2>1. q \in Seq(Event) /\ Len(q) = Len(toUs) + 1
    BY <1>1, <1>2, <2>0, Appended
  <2>2. toUs' = Append(q, Entered)
    BY <1>7 DEF FocusEnters
  <2> HIDE DEF q
  <2>3. Len(toUs') = Len(q) + 1
    BY <2>1, <2>2
  <2> QED
    BY <1>1, <2>1, <2>3
<1>8. ASSUME Next, ~Dispatch, ~HostTakesRequest, ~HostCopy, ~HostClear, ~FocusEnters
      PROVE  UNCHANGED toUs
  BY <1>8 DEF Next, TakeEvents, ClientCopy, ClientClear, EmacsConnects, EmacsDisconnects,
     FocusLeaves
<1> QED
  BY <1>4, <1>5, <1>6, <1>7, <1>8

(* Before copies have crossed, the counter of a Wayland backend is zero     *)
(* whenever a word is next.                                                 *)
LEMMA WordsPass ==
  ASSUME NoX11
  PROVE  Spec => OnlyEchoesSuppressed
<1> DEFINE Passed ==
      \A d \in Data :
        LET e == Selection([from |-> "app", data |-> d], FALSE) IN
          ~crossed /\ toUs # << >> /\ Head(toUs) = e /\ toUs' = Tail(toUs)
            => events' = Append(events, e)
<1>1. Init => IInv /\ AgreeInv
  BY InitIInv, InitAgrees
<1>2. IInv /\ AgreeInv /\ [Next]_vars => (IInv /\ AgreeInv)'
  <2> SUFFICES ASSUME IInv, AgreeInv, [Next]_vars PROVE IInv' /\ AgreeInv'
    OBVIOUS
  <2>1. IInv'
    BY StepIInv
  <2> QED
    BY <2>1, StepAgrees DEF IInv
<1>3. AgreeInv /\ [Next]_vars => [Passed]_vars
  <2> SUFFICES ASSUME AgreeInv, Next, NEW d \in Data, NEW e,
                      e = Selection([from |-> "app", data |-> d], FALSE),
                      ~crossed, toUs # << >>, Head(toUs) = e, toUs' = Tail(toUs)
               PROVE  events' = Append(events, e)
    OBVIOUS
  <2>1. Word(Head(toUs))
    BY DEF Word, Selection
  <2>2. CASE Dispatch
    BY <2>1, <2>2, WordComes DEF AgreeInv
  <2>3. CASE ~Dispatch
    <3>1. Len(toUs') = Len(toUs) - 1 /\ Len(toUs) \in Nat
      BY DEF AgreeInv, Typed
    <3>2. Len(toUs') >= Len(toUs)
      BY <2>3, QueueGrows DEF AgreeInv
    <3> QED
      BY <3>1, <3>2
  <2> QED
    BY <2>2, <2>3
<1> QED
  BY <1>1, <1>2, <1>3, PTL DEF Spec, OnlyEchoesSuppressed

(* A copy of another application that a data-control host tells of is taken *)
(* for an echo only while a request of ours, or its echo, is on its way.    *)
SwallowedWhileOwed ==
  [][backend = "data_control" /\ toUs # << >> /\ Word(Head(toUs)) /\ toUs' = Tail(toUs)
       => \/ events' = Append(events, Head(toUs))
          \/ toHost # << >> \/ Own(toUs) # {}]_vars

(* Which copies of other applications on_selection takes for an echo.  As   *)
(* long as copies of the two sides have not crossed, none on a Wayland host *)
(* (by X11 it does, as find_x11_suppress shows).  After they have crossed,  *)
(* data_control.rs may take one for the echo that is still to come; but     *)
(* whatever has crossed before, not when none is.                           *)
THEOREM NothingSwallowed ==
  /\ NoX11 => (Spec => OnlyEchoesSuppressed)
  /\ Spec => SwallowedWhileOwed
<1>1. NoX11 => (Spec => OnlyEchoesSuppressed)
  <2> SUFFICES ASSUME NoX11 PROVE Spec => OnlyEchoesSuppressed
    OBVIOUS
  <2> QED
    BY WordsPass
<1>2. IInv /\ [Next]_vars =>
        [backend = "data_control" /\ toUs # << >> /\ Word(Head(toUs)) /\ toUs' = Tail(toUs)
           => \/ events' = Append(events, Head(toUs))
              \/ toHost # << >> \/ Own(toUs) # {}]_vars
  <2> SUFFICES ASSUME IInv, Next, backend = "data_control", toUs # << >>, Word(Head(toUs)),
                      toUs' = Tail(toUs), toHost = << >>, Own(toUs) = {}
               PROVE  events' = Append(events, Head(toUs))
    OBVIOUS
  <2>1. suppress = 0
    BY FS_EmptySet DEF IInv, Typed, EchoesOwed
  <2>2. CASE Dispatch
    BY <2>1, <2>2 DEF Dispatch, OnSelection, OwnedByUs, Word
  <2>3. CASE ~Dispatch
    <3>1. Len(toUs') = Len(toUs) - 1 /\ Len(toUs) \in Nat
      BY DEF IInv, Typed
    <3>2. Len(toUs') >= Len(toUs)
      BY <2>3, QueueGrows DEF IInv
    <3> QED
      BY <3>1, <3>2
  <2> QED
    BY <2>2, <2>3
<1>3. Spec => SwallowedWhileOwed
  BY <1>2, InitIInv, StepIInv, PTL DEF Spec, SwallowedWhileOwed
<1> QED
  BY <1>1, <1>3
=============================================================================
