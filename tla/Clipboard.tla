----------------------------- MODULE Clipboard -----------------------------
(***************************************************************************)
(* The clipboard between the host desktop and the clients inside emskin:   *)
(* smithay's selection (the one bus every inner client copies to), the     *)
(* backend that is a client of the host, and the bridge between the two.   *)
(*                                                                         *)
(* The host tells the backend of every change of its selection, also of    *)
(* the changes the backend asked for.  Those echoes must not come back as  *)
(* host selections: a counter of echoes to suppress keeps them out.        *)
(*                                                                         *)
(* Abstractions: one selection (primary has the same code with its own     *)
(* state); what is copied is the number of the copy; X11's TARGETS round   *)
(* trip is one step; the transfer of the data itself is left out.          *)
(*                                                                         *)
(* External: the host.  It handles requests in order, keeps the last       *)
(* selection, and sends an event for each change; a Wayland host cancels   *)
(* the source that is replaced before it announces the new one.  An event  *)
(* for a source that the backend has destroyed is dropped by libwayland.   *)
(* By wl_data_device a host speaks of selections only to the client with   *)
(* the keyboard: of each change while it has it, and of the selection      *)
(* there is whenever it gets it.                                           *)
(***************************************************************************)
EXTENDS Naturals, Sequences, SequencesExt

CONSTANTS
  Backends,   \* what the host may offer: "data_control", "wl_data_device", "x11"
  MaxOps,     \* bound on the copies, the clears and the keyboard's returns
  None

ASSUME ClipboardAssumption ==
  /\ Backends \subseteq {"data_control", "wl_data_device", "x11"}
  /\ MaxOps \in Nat
  /\ None \notin [from : {"client", "host", "echo", "app", "us"}, data : Nat]

VARIABLES
  backend,        \* the implementation of ClipboardBackend that the host allows
  ipcConnected,   \* IpcServer::is_connected
  inner,          \* smithay's selection: of a client, of the host (an offer), or None
  origin,         \* SelectionState::clipboard_origin
  hostSel,        \* the host's selection: an app's, ours, or None
  toHost,         \* the backend's requests on their way to the host
  toUs,           \* the host's events on their way to the backend
  offer,          \* ClipboardState::clipboard_offer, as what it offers
  source,         \* ClipboardState::clipboard_source (x11: our_clipboard_mimes), or 0
  suppress,       \* ClipboardState::suppress_clipboard
  events,         \* ClipboardState::events, until the tick takes them
  serial,         \* wl_data_device: is latest_serial known?
  focused,        \* wl_data_device: has emskin's window the host's keyboard?
  ops,            \* what has happened so far; numbers the copies
  crossed         \* history: has one side acted, or the keyboard moved, before the
                  \* news of the other side had come?

backendVars == <<offer, source, suppress, events>>
hostVars == <<hostSel, focused>>
vars == <<backend, ipcConnected, inner, origin, hostVars, toHost, toUs, backendVars, serial, ops,
          crossed>>

Data == 1 .. MaxOps
Sel(from) == [from : from, data : Data] \cup {None}

Selection(sel, own) == [ev |-> "selection", sel |-> sel, own |-> own]
Cancelled(d)        == [ev |-> "cancelled", sel |-> [from |-> "us", data |-> d], own |-> FALSE]
Entered             == [ev |-> "enter", sel |-> None, own |-> FALSE]

TypeOK ==
  /\ backend \in Backends
  /\ ipcConnected \in BOOLEAN
  /\ inner \in Sel({"client", "host", "echo"})
  /\ origin \in {"Wayland", "Host"}
  /\ hostSel \in Sel({"app", "us"})
  /\ \A r \in Range(toHost) : r \in [op : {"set", "clear"}, data : Data]
  /\ \A e \in Range(toUs) \cup Range(events) :
       e \in [ev : {"selection", "cancelled", "enter"}, sel : Sel({"app", "us"}), own : BOOLEAN]
  /\ offer \in Sel({"app", "us"})
  /\ source \in Data \cup {0}
  /\ suppress \in 0 .. MaxOps
  /\ ops \in 0 .. MaxOps
  /\ {crossed, serial, focused} \subseteq BOOLEAN

Init ==
  /\ backend \in Backends
  /\ ipcConnected = FALSE
  /\ inner = None
  /\ origin = "Wayland"
  /\ hostSel = None
  /\ toHost = << >>
  /\ toUs = << >>
  /\ offer = None
  /\ source = 0
  /\ suppress = 0
  /\ events = << >>
  /\ serial = FALSE
  /\ focused = FALSE
  /\ ops = 0
  /\ crossed = FALSE

-----------------------------------------------------------------------------
(* The backend *)

(* suppress_clipboard += 1, for the echo of a request.                      *)
SuppressOne == 1                                      \* wrong: a flag, not a counter

SuppressMore == suppress + 1

(* wl_data_device needs the serial of an input event: before the first one  *)
(* a request is dropped.                                                    *)
MayRequest == backend = "wl_data_device" => serial

(* set_host_selection *)
SetHostSelection(d) ==
  /\ toHost' = Append(toHost, [op |-> "set", data |-> d])
  /\ source' = d
  /\ suppress' = SuppressMore
  /\ UNCHANGED <<offer, events>>

(* clear_host_selection *)
ClearHostSelection ==
  /\ toHost' = Append(toHost, [op |-> "clear", data |-> ops + 1])
  /\ source' = 0
  /\ suppress' = SuppressMore
  /\ UNCHANGED <<offer, events>>

(* on_xfixes_notify knows an echo of set_selection_owner by its owner, and  *)
(* returns before it looks at the counter.                                 *)
OwnedOnAny(e) == e.sel # None /\ e.sel.from = "us"     \* wrong: also on Wayland

OwnedByUs(e) == backend = "x11" /\ e.sel # None /\ e.sel.from = "us"

(* on_selection, on_xfixes_notify: any event uses up one suppression.       *)
OnSelection(e) ==
  /\ offer' = IF backend = "x11" THEN offer ELSE e.sel
  /\ \/ /\ OwnedByUs(e)
        /\ UNCHANGED <<suppress, events>>
     \/ /\ ~OwnedByUs(e)
        /\ suppress > 0
        /\ suppress' = suppress - 1
        /\ UNCHANGED events
     \/ /\ ~OwnedByUs(e)
        /\ suppress = 0
        /\ events' = Append(events, e)
        /\ UNCHANGED suppress
  /\ UNCHANGED source

(* on_source_cancelled, if the source still exists.                         *)
OnCancelled(e) ==
  /\ \/ /\ e.sel.data = source
        /\ source' = 0
        /\ events' = Append(events, e)
     \/ /\ e.sel.data # source
        /\ UNCHANGED <<source, events>>
  /\ UNCHANGED <<offer, suppress>>

(* dispatch, one event.                                                     *)
Dispatch ==
  /\ toUs # << >>
  /\ toUs' = Tail(toUs)
  /\ LET e == Head(toUs) IN
       \/ e.ev = "selection" /\ OnSelection(e) /\ UNCHANGED serial
       \/ e.ev = "cancelled" /\ OnCancelled(e) /\ UNCHANGED serial
       \/ e.ev = "enter" /\ serial' = TRUE /\ UNCHANGED backendVars
  /\ UNCHANGED <<backend, ipcConnected, inner, origin, hostVars, toHost, ops, crossed>>

-----------------------------------------------------------------------------
(* The bridge *)

(* inject_host_selection, and what SourceCancelled does to the origin.      *)
(* Injecting replaces whatever an inner client had copied.                 *)
Handle(bus, e) ==
  IF e.ev = "cancelled" THEN [bus EXCEPT !.origin = "Wayland"]
  ELSE IF e.sel = None THEN [inner |-> None, origin |-> "Wayland"]
  ELSE [inner |-> [from |-> IF e.sel.from = "us" THEN "echo" ELSE "host",
                   data |-> e.sel.data],
        origin |-> "Host"]

(* One event after the other.                                              *)
HandleAll(bus, es) ==
  LET after[i \in 0 .. Len(es)] == IF i = 0 THEN bus ELSE Handle(after[i - 1], es[i])
  IN after[Len(es)]

(* event_loop_tick takes all the backend's events and handles them at once. *)
TakeEvents ==
  /\ events # << >>
  /\ events' = << >>
  /\ LET bus == HandleAll([inner |-> inner, origin |-> origin], events) IN
       inner' = bus.inner /\ origin' = bus.origin
  /\ UNCHANGED <<backend, ipcConnected, hostVars, toHost, toUs, offer, source, suppress,
                 serial, ops, crossed>>

-----------------------------------------------------------------------------
(* Clients inside emskin *)

(* By wl_data_device nothing is heard while the keyboard is elsewhere.       *)
Deaf == backend = "wl_data_device" /\ ~focused

(* News of the host that a client copying now has not heard of.             *)
HostNews ==
  \/ events # << >> \/ \E e \in Range(toUs) : ~e.own
  \/ Deaf

ClientActs ==
  /\ ops < MaxOps
  /\ ops' = ops + 1
  /\ crossed' = (crossed \/ HostNews)

(* new_selection with a source: the host is told only once Emacs is         *)
(* connected.                                                              *)
ClientCopy ==
  /\ ClientActs
  /\ inner' = [from |-> "client", data |-> ops + 1]
  /\ origin' = "Wayland"
  /\ \/ ipcConnected /\ MayRequest /\ SetHostSelection(ops + 1)
     \/ ~(ipcConnected /\ MayRequest) /\ UNCHANGED <<toHost, backendVars>>
  /\ UNCHANGED <<backend, ipcConnected, hostVars, toUs, serial>>

(* new_selection without a source: a client cleared the selection.  It      *)
(* keeps the origin, and clears the host's selection whoever owns it.       *)
ClientClear ==
  /\ ClientActs
  /\ inner # None
  /\ inner' = None
  /\ \/ MayRequest /\ ClearHostSelection
     \/ ~MayRequest /\ UNCHANGED <<toHost, backendVars>>
  /\ UNCHANGED <<backend, ipcConnected, origin, hostVars, toUs, serial>>

EmacsConnects ==
  /\ ~ipcConnected
  /\ ipcConnected' = TRUE
  /\ UNCHANGED <<backend, inner, origin, hostVars, toHost, toUs, backendVars, serial, ops, crossed>>

EmacsDisconnects ==
  /\ ipcConnected
  /\ ipcConnected' = FALSE
  /\ UNCHANGED <<backend, inner, origin, hostVars, toHost, toUs, backendVars, serial, ops, crossed>>

-----------------------------------------------------------------------------
(* The host (external) *)

(* The queue with the events of a change: a Wayland host cancels our source *)
(* first.                                                                   *)
Replaced ==
  IF backend # "x11" /\ hostSel # None /\ hostSel.from = "us"
  THEN Append(toUs, Cancelled(hostSel.data)) ELSE toUs

Announce(sel, own) ==
  IF Deaf THEN Replaced ELSE Append(Replaced, Selection(sel, own))

Grants(r) ==
  LET sel == IF r.op = "set" THEN [from |-> "us", data |-> r.data] ELSE None
  IN hostSel' = sel /\ toUs' = Announce(sel, TRUE)

(* By wl_data_device a host may refuse a client without the keyboard.       *)
Refuses(r) ==
  /\ Deaf
  /\ toUs' = IF r.op = "set" THEN Append(toUs, Cancelled(r.data)) ELSE toUs
  /\ UNCHANGED hostSel

HostTakesRequest ==
  /\ toHost # << >>
  /\ toHost' = Tail(toHost)
  /\ Grants(Head(toHost)) \/ Refuses(Head(toHost))
  /\ UNCHANGED <<backend, ipcConnected, inner, origin, focused, backendVars, serial, ops, crossed>>

(* The keyboard comes and goes; the selection, whoever's it is, is told     *)
(* before the keyboard comes.                                               *)
FocusEnters ==
  /\ backend = "wl_data_device"
  /\ ops < MaxOps /\ ops' = ops + 1
  /\ ~focused /\ focused' = TRUE
  /\ toUs' = Append(Append(toUs, Selection(hostSel, FALSE)), Entered)
  /\ crossed' = (crossed \/ toHost # << >> \/ (hostSel # None /\ hostSel.from = "us"))
  /\ UNCHANGED <<backend, ipcConnected, inner, origin, hostSel, toHost, backendVars, serial>>

FocusLeaves ==
  /\ focused /\ focused' = FALSE
  /\ crossed' = (crossed \/ toHost # << >>)
  /\ UNCHANGED <<backend, ipcConnected, inner, origin, hostSel, toHost, toUs, backendVars,
                 serial, ops>>

HostActs ==
  /\ ops < MaxOps
  /\ ops' = ops + 1
  /\ crossed' = (crossed \/ toHost # << >> \/ toUs # << >> \/ events # << >>)

HostCopy ==
  /\ HostActs
  /\ hostSel' = [from |-> "app", data |-> ops + 1]
  /\ toUs' = Announce(hostSel', FALSE)
  /\ UNCHANGED <<backend, ipcConnected, inner, origin, focused, toHost, backendVars, serial>>

(* The app that owns the selection gives it up.                             *)
HostClear ==
  /\ HostActs
  /\ hostSel # None /\ hostSel.from = "app"
  /\ hostSel' = None
  /\ toUs' = Announce(None, FALSE)
  /\ UNCHANGED <<backend, ipcConnected, inner, origin, focused, toHost, backendVars, serial>>

Next ==
  \/ Dispatch \/ TakeEvents
  \/ ClientCopy \/ ClientClear \/ EmacsConnects \/ EmacsDisconnects
  \/ HostTakesRequest \/ HostCopy \/ HostClear \/ FocusEnters \/ FocusLeaves

Spec == Init /\ [][Next]_vars

FairSpec == Spec /\ WF_vars(Dispatch) /\ WF_vars(TakeEvents) /\ WF_vars(HostTakesRequest)

-----------------------------------------------------------------------------
(* Properties *)

(* Nothing is on its way between the host, the backend and the tick.        *)
Quiet == toHost = << >> /\ toUs = << >> /\ events = << >>

(* On a data-control host the counter is zero once every echo has come back: *)
(* whatever the order in which copies, clears and echoes interleave, the    *)
(* next copy on the host is not taken for an echo (on_selection).           *)
CounterSettles == backend = "data_control" /\ Quiet => suppress = 0

(* Once all news has arrived, and unless copies have crossed: the host      *)
(* never offers our source without a client that can answer for it, a host  *)
(* selection injected inside is still the host's and is pasted through the  *)
(* offer it came with (send_selection), and an empty clipboard inside means *)
(* an empty one outside.  What a client copied need not be on the host: it  *)
(* is not told of it before Emacs is connected (new_selection).             *)
HostAndClientsAgree ==
  Quiet /\ ~Deaf /\ ~crossed =>
    /\ (hostSel # None /\ hostSel.from = "us") => (inner # None /\ inner.from = "client")
    /\ (inner # None /\ inner.from # "client") =>
         /\ hostSel = [from |-> "app", data |-> inner.data]
         /\ origin = "Host"
         /\ offer = hostSel
    /\ inner = None => hostSel = None

(* Only an echo of our own request is kept from the clients: a selection    *)
(* some other application made becomes an event, unless copies have crossed. *)
OnlyEchoesSuppressed ==
  [][\A d \in Data :
       LET e == Selection([from |-> "app", data |-> d], FALSE) IN
         ~crossed /\ toUs # << >> /\ Head(toUs) = e /\ toUs' = Tail(toUs)
           => events' = Append(events, e)]_vars

(* What the user copies on the host can be pasted inside, unless something  *)
(* else is copied first.                                                    *)
HostCopyArrives ==
  \A d \in Data :
    ~crossed /\ Selection([from |-> "app", data |-> d], FALSE) \in Range(toUs)
      ~> \/ inner = [from |-> "host", data |-> d]
         \/ hostSel # [from |-> "app", data |-> d]
         \/ crossed

-----------------------------------------------------------------------------
(* What comments of the source say, and the code does not do: no run checks  *)
(* these, and the README says how they come to be false.                     *)

(* What an inner client copied is never handed back to the clients as a     *)
(* selection of the host: nobody could answer a paste of it any more.  It is *)
(* when copies cross, and on a wl_data_device host also when the keyboard   *)
(* comes back: the host tells of our selection once more, uncounted.        *)
NoSelfInjection == inner # None => inner.from # "echo"

(* Nothing is asked of the host before Emacs has connected: what GTK does   *)
(* to the clipboard while it starts leaves the host's clipboard alone.  It  *)
(* is ClientClear that does not.                                           *)
NoClobberBeforeIpc == [][~ipcConnected => Len(toHost') <= Len(toHost)]_vars
=============================================================================
