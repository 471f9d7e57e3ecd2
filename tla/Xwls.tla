-------------------------------- MODULE Xwls --------------------------------
(***************************************************************************)
(* The supervisor of xwayland-satellite.  The compositor watches the X11    *)
(* sockets; the first X client starts the satellite, in a thread that waits *)
(* for it to exit and then asks the main loop to watch the sockets again.   *)
(*                                                                         *)
(* The main loop, the spawner thread, the satellite and the X clients run   *)
(* concurrently; the thread and the main loop share a channel.             *)
(*                                                                         *)
(* Abstractions: the lock files and the choice of the display number are    *)
(* left out.  What can fail is bounded by MaxFaults: cloning a descriptor,  *)
(* registering a source, starting the thread.                              *)
(*                                                                         *)
(* External: calloop, which calls a source while its socket is readable;   *)
(* the satellite, which accepts clients until it exits; the X clients.      *)
(***************************************************************************)
EXTENDS Naturals, FiniteSets

CONSTANTS
  XClients,   \* X clients, each connects once
  MaxFaults   \* bound on what fails in the main loop

ASSUME XwlsAssumption == IsFiniteSet(XClients) /\ MaxFaults \in Nat

Sockets == {"unix", "abstract"}

VARIABLES
  watch,      \* XwlsIntegration::state
  sources,    \* the sockets that have a source in the event loop
  waiting,    \* clients that nobody has accepted, per socket
  served,     \* clients the satellite has accepted
  refused,    \* clients whose connection was closed to drain the sockets
  thread,     \* the spawner thread: none, spawning, waiting, exited (the child)
  satellite,  \* is the child running?
  rearm,      \* Rearm messages in the channel
  faults,     \* faults so far
  stuck,      \* history: on_rearm failed to drain the sockets
  spawns      \* history: how many spawner threads were started

vars == <<watch, sources, waiting, served, refused, thread, satellite, rearm,
          faults, stuck, spawns>>

Came == served \cup refused \cup UNION {waiting[s] : s \in Sockets}

TypeOK ==
  /\ watch \in {"disarmed", "watching", "running"}
  /\ sources \subseteq Sockets
  /\ waiting \in [Sockets -> SUBSET XClients]
  /\ served \subseteq XClients /\ refused \subseteq XClients
  /\ thread \in {"none", "spawning", "waiting", "exited"}
  /\ satellite \in BOOLEAN
  /\ rearm \in 0 .. 1
  /\ faults \in 0 .. MaxFaults
  /\ stuck \in BOOLEAN
  /\ spawns \in Nat

(* After the arm() of setup.                                               *)
Init ==
  /\ watch = "watching"
  /\ sources = Sockets
  /\ waiting = [s \in Sockets |-> {}]
  /\ served = {}
  /\ refused = {}
  /\ thread = "none"
  /\ satellite = FALSE
  /\ rearm = 0
  /\ faults = 0
  /\ stuck = FALSE
  /\ spawns = 0

-----------------------------------------------------------------------------
(* The main loop *)

(* arm, from Disarmed: both sources, or a fault; if the second of the two    *)
(* cannot be registered the first one stays, although nothing is Watching.  *)
Arm(failed) ==
  \/ /\ ~failed
     /\ watch' = "watching"
     /\ sources' = Sockets
  \/ /\ failed
     /\ watch' = "disarmed"
     /\ sources' \in {{}, {"unix"}}

Fault(n) ==
  /\ faults + n <= MaxFaults
  /\ faults' = faults + n

(* on_socket_connect, when not Watching: nothing, and the source that fired  *)
(* goes (PostAction::Remove).                                              *)
FireStray(s) ==
  /\ sources' = sources \ {s}
  /\ UNCHANGED <<watch, thread, faults, spawns>>

(* on_socket_connect: both sources go, the thread is started; if it cannot   *)
(* be, the sockets are watched again.                                      *)
FireWatching ==
  \/ /\ sources' = {}
     /\ watch' = "running"
     /\ thread' = "spawning"
     /\ spawns' = spawns + 1
     /\ UNCHANGED faults
  \/ /\ \E failed \in BOOLEAN : Arm(failed) /\ Fault(IF failed THEN 2 ELSE 1)
     /\ UNCHANGED <<thread, spawns>>

(* calloop calls the source of a readable socket.                           *)
Fire(s) ==
  /\ s \in sources
  /\ waiting[s] # {}
  /\ \/ watch # "watching" /\ FireStray(s)
     \/ watch = "watching" /\ FireWatching
  /\ UNCHANGED <<waiting, served, refused, satellite, rearm, stuck>>

(* drain_pending_in_place                                                  *)
NotDrained ==                                         \* wrong: clients are left waiting
  UNCHANGED <<waiting, refused>>

Drain ==
  /\ waiting' = [s \in Sockets |-> {}]
  /\ refused' = refused \cup UNION {waiting[s] : s \in Sockets}

(* on_rearm: if draining fails it returns, still Running.                   *)
OnRearm ==
  /\ rearm > 0
  /\ rearm' = rearm - 1
  /\ \/ /\ Fault(1)
        /\ stuck' = TRUE
        /\ UNCHANGED <<watch, sources, waiting, refused>>
     \/ /\ Drain
        /\ \E failed \in BOOLEAN : Arm(failed) /\ Fault(IF failed THEN 1 ELSE 0)
        /\ UNCHANGED stuck
  /\ UNCHANGED <<served, thread, satellite, spawns>>

-----------------------------------------------------------------------------
(* The spawner thread: spawn_and_wait *)

ThreadSpawns ==
  /\ thread = "spawning"
  /\ \/ satellite' = TRUE /\ thread' = "waiting"
     \/ satellite' = FALSE /\ thread' = "exited"      \* the command cannot be run
  /\ UNCHANGED <<watch, sources, waiting, served, refused, rearm, faults, stuck, spawns>>

AsksEarly ==                                          \* wrong: before the child is gone
  /\ thread \in {"waiting", "exited"}
  /\ thread' = "none"
  /\ rearm' = rearm + 1
  /\ UNCHANGED <<watch, sources, waiting, served, refused, satellite, faults, stuck, spawns>>

AsksIfSpawned ==                                      \* wrong: not after a failed spawn
  /\ thread = "exited"
  /\ thread' = "none"
  /\ rearm' = IF served = {} THEN rearm ELSE rearm + 1
  /\ UNCHANGED <<watch, sources, waiting, served, refused, satellite, faults, stuck, spawns>>

ThreadAsks ==
  /\ thread = "exited"
  /\ thread' = "none"
  /\ rearm' = rearm + 1
  /\ UNCHANGED <<watch, sources, waiting, served, refused, satellite, faults, stuck, spawns>>

-----------------------------------------------------------------------------
(* The satellite and the X clients (external) *)

SatelliteAccepts(s) ==
  /\ satellite
  /\ \E c \in waiting[s] :
       /\ waiting' = [waiting EXCEPT ![s] = @ \ {c}]
       /\ served' = served \cup {c}
  /\ UNCHANGED <<watch, sources, refused, thread, satellite, rearm, faults, stuck, spawns>>

SatelliteExits ==
  /\ satellite
  /\ satellite' = FALSE
  /\ thread' = "exited"
  /\ UNCHANGED <<watch, sources, waiting, served, refused, rearm, faults, stuck, spawns>>

XClientConnects(c, s) ==
  /\ c \notin Came
  /\ waiting' = [waiting EXCEPT ![s] = @ \cup {c}]
  /\ UNCHANGED <<watch, sources, served, refused, thread, satellite, rearm, faults,
                 stuck, spawns>>

MainLoop == OnRearm \/ \E s \in Sockets : Fire(s)
Thread   == ThreadSpawns \/ ThreadAsks

Next ==
  \/ MainLoop \/ Thread
  \/ SatelliteExits
  \/ \E s \in Sockets : SatelliteAccepts(s) \/ \E c \in XClients : XClientConnects(c, s)

Spec == Init /\ [][Next]_vars

(* The main loop and the thread are scheduled, and a satellite that runs     *)
(* accepts; whether it exits is up to it.                                  *)
FairSpec ==
  /\ Spec
  /\ WF_vars(OnRearm) /\ \A s \in Sockets : WF_vars(Fire(s)) /\ WF_vars(SatelliteAccepts(s))
  /\ WF_vars(ThreadSpawns) /\ WF_vars(ThreadAsks)

-----------------------------------------------------------------------------
(* Properties *)

(* Two never listen on one socket: while a thread is about to start the      *)
(* satellite, or one runs, the compositor has no source on the sockets, and *)
(* no Rearm is on its way that would put one there.                         *)
OneListener ==
  thread # "none" \/ satellite => watch = "running" /\ sources = {} /\ rearm = 0

(* Running always ends: somebody is still there who will ask for Rearm, or   *)
(* has asked (unless draining has failed, which on_rearm leaves there).     *)
RunningEnds ==
  watch = "running" => thread # "none" \/ rearm > 0 \/ stuck

(* No busy loop: a satellite that cannot start is tried again only for a new *)
(* client, not for the one that is still waiting.                           *)
NoBusyLoop == spawns <= Cardinality(Came)

(* An X client never hangs: it is served, or its connection is closed, or    *)
(* the integration is off after a fault.                                   *)
XClientsAnswered ==
  \A c \in XClients : \A s \in Sockets :
    c \in waiting[s] ~> c \notin waiting[s] \/ watch = "disarmed" \/ stuck

=============================================================================
