----------------------------- MODULE XwlsProofs -----------------------------
(***************************************************************************)
(* Theorems about the satellite supervisor, for any finite set of X clients *)
(* and any number of faults.                                               *)
(*                                                                         *)
(* The inductive invariant says who holds the sockets: the supervisor is    *)
(* Running exactly while the thread, the satellite or a Rearm is on its     *)
(* way, and at most one of them.  The count of threads is kept by the       *)
(* client that woke each one: it stays among those who came, and by the     *)
(* next watch it has been served or refused.                               *)
(***************************************************************************)
EXTENDS Xwls, FiniteSetTheorems, TLAPS

Answered == served \cup refused

Phases ==
  /\ satellite => thread = "waiting"
  /\ thread # "none" => rearm = 0
  /\ thread # "none" \/ rearm > 0 => watch = "running"
  /\ watch = "running" => sources = {}

Apart ==
  /\ \A s \in Sockets : waiting[s] \cap Answered = {}
  /\ waiting["unix"] \cap waiting["abstract"] = {}

Counted ==
  /\ spawns <= Cardinality(Came)
  /\ watch # "running" => spawns <= Cardinality(Answered)

IInv == TypeOK /\ Phases /\ RunningEnds /\ Apart /\ Counted

LEMMA CameFinite ==
  ASSUME TypeOK
  PROVE  /\ IsFiniteSet(Came) /\ IsFiniteSet(Answered)
         /\ Cardinality(Came) \in Nat /\ Cardinality(Answered) \in Nat
         /\ Cardinality(Answered) <= Cardinality(Came)
<1>1. Came \subseteq XClients /\ Answered \subseteq Came
  BY DEF TypeOK, Came, Answered
<1>2. IsFiniteSet(Came)
  BY <1>1, XwlsAssumption, FS_Subset DEF XwlsAssumption
<1>3. IsFiniteSet(Answered) /\ Cardinality(Answered) <= Cardinality(Came)
  BY <1>1, <1>2, FS_Subset
<1> QED
  BY <1>2, <1>3, FS_CardinalityType

LEMMA InitIInv == Init => IInv
<1> SUFFICES ASSUME Init PROVE IInv
  OBVIOUS
<1>1. TypeOK
  <2>1. faults \in 0 .. MaxFaults
    BY XwlsAssumption DEF XwlsAssumption, Init
  <2>2. waiting \in [Sockets -> SUBSET XClients]
    BY DEF Init
  <2>3. rearm \in 0 .. 1 /\ spawns \in Nat
    BY DEF Init
  <2>4. satellite \in BOOLEAN /\ stuck \in BOOLEAN
    BY DEF Init
  <2> QED
    BY <2>1, <2>2, <2>3, <2>4 DEF Init, TypeOK
<1>2. Phases /\ RunningEnds /\ Apart
  BY DEF Init, Phases, RunningEnds, Apart, Answered, Sockets
<1>3. Counted
  <2>1. spawns = 0
    BY DEF Init
  <2> QED
    BY <1>1, <2>1, CameFinite DEF Counted
<1> QED
  BY <1>1, <1>2, <1>3 DEF IInv

-----------------------------------------------------------------------------
(* Types and phases *)

LEMMA StepTyped ==
  ASSUME TypeOK, Phases, [Next]_vars
  PROVE  TypeOK'
<1> USE DEF TypeOK
<1>1. CASE OnRearm
  <2>1. watch' \in {"disarmed", "watching", "running"} /\ sources' \subseteq Sockets
    BY <1>1 DEF OnRearm, Arm, Sockets
  <2>2. waiting' \in [Sockets -> SUBSET XClients] /\ refused' \subseteq XClients
    BY <1>1 DEF OnRearm, Drain
  <2>3. faults' \in 0 .. MaxFaults
    <3>1. PICK n \in {0, 1} : Fault(n)
      BY <1>1 DEF OnRearm
    <3> QED
      BY <3>1, XwlsAssumption DEF Fault, XwlsAssumption
  <2>5. rearm' \in 0 .. 1
    BY <1>1 DEF OnRearm
  <2>6. stuck' \in BOOLEAN
    <3>1. stuck' = TRUE \/ stuck' = stuck
      BY <1>1 DEF OnRearm
    <3> QED
      BY <3>1
  <2>4. UNCHANGED <<served, thread, satellite, spawns>>
    BY <1>1 DEF OnRearm
  <2> QED
    BY <2>1, <2>2, <2>3, <2>4, <2>5, <2>6
<1>2. ASSUME NEW s \in Sockets, Fire(s) PROVE TypeOK'
  <2>1. watch' \in {"disarmed", "watching", "running"} /\ sources' \subseteq Sockets
    BY <1>2 DEF Fire, FireStray, FireWatching, Arm, Sockets
  <2>2. faults' \in 0 .. MaxFaults
    BY <1>2, XwlsAssumption DEF Fire, FireStray, FireWatching, Fault, XwlsAssumption
  <2>3. thread' \in {"none", "spawning", "waiting", "exited"} /\ spawns' \in Nat
    BY <1>2 DEF Fire, FireStray, FireWatching
  <2> QED
    BY <1>2, <2>1, <2>2, <2>3 DEF Fire
<1>3. CASE Thread \/ SatelliteExits
  <2>1. CASE ThreadSpawns \/ SatelliteExits
    BY <2>1 DEF ThreadSpawns, SatelliteExits
  <2>2. CASE ThreadAsks
    BY <2>2 DEF ThreadAsks, Phases
  <2> QED
    BY <1>3, <2>1, <2>2 DEF Thread
<1>4. ASSUME NEW s \in Sockets, SatelliteAccepts(s) PROVE TypeOK'
  BY <1>4 DEF SatelliteAccepts
<1>5. ASSUME NEW s \in Sockets, NEW c \in XClients, XClientConnects(c, s) PROVE TypeOK'
  BY <1>5 DEF XClientConnects
<1>6. CASE UNCHANGED vars
  BY <1>6 DEF vars
<1> QED
  BY <1>1, <1>2, <1>3, <1>4, <1>5, <1>6 DEF Next, MainLoop

LEMMA StepPhases ==
  ASSUME TypeOK, Phases, RunningEnds, [Next]_vars
  PROVE  Phases' /\ RunningEnds'
<1> USE DEF TypeOK, Phases, RunningEnds
<1>1. CASE OnRearm
  BY <1>1 DEF OnRearm, Arm
<1>2. ASSUME NEW s \in Sockets, Fire(s) PROVE Phases' /\ RunningEnds'
  BY <1>2 DEF Fire, FireStray, FireWatching, Arm
<1>3. CASE Thread \/ SatelliteExits
  BY <1>3 DEF Thread, ThreadSpawns, ThreadAsks, SatelliteExits
<1>4. ASSUME NEW s \in Sockets, SatelliteAccepts(s) PROVE Phases' /\ RunningEnds'
  BY <1>4 DEF SatelliteAccepts
<1>5. ASSUME NEW s \in Sockets, NEW c \in XClients, XClientConnects(c, s)
      PROVE  Phases' /\ RunningEnds'
  BY <1>5 DEF XClientConnects
<1>6. CASE UNCHANGED vars
  BY <1>6 DEF vars
<1> QED
  BY <1>1, <1>2, <1>3, <1>4, <1>5, <1>6 DEF Next, MainLoop

-----------------------------------------------------------------------------
(* Clients and threads *)

(* A client that woke the supervisor has not been answered before.          *)
LEMMA FireCounted ==
  ASSUME TypeOK, Apart, Counted, NEW s \in Sockets, Fire(s)
  PROVE  Apart' /\ Counted'
<1>1. UNCHANGED <<waiting, served, refused>> /\ Came' = Came /\ Answered' = Answered
  BY DEF Fire, Came, Answered
<1>2. PICK c \in waiting[s] : c \in Came /\ c \notin Answered
  BY DEF Fire, Came, Answered, Apart
<1>3. Cardinality(Answered) + 1 <= Cardinality(Came)
  <2>1. Answered \cup {c} \subseteq Came
    BY <1>2 DEF Answered, Came
  <2>2. Cardinality(Answered \cup {c}) = Cardinality(Answered) + 1
    BY <1>2, CameFinite, FS_AddElement
  <2> QED
    BY <2>1, <2>2, CameFinite, FS_Subset
<1>4. Counted'
  <2>1. \/ spawns' = spawns /\ (watch' # "running" => watch # "running")
        \/ spawns' = spawns + 1 /\ watch # "running" /\ watch' = "running"
    BY DEF Fire, FireStray, FireWatching
  <2> QED
    BY <1>1, <1>3, <2>1, CameFinite DEF Counted, TypeOK
<1> QED
  BY <1>1, <1>4 DEF Apart

LEMMA RearmCounted ==
  ASSUME TypeOK, Phases, Apart, Counted, OnRearm
  PROVE  Apart' /\ Counted'
<1>1. spawns' = spawns /\ watch = "running"
  BY DEF OnRearm, Phases
<1>2. CASE UNCHANGED <<watch, sources, waiting, refused>>
  <2>1. UNCHANGED <<waiting, served, refused, watch>>
    BY <1>2 DEF OnRearm
  <2> QED
    BY <1>1, <2>1 DEF Apart, Counted, Came, Answered
<1>3. CASE Drain
  <2>1. waiting' = [s \in Sockets |-> {}] /\ served' = served
        /\ refused' = refused \cup UNION {waiting[s] : s \in Sockets}
    BY <1>3 DEF Drain, OnRearm
  <2>2. Came' = Came /\ Answered' = Came
    BY <2>1 DEF Came, Answered
  <2>3. Apart'
    BY <2>1 DEF Apart, Sockets
  <2> QED
    BY <1>1, <2>2, <2>3 DEF Counted
<1> QED
  BY <1>2, <1>3 DEF OnRearm

LEMMA AcceptCounted ==
  ASSUME TypeOK, Phases, Apart, Counted, NEW s \in Sockets, SatelliteAccepts(s)
  PROVE  Apart' /\ Counted'
<1>1. PICK c \in waiting[s] :
        /\ waiting' = [waiting EXCEPT ![s] = @ \ {c}]
        /\ served' = served \cup {c} /\ UNCHANGED <<refused, watch, spawns>>
  BY DEF SatelliteAccepts
<1>2. Apart'
  BY <1>1 DEF Apart, Answered, TypeOK, Sockets
<1>3. Came' = Came
  BY <1>1 DEF Came, TypeOK
<1>4. watch' = "running"
  BY <1>1 DEF SatelliteAccepts, Phases
<1> QED
  BY <1>1, <1>2, <1>3, <1>4 DEF Counted

LEMMA ConnectCounted ==
  ASSUME TypeOK, TypeOK', Apart, Counted, NEW s \in Sockets, NEW c \in XClients,
         XClientConnects(c, s)
  PROVE  Apart' /\ Counted'
<1>1. waiting' = [waiting EXCEPT ![s] = @ \cup {c}] /\ c \notin Came
      /\ UNCHANGED <<served, refused, watch, spawns>>
  BY DEF XClientConnects
<1>2. Apart'
  BY <1>1 DEF Apart, Answered, Came, TypeOK, Sockets
<1>3. Came \subseteq Came' /\ Answered' = Answered
  BY <1>1 DEF Came, Answered, TypeOK
<1>4. IsFiniteSet(Came') /\ Cardinality(Came) <= Cardinality(Came')
      /\ Cardinality(Came) \in Nat /\ Cardinality(Came') \in Nat
  <2>1. IsFiniteSet(Came')
    BY XwlsAssumption, FS_Subset DEF XwlsAssumption, TypeOK, Came
  <2> QED
    BY <1>3, <2>1, FS_Subset, FS_CardinalityType, CameFinite
<1>5. Counted'
  BY <1>1, <1>3, <1>4 DEF Counted, TypeOK
<1> QED
  BY <1>2, <1>5

LEMMA StepIInv == IInv /\ [Next]_vars => IInv'
<1> SUFFICES ASSUME IInv, [Next]_vars PROVE IInv'
  OBVIOUS
<1>1. TypeOK' /\ Phases' /\ RunningEnds'
  BY StepTyped, StepPhases DEF IInv
<1>2. Apart' /\ Counted'
  <2>1. CASE OnRearm
    BY <2>1, RearmCounted DEF IInv
  <2>2. CASE \E s \in Sockets : Fire(s)
    BY <2>2, FireCounted DEF IInv
  <2>3. CASE \E s \in Sockets : SatelliteAccepts(s)
    BY <2>3, AcceptCounted DEF IInv
  <2>4. CASE \E s \in Sockets, c \in XClients : XClientConnects(c, s)
    BY <2>4, <1>1, ConnectCounted DEF IInv
  <2>5. CASE Thread \/ SatelliteExits \/ UNCHANGED vars
    <3>1. UNCHANGED <<waiting, served, refused, spawns, watch>>
      BY <2>5 DEF Thread, ThreadSpawns, ThreadAsks, SatelliteExits, vars
    <3> QED
      BY <3>1 DEF IInv, Apart, Counted, Came, Answered
  <2> QED
    BY <2>1, <2>2, <2>3, <2>4, <2>5 DEF Next, MainLoop
<1> QED
  BY <1>1, <1>2 DEF IInv

LEMMA Invariant == Spec => []IInv
BY InitIInv, StepIInv, PTL DEF Spec

(* The compositor never watches a socket that the satellite serves or is     *)
(* about to serve, and every Running ends (XwlsIntegration, spawn_and_wait). *)
THEOREM SocketsHaveOneListener == Spec => [](OneListener /\ RunningEnds)
<1>1. IInv => OneListener /\ RunningEnds
  BY DEF IInv, Phases, OneListener, RunningEnds, TypeOK
<1> QED
  BY <1>1, Invariant, PTL

(* The satellite is started at most once for every X client that came: one   *)
(* that cannot start does not send the event loop into a busy loop          *)
(* (on_rearm, drain_pending_in_place).                                      *)
THEOREM OneSpawnPerClient == Spec => []NoBusyLoop
<1>1. IInv => NoBusyLoop
  BY DEF IInv, Counted, NoBusyLoop
<1> QED
  BY <1>1, Invariant, PTL
=============================================================================
