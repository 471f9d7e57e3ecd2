----------------------------- MODULE DbusProxy -----------------------------
(* emskin's D-Bus broker (crates/emskin-dbus) on one connection: a client   *)
(* of the session bus, the bus, and between them emskin's event loop, which *)
(* relays both byte streams, answers the calls to fcitx5 itself, and puts   *)
(* signals of its own into the stream to the client.                        *)
(*                                                                          *)
(* A stream is a sequence of pieces.  Every message is cut into two pieces, *)
(* so that a read, a write or a buffer can hold a part of one; message 0 of *)
(* the client is its half of the handshake (AUTH and BEGIN), message 0 of   *)
(* the bus the other (OK and AGREE_UNIX_FD).  Descriptors travel with the   *)
(* first piece, as the kernel delivers them.                                *)
EXTENDS Integers, Sequences, FiniteSets, SequencesExt

CONSTANTS
  Kinds,        \* what the client sends: some of ClientKinds
  MaxCalls,     \* messages of the client after the handshake
  MaxBus,       \* changes of fcitx5's owner, and messages with a descriptor
  MaxCommits,   \* signals that emskin's input method sends to the client
  Capacity,     \* pieces that the socket to the bus or to the client takes
  ReadMax,      \* pieces that one recvmsg returns (8 KiB in the code)
  Pipelines,    \* does the client send BEGIN without waiting for the answer?
  SplitsFds     \* may a recvmsg end within a message that has a descriptor?

ClientKinds == {"plain", "fd", "lookup", "fcitx", "focus", "create"}

ASSUME BoundsAssumption ==
  /\ Kinds \subseteq ClientKinds
  /\ MaxCalls \in Nat /\ MaxBus \in Nat /\ MaxCommits \in Nat
  /\ Capacity \in Nat \ {0} /\ ReadMax \in Nat \ {0}
  /\ Pipelines \in BOOLEAN /\ SplitsFds \in BOOLEAN

VARIABLES
  link,           \* "listening", "up", or "gone": the Connection in the broker
  open,           \* which of the peers "client" and "bus" hold their socket open
  c2p, p2b,       \* sockets: client to proxy, proxy to bus,
  b2p, p2c,       \*          bus to proxy, proxy to client
  phase,          \* client_phase of ConnectionState
  msgBuf,         \* ConnectionState::msg_buf
  upstreamBuf,    \* Connection::upstream_buf
  clientOut,      \* queues of OutPackets
  upstreamOut,
  clientInFds,    \* descriptors received and not yet given to a message
  upstreamInFds,
  lookups,        \* pending_name_lookups: serials of GetNameOwner calls
  serverName,     \* fcitx_server_name; 0 is None
  serial,         \* serial_counter
  nextIc,         \* ic_allocator
  events,         \* FcitxEvents not drained yet
  active,         \* has emskin seen a FocusIn, so that it may emit signals?
  emitted,        \* how many signals it has emitted
  asked,          \* the client: its messages so far,
  begun,          \* has it sent BEGIN?
  clientGot,      \* what it received,
  known,          \* and the unique name it believes fcitx5 to have
  said,           \* the bus: its messages so far,
  busGot,         \* what it received,
  owner           \* and fcitx5's unique name; 0: nobody has it

sockets  == <<c2p, p2b, b2p, p2c>>
queues   == <<clientOut, upstreamOut>>
parsing  == <<phase, msgBuf, upstreamBuf, clientInFds, upstreamInFds>>
names    == <<lookups, serverName>>
counters == <<serial, nextIc, events>>
emskin   == <<active, emitted>>
clientVars == <<asked, begun, clientGot, known>>
busVars  == <<said, busGot, owner>>
vars == <<link, open, sockets, parsing, queues, names, counters, emskin, clientVars,
          busVars>>

-----------------------------------------------------------------------------
(* Messages and pieces *)

(* One step of a handler's loop for each element of a sequence.             *)
ForEach(Step(_, _), start, seq) ==
  LET after[i \in 0..Len(seq)] == IF i = 0 THEN start ELSE Step(after[i - 1], seq[i])
  IN after[Len(seq)]

Message(src, n, kind, to, val) ==
  [src |-> src, n |-> n, kind |-> kind, to |-> to, val |-> val]

Hello == Message("client", 0, "hello", 0, 0)
Ok == Message("bus", 0, "ok", 0, 0)

(* classify: calls of the fcitx5 interfaces are answered here.              *)
Intercepted(m) == m.src = "client" /\ m.kind \in {"fcitx", "focus", "create"}

(* The unix_fds header.                                                     *)
HasFd(m) == m.kind = "fd"
OwnFds(m) == IF HasFd(m) THEN <<m>> ELSE <<>>

Piece(m, part) == [msg |-> m, part |-> part, fds |-> IF part = 1 THEN OwnFds(m) ELSE <<>>]
Pieces(m) == <<Piece(m, 1), Piece(m, 2)>>

(* The descriptors that come with what a peer has sent.                     *)
Fds(pieces) ==
  LET carrying == SelectSeq(pieces, LAMBDA p : p.fds # <<>>)
  IN [i \in DOMAIN carrying |-> carrying[i].fds[1]]

(* Inside the proxy bytes and descriptors are apart.                        *)
Bare(pieces) == [i \in DOMAIN pieces |-> [pieces[i] EXCEPT !.fds = <<>>]]

Packet(pieces, fds) == [pieces |-> Bare(pieces), fds |-> fds]
BytesOnly(pieces) == Packet(pieces, <<>>)

(* recvmsg: some pieces from the front of the socket.  The kernel never     *)
(* returns the descriptors of two messages at once.                         *)
Reads(socket, n) ==
  /\ n \in 1..ReadMax /\ n <= Len(socket)
  /\ LET chunk == SubSeq(socket, 1, n)
     IN /\ Len(Fds(chunk)) <= 1
        /\ SplitsFds \/ ~(HasFd(Last(chunk).msg) /\ Last(chunk).part = 1)

-----------------------------------------------------------------------------
(* try_flush: write packets until the socket is full.  A packet's           *)
(* descriptors go with its first piece.  A packet that has descriptors and  *)
(* no bytes is never written and never removed.                             *)

Send(acc, packet) ==
  LET n == Len(packet.pieces)
      fits == IF n <= acc.free THEN n ELSE acc.free
      first == [packet.pieces[1] EXCEPT !.fds = packet.fds]
  IN IF acc.stopped
     THEN [acc EXCEPT !.rest = Append(@, packet)]
     ELSE IF n = 0 /\ packet.fds = <<>>
     THEN acc
     ELSE IF n = 0 \/ acc.free = 0
     THEN [acc EXCEPT !.rest = Append(@, packet), !.stopped = TRUE]
     ELSE [written |-> acc.written \o <<first>> \o SubSeq(packet.pieces, 2, fits),
           rest    |-> IF fits = n THEN acc.rest
                       ELSE Append(acc.rest, [pieces |-> SubSeq(packet.pieces, fits + 1, n),
                                              fds |-> <<>>]),
           stopped |-> fits < n,
           free    |-> acc.free - fits]

(* Writing to a peer that has closed its socket is an error.                *)
Flush(queue, socket, peer) ==
  IF peer \notin open /\ queue # <<>>
  THEN [written |-> <<>>, rest |-> queue, failed |-> TRUE]
  ELSE LET acc == ForEach(Send, [written |-> <<>>, rest |-> <<>>, stopped |-> FALSE,
                                  free |-> Capacity - Len(socket)], queue)
       IN [written |-> acc.written, rest |-> acc.rest, failed |-> FALSE]

NoFlush(queue) == [written |-> <<>>, rest |-> queue, failed |-> FALSE]

(* The end of a pump, with what it flushes: an error ends the connection    *)
(* (drop_dbus_connection, remove_connection), and all that was queued or    *)
(* not read is lost.  No IcDestroyed is sent.                               *)
Settle(up, down) ==
  /\ p2b' = p2b \o up.written
  /\ p2c' = IF up.failed THEN p2c ELSE p2c \o down.written
  /\ IF up.failed \/ down.failed
     THEN link' = "gone" /\ upstreamOut' = <<>> /\ clientOut' = <<>>
     ELSE link' = link /\ upstreamOut' = up.rest /\ clientOut' = down.rest

-----------------------------------------------------------------------------
(* register_dbus_connection: both sockets are cloned and become sources of  *)
(* the event loop; if one does not, the connection is removed again.        *)
Registered == {"up", "gone"}

(* accept_one: the bus is dialled for every client; if that fails the       *)
(* client is dropped.                                                       *)
Accept ==
  /\ link = "listening"
  /\ link' \in Registered \cup {"gone"}
  /\ UNCHANGED <<open, sockets, parsing, queues, names, counters, emskin, clientVars,
                 busVars>>

(* Frames in a buffer: a frame is known to be complete when both its pieces *)
(* are there.                                                               *)
OneFrame(buf) ==                            \* wrong: an if instead of the loop
  IF Len(buf) < 2 THEN <<>> ELSE <<buf[2].msg>>

WholeFrames(buf) == [i \in 1..(Len(buf) \div 2) |-> buf[2 * i].msg]
Remainder(buf) == SubSeq(buf, 2 * (Len(buf) \div 2) + 1, Len(buf))

(* feed_from_client: during AUTH everything is passed on; what follows      *)
(* BEGIN is collected in msg_buf until it is a whole frame.                 *)
IsBegin(piece) == piece.msg.kind = "hello" /\ piece.part = 2
AuthPart(chunk) ==
  IF phase = "Messages" THEN <<>>
  ELSE SelectSeq(chunk, LAMBDA p : p.msg.kind = "hello")
PhaseAfter(chunk) ==
  IF \E i \in DOMAIN chunk : IsBegin(chunk[i]) THEN "Messages" ELSE phase
BufferAfter(chunk) == msgBuf \o SubSeq(chunk, Len(AuthPart(chunk)) + 1, Len(chunk))

(* build_reply: the answer to a call; for CreateInputContext with its path. *)
Reply(m, s, ic) ==
  Message("proxy", s, "reply", m.n, IF m.kind = "create" THEN ic ELSE 0)

(* emit_fcitx_event: what emskin's input method hears of.                   *)
EventsOf(m) == IF m.kind = "focus" THEN <<m.n>> ELSE <<>>

(* A GetNameOwner for fcitx5's well-known name.                             *)
IsLookup(m) == m.kind = "lookup"

(* InputContextAllocator::allocate and SerialCounter::bump                  *)
Allocate(m, ic) == IF m.kind = "create" THEN ic + 1 ELSE ic
Bump(s) == s + 1

(* The name that a call was addressed to, if it is a unique one.            *)
Captured(m, name) == IF m.val # 0 THEN m.val ELSE name

(* One frame from the client: take the descriptors it declares, remember a  *)
(* GetNameOwner, and answer it here or pass it on.                          *)
HandleFrame(acc, m) ==
  LET taken == IF HasFd(m) /\ acc.fds # <<>> THEN <<Head(acc.fds)>> ELSE <<>>
      left  == IF HasFd(m) /\ acc.fds # <<>> THEN Tail(acc.fds) ELSE acc.fds
  IN IF Intercepted(m)
     THEN [acc EXCEPT
             !.fds    = left,
             !.name   = Captured(m, @),
             !.serial = Bump(@),
             !.ic     = Allocate(m, @),
             !.down   = Append(@, BytesOnly(Pieces(Reply(m, Bump(acc.serial), acc.ic)))),
             !.events = @ \o EventsOf(m)]
     ELSE [acc EXCEPT
             !.fds     = left,
             !.lookups = IF IsLookup(m) THEN @ \cup {m.n} ELSE @,
             !.up      = Append(@, Packet(Pieces(m), taken))]

AuthTail(auth) == IF auth = <<>> THEN <<>> ELSE <<BytesOnly(auth)>>

HandleFrames(frames, fds) ==
  ForEach(HandleFrame,
           [up |-> <<>>, down |-> <<>>, fds |-> fds, name |-> serverName,
            lookups |-> lookups, serial |-> serial, ic |-> nextIc, events |-> events],
           frames)

(* pump_client_to_upstream.  Without a whole frame, what there is goes on   *)
(* as one packet, with every descriptor received so far.                    *)
PumpClient(n) ==
  /\ link = "up" /\ Reads(c2p, n)
  /\ LET chunk  == SubSeq(c2p, 1, n)
         auth   == AuthPart(chunk)
         frames == WholeFrames(BufferAfter(chunk))
         fds    == clientInFds \o Fds(chunk)
         h      == HandleFrames(frames, fds)
     IN /\ c2p' = SubSeq(c2p, n + 1, Len(c2p))
        /\ phase' = PhaseAfter(chunk)
        /\ msgBuf' = Remainder(BufferAfter(chunk))
        /\ lookups' = h.lookups /\ serverName' = h.name
        /\ serial' = h.serial /\ nextIc' = h.ic /\ events' = h.events
        /\ \/ /\ frames = <<>>
              /\ clientInFds' = <<>>
              /\ Settle(Flush(Append(upstreamOut, Packet(auth, fds)), p2b, "bus"),
                        NoFlush(clientOut))
           \/ /\ frames # <<>>
              /\ clientInFds' = h.fds
              /\ Settle(Flush(upstreamOut \o AuthTail(auth) \o h.up, p2b, "bus"),
                        Flush(clientOut \o h.down, p2c, "client"))
  /\ UNCHANGED <<open, b2p, upstreamBuf, upstreamInFds, emskin, clientVars, busVars>>

(* NameOwnerChanged of fcitx5's well-known name.                            *)
OwnerChanged(m) == m.kind = "changed"

ObserveLookups(acc, m) ==                   \* wrong: NameOwnerChanged is not seen
  LET tracked == m.kind = "owner" /\ m.to \in acc.lookups
  IN [fds     |-> IF HasFd(m) /\ acc.fds # <<>> THEN Tail(acc.fds) ELSE acc.fds,
      lookups |-> acc.lookups \ {m.to},
      name    |-> IF tracked THEN m.val ELSE acc.name,
      down    |-> Append(acc.down, Packet(Pieces(m), OwnFds(m)))]

(* One frame from the bus: take its descriptors, learn fcitx5's name from   *)
(* it, and pass it on.                                                      *)
Observe(acc, m) ==
  LET taken == IF HasFd(m) /\ acc.fds # <<>> THEN <<Head(acc.fds)>> ELSE <<>>
      tracked == m.kind = "owner" /\ m.to \in acc.lookups
  IN [fds     |-> IF taken = <<>> THEN acc.fds ELSE Tail(acc.fds),
      lookups |-> IF tracked THEN acc.lookups \ {m.to} ELSE acc.lookups,
      name    |-> IF tracked \/ OwnerChanged(m) THEN m.val ELSE acc.name,
      down    |-> Append(acc.down, Packet(Pieces(m), taken))]

ObserveAll(frames, fds) ==
  ForEach(Observe, [fds |-> fds, lookups |-> lookups, name |-> serverName, down |-> <<>>],
           frames)

(* The loop over upstream_buf.  Before BEGIN bytes are passed on unread.    *)
(* After it they are taken for frames: a text of the handshake that is too  *)
(* short for a header waits, a longer one is an error, upon which all bytes *)
(* go on as they are, and the descriptors are closed.                       *)
IsHandshake(piece) == piece.msg.kind = "ok"
TooShort(buf) == Len(buf) = 1 /\ IsHandshake(buf[1]) /\ buf[1].part = 2
NotAFrame(buf) ==
  buf # <<>> /\ (IsHandshake(buf[1]) \/ buf[1].part = 2) /\ ~TooShort(buf)

PumpUpstream(n) ==
  /\ link = "up" /\ Reads(b2p, n)
  /\ b2p' = SubSeq(b2p, n + 1, Len(b2p))
  /\ LET chunk == SubSeq(b2p, 1, n)
         buf   == upstreamBuf \o Bare(chunk)
         fds   == upstreamInFds \o Fds(chunk)
         h     == ObserveAll(WholeFrames(buf), fds)
         Out(packets) == Settle(NoFlush(upstreamOut),
                                Flush(clientOut \o packets, p2c, "client"))
     IN \/ /\ phase = "Auth"
           /\ Out(<<Packet(chunk, fds)>>)
           /\ upstreamInFds' = <<>>
           /\ UNCHANGED <<upstreamBuf, names>>
        \/ /\ phase = "Messages" /\ NotAFrame(buf)
           /\ Out(<<BytesOnly(buf)>>)
           /\ upstreamBuf' = <<>> /\ upstreamInFds' = <<>>
           /\ UNCHANGED names
        \/ /\ phase = "Messages" /\ ~NotAFrame(buf)
           /\ IF TooShort(buf)
              THEN Out(<<>>) /\ upstreamBuf' = buf /\ upstreamInFds' = fds
                   /\ UNCHANGED names
              ELSE /\ Out(h.down)
                   /\ upstreamBuf' = Remainder(buf)
                   /\ upstreamInFds' = h.fds
                   /\ lookups' = h.lookups /\ serverName' = h.name
  /\ UNCHANGED <<open, c2p, phase, msgBuf, clientInFds, counters, emskin, clientVars,
                 busVars>>

(* A pump that reads the end of the stream: drop_dbus_connection.           *)
PeerClosed ==
  /\ link = "up"
  /\ \/ "client" \notin open /\ c2p = <<>>
     \/ "bus" \notin open /\ b2p = <<>>
  /\ link' = "gone" /\ clientOut' = <<>> /\ upstreamOut' = <<>>
  /\ UNCHANGED <<open, sockets, parsing, names, counters, emskin, clientVars, busVars>>

EmitDirectly ==                             \* wrong: past what is queued
  /\ link = "up" /\ active /\ emitted < MaxCommits
  /\ Len(p2c) + 2 <= Capacity
  /\ emitted' = emitted + 1 /\ serial' = Bump(serial)
  /\ p2c' = p2c \o Pieces(Message("proxy", Bump(serial), "commit", 0, serverName))
  /\ UNCHANGED <<link, open, c2p, p2b, b2p, parsing, queues, names, nextIc, events, active,
                 clientVars, busVars>>

(* emit_commit_string and emit_preedit, for the input context that has the  *)
(* focus.  An error is only logged.                                         *)
Emit ==
  /\ link = "up" /\ active /\ emitted < MaxCommits
  /\ emitted' = emitted + 1
  /\ serial' = Bump(serial)
  /\ LET signal == Message("proxy", Bump(serial), "commit", 0, serverName)
         f == Flush(Append(clientOut, BytesOnly(Pieces(signal))), p2c, "client")
     IN clientOut' = f.rest /\ p2c' = p2c \o f.written
  /\ UNCHANGED <<link, open, c2p, p2b, b2p, parsing, upstreamOut, names, nextIc, events,
                 active, clientVars, busVars>>

(* The tick takes all events (drain_events).                                *)
DrainEvents ==
  /\ events # <<>>
  /\ events' = <<>> /\ active' = TRUE
  /\ UNCHANGED <<link, open, sockets, parsing, queues, names, serial, nextIc, emitted,
                 clientVars, busVars>>

Proxy ==
  \/ Accept \/ PeerClosed \/ DrainEvents \/ Emit
  \/ \E n \in 1..ReadMax : PumpClient(n) \/ PumpUpstream(n)

-----------------------------------------------------------------------------
(* What a reader makes of the pieces it gets: whole messages with the       *)
(* descriptors that came along, and a torn one where pieces do not fit.     *)
Torn == [msg |-> Message("nobody", 0, "torn", 0, 0), fds |-> <<>>]

Nothing == [whole |-> <<>>, half |-> <<>>]

Assemble(acc, p) ==
  IF acc.half = <<>> /\ p.part = 1 THEN [acc EXCEPT !.half = <<p>>]
  ELSE IF acc.half # <<>> /\ p.part = 2 /\ acc.half[1].msg = p.msg
  THEN [whole |-> Append(acc.whole, [msg |-> p.msg, fds |-> acc.half[1].fds \o p.fds]),
        half  |-> <<>>]
  ELSE [whole |-> Append(acc.whole, Torn), half |-> <<>>]

(* The client *)

Got(reader, m) == \E i \in DOMAIN reader.whole : reader.whole[i].msg = m

Greeted == Got(clientGot, Ok)

(* AUTH and NEGOTIATE_UNIX_FD; BEGIN at once or after the answer.           *)
ClientAuth ==
  /\ link = "up" /\ "client" \in open /\ asked = <<>>
  /\ asked' = <<Hello>> /\ begun' = Pipelines
  /\ c2p' = IF Pipelines THEN Pieces(Hello) ELSE <<Piece(Hello, 1)>>
  /\ UNCHANGED <<link, open, p2b, b2p, p2c, parsing, queues, names, counters, emskin,
                 clientGot, known, busVars>>

ClientBegins ==
  /\ link = "up" /\ "client" \in open /\ Greeted /\ ~begun
  /\ begun' = TRUE /\ c2p' = Append(c2p, Piece(Hello, 2))
  /\ UNCHANGED <<link, open, p2b, b2p, p2c, parsing, queues, names, counters, emskin,
                 asked, clientGot, known, busVars>>

(* Any call.  A call of fcitx5 is addressed to the well-known name or to    *)
(* the unique name that the client believes it to have.                     *)
ClientCalls ==
  /\ link = "up" /\ "client" \in open /\ Greeted /\ begun
  /\ Len(asked) <= MaxCalls
  /\ \E kind \in Kinds, dest \in {0, known} :
       LET m == Message("client", Len(asked), kind, 0, dest)
       IN /\ dest # 0 => Intercepted(m)
          /\ asked' = Append(asked, m)
          /\ c2p' = c2p \o Pieces(m)
  /\ UNCHANGED <<link, open, p2b, b2p, p2c, parsing, queues, names, counters, emskin,
                 begun, clientGot, known, busVars>>

(* It reads the next piece, and learns fcitx5's name as the proxy does.     *)
ClientReads ==
  /\ p2c # <<>> /\ "client" \in open
  /\ p2c' = Tail(p2c)
  /\ clientGot' = Assemble(clientGot, Head(p2c))
  /\ known' = IF Head(p2c).part = 2 /\ Head(p2c).msg.kind \in {"owner", "changed"}
              THEN Head(p2c).msg.val ELSE known
  /\ UNCHANGED <<link, open, c2p, p2b, b2p, parsing, queues, names, counters, emskin,
                 asked, begun, busVars>>

(* The bus *)

(* It reads the next piece, and answers the handshake and GetNameOwner.     *)
Answer(piece) ==
  LET m == piece.msg
  IN IF m.kind = "hello" /\ piece.part = 1 THEN <<Ok>>
     ELSE IF m.kind = "lookup" /\ piece.part = 2
     THEN <<Message("bus", Len(said), IF owner = 0 THEN "error" ELSE "owner", m.n, owner)>>
     ELSE <<>>

BusReads ==
  /\ p2b # <<>> /\ "bus" \in open
  /\ p2b' = Tail(p2b)
  /\ busGot' = Assemble(busGot, Head(p2b))
  /\ said' = said \o Answer(Head(p2b))
  /\ b2p' = IF link = "up" THEN ForEach(LAMBDA acc, m : acc \o Pieces(m), b2p, Answer(Head(p2b)))
            ELSE b2p
  /\ UNCHANGED <<link, open, c2p, p2c, parsing, queues, names, counters, emskin,
                 clientVars, owner>>

(* fcitx5 leaves the bus or comes back, or a message with a descriptor.     *)
BusSignals ==
  /\ link = "up" /\ "bus" \in open
  /\ Got(busGot, Hello)
  /\ Cardinality({i \in DOMAIN said : said[i].kind \in {"changed", "fd"}}) < MaxBus
  /\ \E m \in {Message("bus", Len(said), "fd", 0, 0)}
            \cup {Message("bus", Len(said), "changed", 0, o) : o \in {0, Len(said)}} :
       /\ m.kind = "changed" => m.val # owner
       /\ owner' = IF m.kind = "changed" THEN m.val ELSE owner
       /\ said' = Append(said, m)
       /\ b2p' = b2p \o Pieces(m)
  /\ UNCHANGED <<link, open, c2p, p2b, p2c, parsing, queues, names, counters, emskin,
                 clientVars, busGot>>

(* A peer closes its socket, or its process ends.                           *)
Closes(peer) ==
  /\ link = "up" /\ peer \in open
  /\ open' = open \ {peer}
  /\ UNCHANGED <<link, sockets, parsing, queues, names, counters, emskin, clientVars,
                 busVars>>

-----------------------------------------------------------------------------
Init ==
  /\ link = "listening" /\ open = {"client", "bus"}
  /\ c2p = <<>> /\ p2b = <<>> /\ b2p = <<>> /\ p2c = <<>>
  /\ phase = "Auth" /\ msgBuf = <<>> /\ upstreamBuf = <<>>
  /\ clientInFds = <<>> /\ upstreamInFds = <<>>
  /\ clientOut = <<>> /\ upstreamOut = <<>>
  /\ lookups = {} /\ serverName = 0 /\ serial = 0 /\ nextIc = 1 /\ events = <<>>
  /\ active = FALSE /\ emitted = 0
  /\ asked = <<>> /\ begun = FALSE /\ clientGot = Nothing /\ known = 0
  /\ said = <<>> /\ busGot = Nothing /\ owner = 1

Peers ==
  \/ ClientAuth \/ ClientBegins \/ ClientCalls \/ ClientReads
  \/ BusReads \/ BusSignals
  \/ \E peer \in {"client", "bus"} : Closes(peer)

Next == Proxy \/ Peers

(* What the pumps do to the sockets they read: they have no other guard, so *)
(* fairness of this is fairness of the pumps.                               *)
ClientPumped ==
  link = "up" /\ \E n \in 1..ReadMax : Reads(c2p, n) /\ c2p' = SubSeq(c2p, n + 1, Len(c2p))
UpstreamPumped ==
  link = "up" /\ \E n \in 1..ReadMax : Reads(b2p, n) /\ b2p' = SubSeq(b2p, n + 1, Len(b2p))

(* calloop polls the two sockets for reading and runs the pumps; client and *)
(* bus read what arrives, and the client ends the handshake.  Neither ever  *)
(* has to call, to answer or to close.                                      *)
Fairness ==
  /\ WF_c2p(ClientPumped) /\ WF_b2p(UpstreamPumped)
  /\ WF_vars(ClientReads) /\ WF_vars(BusReads) /\ WF_vars(ClientBegins)

Spec == Init /\ [][Next]_vars /\ Fairness
-----------------------------------------------------------------------------
(* Properties *)

Messages == [src : {"client", "bus", "proxy"}, n : Nat, kind : STRING, to : Nat, val : Nat]
IsPieces(seq) == \A i \in DOMAIN seq : seq[i].msg \in Messages /\ seq[i].part \in {1, 2}

TypeOK ==
  /\ link \in {"listening", "up", "gone"} /\ open \subseteq {"client", "bus"}
  /\ phase \in {"Auth", "Messages"}
  /\ \A seq \in {c2p, p2b, b2p, p2c, msgBuf, upstreamBuf, clientGot.half, busGot.half} :
       IsPieces(seq)
  /\ Len(p2b) <= Capacity /\ Len(p2c) <= Capacity
  /\ Len(msgBuf) <= 1 /\ Len(upstreamBuf) <= 1
  /\ \A q \in {clientOut, upstreamOut} : \A i \in DOMAIN q : IsPieces(q[i].pieces)
  /\ lookups \subseteq 1..MaxCalls
  /\ \A n \in {serverName, serial, known, owner} : n \in Nat
  /\ nextIc \in Nat \ {0} /\ emitted \in 0..MaxCommits

LB == INSTANCE LocalBus
        WITH Fds <- OwnFds, received <- busGot.whole, heard <- clientGot.whole

(* Through all reads, partial frames, full sockets, commits and the end of  *)
(* either peer, client and bus see a bus that answers some calls itself:    *)
(* whole messages in order, each with its descriptors, no call both         *)
(* answered and passed on, no answer lost before a later one.               *)
ImplementsLocalBus == LB!Spec

(* While neither socket fills up, every message of the client arrives: it   *)
(* is answered here or received by the bus, and the handshake is answered.  *)
Arrived(m) ==
  /\ Intercepted(m) => \E i \in DOMAIN clientGot.whole :
                         LET got == clientGot.whole[i].msg
                         IN got.src = "proxy" /\ got.to = m.n
  /\ ~Intercepted(m) => Got(busGot, m)
  /\ Greeted

Severed == link = "gone" \/ open # {"client", "bus"}

NeverFull == Len(p2b) < Capacity /\ Len(p2c) < Capacity

CallsArrive == []NeverFull => []<>(Severed \/ \A i \in DOMAIN asked : Arrived(asked[i]))

(* When everything has arrived, the sender that emskin's signals carry is   *)
(* the name that the client takes for fcitx5's, unless the client's last    *)
(* call by unique name was to an older one.                                 *)
Quiet ==
  /\ c2p = <<>> /\ p2b = <<>> /\ b2p = <<>> /\ p2c = <<>>
  /\ msgBuf = <<>> /\ upstreamBuf = <<>> /\ clientOut = <<>> /\ upstreamOut = <<>>

Addressed == SelectSeq(asked, LAMBDA m : m.val # 0)

SenderSettles ==
  Quiet /\ link = "up" /\ (Addressed = <<>> \/ Last(Addressed).val = known)
    => serverName = known

-----------------------------------------------------------------------------
(* What comments of the source say, and the code does not do: no run checks  *)
(* these, and the README says how they come to be false.                     *)

(* proxy/mod.rs:840 "Wired to a WRITE-interest calloop source by the glue   *)
(* layer": what a full socket has left in the queue is written when there   *)
(* is room again.                                                           *)
QueueDrains == (clientOut # <<>>) ~> (clientOut = <<>> \/ Severed)

(* broker/state.rs:14 "bus -> client: raw pass-through" and proxy/mod.rs:202 *)
(* "Those bytes are still forwarded to the client": the answer to the       *)
(* handshake reaches the client.                                            *)
HandshakeEnds == (asked # <<>>) ~> (Greeted \/ Severed)

(* proxy/mod.rs:56 "Packet boundaries equal DBus message boundaries on the  *)
(* post-SASL path": descriptors wait in the queue with their message only.  *)
PacketsAreMessages ==
  \A i \in DOMAIN upstreamOut : upstreamOut[i].fds # <<>> => upstreamOut[i].pieces # <<>>
=============================================================================
