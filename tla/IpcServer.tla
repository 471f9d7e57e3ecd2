----------------------------- MODULE IpcServer -----------------------------
(***************************************************************************)
(* The socket between the compositor and Emacs: framing, partial writes,   *)
(* the messages kept for an Emacs that has not connected yet, and what     *)
(* happens to both directions when Emacs dies or connects again.           *)
(*                                                                         *)
(* A frame is a header and a payload, the length prefix and the JSON; each  *)
(* is one unit on the wire, so a write or a read can stop between them.     *)
(* Messages to Emacs are numbered as they are sent, 0 is the handshake;     *)
(* messages of Emacs are numbered per connection.                          *)
(*                                                                         *)
(* External: the kernel's socket buffers (Cap units in each direction) and  *)
(* Emacs, which connects, reads, writes and exits whenever it likes.        *)
(***************************************************************************)
EXTENDS Naturals, Sequences, Functions

CONSTANTS
  MaxConns,   \* bound on the connections Emacs makes
  MaxSends,   \* bound on the messages the compositor sends
  MaxWrites,  \* bound on the messages Emacs writes on one connection
  Cap,        \* units a socket buffer holds
  Oversized,  \* the messages of Emacs that are longer than MAX_MSG_SIZE
  None

ASSUME IpcAssumption ==
  /\ MaxConns \in Nat /\ MaxSends \in Nat /\ MaxWrites \in Nat
  /\ Cap \in Nat \ {0}
  /\ None \notin 1 .. MaxConns

VARIABLES
  conn,       \* IpcServer::connection, the number of the connection, or None
  pending,    \* IpcServer::pending
  readBuf,    \* IpcConn::read_buf
  writeBuf,   \* IpcConn::write_buf
  sent,       \* how many messages were sent
  handled,    \* history: what recv_all returned, as <<connection, message>>
  backlog,    \* connections the listener has not accepted yet
  made,       \* how many connections Emacs has made
  open,       \* the connections whose Emacs side is open
  down, up,   \* socket buffers of a connection, to Emacs and to us
  got,        \* what Emacs has read from a connection
  written     \* how many units Emacs has written to a connection

serverVars == <<conn, pending, readBuf, writeBuf, sent, handled>>
emacsVars  == <<made, open, got, written>>
vars == <<serverVars, backlog, emacsVars, down, up>>

Conns == 1 .. MaxConns

Header(m) == [msg |-> m, part |-> "head"]
Body(m)  == [msg |-> m, part |-> "body"]
Frame(m) == <<Header(m), Body(m)>>
Frames(ms) ==
  [i \in 1 .. 2 * Len(ms) |->
     IF i % 2 = 1 THEN Header(ms[i \div 2 + 1]) ELSE Body(ms[i \div 2])]

Unit == [msg : Nat, part : {"head", "body"}]

TypeOK ==
  /\ conn \in Conns \cup {None}
  /\ pending \in Seq(1 .. MaxSends)
  /\ readBuf \in Seq(Unit) /\ writeBuf \in Seq(Unit)
  /\ conn = None => readBuf = << >> /\ writeBuf = << >>
  /\ sent \in 0 .. MaxSends
  /\ handled \in Seq(Conns \X (1 .. MaxWrites))
  /\ backlog \in Seq(Conns)
  /\ made \in 0 .. MaxConns
  /\ open \subseteq 1 .. made
  /\ \A c \in Conns : /\ Len(down[c]) <= Cap /\ Len(up[c]) <= Cap
                      /\ down[c] \in Seq(Unit) /\ up[c] \in Seq(Unit) /\ got[c] \in Seq(Unit)
  /\ written \in [Conns -> 0 .. 2 * MaxWrites]

Init ==
  /\ conn = None
  /\ pending = << >>
  /\ readBuf = << >>
  /\ writeBuf = << >>
  /\ sent = 0
  /\ handled = << >>
  /\ backlog = << >>
  /\ made = 0
  /\ open = {}
  /\ down = [c \in Conns |-> << >>]
  /\ up = [c \in Conns |-> << >>]
  /\ got = [c \in Conns |-> << >>]
  /\ written = [c \in Conns |-> 0]

-----------------------------------------------------------------------------
(* The server *)

(* try_flush on connection c of what buf holds: as much as the socket takes. *)
(* A peer that is gone is an error, and nothing is written.                 *)
FlushTo(c, buf) ==
  LET room == Cap - Len(down[c])
      n    == IF c \notin open THEN 0 ELSE IF Len(buf) < room THEN Len(buf) ELSE room
  IN /\ down' = [down EXCEPT ![c] = @ \o SubSeq(buf, 1, n)]
     /\ writeBuf' = SubSeq(buf, n + 1, Len(buf))

Broken(c, buf) == c \notin open /\ buf # << >>

(* connection = None: its buffers go with it.                               *)
DropConnection ==
  /\ conn' = None
  /\ readBuf' = << >>
  /\ writeBuf' = << >>

(* accept: the new connection takes the place of a live one, gets the       *)
(* handshake and everything that waited; a write error is not looked at.    *)
UnsentFirst == writeBuf \o Frame(0) \o Frames(pending)   \* wrong: the old buffer kept

HandshakeOnly == Frame(0)                             \* wrong: drained, not enqueued

Greeting == Frame(0) \o Frames(pending)

AfterGreeting == << >>

Accept ==
  /\ backlog # << >>
  /\ backlog' = Tail(backlog)
  /\ conn' = Head(backlog)
  /\ readBuf' = << >>
  /\ pending' = AfterGreeting
  /\ FlushTo(Head(backlog), Greeting)
  /\ UNCHANGED <<sent, handled, emacsVars, up>>

(* send                                                                    *)
Send ==
  /\ sent < MaxSends
  /\ sent' = sent + 1
  /\ \/ /\ conn = None
        /\ pending' = Append(pending, sent + 1)
        /\ UNCHANGED <<conn, readBuf, writeBuf, down>>
     \/ /\ conn # None
        /\ \/ /\ Broken(conn, Frame(0))
              /\ DropConnection
              /\ UNCHANGED down
           \/ /\ conn \in open
              /\ FlushTo(conn, writeBuf \o Frame(sent + 1))
              /\ UNCHANGED <<conn, readBuf>>
        /\ UNCHANGED pending
  /\ UNCHANGED <<handled, backlog, emacsVars, up>>

(* try_recv: whether a frame in buf declares too large a payload, and the    *)
(* payloads of the whole frames.                                           *)
TooLarge(buf) == \E m \in Oversized : Header(m) \in Range(buf)

WholeTooEarly(buf) ==                                 \* wrong: without its payload
  [i \in 1 .. (Len(buf) + 1) \div 2 |-> buf[2 * i - 1]]

Whole(buf) == [i \in 1 .. Len(buf) \div 2 |-> buf[2 * i]]

(* recv_all: reads until the socket is empty or closed.  A closed socket or *)
(* a frame too large ends the connection, and nothing is returned.          *)
RestLost(buf) == << >>                                \* wrong: half a frame thrown away

RestOf(buf) == IF Len(buf) % 2 = 0 THEN << >> ELSE <<buf[Len(buf)]>>

RecvAll ==
  /\ conn # None
  /\ conn \notin open \/ up[conn] # << >>
  /\ up' = [up EXCEPT ![conn] = << >>]
  /\ LET buf == readBuf \o up[conn]
         new == Whole(buf)
     IN \/ /\ conn \notin open \/ TooLarge(buf)
           /\ DropConnection
           /\ UNCHANGED handled
        \/ /\ conn \in open /\ ~TooLarge(buf)
           /\ readBuf' = RestOf(buf)
           /\ handled' = handled \o [i \in DOMAIN new |-> <<conn, new[i].msg>>]
           /\ UNCHANGED <<conn, writeBuf>>
  /\ UNCHANGED <<pending, sent, backlog, emacsVars, down>>

(* flush, in every tick.                                                    *)
Flush ==
  /\ conn # None
  /\ writeBuf # << >>
  /\ \/ /\ Broken(conn, writeBuf)
        /\ DropConnection
        /\ UNCHANGED down
     \/ /\ conn \in open
        /\ Len(down[conn]) < Cap
        /\ FlushTo(conn, writeBuf)
        /\ UNCHANGED <<conn, readBuf>>
  /\ UNCHANGED <<pending, sent, handled, backlog, emacsVars, up>>

-----------------------------------------------------------------------------
(* Emacs (external) *)

(* emskin-connect closes the connection this Emacs has; another Emacs has    *)
(* its own.                                                                *)
Connect ==
  /\ made < MaxConns
  /\ made' = made + 1
  /\ open' \in {open \cup {made + 1}, {made + 1}}
  /\ backlog' = Append(backlog, made + 1)
  /\ UNCHANGED <<serverVars, got, written, down, up>>

(* emskin--filter                                                          *)
Read(c) ==
  /\ c \in open
  /\ down[c] # << >>
  /\ got' = [got EXCEPT ![c] = Append(@, Head(down[c]))]
  /\ down' = [down EXCEPT ![c] = Tail(@)]
  /\ UNCHANGED <<serverVars, backlog, made, open, written, up>>

(* emskin--send, a unit at a time.                                         *)
Write(c) ==
  /\ c \in open
  /\ Len(up[c]) < Cap
  /\ written[c] < 2 * MaxWrites
  /\ written' = [written EXCEPT ![c] = @ + 1]
  /\ LET m == written[c] \div 2 + 1 IN
       up' = [up EXCEPT ![c] = Append(@, IF written[c] % 2 = 0 THEN Header(m) ELSE Body(m))]
  /\ UNCHANGED <<serverVars, backlog, made, open, got, down>>

(* Emacs exits, or its side of the connection fails.                        *)
Close(c) ==
  /\ c \in open
  /\ open' = open \ {c}
  /\ UNCHANGED <<serverVars, backlog, made, got, written, down, up>>

Next ==
  \/ Accept \/ Send \/ RecvAll \/ Flush
  \/ Connect \/ \E c \in Conns : Read(c) \/ Write(c) \/ Close(c)

Spec == Init /\ [][Next]_vars

(* The event loop accepts, receives and flushes in every tick; Emacs runs    *)
(* its process filter.                                                     *)
FairSpec ==
  /\ Spec
  /\ WF_vars(Accept) /\ WF_vars(RecvAll) /\ WF_vars(Flush)
  /\ \A c \in Conns : WF_vars(Read(c))

-----------------------------------------------------------------------------
(* Properties *)

(* All that was ever sent on a connection, read or not.                     *)
Stream(c) == got[c] \o down[c] \o (IF conn = c THEN writeBuf ELSE << >>)

(* No message reaches two connections, or waits while it is already on one:  *)
(* an Emacs that connects again gets only what is newer.                    *)
EachMessageOnce ==
  \A c \in Conns : \A u \in Range(Stream(c)) :
    /\ \A m \in Range(pending) : u.msg < m
    /\ \A d \in c + 1 .. MaxConns : \A v \in Range(Stream(d)) : v.msg > 0 => u.msg < v.msg

(* Emacs can parse what it gets: on every connection the handshake comes     *)
(* first, then whole frames, numbered without a gap, wherever writes and    *)
(* reads stopped; a live connection is behind nothing that was sent, and no  *)
(* message is on two of them.                                               *)
StreamsInOrder ==
  /\ EachMessageOnce
  /\ \A c \in Conns : LET s == Stream(c) IN
       /\ \A i \in DOMAIN s :
            /\ s[i].part = IF i % 2 = 1 THEN "head" ELSE "body"
            /\ i <= 2 => s[i].msg = 0
            /\ i % 2 = 0 => s[i].msg = s[i - 1].msg
            /\ i % 2 = 1 /\ i > 3 => s[i].msg = s[i - 1].msg + 1
       /\ conn = c /\ Len(s) > 2 => s[Len(s)] = Body(sent)

(* Commands run once and in the order Emacs wrote them, and none of an old   *)
(* connection runs after one of its successor.                              *)
CommandsInOrder ==
  \A i \in DOMAIN handled : LET c == handled[i][1] IN
    /\ 2 * handled[i][2] <= written[c]
    /\ handled[i][2] \notin Oversized
    /\ IF i > 1 /\ handled[i - 1][1] = c
       THEN handled[i][2] = handled[i - 1][2] + 1
       ELSE handled[i][2] = 1 /\ \A j \in 1 .. i - 1 : handled[j][1] < c

(* What waited for Emacs reaches the Emacs that connects next, if that one   *)
(* keeps its connection.                                                   *)
PendingArrives ==
  \A m \in 1 .. MaxSends, c \in Conns :
    m \in Range(pending) /\ backlog # << >> /\ Head(backlog) = c
      ~> \/ Body(m) \in Range(got[c])
         \/ c \notin open
         \/ conn # c /\ m \notin Range(pending)

(* What Emacs wrote on the live connection runs, unless that ends.           *)
CommandsRun ==
  \A c \in Conns, m \in (1 .. MaxWrites) \ Oversized :
    conn = c /\ written[c] >= 2 * m
      ~> <<c, m>> \in Range(handled) \/ conn # c

-----------------------------------------------------------------------------
(* What a comment of the source says, and the code does not do: no run       *)
(* checks this.  ipc/mod.rs:85 "all complete incoming messages": those that  *)
(* recv_all has read are returned, also in front of the end of the stream.   *)
ReceivedIsDispatched ==
  [][\A c \in Conns :
       conn = c /\ up[c] # << >> /\ up'[c] = << >>
         => \A u \in Range(Whole(readBuf \o up[c])) :
              u.msg \notin Oversized => <<c, u.msg>> \in Range(handled')]_vars

=============================================================================
