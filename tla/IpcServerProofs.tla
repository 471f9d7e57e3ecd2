-------------------------- MODULE IpcServerProofs --------------------------
(* The socket between the compositor and Emacs, for any numbers of          *)
(* connections and messages, any socket buffers and any messages that are   *)
(* too large: both directions stay framed and in order.  Neither property   *)
(* is inductive: they need which connection is the live one, what waits and *)
(* where in a frame each end of a connection is.                            *)
EXTENDS IpcServer, SequenceTheorems, TLAPS

Typed ==
  /\ conn \in Conns \cup {None}
  /\ pending \in Seq(Nat) /\ handled \in Seq(Conns \X Nat)
  /\ readBuf \in Seq(Unit) /\ writeBuf \in Seq(Unit)
  /\ conn = None => readBuf = << >> /\ writeBuf = << >>
  /\ sent \in 0 .. MaxSends /\ made \in 0 .. MaxConns
  /\ backlog \in Seq(Conns) /\ open \subseteq 1 .. made
  /\ down \in [Conns -> Seq(Unit)] /\ up \in [Conns -> Seq(Unit)]
  /\ got \in [Conns -> Seq(Unit)]
  /\ \A c \in Conns : Len(down[c]) <= Cap /\ Len(up[c]) <= Cap
  /\ written \in [Conns -> 0 .. 2 * MaxWrites]

-----------------------------------------------------------------------------
(* Sequences and frames *)

LEMMA Parity ==
  ASSUME NEW i \in Nat
  PROVE  /\ i % 2 = 0 \/ i % 2 = 1
         /\ i % 2 = 0 => (i = 0 \/ i > 1) /\ (i + 1) % 2 = 1 /\ (i + 2) % 2 = 0
         /\ i % 2 = 1 => (i + 1) % 2 = 0
OBVIOUS

LEMMA Joined ==
  ASSUME NEW S, NEW s \in Seq(S), NEW t \in Seq(S), NEW r, r = s \o t
  PROVE  /\ r \in Seq(S) /\ Len(r) = Len(s) + Len(t)
         /\ \A i \in 1 .. Len(s) : r[i] = s[i]
         /\ \A i \in 1 .. Len(t) : r[Len(s) + i] = t[i]
<1>1. Len(s) \in Nat /\ Len(t) \in Nat OBVIOUS
<1>2. ASSUME NEW i \in 1 .. Len(t) PROVE r[Len(s) + i] = t[i]
  <2>1. /\ Len(s) + i \in 1 .. Len(s) + Len(t) /\ ~(Len(s) + i <= Len(s))
        /\ (Len(s) + i) - Len(s) = i
    BY <1>1
  <2> QED BY <2>1, ConcatProperties
<1>3. ASSUME NEW i \in 1 .. Len(s) PROVE r[i] = s[i]
  BY <1>1, ConcatProperties
<1> QED BY <1>2, <1>3, ConcatProperties

LEMMA Units ==
  /\ \A m \in Nat : /\ Header(m) \in Unit /\ Header(m).msg = m /\ Header(m).part = "head"
                    /\ Body(m) \in Unit /\ Body(m).msg = m /\ Body(m).part = "body"
                    /\ Frame(m) \in Seq(Unit) /\ Len(Frame(m)) = 2
                    /\ Frame(m)[1] = Header(m) /\ Frame(m)[2] = Body(m)
  /\ << >> \in Seq(Unit)
BY DEF Header, Body, Unit, Frame

LEMMA FramesTyped ==
  ASSUME NEW ms \in Seq(Nat)
  PROVE  /\ Frames(ms) \in Seq(Unit) /\ Len(Frames(ms)) = 2 * Len(ms)
         /\ \A k \in 1 .. Len(ms) :
              Frames(ms)[2 * k - 1] = Header(ms[k]) /\ Frames(ms)[2 * k] = Body(ms[k])
<1> DEFINE n == 2 * Len(ms)
           u(i) == IF i % 2 = 1 THEN Header(ms[i \div 2 + 1]) ELSE Body(ms[i \div 2])
<1>1. Frames(ms) = [i \in 1 .. n |-> u(i)] BY DEF Frames
<1>2. \A k \in 1 .. Len(ms) : ms[k] \in Nat OBVIOUS
<1>3. ASSUME NEW i \in 1 .. n PROVE u(i) \in Unit
  <2>1. CASE i % 2 = 1
    <3>1. i \div 2 + 1 \in 1 .. Len(ms) BY <2>1
    <3> QED BY <1>2, <2>1, <3>1, Units
  <2>2. CASE i % 2 # 1
    <3>1. i \div 2 \in 1 .. Len(ms) BY <2>2
    <3> QED BY <1>2, <2>2, <3>1, Units
  <2> QED BY <2>1, <2>2
<1>4. n \in Nat OBVIOUS
<1>5. ASSUME NEW k \in 1 .. Len(ms) PROVE u(2 * k - 1) = Header(ms[k]) /\ u(2 * k) = Body(ms[k])
  <2>1. /\ (2 * k - 1) % 2 = 1 /\ (2 * k - 1) \div 2 + 1 = k
        /\ (2 * k) % 2 = 0 /\ (2 * k) \div 2 = k
    OBVIOUS
  <2> QED BY <2>1
<1>6. \A k \in 1 .. Len(ms) : 2 * k - 1 \in 1 .. n /\ 2 * k \in 1 .. n OBVIOUS
<1> HIDE DEF u, n
<1>7. Frames(ms) \in Seq(Unit) /\ Len(Frames(ms)) = n BY <1>1, <1>3, <1>4
<1> QED BY <1>1, <1>5, <1>6, <1>7 DEF n

(* What Emacs reads: the handshake, then whole frames without a gap.        *)
Framed(s) ==
  \A i \in DOMAIN s :
    /\ s[i].part = IF i % 2 = 1 THEN "head" ELSE "body"
    /\ i <= 2 => s[i].msg = 0
    /\ i % 2 = 0 => s[i].msg = s[i - 1].msg
    /\ i % 2 = 1 /\ i > 3 => s[i].msg = s[i - 1].msg + 1

(* It ends in a whole frame, and is behind nothing that was sent.           *)
Complete(s, last) ==
  Len(s) >= 2 /\ Len(s) % 2 = 0 /\ (Len(s) > 2 => s[Len(s)] = Body(last))

(* A new connection gets what waited: the messages after number base.       *)
LEMMA GreetingFramed ==
  ASSUME pending \in Seq(Nat), NEW base \in Nat,
         \A k \in DOMAIN pending : pending[k] = base + k
  PROVE  /\ Greeting \in Seq(Unit) /\ Framed(Greeting)
         /\ Complete(Greeting, base + Len(pending))
         /\ \A i \in DOMAIN Greeting :
              /\ Greeting[i].msg <= base + Len(pending)
              /\ Greeting[i].msg > 0 => Greeting[i].msg > base
<1> DEFINE s == Greeting
           n == Len(pending)
<1>1. /\ s \in Seq(Unit) /\ Len(s) = 2 + 2 * n /\ s[1] = Header(0) /\ s[2] = Body(0)
      /\ \A k \in 1 .. n : s[2 * k + 1] = Header(base + k) /\ s[2 * k + 2] = Body(base + k)
  <2> DEFINE f == Frame(0)
             g == Frames(pending)
  <2>1. f \in Seq(Unit) /\ Len(f) = 2 /\ f[1] = Header(0) /\ f[2] = Body(0) BY Units
  <2>2. /\ g \in Seq(Unit) /\ Len(g) = 2 * n
        /\ \A k \in 1 .. n : g[2 * k - 1] = Header(pending[k]) /\ g[2 * k] = Body(pending[k])
    BY FramesTyped
  <2>3. s = f \o g BY DEF Greeting
  <2> HIDE DEF f, g, s
  <2>4. /\ s \in Seq(Unit) /\ Len(s) = 2 + 2 * n
        /\ \A i \in 1 .. 2 : s[i] = f[i]
        /\ \A i \in 1 .. 2 * n : s[2 + i] = g[i]
    <3>1. f \in Seq(Unit) /\ g \in Seq(Unit) BY <2>1, <2>2
    <3>2. /\ s \in Seq(Unit) /\ Len(s) = Len(f) + Len(g)
          /\ \A i \in 1 .. Len(f) : s[i] = f[i]
          /\ \A i \in 1 .. Len(g) : s[Len(f) + i] = g[i]
      BY <2>3, <3>1, Joined
    <3>3. Len(f) = 2 /\ Len(g) = 2 * n BY <2>1, <2>2
    <3> HIDE DEF n
    <3> QED BY <3>2, <3>3
  <2>5. ASSUME NEW k \in 1 .. n
        PROVE  s[2 * k + 1] = Header(base + k) /\ s[2 * k + 2] = Body(base + k)
    <3>1. pending[k] = base + k OBVIOUS
    <3>2. /\ 2 * k - 1 \in 1 .. 2 * n /\ 2 * k \in 1 .. 2 * n
          /\ 2 + (2 * k - 1) = 2 * k + 1 /\ 2 + 2 * k = 2 * k + 2
      OBVIOUS
    <3>3. s[2 + (2 * k - 1)] = g[2 * k - 1] /\ s[2 + 2 * k] = g[2 * k] BY <2>4, <3>2
    <3> QED BY <2>2, <3>1, <3>2, <3>3
  <2>6. s[1] = f[1] /\ s[2] = f[2] BY <2>4
  <2> QED BY <2>1, <2>4, <2>5, <2>6
<1> HIDE DEF s
<1>2. n \in Nat /\ DOMAIN s = 1 .. (2 + 2 * n) BY <1>1
<1> HIDE DEF n
<1>3. ASSUME NEW k \in 1 .. n
      PROVE  /\ s[2 * k + 1].msg = base + k /\ s[2 * k + 1].part = "head"
             /\ s[2 * k + 2].msg = base + k /\ s[2 * k + 2].part = "body"
  <2>1. base + k \in Nat BY <1>2
  <2> QED BY <1>1, <2>1, Units
<1>4. s[1].msg = 0 /\ s[1].part = "head" /\ s[2].msg = 0 /\ s[2].part = "body"
  BY <1>1, Units
<1>5. ASSUME NEW i \in DOMAIN s
      PROVE  i \in {1, 2} \/ \E k \in 1 .. n : i = 2 * k + 1 \/ i = 2 * k + 2
  <2>1. CASE i > 2 /\ i % 2 = 1
    <3>1. i \div 2 \in 1 .. n /\ i = 2 * (i \div 2) + 1 BY <1>2, <2>1
    <3> QED BY <3>1
  <2>2. CASE i > 2 /\ i % 2 = 0
    <3>1. i \div 2 - 1 \in 1 .. n /\ i = 2 * (i \div 2 - 1) + 2 BY <1>2, <2>2
    <3> QED BY <3>1
  <2> QED BY <1>2, <2>1, <2>2
<1>6. Framed(s)
  <2> SUFFICES ASSUME NEW i \in DOMAIN s
               PROVE  /\ s[i].part = IF i % 2 = 1 THEN "head" ELSE "body"
                      /\ i <= 2 => s[i].msg = 0
                      /\ i % 2 = 0 => s[i].msg = s[i - 1].msg
                      /\ i % 2 = 1 /\ i > 3 => s[i].msg = s[i - 1].msg + 1
    BY DEF Framed
  <2>1. CASE i \in {1, 2} BY <1>4, <2>1
  <2>2. ASSUME NEW k \in 1 .. n, i = 2 * k + 1
        PROVE  /\ s[i].part = "head" /\ i % 2 = 1 /\ i > 2
               /\ i > 3 => s[i].msg = s[i - 1].msg + 1
    <3>1. i % 2 = 1 /\ i > 2 BY <1>2, <2>2
    <3>2. s[i].part = "head" /\ s[i].msg = base + k BY <1>3, <2>2
    <3>3. ASSUME i > 3 PROVE s[i - 1].msg = base + (k - 1)
      <4>1. k - 1 \in 1 .. n /\ i - 1 = 2 * (k - 1) + 2 BY <1>2, <2>2, <3>3
      <4> QED BY <1>3, <4>1
    <3> QED BY <1>2, <3>1, <3>2, <3>3
  <2>3. ASSUME NEW k \in 1 .. n, i = 2 * k + 2
        PROVE  s[i].part = "body" /\ i % 2 = 0 /\ i > 2 /\ s[i].msg = s[i - 1].msg
    <3>1. i % 2 = 0 /\ i > 2 /\ i - 1 = 2 * k + 1 BY <1>2, <2>3
    <3> QED BY <1>3, <2>3, <3>1
  <2>4. i \in Nat BY <1>2
  <2>5. CASE \E k \in 1 .. n : i = 2 * k + 1 BY <2>2, <2>4, <2>5
  <2>6. CASE \E k \in 1 .. n : i = 2 * k + 2 BY <2>3, <2>4, <2>6
  <2> QED BY <1>5, <2>1, <2>5, <2>6
<1>7. Complete(s, base + n)
  <2>1. Len(s) = 2 + 2 * n /\ (2 + 2 * n) % 2 = 0 BY <1>1, <1>2 DEF n
  <2>2. ASSUME Len(s) > 2 PROVE s[Len(s)] = Body(base + n)
    <3>1. n \in 1 .. n BY <1>2, <2>1, <2>2
    <3>2. s[2 * n + 2] = Body(base + n) BY <1>1, <3>1 DEF n
    <3> QED BY <1>2, <2>1, <3>2
  <2> QED BY <1>2, <2>1, <2>2 DEF Complete
<1>8. \A i \in DOMAIN s : s[i].msg <= base + n /\ (s[i].msg > 0 => s[i].msg > base)
  <2> SUFFICES ASSUME NEW i \in DOMAIN s
               PROVE  s[i].msg <= base + n /\ (s[i].msg > 0 => s[i].msg > base)
    OBVIOUS
  <2>1. CASE i \in {1, 2} BY <1>2, <1>4, <2>1
  <2>2. ASSUME NEW k \in 1 .. n, i = 2 * k + 1 \/ i = 2 * k + 2
        PROVE  s[i].msg = base + k
    BY <1>3, <2>2
  <2>3. ASSUME NEW k \in 1 .. n, s[i].msg = base + k
        PROVE  s[i].msg <= base + n /\ s[i].msg > base
    BY <1>2, <2>3
  <2> QED BY <1>5, <2>1, <2>2, <2>3
<1> QED BY <1>1, <1>6, <1>7, <1>8 DEF s, n

(* The next message follows a complete stream.                              *)
LEMMA FrameAdded ==
  ASSUME NEW s \in Seq(Unit), NEW m \in Nat, Framed(s), Complete(s, m),
         NEW t, t = s \o Frame(m + 1)
  PROVE  /\ t \in Seq(Unit) /\ Framed(t) /\ Complete(t, m + 1)
         /\ \A i \in DOMAIN t : (i \in DOMAIN s /\ t[i] = s[i]) \/ t[i].msg = m + 1
<1> DEFINE n == Len(s)
<1>1. /\ t \in Seq(Unit) /\ Len(t) = n + 2 /\ n \in Nat
      /\ \A i \in 1 .. n : t[i] = s[i]
      /\ t[n + 1] = Header(m + 1) /\ t[n + 2] = Body(m + 1)
  <2>1. /\ Frame(m + 1) \in Seq(Unit) /\ Len(Frame(m + 1)) = 2
        /\ Frame(m + 1)[1] = Header(m + 1) /\ Frame(m + 1)[2] = Body(m + 1)
    BY Units
  <2> DEFINE f == Frame(m + 1)
  <2> HIDE DEF f
  <2>2. /\ t \in Seq(Unit) /\ Len(t) = Len(s) + Len(f)
        /\ \A i \in 1 .. Len(s) : t[i] = s[i]
        /\ \A i \in 1 .. Len(f) : t[Len(s) + i] = f[i]
    BY <2>1, Joined DEF f
  <2>3. t[n + 1] = f[1] /\ t[n + 2] = f[2] BY <2>1, <2>2 DEF f
  <2> QED BY <2>1, <2>2, <2>3 DEF f
<1>2. n >= 2 /\ n % 2 = 0 /\ (n > 2 => s[n].msg = m) /\ DOMAIN s = 1 .. n
  BY Units DEF Complete
<1>3. /\ t[n + 1].msg = m + 1 /\ t[n + 1].part = "head"
      /\ t[n + 2].msg = m + 1 /\ t[n + 2].part = "body"
  <2>1. m + 1 \in Nat OBVIOUS
  <2>2. /\ Header(m + 1).msg = m + 1 /\ Header(m + 1).part = "head"
        /\ Body(m + 1).msg = m + 1 /\ Body(m + 1).part = "body"
    BY <2>1, Units
  <2> QED BY <1>1, <2>2
<1> HIDE DEF n
<1>0. n \in Nat BY <1>1
<1>4. DOMAIN t = 1 .. (n + 2) BY <1>1
<1>5. Framed(t)
  <2> SUFFICES ASSUME NEW i \in DOMAIN t
               PROVE  /\ t[i].part = IF i % 2 = 1 THEN "head" ELSE "body"
                      /\ i <= 2 => t[i].msg = 0
                      /\ i % 2 = 0 => t[i].msg = t[i - 1].msg
                      /\ i % 2 = 1 /\ i > 3 => t[i].msg = t[i - 1].msg + 1
    BY DEF Framed
  <2>1. CASE i \in 1 .. n
    <3>0. i \in Nat /\ i # 0 BY <1>1, <2>1
    <3>1. ASSUME i > 1 PROVE t[i - 1] = s[i - 1]
      <4>1. i - 1 \in 1 .. n BY <1>1, <2>1, <3>1
      <4> QED BY <1>1, <4>1
    <3>2. t[i] = s[i] /\ i \in DOMAIN s BY <1>1, <1>2, <2>1
    <3>3. i % 2 = 0 => i > 1 BY <3>0, Parity, Zenon
    <3> QED BY <3>0, <3>1, <3>2, <3>3 DEF Framed
  <2>2. CASE i = n + 1
    <3>1. i % 2 = 1 /\ i > 2 /\ i - 1 = n BY <1>0, <1>2, <2>2, Parity
    <3>2. i > 3 => t[i - 1].msg = m BY <1>1, <1>2, <2>2, <3>1
    <3> QED BY <1>1, <1>2, <1>3, <2>2, <3>1, <3>2
  <2>3. CASE i = n + 2
    <3>1. i % 2 = 0 /\ i > 2 /\ i - 1 = n + 1 BY <1>0, <1>2, <2>3, Parity
    <3> QED BY <1>3, <2>3, <3>1
  <2>4. i \in 1 .. n \/ i = n + 1 \/ i = n + 2 BY <1>0, <1>4
  <2> QED BY <2>1, <2>2, <2>3, <2>4
<1>6. Complete(t, m + 1)
  <2>1. (n + 2) % 2 = 0 /\ n + 2 >= 2 BY <1>0, <1>2, Parity
  <2> QED BY <1>1, <2>1 DEF Complete
<1> QED BY <1>1, <1>2, <1>3, <1>4, <1>5, <1>6

(* A unit that is read goes from the socket to its reader.                  *)
LEMMA Moved ==
  ASSUME NEW g \in Seq(Unit), NEW d \in Seq(Unit), d # << >>
  PROVE  Append(g, Head(d)) \o Tail(d) = g \o d
OBVIOUS

(* The front of a framed stream is framed.                                  *)
Front(t, s) == Len(t) <= Len(s) /\ \A i \in 1 .. Len(t) : t[i] = s[i]

LEMMA FrontFramed ==
  ASSUME NEW s \in Seq(Unit), NEW t \in Seq(Unit), Framed(s), Front(t, s)
  PROVE  Framed(t)
<1> SUFFICES ASSUME NEW i \in DOMAIN t
             PROVE  /\ t[i].part = IF i % 2 = 1 THEN "head" ELSE "body"
                    /\ i <= 2 => t[i].msg = 0
                    /\ i % 2 = 0 => t[i].msg = t[i - 1].msg
                    /\ i % 2 = 1 /\ i > 3 => t[i].msg = t[i - 1].msg + 1
  BY DEF Framed
<1>1. i \in Nat /\ i >= 1 /\ i <= Len(t) /\ Len(t) \in Nat /\ Len(s) \in Nat OBVIOUS
<1>2. i \in DOMAIN s /\ t[i] = s[i] BY <1>1 DEF Front
<1>3. i > 1 => t[i - 1] = s[i - 1] BY <1>1 DEF Front
<1>4. i % 2 = 0 => i > 1 BY <1>1, Parity
<1> QED BY <1>1, <1>2, <1>3, <1>4 DEF Framed

(* try_flush moves the front of the buffer to the socket.                   *)
LEMMA Flushed ==
  ASSUME Typed, NEW c \in Conns, NEW buf \in Seq(Unit), FlushTo(c, buf)
  PROVE  /\ down' \in [Conns -> Seq(Unit)] /\ \A d \in Conns : Len(down'[d]) <= Cap
         /\ writeBuf' \in Seq(Unit)
         /\ \A d \in Conns \ {c} : down'[d] = down[d]
         /\ \A g \in Seq(Unit) : g \o down'[c] \o writeBuf' = g \o down[c] \o buf
<1> DEFINE room == Cap - Len(down[c])
           n == IF c \notin open THEN 0 ELSE IF Len(buf) < room THEN Len(buf) ELSE room
           front == SubSeq(buf, 1, n)
           rest == SubSeq(buf, n + 1, Len(buf))
<1>1. down[c] \in Seq(Unit) /\ Len(down[c]) \in Nat /\ Len(down[c]) <= Cap BY DEF Typed
<1>2. n \in 0 .. Len(buf) /\ n <= room
  <2>1. Len(buf) \in Nat /\ room \in Nat BY <1>1, IpcAssumption
  <2> HIDE DEF room
  <2> QED BY <2>1
<1>3. down' = [down EXCEPT ![c] = down[c] \o front] /\ writeBuf' = rest BY DEF FlushTo
<1> HIDE DEF n
<1>4. front \in Seq(Unit) /\ Len(front) = n /\ rest \in Seq(Unit)
  BY <1>2, SubSeqProperties
<1>5. front \o rest = buf
  <2>1. SubSeq(buf, 1, n) \o SubSeq(buf, n + 1, Len(buf)) = SubSeq(buf, 1, Len(buf))
    <3>1. /\ 1 \in 1 .. Len(buf) + 1 /\ n \in 1 - 1 .. Len(buf)
          /\ Len(buf) \in n .. Len(buf)
      BY <1>2
    <3> QED BY <3>1, ConcatAdjacentSubSeq
  <2> QED BY <2>1, SubSeqFull
<1> HIDE DEF front, rest
<1> DEFINE x == down[c] \o front
<1>6. x \in Seq(Unit) /\ Len(x) <= Cap
  <2>1. x \in Seq(Unit) /\ Len(x) = Len(down[c]) + Len(front) BY <1>1, <1>4, ConcatProperties
  <2> QED BY <1>1, <1>2, <1>4, <2>1, IpcAssumption
<1>7. down'[c] = x /\ \A d \in Conns \ {c} : down'[d] = down[d] BY <1>3 DEF Typed
<1>0. \A r, s, t \in Seq(Unit) : (r \o s) \o t = r \o (s \o t)
  BY ConcatAssociative
<1>8. ASSUME NEW g \in Seq(Unit) PROVE g \o x \o rest = g \o down[c] \o buf
  <2>1. x \o rest = down[c] \o (front \o rest) BY <1>0, <1>1, <1>4
  <2> HIDE DEF x
  <2>2. (g \o x) \o rest = g \o (x \o rest) BY <1>0, <1>4, <1>6
  <2>3. (g \o down[c]) \o buf = g \o (down[c] \o buf) BY <1>0, <1>1
  <2> QED BY <1>5, <2>1, <2>2, <2>3
<1> HIDE DEF x
<1>9. down' \in [Conns -> Seq(Unit)] /\ \A d \in Conns : Len(down'[d]) <= Cap
  BY <1>3, <1>6, <1>7 DEF Typed, x
<1> QED BY <1>3, <1>4, <1>7, <1>8, <1>9

-----------------------------------------------------------------------------
(* Types *)

LEMMA GreetingTyped == ASSUME pending \in Seq(Nat) PROVE Greeting \in Seq(Unit)
<1>1. Frame(0) \in Seq(Unit) /\ Frames(pending) \in Seq(Unit) BY Units, FramesTyped
<1> QED BY <1>1, ConcatProperties DEF Greeting

(* What is whole of what was read, and what stays.                          *)
LEMMA Parsed ==
  ASSUME NEW buf \in Seq(Unit)
  PROVE  /\ Len(buf) \div 2 \in Nat /\ DOMAIN Whole(buf) = 1 .. (Len(buf) \div 2)
         /\ \A i \in 1 .. (Len(buf) \div 2) :
              Whole(buf)[i] = buf[2 * i] /\ 2 * i \in 1 .. Len(buf) /\ buf[2 * i] \in Unit
         /\ RestOf(buf) \in Seq(Unit)
         /\ Len(RestOf(buf)) = Len(buf) % 2
         /\ Len(buf) % 2 = 1 => RestOf(buf)[1] = buf[Len(buf)]
         /\ Len(buf) = 2 * (Len(buf) \div 2) + (Len(buf) % 2)
<1> DEFINE n == Len(buf)
<1>1. n \in Nat /\ n \div 2 \in Nat /\ n = 2 * (n \div 2) + (n % 2) /\ n % 2 \in {0, 1}
  <2>1. n \in Nat OBVIOUS
  <2> HIDE DEF n
  <2> QED BY <2>1
<1>2. DOMAIN Whole(buf) = 1 .. (n \div 2) /\ \A i \in 1 .. (n \div 2) : Whole(buf)[i] = buf[2 * i]
  BY DEF Whole
<1>3. ASSUME NEW i \in 1 .. (n \div 2) PROVE 2 * i \in 1 .. n /\ buf[2 * i] \in Unit
  <2>1. 2 * i \in 1 .. n BY <1>1
  <2> QED BY <2>1
<1>4. CASE n % 2 = 0
  <2>1. RestOf(buf) = << >> BY <1>4 DEF RestOf
  <2> QED BY <1>1, <1>2, <1>3, <1>4, <2>1
<1>5. CASE n % 2 = 1
  <2>1. RestOf(buf) = <<buf[n]>> BY <1>5 DEF RestOf
  <2>2. n \in 1 .. n BY <1>1, <1>5
  <2>3. buf[n] \in Unit BY <2>2
  <2>4. /\ <<buf[n]>> \in Seq(Unit) /\ Len(<<buf[n]>>) = 1 /\ <<buf[n]>>[1] = buf[n]
    BY <2>3
  <2> QED BY <1>1, <1>2, <1>3, <1>5, <2>1, <2>4
<1> QED BY <1>1, <1>4, <1>5

LEMMA AcceptTyped == ASSUME Typed, Accept PROVE Typed'
<1>1. /\ pending \in Seq(Nat) /\ backlog \in Seq(Conns) /\ backlog # << >>
      /\ Head(backlog) \in Conns /\ Tail(backlog) \in Seq(Conns)
  BY DEF Typed, Accept
<1>2. Greeting \in Seq(Unit) BY <1>1, GreetingTyped
<1>3. /\ down' \in [Conns -> Seq(Unit)] /\ \A d \in Conns : Len(down'[d]) <= Cap
      /\ writeBuf' \in Seq(Unit)
  BY <1>1, <1>2, Flushed DEF Accept
<1>4. Head(backlog) # None /\ << >> \in Seq(Nat) /\ << >> \in Seq(Unit)
  BY <1>1, IpcAssumption DEF Conns
<1>5. /\ conn' = Head(backlog) /\ backlog' = Tail(backlog) /\ readBuf' = << >> /\ pending' = << >>
      /\ UNCHANGED <<sent, handled, made, open, got, written, up>>
  BY DEF Accept, AfterGreeting, emacsVars
<1> QED BY <1>1, <1>3, <1>4, <1>5 DEF Typed

LEMMA SendTyped == ASSUME Typed, Send PROVE Typed'
<1>1. /\ UNCHANGED <<handled, backlog, made, open, got, written, up>>
      /\ sent' = sent + 1 /\ sent' \in 0 .. MaxSends
  BY IpcAssumption DEF Send, emacsVars, Typed
<1>2. CASE conn = None
  <2>1. Append(pending, sent + 1) \in Seq(Nat) BY DEF Typed
  <2>2. /\ pending' = Append(pending, sent + 1)
        /\ UNCHANGED <<conn, readBuf, writeBuf, down>>
    BY <1>2 DEF Send
  <2> QED BY <1>1, <2>1, <2>2 DEF Typed
<1>3. CASE conn # None /\ DropConnection /\ UNCHANGED <<down, pending>>
  BY <1>1, <1>3, Units DEF Typed, DropConnection
<1>4. CASE /\ conn # None /\ FlushTo(conn, writeBuf \o Frame(sent + 1))
           /\ UNCHANGED <<conn, readBuf, pending>>
  <2>1. conn \in Conns /\ writeBuf \in Seq(Unit) /\ sent + 1 \in Nat BY <1>4 DEF Typed
  <2>2. Frame(sent + 1) \in Seq(Unit) BY <2>1, Units
  <2>3. writeBuf \o Frame(sent + 1) \in Seq(Unit) BY <2>1, <2>2, ConcatProperties
  <2>4. /\ down' \in [Conns -> Seq(Unit)] /\ \A d \in Conns : Len(down'[d]) <= Cap
        /\ writeBuf' \in Seq(Unit)
    BY <1>4, <2>1, <2>3, Flushed
  <2> QED BY <1>1, <1>4, <2>4 DEF Typed
<1> QED BY <1>2, <1>3, <1>4 DEF Send

LEMMA RecvAllTyped == ASSUME Typed, RecvAll PROVE Typed'
<1> DEFINE buf == readBuf \o up[conn]
           new == Whole(buf)
           ran == [i \in DOMAIN new |-> <<conn, new[i].msg>>]
<1>1. /\ conn \in Conns /\ readBuf \in Seq(Unit) /\ up[conn] \in Seq(Unit)
      /\ UNCHANGED <<pending, sent, backlog, made, open, got, written, down>>
      /\ up' = [up EXCEPT ![conn] = << >>]
  BY DEF RecvAll, Typed, emacsVars
<1>2. up' \in [Conns -> Seq(Unit)] /\ \A c \in Conns : Len(up'[c]) <= Cap
  BY <1>1, IpcAssumption DEF Typed
<1>3. CASE DropConnection /\ UNCHANGED handled
  BY <1>1, <1>2, <1>3, Units DEF Typed, DropConnection
<1>4. CASE /\ readBuf' = RestOf(buf) /\ handled' = handled \o ran
           /\ UNCHANGED <<conn, writeBuf>>
  <2>1. buf \in Seq(Unit) BY <1>1, ConcatProperties
  <2> HIDE DEF buf
  <2>2. /\ Len(buf) \div 2 \in Nat /\ DOMAIN new = 1 .. (Len(buf) \div 2)
        /\ \A i \in 1 .. (Len(buf) \div 2) : new[i] \in Unit
        /\ RestOf(buf) \in Seq(Unit)
    BY <2>1, Parsed
  <2>3. ran \in Seq(Conns \X Nat)
    <3> DEFINE m == Len(buf) \div 2
    <3>1. \A i \in 1 .. m : new[i].msg \in Nat BY <2>2 DEF Unit
    <3>2. ran = [i \in 1 .. m |-> <<conn, new[i].msg>>] BY <2>2
    <3>3. m \in Nat BY <2>2
    <3> HIDE DEF new, m
    <3> QED BY <1>1, <3>1, <3>2, <3>3
  <2>4. handled' \in Seq(Conns \X Nat)
    <3> HIDE DEF ran
    <3>1. handled \in Seq(Conns \X Nat) BY DEF Typed
    <3> QED BY <1>4, <2>3, <3>1, ConcatProperties
  <2> QED BY <1>1, <1>2, <1>4, <2>2, <2>4, IpcAssumption DEF Typed, Conns
<1> QED BY <1>3, <1>4 DEF RecvAll

LEMMA OthersTyped ==
  ASSUME Typed,
         \/ Flush \/ Connect \/ UNCHANGED vars
         \/ \E c \in Conns : Read(c) \/ Write(c) \/ Close(c)
  PROVE  Typed'
<1>1. CASE Flush
  <2>1. conn \in Conns /\ writeBuf \in Seq(Unit) BY <1>1 DEF Flush, Typed
  <2>2. UNCHANGED <<pending, sent, handled, backlog, made, open, got, written, up>>
    BY <1>1 DEF Flush, emacsVars
  <2>3. CASE DropConnection /\ UNCHANGED down BY <2>2, <2>3, Units DEF Typed, DropConnection
  <2>4. CASE FlushTo(conn, writeBuf) /\ UNCHANGED <<conn, readBuf>>
    <3>1. /\ down' \in [Conns -> Seq(Unit)] /\ \A d \in Conns : Len(down'[d]) <= Cap
          /\ writeBuf' \in Seq(Unit)
      BY <2>1, <2>4, Flushed
    <3> QED BY <2>1, <2>2, <2>4, <3>1, IpcAssumption DEF Typed, Conns
  <2> QED BY <1>1, <2>3, <2>4 DEF Flush
<1>2. CASE Connect
  <2>1. made + 1 \in Conns /\ made' \in 0 .. MaxConns /\ made' = made + 1
    BY <1>2, IpcAssumption DEF Connect, Typed, Conns
  <2>2. backlog' \in Seq(Conns) BY <1>2, <2>1 DEF Connect, Typed
  <2>3. open' \subseteq 1 .. made'
    <3>1. made \in Nat /\ open \subseteq 1 .. made BY DEF Typed
    <3>2. 1 .. made \subseteq 1 .. made + 1 /\ made + 1 \in 1 .. made + 1 BY <3>1
    <3> QED BY <1>2, <2>1, <3>1, <3>2 DEF Connect
  <2> QED BY <1>2, <2>1, <2>2, <2>3 DEF Connect, Typed, serverVars
<1>3. ASSUME NEW c \in Conns, Read(c) PROVE Typed'
  <2>1. /\ down[c] \in Seq(Unit) /\ down[c] # << >> /\ got[c] \in Seq(Unit)
        /\ Len(down[c]) <= Cap
    BY <1>3 DEF Read, Typed
  <2>2. /\ Append(got[c], Head(down[c])) \in Seq(Unit) /\ Tail(down[c]) \in Seq(Unit)
        /\ Len(Tail(down[c])) <= Cap
    BY <2>1, IpcAssumption
  <2> QED BY <1>3, <2>2 DEF Read, Typed, serverVars
<1>4. ASSUME NEW c \in Conns, Write(c) PROVE Typed'
  <2>1. /\ written[c] \in Nat /\ written[c] < 2 * MaxWrites
        /\ up[c] \in Seq(Unit) /\ Len(up[c]) < Cap
    BY <1>4, IpcAssumption DEF Write, Typed
  <2>2. written[c] + 1 \in 0 .. 2 * MaxWrites BY <2>1, IpcAssumption
  <2> DEFINE m == written[c] \div 2 + 1
             u == IF written[c] % 2 = 0 THEN Header(m) ELSE Body(m)
  <2>3. m \in Nat BY <2>1
  <2>4. u \in Unit BY <2>3, Units
  <2> HIDE DEF u
  <2>5. Append(up[c], u) \in Seq(Unit) /\ Len(Append(up[c], u)) <= Cap
    BY <2>1, <2>4, IpcAssumption
  <2>6. up' = [up EXCEPT ![c] = Append(up[c], u)] /\ written' = [written EXCEPT ![c] = written[c] + 1]
    BY <1>4 DEF Write, u
  <2> QED BY <1>4, <2>2, <2>5, <2>6 DEF Write, Typed, serverVars
<1>5. ASSUME NEW c \in Conns, Close(c) PROVE Typed'
  BY <1>5 DEF Close, Typed, serverVars
<1>6. CASE UNCHANGED vars
  BY <1>6 DEF vars, Typed, serverVars, emacsVars
<1> QED BY <1>1, <1>2, <1>3, <1>4, <1>5, <1>6

-----------------------------------------------------------------------------
(* Connections are accepted in the order they are made in, the live one is  *)
(* the last that was accepted, and before that nothing is sent or read.     *)
Accepted == made - Len(backlog)

Arrivals ==
  /\ Len(backlog) <= made
  /\ \A i \in DOMAIN backlog : backlog[i] = Accepted + i
  /\ conn # None => conn = Accepted
  /\ \A c \in Conns : c > Accepted =>
       got[c] = << >> /\ down[c] = << >> /\ Len(up[c]) = written[c]

LEMMA AcceptNext ==
  ASSUME Typed, Arrivals, Accept
  PROVE  /\ Accepted \in Nat /\ Accepted' = Accepted + 1 /\ conn' = Accepted + 1
         /\ Head(backlog) = Accepted + 1 /\ Accepted + 1 \in Conns /\ Len(backlog) >= 1
<1>1. /\ made \in Nat /\ backlog \in Seq(Conns) /\ backlog # << >> /\ made' = made
      /\ backlog' = Tail(backlog) /\ conn' = Head(backlog)
      /\ Len(backlog) <= made /\ \A i \in DOMAIN backlog : backlog[i] = Accepted + i
  BY DEF Typed, Accept, Arrivals, emacsVars
<1>2. Head(backlog) = backlog[1] /\ 1 \in DOMAIN backlog /\ backlog[1] \in Conns BY <1>1
<1>3. Len(backlog) \in Nat \ {0} /\ Len(Tail(backlog)) = Len(backlog) - 1 BY <1>1
<1> QED BY <1>1, <1>2, <1>3 DEF Accepted

LEMMA AcceptArrives ==
  ASSUME Typed, Arrivals, Accept
  PROVE  Arrivals'
<1>1. /\ Accepted \in Nat /\ Accepted' = Accepted + 1 /\ conn' = Accepted + 1
      /\ Head(backlog) = Accepted + 1 /\ Accepted + 1 \in Conns
  BY AcceptNext
<1>2. /\ made \in Nat /\ backlog \in Seq(Conns) /\ backlog # << >>
      /\ backlog' = Tail(backlog) /\ UNCHANGED <<made, got, up, written>>
      /\ Len(backlog) <= made /\ \A i \in DOMAIN backlog : backlog[i] = Accepted + i
  BY DEF Typed, Accept, Arrivals, emacsVars
<1>3. Len(backlog) \in Nat /\ Len(backlog') = Len(backlog) - 1 /\ Len(backlog') <= made'
  BY <1>2
<1>4. ASSUME NEW i \in DOMAIN backlog' PROVE backlog'[i] = Accepted' + i
  <2>1. i \in 1 .. (Len(backlog) - 1) /\ backlog'[i] = backlog[i + 1] BY <1>2, <1>4
  <2>2. i + 1 \in DOMAIN backlog BY <1>2, <2>1
  <2>3. backlog[i + 1] = Accepted + (i + 1) BY <1>2, <2>2
  <2> QED BY <1>1, <2>1, <2>3
<1>5. ASSUME NEW c \in Conns, c > Accepted'
      PROVE  got'[c] = << >> /\ down'[c] = << >> /\ Len(up'[c]) = written'[c]
  <2>1. c > Accepted /\ c # Head(backlog) BY <1>1, <1>5 DEF Conns
  <2>2. down'[c] = down[c] BY <2>1 DEF Accept, FlushTo, Typed
  <2> QED BY <1>2, <2>1, <2>2 DEF Arrivals
<1> QED BY <1>1, <1>3, <1>4, <1>5 DEF Arrivals

LEMMA OthersArrive ==
  ASSUME Typed, Arrivals,
         \/ Send \/ RecvAll \/ Flush \/ Connect \/ UNCHANGED vars
         \/ \E c \in Conns : Read(c) \/ Write(c) \/ Close(c)
  PROVE  Arrivals'
<1>0. Accepted \in Nat /\ made \in Nat /\ Len(backlog) \in Nat /\ backlog \in Seq(Conns)
  BY DEF Accepted, Arrivals, Typed
<1>1. ASSUME NEW a, conn = a, Arrivals,
             UNCHANGED <<made, backlog, got, written>>, conn' \in {a, None},
             \A c \in Conns \ {a} : down'[c] = down[c] /\ up'[c] = up[c],
             a # None \/ UNCHANGED <<down, up>>
      PROVE  Arrivals'
  <2>1. \A c \in Conns : c > Accepted /\ a # None => c # a BY <1>0, <1>1 DEF Arrivals, Conns
  <2>2. \A c \in Conns : c > Accepted => down'[c] = down[c] /\ up'[c] = up[c]
    BY <1>1, <2>1
  <2>3. Accepted' = Accepted BY <1>1 DEF Accepted
  <2> QED BY <1>1, <2>2, <2>3 DEF Arrivals
<1>2. CASE Send \/ RecvAll \/ Flush
  <2>1. UNCHANGED <<made, backlog, got, written>> /\ conn' \in {conn, None}
    BY <1>2 DEF Send, RecvAll, Flush, DropConnection, emacsVars
  <2>2. \A c \in Conns \ {conn} : down'[c] = down[c] /\ up'[c] = up[c]
    BY <1>2 DEF Send, RecvAll, Flush, FlushTo, Typed
  <2>3. conn # None \/ UNCHANGED <<down, up>>
    BY <1>2 DEF Send, RecvAll, Flush
  <2> QED BY <1>1, <2>1, <2>2, <2>3
<1>3. CASE Connect
  <2>1. /\ backlog' = Append(backlog, made + 1) /\ made' = made + 1
        /\ UNCHANGED <<conn, got, down, up, written>>
    BY <1>3 DEF Connect, serverVars
  <2>2. Len(backlog') = Len(backlog) + 1 /\ Accepted' = Accepted BY <1>0, <2>1 DEF Accepted
  <2>3. ASSUME NEW i \in DOMAIN backlog' PROVE backlog'[i] = Accepted + i
    <3>1. i \in 1 .. Len(backlog) \/ i = Len(backlog) + 1 BY <1>0, <2>1
    <3>2. CASE i \in 1 .. Len(backlog)
      <4>1. backlog'[i] = backlog[i] /\ i \in DOMAIN backlog BY <1>0, <2>1, <3>2
      <4> QED BY <4>1 DEF Arrivals
    <3>3. CASE i = Len(backlog) + 1
      <4>1. backlog'[i] = made + 1 BY <1>0, <2>1, <3>3
      <4> QED BY <1>0, <3>3, <4>1 DEF Accepted
    <3> QED BY <3>1, <3>2, <3>3
  <2>4. Len(backlog') <= made' BY <1>0, <2>1, <2>2 DEF Arrivals
  <2> QED BY <2>1, <2>2, <2>3, <2>4 DEF Arrivals
<1>4. ASSUME NEW d \in Conns, Read(d) \/ Write(d) \/ Close(d) PROVE Arrivals'
  <2>1. UNCHANGED <<made, backlog, conn>> BY <1>4 DEF Read, Write, Close, serverVars
  <2>2. Accepted' = Accepted BY <2>1 DEF Accepted
  <2>3. ASSUME NEW c \in Conns, c > Accepted
        PROVE  got'[c] = << >> /\ down'[c] = << >> /\ Len(up'[c]) = written'[c]
    <3>1. got[c] = << >> /\ down[c] = << >> /\ Len(up[c]) = written[c] BY <2>3 DEF Arrivals
    <3>2. CASE Read(d)
      <4>1. c # d BY <3>1, <3>2 DEF Read
      <4> QED BY <3>1, <3>2, <4>1 DEF Read, Typed
    <3>3. CASE Write(d)
      <4>1. CASE c # d BY <3>1, <3>3, <4>1 DEF Write, Typed
      <4>2. CASE c = d
        <5> DEFINE u == IF written[d] % 2 = 0 THEN Header(written[d] \div 2 + 1)
                        ELSE Body(written[d] \div 2 + 1)
        <5>1. up'[d] = Append(up[d], u) /\ written'[d] = written[d] + 1 /\ UNCHANGED <<got, down>>
          BY <3>3 DEF Write, Typed
        <5> HIDE DEF u
        <5>2. up[d] \in Seq(Unit) BY DEF Typed
        <5>3. Len(up'[d]) = Len(up[d]) + 1 BY <5>1, <5>2
        <5> QED BY <3>1, <4>2, <5>1, <5>3
      <4> QED BY <4>1, <4>2
    <3>4. CASE Close(d) BY <3>1, <3>4 DEF Close
    <3> QED BY <1>4, <3>2, <3>3, <3>4
  <2> QED BY <2>1, <2>2, <2>3 DEF Arrivals
<1>5. CASE UNCHANGED vars
  BY <1>5 DEF vars, Arrivals, Accepted, serverVars, emacsVars
<1> QED BY <1>2, <1>3, <1>4, <1>5

-----------------------------------------------------------------------------
(* What waits is the last that was sent, and only while there is no         *)
(* connection.                                                              *)
Newest == sent - Len(pending)

Waiting ==
  /\ conn # None => pending = << >>
  /\ Len(pending) <= sent
  /\ \A k \in DOMAIN pending : pending[k] = Newest + k

LEMMA StepWaits ==
  ASSUME Typed, Waiting, [Next]_vars
  PROVE  Waiting'
<1>0. pending \in Seq(Nat) /\ sent \in Nat /\ Len(pending) \in Nat BY DEF Typed
<1>1. CASE Accept
  BY <1>0, <1>1 DEF Accept, AfterGreeting, Waiting, Newest
<1>2. CASE Send
  <2>1. CASE conn = None
    <3>1. /\ pending' = Append(pending, sent + 1) /\ sent' = sent + 1 /\ conn' = None
      BY <1>2, <2>1 DEF Send
    <3>2. Len(pending') = Len(pending) + 1 /\ Newest' = Newest BY <1>0, <3>1 DEF Newest
    <3>3. ASSUME NEW k \in DOMAIN pending' PROVE pending'[k] = Newest + k
      <4>1. k \in 1 .. Len(pending) \/ k = Len(pending) + 1 BY <1>0, <3>1
      <4>2. CASE k \in 1 .. Len(pending)
        <5>1. pending'[k] = pending[k] /\ k \in DOMAIN pending BY <1>0, <3>1, <4>2
        <5> QED BY <5>1 DEF Waiting
      <4>3. CASE k = Len(pending) + 1
        <5>1. pending'[k] = sent + 1 BY <1>0, <3>1, <4>3
        <5> QED BY <1>0, <4>3, <5>1 DEF Newest
      <4> QED BY <4>1, <4>2, <4>3
    <3>4. Len(pending') <= sent' BY <1>0, <3>1, <3>2 DEF Waiting
    <3> QED BY <3>1, <3>2, <3>3, <3>4 DEF Waiting
  <2>2. CASE conn # None
    <3>1. pending' = << >> /\ sent' = sent + 1 BY <1>2, <2>2 DEF Send, Waiting
    <3> QED BY <1>0, <3>1 DEF Waiting, Newest
  <2> QED BY <2>1, <2>2
<1>3. CASE \/ RecvAll \/ Flush \/ Connect \/ UNCHANGED vars
           \/ \E c \in Conns : Read(c) \/ Write(c) \/ Close(c)
  <2>1. UNCHANGED <<pending, sent>> /\ conn' \in {conn, None}
    BY <1>3 DEF RecvAll, Flush, Connect, Read, Write, Close, DropConnection, vars, serverVars
  <2> QED BY <2>1 DEF Waiting, Newest
<1> QED BY <1>1, <1>2, <1>3 DEF Next

-----------------------------------------------------------------------------
(* To Emacs.  Every stream is framed and older than what waits, a later     *)
(* connection's is newer than an earlier one's, and the live one's is       *)
(* complete.                                                                *)
Before(s, t) == \A i \in DOMAIN s, j \in DOMAIN t : t[j].msg > 0 => s[i].msg < t[j].msg

UpTo(s, last) == \A i \in DOMAIN s : s[i].msg <= last

Streams ==
  /\ \A c \in Conns : Framed(Stream(c)) /\ UpTo(Stream(c), Newest)
  /\ \A c, d \in Conns : c < d => Before(Stream(c), Stream(d))
  /\ conn # None => Complete(Stream(conn), sent)

LEMMA StreamTyped ==
  ASSUME Typed
  PROVE  \A c \in Conns : Stream(c) \in Seq(Unit)
<1> SUFFICES ASSUME NEW c \in Conns PROVE Stream(c) \in Seq(Unit) OBVIOUS
<1>1. got[c] \in Seq(Unit) /\ down[c] \in Seq(Unit) /\ writeBuf \in Seq(Unit)
  BY DEF Typed
<1>2. got[c] \o down[c] \in Seq(Unit) BY <1>1, ConcatProperties
<1>3. (IF conn = c THEN writeBuf ELSE << >>) \in Seq(Unit) BY <1>1, Units
<1> QED BY <1>2, <1>3, ConcatProperties DEF Stream

LEMMA StreamTypedNext ==
  ASSUME Typed'
  PROVE  \A c \in Conns : Stream(c)' \in Seq(Unit)
<1> SUFFICES ASSUME NEW c \in Conns PROVE Stream(c)' \in Seq(Unit) OBVIOUS
<1>1. got'[c] \in Seq(Unit) /\ down'[c] \in Seq(Unit) /\ writeBuf' \in Seq(Unit)
  BY DEF Typed
<1>2. got'[c] \o down'[c] \in Seq(Unit) BY <1>1, ConcatProperties
<1>3. (IF conn' = c THEN writeBuf' ELSE << >>) \in Seq(Unit) BY <1>1, Units
<1> QED BY <1>2, <1>3, ConcatProperties DEF Stream

(* Steps in which nothing new is sent, and a connection may end with what   *)
(* its buffer held.                                                         *)
Shrinks ==
  /\ \A c \in Conns : Front(Stream(c)', Stream(c))
  /\ conn' # None => conn' = conn /\ Stream(conn)' = Stream(conn) /\ sent' = sent
  /\ Newest <= Newest'

LEMMA ShrinkKeeps ==
  ASSUME Typed, Typed', Streams, Waiting, Waiting', Shrinks
  PROVE  Streams'
<1>0. \A c \in Conns : Stream(c) \in Seq(Unit) /\ Stream(c)' \in Seq(Unit)
  BY StreamTyped, StreamTypedNext
<1>1. Newest \in Nat /\ Newest' \in Nat
  <2>1. pending \in Seq(Nat) /\ sent \in Nat /\ Len(pending) <= sent
    BY IpcAssumption DEF Typed, Waiting
  <2>2. pending' \in Seq(Nat) /\ sent' \in Nat /\ Len(pending') <= sent'
    BY IpcAssumption DEF Typed, Waiting
  <2>3. Newest \in Nat BY <2>1 DEF Newest
  <2>4. Newest' \in Nat BY <2>2 DEF Newest
  <2> QED BY <2>3, <2>4
<1>2. ASSUME NEW c \in Conns, NEW i \in DOMAIN Stream(c)'
      PROVE  i \in DOMAIN Stream(c) /\ Stream(c)'[i] = Stream(c)[i]
  <2> DEFINE s == Stream(c)
             t == Stream(c)'
  <2>1. s \in Seq(Unit) /\ t \in Seq(Unit) /\ Front(t, s) BY <1>0 DEF Shrinks
  <2> HIDE DEF s, t
  <2>2. \A k \in DOMAIN t : k \in DOMAIN s /\ t[k] = s[k] BY <2>1 DEF Front
  <2> QED BY <1>2, <2>2 DEF s, t
<1>3. ASSUME NEW c \in Conns PROVE Framed(Stream(c))' /\ UpTo(Stream(c), Newest)'
  <2> DEFINE s == Stream(c)
             t == Stream(c)'
  <2>1. s \in Seq(Unit) /\ t \in Seq(Unit) /\ Front(t, s) BY <1>0 DEF Shrinks
  <2>2. Framed(s) /\ UpTo(s, Newest) BY DEF Streams
  <2> HIDE DEF s, t
  <2>3. Framed(t) BY <2>1, <2>2, FrontFramed
  <2>4. \A k \in DOMAIN t : k \in DOMAIN s /\ t[k] = s[k] BY <2>1 DEF Front
  <2>5. \A k \in DOMAIN s : s[k].msg \in Nat
    <3>1. \A k \in DOMAIN s : s[k] \in Unit BY <2>1
    <3> QED BY <3>1 DEF Unit
  <2>6. UpTo(t, Newest') BY <1>1, <2>2, <2>4, <2>5 DEF UpTo, Shrinks
  <2> QED BY <2>3, <2>6 DEF Framed, UpTo, t
<1>4. ASSUME NEW c \in Conns, NEW d \in Conns, c < d
      PROVE  Before(Stream(c), Stream(d))'
  <2> SUFFICES ASSUME NEW i \in DOMAIN Stream(c)', NEW j \in DOMAIN Stream(d)',
                      Stream(d)'[j].msg > 0
               PROVE  Stream(c)'[i].msg < Stream(d)'[j].msg
    BY DEF Before
  <2>1. Before(Stream(c), Stream(d)) BY <1>4 DEF Streams
  <2> QED BY <1>2, <2>1 DEF Before
<1>5. conn' # None => Complete(Stream(conn), sent)'
  BY DEF Streams, Shrinks, Complete
<1> QED BY <1>3, <1>4, <1>5 DEF Streams

LEMMA FrontSelf == ASSUME NEW s \in Seq(Unit) PROVE Front(s, s)
<1>1. Len(s) \in Nat OBVIOUS
<1> QED BY <1>1 DEF Front

(* A connection that ends has what was read of it and what its socket held. *)
LEMMA DropShrinks ==
  ASSUME Typed, DropConnection, UNCHANGED <<got, down>>
  PROVE  \A c \in Conns : Front(Stream(c)', Stream(c))
<1> SUFFICES ASSUME NEW c \in Conns PROVE Front(Stream(c)', Stream(c)) OBVIOUS
<1> DEFINE s == got[c] \o down[c]
           w == IF conn = c THEN writeBuf ELSE << >>
           t == s \o w
<1>1. s \in Seq(Unit)
  <2>1. got[c] \in Seq(Unit) /\ down[c] \in Seq(Unit) BY DEF Typed
  <2> QED BY <2>1, ConcatProperties
<1>2. w \in Seq(Unit) BY Units DEF Typed
<1>3. Stream(c) = t BY DEF Stream
<1>4. Stream(c)' = s \o << >>
  <2>1. conn' # c BY IpcAssumption DEF DropConnection, Conns
  <2> QED BY <2>1 DEF Stream
<1> HIDE DEF s, w
<1>5. Stream(c)' = s BY <1>1, <1>4, ConcatEmptySeq
<1>6. Len(t) = Len(s) + Len(w) /\ \A i \in 1 .. Len(s) : t[i] = s[i] BY <1>1, <1>2, Joined
<1> HIDE DEF t
<1>7. Front(s, t) BY <1>1, <1>2, <1>6 DEF Front
<1> QED BY <1>3, <1>5, <1>7

(* What leaves the connection and a stream's parts alone, or moves units    *)
(* from one part to the next.                                               *)
LEMMA SameStreams ==
  ASSUME Typed, Typed', Waiting, Waiting', Streams, UNCHANGED <<conn, sent, pending>>,
         \A c \in Conns : Stream(c)' = Stream(c)
  PROVE  Streams'
<1>1. \A c \in Conns : Front(Stream(c)', Stream(c)) BY StreamTyped, FrontSelf
<1>2. conn' # None => Stream(conn)' = Stream(conn) BY DEF Typed
<1>3. Newest <= Newest'
  <2>1. sent \in Nat /\ pending \in Seq(Nat) BY DEF Typed
  <2>2. sent - Len(pending) \in Int BY <2>1
  <2> QED BY <2>2 DEF Newest
<1> QED BY <1>1, <1>2, <1>3, ShrinkKeeps DEF Shrinks

LEMMA DropKeeps ==
  ASSUME Typed, Typed', Waiting, Waiting', Streams, DropConnection, conn # None,
         UNCHANGED <<got, down, pending>>, sent' \in {sent, sent + 1}
  PROVE  Streams'
<1>1. \A c \in Conns : Front(Stream(c)', Stream(c)) BY DropShrinks
<1>2. Newest <= Newest'
  <2>1. sent \in Nat /\ pending \in Seq(Nat) BY DEF Typed
  <2>2. Len(pending) \in Nat BY <2>1
  <2> QED BY <2>1, <2>2 DEF Newest
<1> QED BY <1>1, <1>2, ShrinkKeeps DEF Shrinks, DropConnection

(* try_flush leaves what is sent, in whatever parts, with more in the       *)
(* buffer or not.                                                           *)
LEMMA FlushStream ==
  ASSUME Typed, conn \in Conns, conn' = conn, got' = got, NEW buf \in Seq(Unit),
         FlushTo(conn, buf)
  PROVE  /\ Stream(conn)' = got[conn] \o down[conn] \o buf
         /\ \A c \in Conns \ {conn} : Stream(c)' = Stream(c)
<1>1. \A d \in Conns \ {conn} : down'[d] = down[d] BY Flushed
<1>2. got[conn] \o down'[conn] \o writeBuf' = got[conn] \o down[conn] \o buf
  <2>1. got[conn] \in Seq(Unit) BY DEF Typed
  <2> QED BY <2>1, Flushed
<1>3. Stream(conn)' = got[conn] \o down'[conn] \o writeBuf' BY DEF Stream
<1>4. \A c \in Conns \ {conn} : Stream(c)' = Stream(c) BY <1>1 DEF Stream
<1> QED BY <1>2, <1>3, <1>4

LEMMA OthersStream ==
  ASSUME Typed, Typed', Waiting, Waiting', Streams,
         \/ RecvAll \/ Flush \/ Connect \/ UNCHANGED vars
         \/ \E c \in Conns : Read(c) \/ Write(c) \/ Close(c)
  PROVE  Streams'
<1>1. CASE RecvAll
  <2>1. UNCHANGED <<got, down, pending, sent>> /\ conn # None
    BY <1>1 DEF RecvAll, emacsVars
  <2>2. CASE DropConnection BY <2>1, <2>2, DropKeeps
  <2>3. CASE UNCHANGED <<conn, writeBuf>>
    <3>1. \A c \in Conns : Stream(c)' = Stream(c) BY <2>1, <2>3 DEF Stream
    <3> QED BY <2>1, <2>3, <3>1, SameStreams
  <2> QED BY <1>1, <2>2, <2>3 DEF RecvAll
<1>2. CASE Flush
  <2>1. UNCHANGED <<got, pending, sent>> /\ conn # None BY <1>2 DEF Flush, emacsVars
  <2>2. CASE DropConnection /\ UNCHANGED down BY <2>1, <2>2, DropKeeps
  <2>3. CASE FlushTo(conn, writeBuf) /\ UNCHANGED conn
    <3>1. conn \in Conns /\ writeBuf \in Seq(Unit) BY <2>1 DEF Typed
    <3>2. /\ Stream(conn)' = got[conn] \o down[conn] \o writeBuf
          /\ \A c \in Conns \ {conn} : Stream(c)' = Stream(c)
      BY <2>1, <2>3, <3>1, FlushStream
    <3>3. Stream(conn) = got[conn] \o down[conn] \o writeBuf BY DEF Stream
    <3>4. Stream(conn)' = Stream(conn) BY <3>2, <3>3
    <3>5. ASSUME NEW c \in Conns PROVE Stream(c)' = Stream(c)
      <4>1. CASE c = conn
        <5>1. Stream(c) = got[c] \o down[c] \o writeBuf BY <4>1 DEF Stream
        <5>2. Stream(c)' = got'[c] \o down'[c] \o writeBuf' BY <2>3, <4>1 DEF Stream
        <5>3. Stream(conn)' = got'[conn] \o down'[conn] \o writeBuf' BY <2>3 DEF Stream
        <5> QED BY <3>2, <4>1, <5>1, <5>2, <5>3
      <4> QED BY <3>2, <4>1
    <3> QED BY <2>1, <2>3, <3>5, SameStreams
  <2> QED BY <1>2, <2>2, <2>3 DEF Flush
<1>3. CASE Connect \/ UNCHANGED vars \/ \E c \in Conns : Write(c) \/ Close(c)
  <2>1. UNCHANGED <<conn, sent, pending, got, down, writeBuf>>
    BY <1>3 DEF Connect, Write, Close, vars, serverVars, emacsVars
  <2>2. \A c \in Conns : Stream(c)' = Stream(c) BY <2>1 DEF Stream
  <2> QED BY <2>1, <2>2, SameStreams
<1>4. ASSUME NEW d \in Conns, Read(d) PROVE Streams'
  <2>1. UNCHANGED <<conn, sent, pending, writeBuf>> BY <1>4 DEF Read, serverVars
  <2>2. ASSUME NEW c \in Conns PROVE got'[c] \o down'[c] = got[c] \o down[c]
    <3>1. CASE c # d BY <1>4, <3>1 DEF Read, Typed
    <3>2. CASE c = d
      <4>1. got'[d] = Append(got[d], Head(down[d])) /\ down'[d] = Tail(down[d])
        BY <1>4 DEF Read, Typed
      <4>2. got[d] \in Seq(Unit) /\ down[d] \in Seq(Unit) /\ down[d] # << >>
        BY <1>4 DEF Read, Typed
      <4>3. Append(got[d], Head(down[d])) \o Tail(down[d]) = got[d] \o down[d]
        BY <4>2, Moved
      <4> QED BY <3>2, <4>1, <4>3
    <3> QED BY <3>1, <3>2
  <2>3. \A c \in Conns : Stream(c)' = Stream(c) BY <2>1, <2>2 DEF Stream
  <2> QED BY <2>1, <2>3, SameStreams
<1> QED BY <1>1, <1>2, <1>3, <1>4

(* A connection that has not been accepted has no stream.                   *)
LEMMA NoStreamYet ==
  ASSUME Typed, Arrivals, NEW c \in Conns, c > Accepted
  PROVE  Stream(c) = << >>
<1>1. got[c] = << >> /\ down[c] = << >> BY DEF Arrivals
<1>2. conn # c
  <2>1. CASE conn = None BY <2>1, IpcAssumption DEF Conns
  <2>2. CASE conn # None
    <3>1. conn = Accepted BY <2>2 DEF Arrivals
    <3>2. Accepted \in Int /\ c \in Int BY DEF Typed, Accepted, Conns
    <3> QED BY <3>1, <3>2
  <2> QED BY <2>1, <2>2
<1>3. Stream(c) = << >> \o << >> \o << >> BY <1>1, <1>2 DEF Stream
<1>4. << >> \in Seq(Unit) BY Units
<1> QED BY <1>3, <1>4, ConcatEmptySeq

(* The live connection's stream grows by what is newer than all others'.    *)
LEMMA GrowKeeps ==
  ASSUME Typed, Typed', Waiting, Waiting', Streams, NEW e \in Conns, conn' = e,
         Newest <= Newest',
         NEW t, t = Stream(e)', Framed(t), Complete(t, sent'), UpTo(t, Newest'),
         \A c \in Conns \ {e} : Front(Stream(c)', Stream(c)),
         \A c \in Conns : c < e => Before(Stream(c), t),
         \A c \in Conns : c > e => Stream(c) = << >>
  PROVE  Streams'
<1>0. \A c \in Conns : Stream(c) \in Seq(Unit) /\ Stream(c)' \in Seq(Unit)
  BY StreamTyped, StreamTypedNext
<1>1. Newest \in Int /\ Newest' \in Int
  <2>1. pending \in Seq(Nat) /\ sent \in Nat /\ pending' \in Seq(Nat) /\ sent' \in Nat
    BY IpcAssumption DEF Typed
  <2> QED BY <2>1 DEF Newest
<1>2. ASSUME NEW c \in Conns \ {e}, NEW i \in DOMAIN Stream(c)'
      PROVE  /\ i \in DOMAIN Stream(c) /\ Stream(c)'[i] = Stream(c)[i]
             /\ Stream(c)[i].msg \in Nat
  <2> DEFINE r == Stream(c)
             q == Stream(c)'
  <2>1. r \in Seq(Unit) /\ q \in Seq(Unit) /\ Front(q, r) BY <1>0
  <2> HIDE DEF r, q
  <2>2. \A k \in DOMAIN q : k \in DOMAIN r /\ q[k] = r[k] BY <2>1 DEF Front
  <2>3. \A k \in DOMAIN r : r[k].msg \in Nat
    <3>1. \A k \in DOMAIN r : r[k] \in Unit BY <2>1
    <3> QED BY <3>1 DEF Unit
  <2> QED BY <1>2, <2>2, <2>3 DEF r, q
<1>3. ASSUME NEW c \in Conns \ {e} PROVE Framed(Stream(c))' /\ UpTo(Stream(c), Newest)'
  <2> DEFINE r == Stream(c)
             q == Stream(c)'
  <2>1. r \in Seq(Unit) /\ q \in Seq(Unit) /\ Front(q, r) BY <1>0
  <2>2. Framed(r) /\ UpTo(r, Newest) BY DEF Streams
  <2>3. \A k \in DOMAIN q : k \in DOMAIN r /\ q[k] = r[k] /\ r[k].msg \in Nat BY <1>2
  <2> HIDE DEF r, q
  <2>4. Framed(q) BY <2>1, <2>2, FrontFramed
  <2>5. UpTo(q, Newest') BY <1>1, <2>2, <2>3 DEF UpTo
  <2> QED BY <2>4, <2>5 DEF Framed, UpTo, q
<1>4. Framed(Stream(e))' /\ UpTo(Stream(e), Newest)' /\ Complete(Stream(e), sent)'
  BY DEF Framed, UpTo, Complete
<1>5. ASSUME NEW c \in Conns, NEW d \in Conns, c < d
      PROVE  Before(Stream(c), Stream(d))'
  <2> SUFFICES ASSUME NEW i \in DOMAIN Stream(c)', NEW j \in DOMAIN Stream(d)',
                      Stream(d)'[j].msg > 0
               PROVE  Stream(c)'[i].msg < Stream(d)'[j].msg
    BY DEF Before
  <2>1. c # d BY <1>5 DEF Conns
  <2>2. CASE c # e /\ d # e
    <3>1. Before(Stream(c), Stream(d)) BY <1>5 DEF Streams
    <3> QED BY <1>2, <2>2, <3>1 DEF Before
  <2>3. CASE d = e
    <3>1. Before(Stream(c), t) BY <1>5, <2>3
    <3> QED BY <1>2, <2>1, <2>3, <3>1 DEF Before
  <2>4. CASE c = e
    <3>1. d > e BY <1>5, <2>4 DEF Conns
    <3>2. Stream(d) = << >> BY <3>1
    <3>3. j \in DOMAIN Stream(d) BY <1>2, <2>1, <2>4
    <3>4. DOMAIN Stream(d) = {} BY <3>2
    <3> QED BY <3>3, <3>4
  <2> QED BY <2>2, <2>3, <2>4
<1> QED BY <1>3, <1>4, <1>5 DEF Streams

(* A message is sent on the live connection.                                *)
LEMMA SendStreams ==
  ASSUME Typed, Typed', Waiting, Waiting', Arrivals, Streams, Send
  PROVE  Streams'
<1>1. UNCHANGED got /\ sent' = sent + 1 /\ sent \in Nat
  BY IpcAssumption DEF Send, emacsVars, Typed
<1>2. CASE conn = None
  <2>1. /\ pending' = Append(pending, sent + 1)
        /\ UNCHANGED <<conn, readBuf, writeBuf, down>>
    BY <1>2 DEF Send
  <2>2. Newest' = Newest
    <3>1. pending \in Seq(Nat) BY DEF Typed
    <3>2. Len(pending') = Len(pending) + 1 /\ Len(pending) \in Nat BY <2>1, <3>1
    <3> QED BY <1>1, <3>2 DEF Newest
  <2>3. \A c \in Conns : Stream(c)' = Stream(c) BY <1>1, <2>1 DEF Stream
  <2>4. \A c \in Conns : Front(Stream(c)', Stream(c)) BY <2>3, StreamTyped, FrontSelf
  <2>5. Newest <= Newest'
    <3>1. Newest \in Int BY <1>1 DEF Newest, Typed
    <3> QED BY <2>2, <3>1
  <2> QED BY <1>2, <2>1, <2>4, <2>5, ShrinkKeeps DEF Shrinks
<1>3. CASE conn # None /\ DropConnection /\ UNCHANGED <<down, pending>>
  BY <1>1, <1>3, DropKeeps
<1>4. CASE /\ conn # None /\ FlushTo(conn, writeBuf \o Frame(sent + 1))
           /\ UNCHANGED <<conn, readBuf, pending>>
  <2> DEFINE s == Stream(conn)
             f == Frame(sent + 1)
             t == s \o f
  <2>1. conn \in Conns /\ writeBuf \in Seq(Unit) /\ f \in Seq(Unit)
    BY <1>1, <1>4, Units DEF Typed
  <2>2. pending = << >> /\ pending' = << >> BY <1>4 DEF Waiting
  <2>3. Newest = sent /\ Newest' = sent + 1 BY <1>1, <2>2 DEF Newest
  <2>4. /\ Stream(conn)' = got[conn] \o down[conn] \o (writeBuf \o f)
        /\ \A c \in Conns \ {conn} : Stream(c)' = Stream(c)
    <3>1. writeBuf \o f \in Seq(Unit) BY <2>1, ConcatProperties
    <3> QED BY <1>1, <1>4, <2>1, <3>1, FlushStream
  <2>5. s \in Seq(Unit) BY <2>1, StreamTyped
  <2>6. Stream(conn)' = t
    <3> DEFINE g == got[conn] \o down[conn]
    <3>1. g \in Seq(Unit)
      <4>1. got[conn] \in Seq(Unit) /\ down[conn] \in Seq(Unit) BY <2>1 DEF Typed
      <4> QED BY <4>1, ConcatProperties
    <3>2. s = g \o writeBuf BY DEF Stream
    <3>3. Stream(conn)' = g \o (writeBuf \o f) BY <2>4
    <3> HIDE DEF g, s, f
    <3> QED BY <2>1, <3>1, <3>2, <3>3, ConcatAssociative
  <2>7. Framed(s) /\ Complete(s, sent) /\ UpTo(s, sent)
    BY <1>4, <2>1, <2>3 DEF Streams
  <2> HIDE DEF s
  <2>8. /\ t \in Seq(Unit) /\ Framed(t) /\ Complete(t, sent + 1)
        /\ \A i \in DOMAIN t : (i \in DOMAIN s /\ t[i] = s[i]) \/ t[i].msg = sent + 1
    <3>1. t = s \o Frame(sent + 1) OBVIOUS
    <3> HIDE DEF t
    <3> QED BY <1>1, <2>5, <2>7, <3>1, FrameAdded
  <2>9. \A c \in Conns : Stream(c) \in Seq(Unit) /\ UpTo(Stream(c), sent)
    BY <2>3, StreamTyped DEF Streams
  <2> HIDE DEF t
  <2>10. UpTo(t, sent + 1)
    <3>1. \A i \in DOMAIN s : s[i] \in Unit BY <2>5
    <3>2. \A i \in DOMAIN s : s[i].msg \in Nat BY <3>1 DEF Unit
    <3> QED BY <1>1, <2>7, <2>8, <3>2 DEF UpTo
  <2>11. ASSUME NEW c \in Conns, c < conn PROVE Before(Stream(c), t)
    <3> SUFFICES ASSUME NEW i \in DOMAIN Stream(c), NEW j \in DOMAIN t, t[j].msg > 0
                 PROVE  Stream(c)[i].msg < t[j].msg
      BY DEF Before
    <3>1. Before(Stream(c), s) BY <2>1, <2>11 DEF Streams, s
    <3>2. Stream(c)[i].msg <= sent BY <2>9 DEF UpTo
    <3>3. Stream(c)[i].msg \in Nat
      <4>1. Stream(c)[i] \in Unit BY <2>9
      <4> QED BY <4>1 DEF Unit
    <3>4. CASE j \in DOMAIN s /\ t[j] = s[j] BY <3>1, <3>4 DEF Before
    <3>5. CASE t[j].msg = sent + 1 BY <1>1, <3>2, <3>3, <3>5
    <3> QED BY <2>8, <3>4, <3>5
  <2>12. ASSUME NEW c \in Conns, c > conn PROVE Stream(c) = << >>
    <3>1. conn = Accepted BY <1>4 DEF Arrivals
    <3> QED BY <2>12, <3>1, NoStreamYet
  <2>13. \A c \in Conns \ {conn} : Front(Stream(c)', Stream(c)) BY <2>4, <2>9, FrontSelf
  <2> QED
    BY <1>1, <1>4, <2>1, <2>3, <2>6, <2>8, <2>10, <2>11, <2>12, <2>13, GrowKeeps
<1> QED BY <1>2, <1>3, <1>4 DEF Send

(* A connection is accepted: it gets what waited.                           *)
LEMMA AcceptStreams ==
  ASSUME Typed, Typed', Waiting, Waiting', Arrivals, Streams, Accept
  PROVE  Streams'
<1> DEFINE t == Greeting
<1>1. PICK e \in Conns : /\ e = Accepted + 1 /\ Head(backlog) = e /\ conn' = e
                         /\ Accepted \in Nat
  BY AcceptNext
<1>2. /\ UNCHANGED <<sent, got>> /\ pending' = << >> /\ FlushTo(e, t)
      /\ pending \in Seq(Nat) /\ sent \in Nat
  BY <1>1, IpcAssumption DEF Accept, AfterGreeting, emacsVars, Typed
<1>3. Newest \in Nat /\ Newest' = sent /\ Newest + Len(pending) = sent /\ Newest <= sent
  BY <1>2 DEF Newest, Waiting
<1>4. \A k \in DOMAIN pending : pending[k] = Newest + k BY DEF Waiting
<1>5. /\ t \in Seq(Unit) /\ Framed(t) /\ Complete(t, sent) /\ UpTo(t, sent)
      /\ \A i \in DOMAIN t : t[i].msg > 0 => t[i].msg > Newest
  BY <1>2, <1>3, <1>4, GreetingFramed DEF UpTo
<1> HIDE DEF t
<1>6. Stream(e)' = t
  <2>1. e > Accepted BY <1>1
  <2>2. got[e] = << >> /\ down[e] = << >> BY <1>1, <2>1 DEF Arrivals
  <2>3. << >> \in Seq(Unit) BY Units
  <2>4. got[e] \o down'[e] \o writeBuf' = got[e] \o down[e] \o t
    <3>1. got[e] \in Seq(Unit) BY DEF Typed
    <3> QED BY <1>2, <1>5, <3>1, Flushed
  <2>5. << >> \o << >> \o t = t BY <1>5, <2>3, ConcatEmptySeq
  <2>6. Stream(e)' = got[e] \o down'[e] \o writeBuf' BY <1>1, <1>2 DEF Stream
  <2> QED BY <2>2, <2>4, <2>5, <2>6, Zenon
<1>7. \A c \in Conns : Stream(c) \in Seq(Unit) /\ UpTo(Stream(c), Newest)
  BY StreamTyped DEF Streams
<1>8. ASSUME NEW c \in Conns \ {e} PROVE Front(Stream(c)', Stream(c))
  <2> DEFINE s == got[c] \o down[c]
             w == IF conn = c THEN writeBuf ELSE << >>
             u == s \o w
  <2>1. s \in Seq(Unit)
    <3>1. got[c] \in Seq(Unit) /\ down[c] \in Seq(Unit) BY DEF Typed
    <3> QED BY <3>1, ConcatProperties
  <2>2. w \in Seq(Unit) BY Units DEF Typed
  <2>3. Stream(c) = u BY DEF Stream
  <2>4. Stream(c)' = s \o << >>
    <3>1. down'[c] = down[c] BY <1>1, <1>2, <1>5, Flushed
    <3> QED BY <1>1, <1>2, <3>1 DEF Stream
  <2> HIDE DEF s, w
  <2>5. Stream(c)' = s BY <2>1, <2>4, ConcatEmptySeq
  <2>6. Len(u) = Len(s) + Len(w) /\ \A i \in 1 .. Len(s) : u[i] = s[i] BY <2>1, <2>2, Joined
  <2> HIDE DEF u
  <2>7. Front(s, u) BY <2>1, <2>2, <2>6 DEF Front
  <2> QED BY <2>3, <2>5, <2>7
<1>9. ASSUME NEW c \in Conns PROVE Before(Stream(c), t)
  <2> SUFFICES ASSUME NEW i \in DOMAIN Stream(c), NEW j \in DOMAIN t, t[j].msg > 0
               PROVE  Stream(c)[i].msg < t[j].msg
    BY DEF Before
  <2>1. Stream(c)[i].msg <= Newest BY <1>7 DEF UpTo
  <2>2. Stream(c)[i].msg \in Nat
    <3>1. Stream(c)[i] \in Unit BY <1>7
    <3> QED BY <3>1 DEF Unit
  <2>3. t[j].msg > Newest BY <1>5
  <2>4. t[j].msg \in Nat
    <3>1. t[j] \in Unit BY <1>5
    <3> QED BY <3>1 DEF Unit
  <2> QED BY <1>3, <2>1, <2>2, <2>3, <2>4
<1>10. ASSUME NEW c \in Conns, c > e PROVE Stream(c) = << >>
  <2>1. c > Accepted BY <1>1, <1>10 DEF Conns
  <2> QED BY <2>1, NoStreamYet
<1> QED BY <1>1, <1>2, <1>3, <1>5, <1>6, <1>8, <1>9, <1>10, GrowKeeps

IpcInv == Typed /\ Arrivals /\ Waiting /\ Streams

LEMMA IpcStarts ==
  ASSUME Init
  PROVE  IpcInv
<1>0. << >> \in Seq(Unit) BY Units
<1>1. Typed
  <2>1. [c \in Conns |-> << >>] \in [Conns -> Seq(Unit)] BY <1>0
  <2>2. << >> \in Seq(Nat) /\ << >> \in Seq(Conns) /\ << >> \in Seq(Conns \X Nat) OBVIOUS
  <2>3. Len(<< >>) <= Cap BY IpcAssumption
  <2> QED BY <1>0, <2>1, <2>2, <2>3, IpcAssumption DEF Init, Typed
<1>2. Arrivals BY DEF Init, Arrivals, Accepted
<1>3. Waiting BY DEF Init, Waiting, Newest
<1>4. ASSUME NEW c \in Conns PROVE Stream(c) = << >>
  <2>1. Stream(c) = << >> \o << >> \o << >> BY DEF Stream, Init
  <2> QED BY <1>0, <2>1, ConcatEmptySeq
<1>5. DOMAIN << >> = {} OBVIOUS
<1>6. Streams
  <2>1. ASSUME NEW c \in Conns PROVE Framed(Stream(c)) /\ UpTo(Stream(c), Newest)
    BY <1>4, <1>5 DEF Framed, UpTo
  <2>2. ASSUME NEW c \in Conns, NEW d \in Conns PROVE Before(Stream(c), Stream(d))
    BY <1>4, <1>5 DEF Before
  <2> QED BY <2>1, <2>2 DEF Streams, Init
<1> QED BY <1>1, <1>2, <1>3, <1>6 DEF IpcInv

LEMMA IpcSteps ==
  ASSUME IpcInv, [Next]_vars
  PROVE  IpcInv'
<1>1. Typed /\ Arrivals /\ Waiting /\ Streams BY DEF IpcInv
<1>2. Waiting' BY <1>1, StepWaits
<1>3. CASE Accept BY <1>1, <1>2, <1>3, AcceptTyped, AcceptArrives, AcceptStreams DEF IpcInv
<1>4. CASE Send BY <1>1, <1>2, <1>4, SendTyped, OthersArrive, SendStreams DEF IpcInv
<1>5. CASE \/ RecvAll \/ Flush \/ Connect \/ UNCHANGED vars
           \/ \E c \in Conns : Read(c) \/ Write(c) \/ Close(c)
  <2>1. Typed' BY <1>1, <1>5, RecvAllTyped, OthersTyped
  <2>2. Arrivals' BY <1>1, <1>5, OthersArrive
  <2>3. Streams' BY <1>1, <1>2, <1>5, <2>1, OthersStream
  <2> QED BY <1>2, <2>1, <2>2, <2>3 DEF IpcInv
<1> QED BY <1>3, <1>4, <1>5 DEF Next

(* What is on its way to Emacs, and what waits, is in order on every        *)
(* connection, past and present (accept, send, try_flush, recv_all).         *)
THEOREM Connections == Spec => []IpcInv
<1>1. Init => IpcInv BY IpcStarts
<1>2. IpcInv /\ [Next]_vars => IpcInv' BY IpcSteps
<1> QED BY <1>1, <1>2, PTL DEF Spec

LEMMA OnceAndInOrder ==
  ASSUME IpcInv
  PROVE  StreamsInOrder
<1>1. Typed /\ Arrivals /\ Waiting /\ Streams BY DEF IpcInv
<1>2. \A c \in Conns : Stream(c) \in Seq(Unit) BY <1>1, StreamTyped
<1>3. ASSUME NEW c \in Conns, NEW u \in Range(Stream(c))
      PROVE  /\ \A m \in Range(pending) : u.msg < m
             /\ \A d \in c + 1 .. MaxConns : \A v \in Range(Stream(d)) : v.msg > 0 => u.msg < v.msg
  <2>1. PICK i \in DOMAIN Stream(c) : u = Stream(c)[i] BY <1>3 DEF Range
  <2>2. u.msg <= Newest BY <1>1, <2>1 DEF Streams, UpTo
  <2>3. u.msg \in Nat
    <3>1. u \in Unit BY <1>2, <2>1
    <3> QED BY <3>1 DEF Unit
  <2>4. ASSUME NEW m \in Range(pending) PROVE u.msg < m
    <3>1. PICK k \in DOMAIN pending : m = pending[k] BY <2>4 DEF Range
    <3>2. m = Newest + k BY <1>1, <3>1 DEF Waiting
    <3>3. pending \in Seq(Nat) /\ sent \in Nat BY <1>1, IpcAssumption DEF Typed
    <3>4. k \in Nat \ {0} /\ Newest \in Int BY <3>1, <3>3 DEF Newest
    <3> QED BY <2>2, <2>3, <3>2, <3>4
  <2>5. ASSUME NEW d \in c + 1 .. MaxConns, NEW v \in Range(Stream(d)), v.msg > 0
        PROVE  u.msg < v.msg
    <3>1. d \in Conns /\ c < d BY <2>5, IpcAssumption DEF Conns
    <3>2. PICK j \in DOMAIN Stream(d) : v = Stream(d)[j] BY <2>5 DEF Range
    <3>3. Before(Stream(c), Stream(d)) BY <1>1, <3>1 DEF Streams
    <3> QED BY <2>1, <2>5, <3>2, <3>3 DEF Before
  <2> QED BY <2>4, <2>5
<1>4. EachMessageOnce BY <1>3 DEF EachMessageOnce
<1>5. ASSUME NEW c \in Conns PROVE Framed(Stream(c)) BY <1>1 DEF Streams
<1>6. ASSUME NEW c \in Conns, conn = c, Len(Stream(c)) > 2
      PROVE  Stream(c)[Len(Stream(c))] = Body(sent)
  <2>1. conn # None BY <1>6, IpcAssumption DEF Conns
  <2>2. Complete(Stream(c), sent) BY <1>1, <1>6, <2>1 DEF Streams
  <2> QED BY <1>6, <2>2 DEF Complete
<1> QED BY <1>4, <1>5, <1>6 DEF StreamsInOrder, Framed

(* What Emacs gets can be parsed and is never said twice: accept greets a    *)
(* new connection with the handshake and what waited, send appends a whole   *)
(* frame, try_flush cuts frames anywhere and never loses the rest, and a     *)
(* message that was on one connection does not wait for the next.           *)
THEOREM EmacsCanParse == Spec => []StreamsInOrder
<1>1. IpcInv => StreamsInOrder BY OnceAndInOrder
<1> QED BY <1>1, Connections, PTL

-----------------------------------------------------------------------------
(* From Emacs.  What is read or not of a connection, but not run, is the    *)
(* last that was written to it; LastRan says where in the frames that       *)
(* begins.                                                                  *)
Cmd(k) == IF k % 2 = 0 THEN Header(k \div 2 + 1) ELSE Body(k \div 2 + 1)

IsEnd(s, w) == Len(s) <= w /\ \A i \in DOMAIN s : s[i] = Cmd(w - Len(s) + i - 1)

Unread == readBuf \o up[conn]

LastRan(h, c) == IF h # << >> /\ h[Len(h)][1] = c THEN h[Len(h)][2] ELSE 0

(* A history of commands in order: as CommandsInOrder, where it also says    *)
(* what the next command of a connection is.                                *)
InOrder(h, w) ==
  \A i \in DOMAIN h :
    /\ 2 * h[i][2] <= w[h[i][1]]
    /\ h[i][2] \notin Oversized
    /\ IF i > 1 /\ h[i - 1][1] = h[i][1]
       THEN h[i][2] = h[i - 1][2] + 1
       ELSE h[i][2] = 1 /\ \A j \in 1 .. i - 1 : h[j][1] < h[i][1]

Rising(h) == \A i, j \in DOMAIN h : i < j => h[i][1] <= h[j][1]

Inbound ==
  /\ \A c \in Conns : IsEnd(up[c], written[c])
  /\ conn # None =>
       /\ IsEnd(Unread, written[conn])
       /\ written[conn] = 2 * LastRan(handled, conn) + Len(Unread)
  /\ \A i \in DOMAIN handled : handled[i][1] <= Accepted
  /\ Rising(handled)
  /\ InOrder(handled, written)

LEMMA Commands ==
  ASSUME NEW k \in Nat
  PROVE  /\ Cmd(2 * k) = Header(k + 1) /\ Cmd(2 * k + 1) = Body(k + 1)
         /\ Cmd(k) \in Unit
<1>1. /\ (2 * k) % 2 = 0 /\ (2 * k) \div 2 = k
      /\ (2 * k + 1) % 2 = 1 /\ (2 * k + 1) \div 2 = k
  OBVIOUS
<1>2. k \div 2 + 1 \in Nat OBVIOUS
<1>3. Cmd(k) \in Unit BY <1>2, Units DEF Cmd
<1> QED BY <1>1, <1>3 DEF Cmd

LEMMA EndOfNone == ASSUME NEW w \in Nat PROVE IsEnd(<< >>, w)
BY DEF IsEnd

LEMMA EndGrows ==
  ASSUME NEW s \in Seq(Unit), NEW w \in Nat, IsEnd(s, w)
  PROVE  IsEnd(Append(s, Cmd(w)), w + 1)
<1> DEFINE u == Cmd(w)
           t == Append(s, u)
<1>1. u \in Unit BY Commands
<1> HIDE DEF u
<1>2. /\ t \in Seq(Unit) /\ Len(t) = Len(s) + 1 /\ t[Len(s) + 1] = u
      /\ \A i \in 1 .. Len(s) : t[i] = s[i]
      /\ Len(s) \in Nat /\ DOMAIN s = 1 .. Len(s)
      /\ DOMAIN t = 1 .. Len(s) + 1
  BY <1>1
<1> HIDE DEF t
<1>3. ASSUME NEW i \in DOMAIN t PROVE t[i] = Cmd((w + 1) - Len(t) + i - 1)
  <2>1. (w + 1) - Len(t) + i - 1 = w - Len(s) + i - 1 BY <1>2
  <2>2. CASE i \in 1 .. Len(s)
    <3>1. s[i] = Cmd(w - Len(s) + i - 1) BY <1>2, <2>2 DEF IsEnd
    <3> QED BY <1>2, <2>1, <2>2, <3>1
  <2>3. CASE i = Len(s) + 1
    <3>1. w - Len(s) + i - 1 = w BY <1>2, <2>3
    <3> QED BY <1>2, <2>1, <2>3, <3>1 DEF u
  <2> QED BY <1>2, <2>2, <2>3
<1>4. Len(t) <= w + 1 BY <1>2 DEF IsEnd
<1>5. IsEnd(t, w + 1) BY <1>3, <1>4 DEF IsEnd
<1> QED BY <1>5 DEF t, u

(* k is h and, from m on, commands b + 1 to b + n of the newest connection c, *)
(* which had run b of them.                                                 *)
Follow(h, k, m, n, b, c) ==
  /\ DOMAIN h = 1 .. m /\ DOMAIN k = 1 .. m + n
  /\ \A i \in 1 .. m : k[i] = h[i] /\ h[i][1] <= c /\ h[i][1] \in Nat /\ h[i][2] \in Nat
  /\ m > 0 /\ h[m][1] = c => h[m][2] = b
  /\ m = 0 \/ h[m][1] # c => b = 0
  /\ \A q \in 1 .. n : k[m + q][1] = c /\ k[m + q][2] = b + q
  /\ \A q \in 1 .. n : b + q \notin Oversized

LEMMA RunsOn ==
  ASSUME NEW m \in Nat, NEW n \in Nat, NEW b \in Nat, NEW c \in Nat, NEW h, NEW k,
         Follow(h, k, m, n, b, c),
         NEW w, w[c] \in Nat, 2 * (b + n) <= w[c], Rising(h), InOrder(h, w)
  PROVE  Rising(k) /\ InOrder(k, w) /\ \A i \in DOMAIN k : k[i][1] <= c
<1>1. m \in Nat /\ DOMAIN h = 1 .. m /\ DOMAIN k = 1 .. m + n BY DEF Follow
<1>2. /\ \A i \in 1 .. m : k[i] = h[i] /\ h[i][1] \in Nat /\ h[i][2] \in Nat /\ h[i][1] <= c
      /\ \A q \in 1 .. n : k[m + q][1] = c /\ k[m + q][2] = b + q
  BY DEF Follow
<1>3. \A i \in 1 .. m + n : i \in 1 .. m \/ \E q \in 1 .. n : i = m + q
  <2> SUFFICES ASSUME NEW i \in 1 .. m + n, i \notin 1 .. m
               PROVE  \E q \in 1 .. n : i = m + q
    OBVIOUS
  <2>1. i - m \in 1 .. n /\ i = m + (i - m) OBVIOUS
  <2> QED BY <2>1
<1>4. ASSUME NEW i \in DOMAIN k PROVE k[i][1] <= c
  <2>1. CASE i \in 1 .. m BY <1>2, <2>1
  <2>2. ASSUME NEW q \in 1 .. n, i = m + q PROVE k[i][1] <= c
    <3>1. k[i][1] = c BY <1>2, <2>2
    <3> QED BY <3>1
  <2> QED BY <1>1, <1>3, <2>1, <2>2
<1>5. ASSUME NEW i \in DOMAIN k, NEW j \in DOMAIN k, i < j PROVE k[i][1] <= k[j][1]
  <2>1. CASE j \in 1 .. m
    <3>1. i \in 1 .. m BY <1>1, <1>5, <2>1
    <3> QED BY <1>1, <1>2, <1>5, <2>1, <3>1 DEF Rising
  <2>2. CASE \E q \in 1 .. n : j = m + q
    <3>1. k[j][1] = c BY <1>2, <2>2
    <3> QED BY <1>4, <3>1
  <2> QED BY <1>1, <1>3, <2>1, <2>2
<1>6. ASSUME NEW i \in DOMAIN k
       PROVE  /\ 2 * k[i][2] <= w[k[i][1]]
              /\ k[i][2] \notin Oversized
              /\ IF i > 1 /\ k[i - 1][1] = k[i][1]
                 THEN k[i][2] = k[i - 1][2] + 1
                 ELSE k[i][2] = 1 /\ \A j \in 1 .. i - 1 : k[j][1] < k[i][1]
  <2>1. CASE i \in 1 .. m
    <3>1. k[i] = h[i] /\ (i > 1 => k[i - 1] = h[i - 1]) /\ \A j \in 1 .. i - 1 : k[j] = h[j]
      BY <1>1, <1>2, <2>1
    <3>2. i \in DOMAIN h BY <1>1, <2>1
    <3> QED BY <3>1, <3>2 DEF InOrder
  <2>2. ASSUME NEW q \in 1 .. n, i = m + q
        PROVE  /\ 2 * k[i][2] <= w[k[i][1]]
               /\ k[i][2] \notin Oversized
               /\ IF i > 1 /\ k[i - 1][1] = k[i][1]
                  THEN k[i][2] = k[i - 1][2] + 1
                  ELSE k[i][2] = 1 /\ \A j \in 1 .. i - 1 : k[j][1] < k[i][1]
    <3>1. k[i][1] = c /\ k[i][2] = b + q BY <1>2, <2>2
    <3>2. 2 * k[i][2] <= w[k[i][1]] /\ k[i][2] \notin Oversized
      <4>1. 2 * (b + q) <= 2 * (b + n) /\ b + q \in Nat BY <2>2
      <4>2. 2 * (b + q) <= w[c] BY <2>2, <4>1
      <4>3. b + q \notin Oversized BY <2>2 DEF Follow
      <4> QED BY <3>1, <4>2, <4>3
    <3>3. CASE q > 1
      <4>1. q - 1 \in 1 .. n /\ i - 1 = m + (q - 1) /\ i > 1 BY <1>1, <2>2, <3>3
      <4>2. k[i - 1][1] = c /\ k[i - 1][2] = b + (q - 1) BY <1>2, <4>1
      <4>3. k[i - 1][1] = c /\ k[i - 1][2] + 1 = b + q BY <2>2, <4>2
      <4> QED BY <3>1, <3>2, <4>1, <4>3
    <3>4. CASE q = 1
      <4>1. i - 1 = m BY <1>1, <2>2, <3>4
      <4>2. i > 1 <=> m > 0 BY <1>1, <2>2, <3>4
      <4>3. m > 0 => k[m] = h[m] BY <1>1, <1>2
      <4>4. CASE m > 0 /\ h[m][1] = c
        <5>1. b = h[m][2] BY <4>4 DEF Follow
        <5>2. k[i - 1] = h[m] BY <4>1, <4>3, <4>4
        <5> QED BY <3>1, <3>2, <3>4, <4>2, <4>4, <5>1, <5>2
      <4>5. CASE ~(m > 0 /\ h[m][1] = c)
        <5>1. b = 0 BY <1>1, <4>5 DEF Follow
        <5>2. ~(i > 1 /\ k[i - 1][1] = k[i][1]) BY <3>1, <4>1, <4>2, <4>3, <4>5
        <5>3. ASSUME NEW j \in 1 .. i - 1 PROVE k[j][1] < c
          <6>1. j \in 1 .. m /\ m \in 1 .. m BY <1>1, <4>1
          <6>2. h[m][1] <= c /\ h[m][1] # c /\ h[m][1] \in Nat BY <1>1, <1>2, <4>5, <6>1
          <6>3. h[j][1] <= h[m][1]
            <7>1. CASE j = m BY <6>2, <7>1
            <7>2. CASE j < m BY <1>1, <6>1, <7>2 DEF Rising
            <7> QED BY <6>1, <7>1, <7>2
          <6>4. k[j] = h[j] /\ h[j][1] \in Nat BY <1>2, <6>1
          <6>5. h[m][1] < c BY <6>2
          <6>6. h[j][1] < c BY <6>2, <6>3, <6>4, <6>5
          <6> QED BY <6>4, <6>6
        <5> QED BY <3>1, <3>2, <3>4, <5>1, <5>2, <5>3
      <4> QED BY <4>4, <4>5
    <3> QED BY <3>3, <3>4
  <2> QED BY <1>1, <1>3, <2>1, <2>2
<1> QED BY <1>4, <1>5, <1>6 DEF Rising, InOrder

LEMMA HistoryJoined ==
  ASSUME NEW h \in Seq(Conns \X Nat), NEW r \in Seq(Conns \X Nat), NEW k, k = h \o r
  PROVE  /\ k \in Seq(Conns \X Nat) /\ Len(k) = Len(h) + Len(r)
         /\ \A i \in 1 .. Len(h) : k[i] = h[i]
         /\ \A i \in 1 .. Len(r) : k[Len(h) + i] = r[i]
<1> DEFINE S == Conns \X Nat
<1>1. h \in Seq(S) /\ r \in Seq(S) /\ k = h \o r OBVIOUS
<1> HIDE DEF S
<1>2. /\ k \in Seq(S) /\ Len(k) = Len(h) + Len(r)
      /\ \A i \in 1 .. Len(h) : k[i] = h[i]
      /\ \A i \in 1 .. Len(r) : k[Len(h) + i] = r[i]
  BY <1>1, Joined
<1> QED BY <1>2 DEF S

LEMMA HistoryGrows ==
  ASSUME NEW h \in Seq(Conns \X Nat), NEW k \in Seq(Conns \X Nat), NEW c \in Conns,
         NEW n \in Nat, Len(k) = Len(h) + n,
         \A i \in DOMAIN h : h[i][1] <= c,
         \A i \in 1 .. Len(h) : k[i] = h[i],
         \A q \in 1 .. n : k[Len(h) + q][1] = c /\ k[Len(h) + q][2] = LastRan(h, c) + q,
         \A q \in 1 .. n : LastRan(h, c) + q \notin Oversized
  PROVE  /\ Follow(h, k, Len(h), n, LastRan(h, c), c)
         /\ LastRan(k, c) = LastRan(h, c) + n /\ LastRan(h, c) \in Nat
<1> DEFINE m == Len(h)
           b == LastRan(h, c)
<1>4. /\ m \in Nat /\ DOMAIN h = 1 .. m /\ Len(k) = m + n /\ DOMAIN k = 1 .. m + n
      /\ (h # << >> <=> m > 0) /\ (k # << >> <=> m + n > 0)
  OBVIOUS
<1>5. \A i \in 1 .. m : k[i] = h[i] /\ h[i][1] <= c /\ h[i][1] \in Nat /\ h[i][2] \in Nat
  <2> SUFFICES ASSUME NEW i \in 1 .. m
               PROVE  k[i] = h[i] /\ h[i][1] <= c /\ h[i][1] \in Nat /\ h[i][2] \in Nat
    OBVIOUS
  <2>1. h[i] \in Conns \X Nat BY <1>4
  <2>2. h[i][1] \in Conns /\ h[i][2] \in Nat BY <2>1
  <2>3. k[i] = h[i] /\ h[i][1] <= c BY <1>4
  <2>4. h[i][1] \in Nat
    <3>1. Conns \subseteq Nat BY DEF Conns
    <3> QED BY <2>2, <3>1, Zenon
  <2> QED BY <2>2, <2>3, <2>4
<1>6. \A q \in 1 .. n : k[m + q][1] = c /\ k[m + q][2] = b + q OBVIOUS
<1>11. \A q \in 1 .. n : b + q \notin Oversized OBVIOUS
<1> HIDE DEF m, b
<1>7. (m > 0 /\ h[m][1] = c => h[m][2] = b) /\ (m = 0 \/ h[m][1] # c => b = 0)
  BY <1>4 DEF LastRan, m, b
<1>8. Follow(h, k, m, n, b, c) BY <1>4, <1>5, <1>6, <1>7, <1>11 DEF Follow
<1>9. b \in Nat
  <2>1. CASE m > 0 /\ h[m][1] = c
    <3>1. m \in 1 .. m BY <1>4, <2>1
    <3>2. h[m][2] \in Nat BY <1>5, <3>1
    <3> QED BY <1>7, <2>1, <3>2
  <2>2. CASE ~(m > 0 /\ h[m][1] = c)
    <3>1. b = 0 BY <1>4, <1>7, <2>2
    <3> QED BY <3>1
  <2> QED BY <2>1, <2>2
<1>10. LastRan(k, c) = b + n
  <2>1. CASE n = 0
    <3>1. Len(k) = m /\ (k # << >> <=> m > 0) BY <1>4, <2>1
    <3>2. m > 0 => k[m] = h[m] BY <1>4, <1>5
    <3>3. b + n = b BY <1>9, <2>1
    <3> QED BY <1>4, <1>7, <3>1, <3>2, <3>3 DEF LastRan
  <2>2. CASE n > 0
    <3>1. Len(k) = m + n /\ k # << >>
      <4>1. m + n > 0 BY <1>4, <2>2
      <4> QED BY <1>4, <4>1, Zenon
    <3>2. n \in 1 .. n BY <2>2
    <3>3. k[m + n][1] = c /\ k[m + n][2] = b + n BY <1>6, <3>2
    <3> QED BY <3>1, <3>3 DEF LastRan
  <2> QED BY <2>1, <2>2
<1> QED BY <1>8, <1>9, <1>10 DEF m, b

(* What recv_all makes of what it has read.                                 *)
LEMMA Executed ==
  ASSUME NEW buf \in Seq(Unit), NEW w \in Nat, NEW b \in Nat,
         IsEnd(buf, w), w - Len(buf) = 2 * b, ~TooLarge(buf)
  PROVE  /\ \A i \in 1 .. (Len(buf) \div 2) :
              Whole(buf)[i].msg = b + i /\ b + i \notin Oversized
         /\ 2 * (b + (Len(buf) \div 2)) <= w
         /\ IsEnd(RestOf(buf), w)
         /\ w = 2 * (b + (Len(buf) \div 2)) + Len(RestOf(buf))
<1> DEFINE l == Len(buf)
           n == l \div 2
           z == RestOf(buf)
<1>1. /\ n \in Nat /\ l = 2 * n + (l % 2) /\ l \in Nat /\ l % 2 \in {0, 1}
      /\ \A i \in 1 .. n : Whole(buf)[i] = buf[2 * i] /\ 2 * i \in 1 .. l
      /\ z \in Seq(Unit) /\ Len(z) = l % 2 /\ (l % 2 = 1 => z[1] = buf[l])
      /\ DOMAIN buf = 1 .. l
  <2>1. l \in Nat /\ DOMAIN buf = 1 .. l OBVIOUS
  <2>2. l % 2 \in {0, 1} BY <2>1
  <2> QED BY <2>1, <2>2, Parsed
<1>2. w = 2 * b + l BY <1>1
<1>3. \A i \in 1 .. l : buf[i] = Cmd(2 * b + i - 1)
  <2> SUFFICES ASSUME NEW i \in 1 .. l PROVE buf[i] = Cmd(2 * b + i - 1) OBVIOUS
  <2>1. buf[i] = Cmd(w - l + i - 1) BY <1>1 DEF IsEnd
  <2>2. w - l + i - 1 = 2 * b + i - 1 BY <1>1, <1>2
  <2> QED BY <2>1, <2>2
<1> HIDE DEF n, l, z
<1>4. ASSUME NEW i \in 1 .. n PROVE Whole(buf)[i].msg = b + i /\ b + i \notin Oversized
  <2>1. 2 * i \in 1 .. l /\ 2 * i - 1 \in 1 .. l BY <1>1
  <2>2. /\ 2 * b + 2 * i - 1 = 2 * (b + i - 1) + 1
        /\ 2 * b + (2 * i - 1) - 1 = 2 * (b + i - 1)
        /\ b + i - 1 \in Nat /\ (b + i - 1) + 1 = b + i /\ b + i \in Nat
    BY <1>1
  <2>3. buf[2 * i] = Body(b + i)
    <3>1. buf[2 * i] = Cmd(2 * (b + i - 1) + 1) BY <1>3, <2>1, <2>2
    <3> QED BY <2>2, <3>1, Commands
  <2>4. buf[2 * i - 1] = Header(b + i)
    <3>1. buf[2 * i - 1] = Cmd(2 * (b + i - 1)) BY <1>3, <2>1, <2>2
    <3> QED BY <2>2, <3>1, Commands
  <2>5. Whole(buf)[i].msg = b + i
    <3>1. Whole(buf)[i] = Body(b + i) BY <1>1, <2>3
    <3> QED BY <2>2, <3>1, Units
  <2>6. Header(b + i) \in Range(buf) BY <1>1, <2>1, <2>4 DEF Range
  <2> QED BY <2>5, <2>6 DEF TooLarge
<1>5. 2 * (b + n) <= w /\ w = 2 * (b + n) + Len(z) BY <1>1, <1>2
<1>6. IsEnd(z, w)
  <2>1. CASE l % 2 = 0
    <3>1. z = << >> BY <1>1, <2>1
    <3> QED BY <3>1, EndOfNone
  <2>2. CASE l % 2 = 1
    <3>1. Len(z) = 1 /\ DOMAIN z = {1} /\ l \in 1 .. l /\ w >= 1 BY <1>1, <1>2, <2>2
    <3>2. z[1] = Cmd(2 * b + l - 1) BY <1>1, <1>3, <2>2, <3>1
    <3>3. w - Len(z) + 1 - 1 = 2 * b + l - 1
      <4>1. w - 1 + 1 - 1 = 2 * b + l - 1 BY <1>1, <1>2
      <4> QED BY <3>1, <4>1
    <3> QED BY <3>1, <3>2, <3>3 DEF IsEnd
  <2> QED BY <1>1, <2>1, <2>2
<1> QED BY <1>4, <1>5, <1>6 DEF n, l, z

LEMMA LastRanTyped ==
  ASSUME NEW h \in Seq(Conns \X Nat), NEW c
  PROVE  LastRan(h, c) \in Nat
<1>1. h # << >> => Len(h) \in DOMAIN h OBVIOUS
<1>2. h # << >> => h[Len(h)] \in Conns \X Nat BY <1>1
<1>3. h # << >> => h[Len(h)][2] \in Nat BY <1>2
<1> QED BY <1>3 DEF LastRan

(* Steps that read nothing and write nothing.                               *)
LEMMA OthersInbound ==
  ASSUME Typed, Inbound, UNCHANGED <<up, written, handled, made, backlog>>,
         conn' = None \/ UNCHANGED <<conn, readBuf>>
  PROVE  Inbound'
<1>1. Accepted' = Accepted BY DEF Accepted
<1>2. Unread' = Unread \/ conn' = None BY DEF Unread
<1> QED BY <1>1, <1>2 DEF Inbound

LEMMA ConnectInbound ==
  ASSUME Typed, Inbound, Connect
  PROVE  Inbound'
<1>1. UNCHANGED <<up, written, handled, conn, readBuf>> BY DEF Connect, serverVars
<1>2. Accepted' = Accepted
  <2>1. made \in Nat /\ backlog \in Seq(Conns) BY DEF Typed
  <2>2. made' = made + 1 /\ backlog' = Append(backlog, made + 1) BY DEF Connect
  <2>3. Len(backlog') = Len(backlog) + 1 /\ Len(backlog) \in Nat BY <2>1, <2>2
  <2> QED BY <2>1, <2>2, <2>3 DEF Accepted
<1>3. Unread' = Unread BY <1>1 DEF Unread
<1> QED BY <1>1, <1>2, <1>3 DEF Inbound

(* A new connection has written what its buffer holds, and run nothing.     *)
LEMMA AcceptInbound ==
  ASSUME Typed, Arrivals, Inbound, Accept
  PROVE  Inbound'
<1>1. PICK e \in Conns : e = Accepted + 1 /\ conn' = e /\ Accepted \in Nat /\ Accepted' = e
  BY AcceptNext
<1>2. UNCHANGED <<up, written, handled>> /\ readBuf' = << >> BY DEF Accept, emacsVars
<1>3. up[e] \in Seq(Unit) /\ Len(up[e]) = written[e] /\ written[e] \in Nat
  BY <1>1 DEF Arrivals, Typed
<1>4. Unread' = up[e]
  <2>1. Unread' = << >> \o up[e] BY <1>1, <1>2 DEF Unread
  <2> QED BY <1>3, <2>1, ConcatEmptySeq
<1>5. handled \in Seq(Conns \X Nat) BY DEF Typed
<1>6. \A i \in DOMAIN handled : handled[i][1] \in Nat /\ handled[i][1] <= Accepted
  <2> SUFFICES ASSUME NEW i \in DOMAIN handled
               PROVE  handled[i][1] \in Nat /\ handled[i][1] <= Accepted
    OBVIOUS
  <2>1. handled[i] \in Conns \X Nat BY <1>5
  <2>2. handled[i][1] \in Conns BY <2>1
  <2>3. handled[i][1] \in Nat BY <2>2 DEF Conns
  <2> QED BY <2>3 DEF Inbound
<1>7. LastRan(handled, e) = 0
  <2>1. handled # << >> => Len(handled) \in DOMAIN handled BY <1>5
  <2>2. handled # << >> => handled[Len(handled)][1] # e BY <1>1, <1>6, <2>1
  <2> QED BY <2>2 DEF LastRan
<1>8. IsEnd(up[e], written[e]) BY DEF Inbound
<1>9. \A i \in DOMAIN handled : handled[i][1] <= e BY <1>1, <1>6
<1>10. /\ IsEnd(Unread', written'[conn'])
       /\ written'[conn'] = 2 * LastRan(handled', conn') + Len(Unread')
  BY <1>1, <1>2, <1>3, <1>4, <1>7, <1>8
<1>11. /\ \A c \in Conns : IsEnd(up'[c], written'[c])
       /\ Rising(handled') /\ InOrder(handled', written')
       /\ \A i \in DOMAIN handled' : handled'[i][1] <= Accepted'
  BY <1>1, <1>2, <1>9 DEF Inbound
<1> QED BY <1>10, <1>11 DEF Inbound, IsEnd, LastRan, Rising, InOrder

(* Emacs writes the next unit of a frame.                                   *)
LEMMA WriteInbound ==
  ASSUME Typed, Inbound, NEW d \in Conns, Write(d)
  PROVE  Inbound'
<1> DEFINE u == Cmd(written[d])
           w == written[d]
<1>1. /\ UNCHANGED <<conn, readBuf, handled, made, backlog>>
      /\ written' = [written EXCEPT ![d] = w + 1]
      /\ up' = [up EXCEPT ![d] = Append(up[d], u)]
  BY DEF Write, serverVars, Typed, Cmd
<1>2. w \in Nat /\ up[d] \in Seq(Unit) /\ readBuf \in Seq(Unit) /\ u \in Unit
  <2>1. w \in Nat /\ up[d] \in Seq(Unit) /\ readBuf \in Seq(Unit) BY DEF Typed
  <2> QED BY <2>1, Commands
<1>3. /\ written'[d] = w + 1 /\ up'[d] = Append(up[d], u)
      /\ \A c \in Conns \ {d} : written'[c] = written[c] /\ up'[c] = up[c]
  BY <1>1 DEF Typed
<1>4. IsEnd(Append(up[d], u), w + 1)
  <2>1. IsEnd(up[d], w) BY DEF Inbound
  <2> QED BY <1>2, <2>1, EndGrows
<1>5. \A c \in Conns : IsEnd(up'[c], written'[c]) BY <1>3, <1>4 DEF Inbound
<1>6. ASSUME conn # None
      PROVE  /\ IsEnd(Unread', written'[conn])
             /\ written'[conn] = 2 * LastRan(handled, conn) + Len(Unread')
  <2>1. /\ conn \in Conns /\ IsEnd(Unread, written[conn])
        /\ written[conn] = 2 * LastRan(handled, conn) + Len(Unread)
    BY <1>6 DEF Inbound, Typed
  <2>2. CASE conn # d
    <3>1. Unread' = Unread /\ written'[conn] = written[conn]
      BY <1>1, <1>3, <2>1, <2>2 DEF Unread
    <3> QED BY <2>1, <3>1
  <2>3. CASE conn = d
    <3>1. Unread' = readBuf \o Append(up[d], u) /\ Unread = readBuf \o up[d]
      BY <1>1, <1>3, <2>3 DEF Unread
    <3>2. Unread' = Append(Unread, u) /\ Unread \in Seq(Unit)
      <4> DEFINE p == up[d]
      <4>1. p \in Seq(Unit) BY <1>2
      <4> HIDE DEF p, u
      <4>2. readBuf \o Append(p, u) = Append(readBuf \o p, u) /\ readBuf \o p \in Seq(Unit)
        BY <1>2, <4>1
      <4> QED BY <3>1, <4>2 DEF p
    <3> DEFINE r == Unread
               q == Unread'
    <3>3. q = Append(r, u) /\ r \in Seq(Unit) BY <3>2
    <3> HIDE DEF r, q, u
    <3>4. Len(q) = Len(r) + 1 /\ Len(r) \in Nat BY <1>2, <3>3
    <3> USE DEF r, q
    <3>5. IsEnd(Append(Unread, u), w + 1) BY <1>2, <2>1, <2>3, <3>2, EndGrows DEF u
    <3>6. w = 2 * LastRan(handled, conn) + Len(Unread) BY <2>1, <2>3
    <3>7. w + 1 = 2 * LastRan(handled, conn) + Len(Unread')
      <4> DEFINE x == LastRan(handled, conn)
                 l == Len(Unread)
                 k == Len(Unread')
      <4>1. w = 2 * x + l /\ w \in Nat /\ l \in Nat /\ k = l + 1 BY <1>2, <3>4, <3>6
      <4>2. x \in Nat
        <5>1. handled \in Seq(Conns \X Nat) BY DEF Typed
        <5> QED BY <5>1, LastRanTyped
      <4> HIDE DEF w, x, l, k
      <4>3. w + 1 = 2 * x + k BY <4>1, <4>2
      <4> QED BY <4>3 DEF x, k
    <3> QED BY <1>3, <2>3, <3>2, <3>5, <3>7
  <2> QED BY <2>2, <2>3
<1>7. InOrder(handled, written')
  <2>1. ASSUME NEW c \in Conns
        PROVE  written[c] \in Nat /\ written'[c] \in Nat /\ written[c] <= written'[c]
    <3>1. written[c] \in Nat BY DEF Typed
    <3>2. CASE c = d BY <1>2, <1>3, <3>1, <3>2
    <3>3. CASE c # d BY <1>3, <3>1, <3>3
    <3> QED BY <3>2, <3>3
  <2>2. \A i \in DOMAIN handled : handled[i][1] \in Conns /\ handled[i][2] \in Nat
    <3> SUFFICES ASSUME NEW i \in DOMAIN handled
                 PROVE  handled[i][1] \in Conns /\ handled[i][2] \in Nat
      OBVIOUS
    <3>1. handled \in Seq(Conns \X Nat) BY DEF Typed
    <3>2. handled[i] \in Conns \X Nat BY <3>1
    <3> QED BY <3>2
  <2>3. InOrder(handled, written) BY DEF Inbound
  <2>4. \A i \in DOMAIN handled : 2 * handled[i][2] <= written'[handled[i][1]]
    <3> SUFFICES ASSUME NEW i \in DOMAIN handled
                 PROVE  2 * handled[i][2] <= written'[handled[i][1]]
      OBVIOUS
    <3>1. 2 * handled[i][2] <= written[handled[i][1]] BY <2>3 DEF InOrder
    <3> QED BY <2>1, <2>2, <3>1
  <2> QED BY <2>3, <2>4 DEF InOrder
<1>8. Rising(handled) /\ \A i \in DOMAIN handled : handled[i][1] <= Accepted BY DEF Inbound
<1>9. Accepted' = Accepted BY <1>1 DEF Accepted
<1> QED BY <1>1, <1>5, <1>6, <1>7, <1>8, <1>9 DEF Inbound, IsEnd, LastRan, Rising, InOrder

(* recv_all runs the whole frames and keeps the rest.                       *)
LEMMA RecvAllInbound ==
  ASSUME Typed, Typed', Arrivals, Inbound, RecvAll
  PROVE  Inbound'
<1> DEFINE buf == Unread
           new == Whole(buf)
           ran == [i \in DOMAIN new |-> <<conn, new[i].msg>>]
           n == Len(buf) \div 2
           b == LastRan(handled, conn)
           w == written[conn]
<1>1. /\ conn \in Conns /\ conn # None
      /\ UNCHANGED <<written, made, backlog>> /\ up' = [up EXCEPT ![conn] = << >>]
  BY DEF RecvAll, Typed, emacsVars
<1>2. /\ up'[conn] = << >> /\ \A c \in Conns \ {conn} : up'[c] = up[c]
      /\ \A c \in Conns : written[c] \in Nat /\ written'[c] = written[c]
  BY <1>1 DEF Typed
<1>3. \A c \in Conns : IsEnd(up'[c], written'[c])
  <2>1. IsEnd(up'[conn], written'[conn]) BY <1>1, <1>2, EndOfNone
  <2> QED BY <1>2, <2>1 DEF Inbound
<1>4. Accepted' = Accepted BY <1>1 DEF Accepted
<1>5. CASE DropConnection /\ UNCHANGED handled
  <2>1. conn' = None BY <1>5 DEF DropConnection
  <2> QED BY <1>1, <1>3, <1>4, <1>5, <2>1 DEF Inbound
<1>6. CASE /\ ~TooLarge(buf) /\ readBuf' = RestOf(buf) /\ handled' = handled \o ran
           /\ UNCHANGED conn
  <2>1. buf \in Seq(Unit)
    <3>1. readBuf \in Seq(Unit) /\ up[conn] \in Seq(Unit) BY <1>1 DEF Typed
    <3> QED BY <3>1, ConcatProperties DEF Unread
  <2>2. IsEnd(buf, w) /\ w = 2 * b + Len(buf) /\ w \in Nat BY <1>1, <1>2 DEF Inbound
  <2>3. conn = Accepted BY <1>1 DEF Arrivals
  <2>4. handled \in Seq(Conns \X Nat) /\ handled' \in Seq(Conns \X Nat) BY DEF Typed
  <2>5. b \in Nat BY <2>4, LastRanTyped
  <2>6. w - Len(buf) = 2 * b
    <3>1. Len(buf) \in Nat BY <2>1
    <3> HIDE DEF b, w, buf
    <3> QED BY <2>2, <2>5, <3>1
  <2> HIDE DEF b, w, buf
  <2>7. /\ \A i \in 1 .. n : new[i].msg = b + i /\ b + i \notin Oversized
        /\ 2 * (b + n) <= w /\ IsEnd(RestOf(buf), w) /\ w = 2 * (b + n) + Len(RestOf(buf))
    BY <1>6, <2>1, <2>2, <2>5, <2>6, Executed
  <2>8. DOMAIN new = 1 .. n /\ n \in Nat /\ RestOf(buf) \in Seq(Unit) BY <2>1, Parsed
  <2>9. /\ ran \in Seq(Conns \X Nat) /\ Len(ran) = n
        /\ \A i \in 1 .. n : ran[i] = <<conn, b + i>>
    <3>1. ran = [i \in 1 .. n |-> <<conn, new[i].msg>>] BY <2>8
    <3>2. \A i \in 1 .. n : new[i].msg = b + i /\ b + i \in Nat BY <2>5, <2>7, <2>8
    <3> HIDE DEF new, n
    <3>3. ran = [i \in 1 .. n |-> <<conn, b + i>>] BY <3>1, <3>2
    <3> HIDE DEF ran
    <3> QED BY <1>1, <2>8, <3>2, <3>3
  <2> HIDE DEF ran, n, new
  <2>10. /\ Len(handled') = Len(handled) + n
         /\ \A i \in 1 .. Len(handled) : handled'[i] = handled[i]
         /\ \A q \in 1 .. n : handled'[Len(handled) + q] = <<conn, b + q>>
    <3>1. /\ Len(handled') = Len(handled) + Len(ran)
          /\ \A i \in 1 .. Len(handled) : handled'[i] = handled[i]
          /\ \A q \in 1 .. Len(ran) : handled'[Len(handled) + q] = ran[q]
      <4>1. handled \in Seq(Conns \X Nat) /\ ran \in Seq(Conns \X Nat) /\ handled' = handled \o ran
        BY <1>6, <2>4, <2>9
      <4> QED BY <4>1, HistoryJoined
    <3> QED BY <2>9, <3>1
  <2>11. \A i \in DOMAIN handled : handled[i][1] <= conn BY <2>3 DEF Inbound
  <2>12. /\ Follow(handled, handled', Len(handled), n, b, conn)
         /\ LastRan(handled', conn) = b + n
    <3>1. \A q \in 1 .. n : /\ handled'[Len(handled) + q][1] = conn
                            /\ handled'[Len(handled) + q][2] = LastRan(handled, conn) + q
      <4> SUFFICES ASSUME NEW q \in 1 .. n
                   PROVE  /\ handled'[Len(handled) + q][1] = conn
                          /\ handled'[Len(handled) + q][2] = LastRan(handled, conn) + q
        OBVIOUS
      <4>1. handled'[Len(handled) + q] = <<conn, b + q>> BY <2>10
      <4> QED BY <4>1 DEF b
    <3>4. \A q \in 1 .. n : LastRan(handled, conn) + q \notin Oversized BY <2>7 DEF b
    <3>2. Len(handled') = Len(handled) + n /\ \A i \in 1 .. Len(handled) : handled'[i] = handled[i]
      BY <2>10
    <3>3. /\ Follow(handled, handled', Len(handled), n, LastRan(handled, conn), conn)
          /\ LastRan(handled', conn) = LastRan(handled, conn) + n
      BY <1>1, <2>4, <2>8, <2>11, <3>1, <3>2, <3>4, HistoryGrows
    <3> QED BY <3>3 DEF b
  <2>13. /\ Rising(handled') /\ InOrder(handled', written)
         /\ \A i \in DOMAIN handled' : handled'[i][1] <= conn
    <3>1. Rising(handled) /\ InOrder(handled, written) BY DEF Inbound
    <3>2. conn \in Nat /\ Len(handled) \in Nat BY <1>1, <2>4 DEF Conns
    <3>3. written[conn] \in Nat /\ 2 * (b + n) <= written[conn] BY <1>1, <1>2, <2>7 DEF w
    <3> QED BY <2>5, <2>8, <2>12, <3>1, <3>2, <3>3, RunsOn
  <2>14. Unread' = RestOf(buf)
    <3>1. Unread' = RestOf(buf) \o << >> BY <1>2, <1>6 DEF Unread
    <3> QED BY <2>8, <3>1, ConcatEmptySeq
  <2>15. /\ IsEnd(Unread', written'[conn'])
         /\ written'[conn'] = 2 * LastRan(handled', conn') + Len(Unread')
    BY <1>1, <1>6, <2>7, <2>12, <2>14 DEF w
  <2>16. /\ Rising(handled') /\ InOrder(handled', written')
         /\ \A i \in DOMAIN handled' : handled'[i][1] <= Accepted'
    BY <1>1, <1>4, <2>3, <2>13
  <2> QED BY <1>3, <2>15, <2>16 DEF Inbound, IsEnd, LastRan, Rising, InOrder
<1> QED BY <1>5, <1>6 DEF RecvAll, Unread

ReadInv == IpcInv /\ Inbound

LEMMA ReadStarts ==
  ASSUME Init
  PROVE  ReadInv
<1>1. IpcInv BY IpcStarts
<1>2. DOMAIN << >> = {} OBVIOUS
<1>3. IsEnd(<< >>, 0) BY EndOfNone
<1>4. handled = << >> /\ conn = None /\ \A c \in Conns : up[c] = << >> /\ written[c] = 0
  BY DEF Init
<1>5. \A c \in Conns : IsEnd(up[c], written[c]) BY <1>3, <1>4
<1>6. Inbound BY <1>2, <1>4, <1>5 DEF Inbound, Rising, InOrder
<1> QED BY <1>1, <1>6 DEF ReadInv

LEMMA ReadSteps ==
  ASSUME ReadInv, [Next]_vars
  PROVE  ReadInv'
<1>1. IpcInv /\ Inbound BY DEF ReadInv
<1>2. IpcInv' BY <1>1, IpcSteps
<1>3. Typed /\ Arrivals /\ Typed' BY <1>1, <1>2 DEF IpcInv
<1>4. Inbound'
  <2>1. CASE Accept BY <1>1, <1>3, <2>1, AcceptInbound
  <2>2. CASE RecvAll BY <1>1, <1>3, <2>2, RecvAllInbound
  <2>3. CASE Connect BY <1>1, <1>3, <2>3, ConnectInbound
  <2>4. CASE \E c \in Conns : Write(c) BY <1>1, <1>3, <2>4, WriteInbound
  <2>5. CASE Send \/ Flush \/ UNCHANGED vars \/ \E c \in Conns : Read(c) \/ Close(c)
    <3>1. /\ UNCHANGED <<up, written, handled, made, backlog>>
          /\ conn' = None \/ UNCHANGED <<conn, readBuf>>
      BY <2>5 DEF Send, Flush, Read, Close, DropConnection, vars, serverVars, emacsVars
    <3> QED BY <1>1, <1>3, <3>1, OthersInbound
  <2> QED BY <2>1, <2>2, <2>3, <2>4, <2>5 DEF Next
<1> QED BY <1>2, <1>4 DEF ReadInv

(* The variables keep their types; beside, no socket holds more than Cap,   *)
(* nothing is kept of a connection that is gone (drop_connection), and what *)
(* waits and what ran are numbered as sent and written.                     *)
THEOREM SocketTypeCorrect == Spec => []TypeOK
<1>1. Init => ReadInv BY ReadStarts
<1>2. ReadInv /\ [Next]_vars => ReadInv' BY ReadSteps
<1>3. ReadInv => TypeOK
  <2> SUFFICES ASSUME ReadInv PROVE TypeOK OBVIOUS
  <2>1. Typed /\ Waiting /\ Inbound BY DEF ReadInv, IpcInv
  <2>2. pending \in Seq(1 .. MaxSends)
    <3>1. pending \in Seq(Nat) /\ sent \in 0 .. MaxSends BY <2>1 DEF Typed
    <3>2. \A k \in 1 .. Len(pending) : pending[k] \in 1 .. MaxSends
      <4>0. Len(pending) \in Nat BY <3>1
      <4> SUFFICES ASSUME NEW k \in 1 .. Len(pending) PROVE pending[k] \in 1 .. MaxSends
        OBVIOUS
      <4>1. pending[k] = Newest + k /\ Len(pending) <= sent BY <2>1, <3>1 DEF Waiting
      <4>2. pending[k] = (sent - Len(pending)) + k BY <4>1 DEF Newest
      <4> QED BY <3>1, <4>0, <4>1, <4>2, IpcAssumption
    <3> DEFINE T == 1 .. MaxSends
    <3>3. Len(pending) \in Nat /\ pending \in [1 .. Len(pending) -> Nat] BY <3>1
    <3>4. \A k \in 1 .. Len(pending) : pending[k] \in T BY <3>2
    <3> HIDE DEF T
    <3>5. pending \in [1 .. Len(pending) -> T] BY <3>3, <3>4
    <3>6. pending \in Seq(T) BY <3>3, <3>5
    <3> QED BY <3>6 DEF T
  <2>3. handled \in Seq(Conns \X (1 .. MaxWrites))
    <3>1. handled \in Seq(Conns \X Nat) BY <2>1 DEF Typed
    <3>2. ASSUME NEW i \in 1 .. Len(handled) PROVE handled[i] \in Conns \X Nat BY <3>1
    <3>3. ASSUME NEW i \in 1 .. Len(handled)
          PROVE  handled[i] \in Conns \X (1 .. MaxWrites)
      <4>1. handled[i] \in Conns \X Nat BY <3>2
      <4> DEFINE c == handled[i][1]
                 m == handled[i][2]
      <4>2. c \in Conns /\ m \in Nat /\ handled[i] = <<c, m>> BY <4>1
      <4>3. 2 * m <= written[c] BY <2>1, <3>1 DEF Inbound, InOrder
      <4>4. i > 1 => i - 1 \in 1 .. Len(handled) BY <3>1
      <4>5. i > 1 => handled[i - 1][2] \in Nat BY <3>2, <4>4
      <4>6. (i > 1 /\ m = handled[i - 1][2] + 1) \/ m = 1 BY <2>1, <3>1 DEF Inbound, InOrder
      <4>7. written[c] \in Nat /\ written[c] <= 2 * MaxWrites
        <5>1. written \in [Conns -> 0 .. 2 * MaxWrites] BY <2>1 DEF Typed
        <5> HIDE DEF c
        <5>2. written[c] \in 0 .. 2 * MaxWrites BY <4>2, <5>1
        <5> QED BY <5>2, IpcAssumption
      <4> HIDE DEF c, m
      <4>8. m \in 1 .. MaxWrites BY <4>2, <4>3, <4>5, <4>6, <4>7, IpcAssumption
      <4> QED BY <4>2, <4>8
    <3> QED BY <3>1, <3>3
  <2> QED BY <2>1, <2>2, <2>3 DEF Typed, TypeOK
<1> QED BY <1>1, <1>2, <1>3, PTL DEF Spec

(* Commands run once and in the order Emacs wrote them: read_buf keeps the   *)
(* half frame that recv_all did not run, a connection that ends takes it     *)
(* along, and no connection runs anything after its successor was accepted.  *)
THEOREM EmacsIsObeyed == Spec => []CommandsInOrder
<1>1. Init => ReadInv BY ReadStarts
<1>2. ReadInv /\ [Next]_vars => ReadInv' BY ReadSteps
<1>3. ReadInv => CommandsInOrder
  BY DEF ReadInv, Inbound, InOrder, CommandsInOrder
<1> QED BY <1>1, <1>2, <1>3, PTL DEF Spec
=============================================================================
