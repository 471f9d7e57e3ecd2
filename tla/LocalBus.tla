------------------------------ MODULE LocalBus ------------------------------
(* What the D-Bus proxy promises to a client and to the session bus behind  *)
(* it, as if there were no sockets: a bus on which some calls are answered  *)
(* by emskin.  A call is answered here or received by the bus, never both;  *)
(* the bus sees the other calls in the order they were made; the client     *)
(* sees what the bus says in the order it was said, and in between, as      *)
(* whole messages, emskin's answers in the order of the calls and emskin's  *)
(* own signals.  A message arrives with the descriptors it was sent with.   *)
EXTENDS Sequences, SequencesExt

CONSTANTS
  Intercepted(_),   \* is this call of the client answered by emskin?
  Fds(_)            \* the descriptors that a message carries

VARIABLES
  asked,            \* messages of the client, in order
  received,         \* what the bus has received, with descriptors
  said,             \* messages of the bus, in order
  heard             \* what the client has received, with descriptors

busVars == <<asked, received, said, heard>>

Delivery(m) == [msg |-> m, fds |-> Fds(m)]

Of(deliveries, src) == SelectSeq(deliveries, LAMBDA d : d.msg.src = src)

LocalAnswers == SelectSeq(heard, LAMBDA d : d.msg.src = "proxy" /\ d.msg.kind = "reply")

Init == asked = <<>> /\ received = <<>> /\ said = <<>> /\ heard = <<>>

(* The client makes a call, or the bus sends replies or signals.            *)
Asks == /\ Len(asked') = Len(asked) + 1 /\ IsPrefix(asked, asked')
        /\ UNCHANGED <<received, said, heard>>

Says == /\ IsStrictPrefix(said, said')
        /\ UNCHANGED <<asked, received, heard>>

(* The bus receives the next call that is not answered here.  It may answer *)
(* in the same step.                                                        *)
Receives ==
  LET calls == SelectSeq(asked, LAMBDA m : ~Intercepted(m))
  IN /\ Len(received) < Len(calls)
     /\ received' = Append(received, Delivery(calls[Len(received) + 1]))
     /\ IsPrefix(said, said')
     /\ UNCHANGED <<asked, heard>>

(* The client hears the next message of the bus, ...                        *)
HearsBus ==
  LET relayed == Of(heard, "bus")
  IN /\ Len(relayed) < Len(said)
     /\ heard' = Append(heard, Delivery(said[Len(relayed) + 1]))
     /\ UNCHANGED <<asked, received, said>>

(* ... or the answer to the next of its calls that emskin answers, ...      *)
HearsAnswer ==
  LET calls == SelectSeq(asked, Intercepted)
  IN /\ Len(LocalAnswers) < Len(calls)
     /\ heard' # heard /\ Front(heard') = heard
     /\ Last(heard').msg.src = "proxy"
     /\ Last(heard').msg.kind = "reply"
     /\ Last(heard').msg.to = calls[Len(LocalAnswers) + 1].n
     /\ Last(heard').fds = <<>>
     /\ UNCHANGED <<asked, received, said>>

(* ... or a signal of emskin: text that the input method has committed.     *)
HearsSignal ==
  /\ heard' # heard /\ Front(heard') = heard
  /\ Last(heard').msg.src = "proxy"
  /\ Last(heard').msg.kind = "commit"
  /\ Last(heard').fds = <<>>
  /\ UNCHANGED <<asked, received, said>>

Next == Asks \/ Says \/ Receives \/ HearsBus \/ HearsAnswer \/ HearsSignal

Spec == Init /\ [][Next]_busVars
=============================================================================
