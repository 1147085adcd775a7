----------------------------- MODULE EchoSocket -----------------------------
(***************************************************************************)
(* External: the socket of one connection to an echo server and the peer   *)
(* behind it, as the servers use them.  Bytes arrive in order and wait to  *)
(* be received; what the server sends fills the send buffer until the peer *)
(* reads it; the peer may close its side, and the connection may fail, at  *)
(* any moment.  Byte number i of the peer's stream is the number i.        *)
(***************************************************************************)
EXTENDS Integers, Sequences

CONSTANTS
  SndCap,    \* capacity of the send buffer
  Window,    \* how many bytes the peer lets go unanswered
  MaxBytes   \* bound: bytes the peer sends on the connection

ASSUME SocketAssumption ==
  SndCap \in Nat \ {0} /\ Window \in Nat \ {0} /\ MaxBytes \in Nat

VARIABLES
  arrived,  \* bytes the peer's stream has brought to the socket
  fin,      \* the peer has closed its side
  rst,      \* the connection has failed
  drained,  \* how many bytes of the reply the peer has read
  rcvd,     \* bytes the server has received from the socket
  out       \* the bytes the socket has accepted from the server

peer   == <<arrived, fin, rst, drained>>
socket == <<peer, rcvd, out>>

Least(a, b) == IF a <= b THEN a ELSE b
Available   == arrived - rcvd                    \* bytes waiting to be received
Free        == SndCap - (Len(out) - drained)     \* room in the send buffer
Readable    == Available > 0 \/ fin \/ rst

SocketInit ==
  /\ arrived = 0 /\ fin = FALSE /\ rst = FALSE /\ drained = 0
  /\ rcvd = 0 /\ out = <<>>

PeerSends ==
  /\ ~fin /\ ~rst
  /\ arrived < MaxBytes /\ arrived - drained < Window
  /\ arrived' = arrived + 1
  /\ UNCHANGED <<fin, rst, drained, rcvd, out>>

PeerCloses ==
  /\ ~fin /\ ~rst
  /\ fin' = TRUE
  /\ UNCHANGED <<arrived, rst, drained, rcvd, out>>

ConnectionFails ==
  /\ ~rst
  /\ rst' = TRUE
  /\ UNCHANGED <<arrived, fin, drained, rcvd, out>>

PeerReads ==
  /\ drained < Len(out)
  /\ drained' = drained + 1
  /\ UNCHANGED <<arrived, fin, rst, rcvd, out>>

SocketType ==
  /\ arrived \in 0..MaxBytes /\ rcvd \in 0..arrived
  /\ fin \in BOOLEAN /\ rst \in BOOLEAN
  /\ out \in Seq(Nat) /\ drained \in 0..Len(out)

\* Every byte handed to send is the next byte of the client's stream: no byte
\* is lost, repeated or replaced, whatever buffering, partial sends and
\* interleaving of callbacks lie between the recv and the send.
EchoIsPrefix == \A i \in 1..Len(out) : out[i] = i

=============================================================================
