---------------------------- MODULE EchoChannel ----------------------------
(***************************************************************************)
(* What every server of the contest promises for one connection, and what  *)
(* the load clients check: the bytes sent back are the bytes received, in  *)
(* order, none missing, none invented.  Byte number i of the client's      *)
(* stream is represented by the number i, so a faithful reply of m bytes   *)
(* is the sequence 1, 2, ..., m.                                           *)
(***************************************************************************)
EXTENDS Naturals, Sequences

VARIABLES
  recvd,   \* how many bytes of the client's stream the server has taken
  out,     \* the bytes the server has handed to the socket, in order
  open     \* the server has not closed the connection

vars == <<recvd, out, open>>

Stream(m) == [i \in 1..m |-> i]

Init ==
  /\ recvd = 0
  /\ out = <<>>
  /\ open = TRUE

\* The server takes some more bytes (perhaps none) and replies with some more
\* of those it has taken (perhaps none).
Echo ==
  /\ open /\ open'
  /\ recvd' \in Nat
  /\ recvd' >= recvd
  /\ \E m \in Len(out)..recvd' : out' = Stream(m)

\* The server gives the connection up, whatever it still owed.
Close ==
  /\ open /\ ~open'
  /\ recvd' \in Nat
  /\ recvd' >= recvd
  /\ UNCHANGED out

Next == Echo \/ Close

Spec == Init /\ [][Next]_vars

============================================================================
