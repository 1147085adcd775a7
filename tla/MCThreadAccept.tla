-------------------------- MODULE MCThreadAccept --------------------------
(***************************************************************************)
(* ThreadAccept with three loops (main and two threads), the smallest      *)
(* number in which two losers race for the mutex behind a winner.          *)
(***************************************************************************)
EXTENDS ThreadAccept

MCThreads == <<"t1", "t2">>

=============================================================================
