-------------------------------- MODULE Fifo ---------------------------------
(***************************************************************************)
(* What the atomic queue promises: requests are handed over one at a time, *)
(* in the order they were put, and none is lost or handed over twice.      *)
(***************************************************************************)
EXTENDS Sequences

CONSTANT Request

VARIABLES
  queue,  \* requests put and not yet taken
  taken   \* requests taken, in order

Init == queue = <<>> /\ taken = <<>>

Put(r) == queue' = Append(queue, r) /\ UNCHANGED taken

Get ==
  /\ queue # <<>>
  /\ taken' = Append(taken, Head(queue))
  /\ queue' = Tail(queue)

Next == (\E r \in Request : Put(r)) \/ Get
vars == <<queue, taken>>
Spec == Init /\ [][Next]_vars
==============================================================================
