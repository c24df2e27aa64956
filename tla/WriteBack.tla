------------------------------ MODULE WriteBack ------------------------------
(***************************************************************************)
(* What the write cache promises to the application: writes are accepted   *)
(* at once and reach the file in the background, the file never goes back  *)
(* to an older version, and a synchronising call returns only when every   *)
(* accepted write is in the file.                                          *)
(***************************************************************************)
EXTENDS Integers

CONSTANT Blocks

VARIABLES
  stored,   \* version of each block in the global file
  accepted, \* version of the last accepted write of each block
  call      \* the call being executed, "none" between calls

vars == <<stored, accepted, call>>

Init ==
  /\ stored = [b \in Blocks |-> 0]
  /\ accepted = [b \in Blocks |-> 0]
  /\ call = "none"

Invoke ==
  /\ call = "none" /\ call' # "none"
  /\ UNCHANGED <<stored, accepted>>

(* Accept a write: the blocks that change get one version, younger than    *)
(* all the others.                                                         *)
Accept ==
  /\ call = "write" /\ call' \in {"write", "none"}
  /\ accepted' = [b \in Blocks |-> accepted'[b]]
  /\ \A b \in Blocks : accepted'[b] # accepted[b] =>
       \A c \in Blocks : /\ accepted'[b] > accepted[c]
                         /\ accepted'[c] \in {accepted[c], accepted'[b]}
  /\ UNCHANGED stored

(* Data moves to the file in the background of any call.                   *)
Transfer ==
  /\ \A b \in Blocks : stored'[b] >= stored[b]
  /\ UNCHANGED <<accepted, call>>

Durable == \A b \in Blocks : stored[b] >= accepted[b]

Return ==
  /\ call # "none" /\ call' = "none"
  /\ call \in {"sync", "alloc", "close"} => Durable
  /\ UNCHANGED <<stored, accepted>>

Next == Invoke \/ Accept \/ Transfer \/ Return

Spec == Init /\ [][Next]_vars
==============================================================================
