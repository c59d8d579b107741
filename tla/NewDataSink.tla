---------------------------- MODULE NewDataSink ----------------------------
(***************************************************************************)
(* What the `new` commands of block_image_update promise, without threads: *)
(* when its turn comes, a command copies the next units of the archive     *)
(* entry to its own target, in order; the next command gets its turn only  *)
(* when the target is full; and nothing is written any more once the       *)
(* update has ended.                                                       *)
(***************************************************************************)
EXTENDS Integers

CONSTANTS NewCmds, End

VARIABLES cmd,     \* the `new` command whose turn it is, 0 before the first
          at,      \* the last target position that has been written
          status,  \* "running", "ok" or "failed"
          block    \* block[p]: the unit at target position p, 0 if none

vars == <<cmd, at, status, block>>

Init ==
  /\ cmd = 0 /\ at = 0 /\ status = "running"
  /\ block = [p \in 1..End[NewCmds] |-> 0]

\* The previous target is full and the next command begins.
Begin ==
  /\ status = "running" /\ cmd < NewCmds /\ at = End[cmd]
  /\ cmd' = cmd + 1
  /\ UNCHANGED <<at, status, block>>

\* Copy the next n units of the entry to the next n positions of the target.
Copy(n) ==
  /\ status = "running" /\ at + n <= End[cmd]
  /\ at' = at + n
  /\ block' = [p \in 1..End[NewCmds] |-> IF at < p /\ p <= at + n THEN p ELSE block[p]]
  /\ UNCHANGED <<cmd, status>>

\* All targets are full.
Succeed ==
  /\ status = "running" /\ cmd = NewCmds /\ at = End[NewCmds]
  /\ status' = "ok"
  /\ UNCHANGED <<cmd, at, block>>

\* The update gives up, possibly in a command that has not copied anything.
Fail ==
  /\ status = "running"
  /\ status' = "failed"
  /\ cmd' = cmd \/ (cmd < NewCmds /\ at = End[cmd] /\ cmd' = cmd + 1)
  /\ UNCHANGED <<at, block>>

Next == Begin \/ Succeed \/ Fail \/ \E n \in 0..End[NewCmds] : Copy(n)

Spec == Init /\ [][Next]_vars
=============================================================================
