--------------------------- MODULE FirmwareUpdate ---------------------------
(***************************************************************************)
(* What an update of a flash promises, whoever does it: the host tool over *)
(* DFU (DfuSession) and the mass-storage firmware from the file on its     *)
(* disk (SdReflash) both implement this specification.  An attempt changes *)
(* the flash in any way it likes inside its scope, may be given up at any  *)
(* point, and is done only when the flash holds the goal; what is done     *)
(* stays until somebody starts the next attempt.                           *)
(***************************************************************************)
EXTENDS Integers

VARIABLES
  content,  \* the flash
  goal,     \* what it shall hold: a function on some of its addresses
  scope,    \* the addresses the update may touch
  done      \* the user was told that the flash holds the goal

updateVars == <<content, goal, scope, done>>

GoalHeld == \A a \in DOMAIN goal : content[a] = goal[a]

UpdateInit == done = FALSE

\* The next attempt, possibly with another goal.
Start == done' = FALSE /\ content' = content

\* Erasing, programming, or losing the power in the middle of either.
Change ==
  /\ done = FALSE /\ done' = FALSE
  /\ goal' = goal /\ scope' = scope
  /\ DOMAIN content' = DOMAIN content
  /\ \A a \in DOMAIN content \ scope : content'[a] = content[a]

Finish ==
  /\ GoalHeld /\ done' = TRUE
  /\ content' = content /\ goal' = goal /\ scope' = scope

UpdateNext == Start \/ Change \/ Finish
UpdateSpec == UpdateInit /\ [][UpdateNext]_updateVars
=============================================================================
