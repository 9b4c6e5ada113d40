----------------------------- MODULE MCMassWrap -----------------------------
(* The same card, and a write whose first block is the last one that the     *)
(* address can name: the block after it is block 0.                         *)
EXTENDS MassStorage

Command(op, lba, n, len) ==
  [op |-> op, lba |-> lba, n |-> n, len |-> len, dir |-> "OUT", form |-> "ok"]

Wrapping ==
  {Command("TEST_UNIT_READY", 0, 0, 0),
   Command("WRITE10", Word - 1, 2, 2 * BlockSize)}
=============================================================================
