--------------------------- MODULE MCMassStorage ---------------------------
(* A card of two blocks of two packets each, and the commands of the runs.   *)
EXTENDS MassStorageDriver

Command(op, lba, n, len, dir) ==
  [op |-> op, lba |-> lba, n |-> n, len |-> len, dir |-> dir, form |-> "ok"]

Transfers ==
  {Command("TEST_UNIT_READY", 0, 0, 0, "OUT"),
   Command("READ10", 1, 1, 4, "IN"),
   Command("READ10", 0, 2, 8, "IN"),
   Command("WRITE10", 0, 2, 8, "OUT"),
   Command("WRITE10", 0, 1, 4, "OUT"),
   Command("WRITE10", 1, 1, 4, "OUT")}

Others ==
  {Command("INQUIRY", 0, 0, 1, "IN"),
   Command("INQUIRY", 0, 0, 0, "IN"),
   Command("READ_CAPACITY10", 0, 0, 2, "IN"),
   Command("READ10", 1, 2, 8, "IN"),        \* past the end of the card
   Command("READ10", 0, 1, 4, "OUT"),       \* wrong direction
   Command("WRITE10", 1, 2, 8, "OUT"),
   Command("WRITE10", 0, 1, 4, "IN"),
   Command("START_STOP_UNIT", 0, 0, 0, "OUT"),
   Command("VERIFY10", 0, 0, 4, "OUT"),
   Command("FORMAT_UNIT", 0, 0, 0, "OUT"),
   Command("MODE_SELECT6", 0, 0, 2, "OUT"),
   Command("UNKNOWN", 0, 0, 0, "IN"),
   [Command("READ10", 0, 1, 4, "IN") EXCEPT !.form = "short"],
   [Command("WRITE10", 0, 1, 4, "OUT") EXCEPT !.form = "badsig"],
   [Command("READ10", 0, 1, 4, "IN") EXCEPT !.form = "badlun"]}

MCCommands == Transfers \cup Others
=============================================================================
