----------------------------- MODULE MCDfuDevice -----------------------------
(***************************************************************************)
(* A small bootloader for TLC: a page of boot code and a page of           *)
(* application, two packets each, and blocks of two packets.               *)
(***************************************************************************)
EXTENDS DfuDevice

CONSTANT stack   \* a packet that starts with a valid stack pointer

MCFlashUnits == 0 .. 3
MCApplicationAddress == 2
MCOutside == 9     \* an address of another medium
DownloadCommands ==
  {[op |-> "GETCOMMANDS", addr |-> ApplicationAddress],
   [op |-> "ERASE", addr |-> ApplicationAddress],
   [op |-> "SETADDRESSPOINTER", addr |-> MCOutside]}
NoCommands == {[op |-> "GETCOMMANDS", addr |-> ApplicationAddress]}

\* The boot page is programmed, the application page erased.
MCInitialFlash ==
  {[u \in FlashUnits |-> IF u < ApplicationAddress THEN stack ELSE Erased]}

MCRequest(r, blks, lens) == [req : {r}, blk : blks, len : lens]

\* What a download uses: commands, one block of one or two packets, the end, and the
\* requests that move the state between them.
DownloadRequests ==
  MCRequest("DNLOAD", {0}, {0, 5}) \cup MCRequest("DNLOAD", {2}, {64, 128})
    \cup MCRequest("GETSTATUS", {0}, {6}) \cup MCRequest("CLRSTATUS", {0}, {0})
    \cup MCRequest("ABORT", {0}, {0}) \cup MCRequest("UPLOAD", {0}, {0})

\* Every request, with the lengths that tell its cases apart; no special commands.
AllRequests ==
  MCRequest("DNLOAD", {0}, {0}) \cup MCRequest("DNLOAD", {2}, {128})
    \cup MCRequest("UPLOAD", {0}, {0, 4}) \cup MCRequest("UPLOAD", {1}, {128})
    \cup MCRequest("UPLOAD", {2}, {128})
    \cup MCRequest("GETSTATUS", {0}, {6}) \cup MCRequest("GETSTATE", {0}, {1})
    \cup MCRequest("CLRSTATUS", {0}, {0}) \cup MCRequest("ABORT", {0}, {0})
    \cup MCRequest("DETACH", {0}, {0}) \cup MCRequest("GET_DESCRIPTOR", {0}, {128})
    \cup MCRequest("SET_CONFIGURATION", {0}, {0})
==============================================================================
