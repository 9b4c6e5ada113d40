--------------------------- MODULE MassStorageDriver ---------------------------
(***************************************************************************)
(* The USB disk under hosts whose drivers keep the last block of a command *)
(* among those that 32 bits can number.  The range check of the firmware   *)
(* (usb_scsi.c:409) adds in 32 bits and is right for no others: the run    *)
(* mass_wrap sends the command that it lets through.                       *)
(***************************************************************************)
EXTENDS MassStorage

\* Commands without an address have 0 in both places.
ASSUME AddressesFit == \A c \in Commands : c.lba + c.n < Word
================================================================================
