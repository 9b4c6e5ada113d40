----------------------------- MODULE MCDfuSession -----------------------------
(***************************************************************************)
(* Updates of a flash of four pages of two packets: the bootloader's page, *)
(* three of application, the blocks of the transfers as long as a page.    *)
(***************************************************************************)
EXTENDS DfuSession

CONSTANTS stack, a, c, d,  \* packets of the images; stack is a valid first one
          old              \* what the flash held before

\* Packets of data that read as a command when they are left in the device's buffer: to
\* erase a page of the application, and to erase the bootloader's.
b     == [op |-> "ERASE", addr |-> 4]
worse == [op |-> "ERASE", addr |-> 0]

MCFlashUnits == 0 .. 7
MCData == {stack, a, b, c, d, old, worse}

\* The application's first page is erased, an older image left in the others.
MCInitialFlash == {[u \in MCFlashUnits |-> IF u \in {2, 3} THEN Erased ELSE old]}

MCCommands ==
  {[op |-> "GETCOMMANDS", addr |-> ApplicationAddress], worse}
    \cup [op : {"ERASE", "SETADDRESSPOINTER"}, addr : 2 .. 7]

MCRequests ==
  [req : {"GETSTATUS"}, blk : {0}, len : {6}]
    \cup [req : {"CLRSTATUS", "ABORT", "DETACH"}, blk : {0}, len : {0}]
    \cup [req : {"DNLOAD"}, blk : {0}, len : {5}]
    \cup [req : {"DNLOAD"}, blk : {2}, len : {64, 128}]
    \cup [req : {"UPLOAD"}, blk : 2 .. 4, len : {128}]

Layout(pagesize) ==
  {[start |-> 0, end |-> 1, pagesize |-> pagesize, writeable |-> FALSE, erasable |-> FALSE,
    readable |-> TRUE],
   [start |-> 2, end |-> 7, pagesize |-> pagesize, writeable |-> TRUE, erasable |-> TRUE,
    readable |-> TRUE]}
TruePages == Layout(2)
HalfPages == Layout(1)

\* Two elements that share a page, the second one across a page boundary.
Contiguous == <<[addr |-> 2, data |-> <<stack, a, b>>], [addr |-> 5, data |-> <<c, d>>]>>
\* One page of application; an element in the bootloader's page after it.
OnePage    == <<[addr |-> 2, data |-> <<stack, a>>]>>
OverBoot   == <<[addr |-> 2, data |-> <<stack, a>>], [addr |-> 0, data |-> <<b>>]>>
\* An element that returns to a page already left.
Returning  == <<[addr |-> 2, data |-> <<stack>>], [addr |-> 4, data |-> <<b>>],
                [addr |-> 3, data |-> <<a>>]>>
\* A chunk that begins with such a packet, and one after it.
Looking    == <<[addr |-> 2, data |-> <<stack, a, worse, c, d>>]>>
\* An element that starts in the middle of a page.
Unaligned  == <<[addr |-> 3, data |-> <<a, b, c>>]>>

NoAddresses   == {}
AnyAddress    == {0, 2, 5}

AnyImage      == {Contiguous, OnePage, OverBoot}
GoodImages    == {Contiguous, OnePage}
ReturningOnly == {Returning}
UnalignedOnly == {Unaligned}
LookingOnly   == {Looking}
===============================================================================
