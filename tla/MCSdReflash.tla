----------------------------- MODULE MCSdReflash -----------------------------
(* A flash of four sectors of two words, and files that end in the middle   *)
(* of a word, of a sector, at a sector's end and at the end of the flash.    *)
EXTENDS SdReflash

CONSTANTS stk, a, b   \* stk: a byte of a valid stack pointer

Image(first, byte, length) ==
  [i \in 1..length |-> IF i <= 4 THEN first ELSE byte]

MCFiles ==
  {Image(stk, a, 6), Image(stk, a, 8), Image(stk, a, 8) \o <<b, b, b, b, b>>,
   Image(a, b, 32), <<>>}

MCByte == {stk, a, b, Erased, Torn}

\* A blank chip, and one with an older image.
MCInitialFlash ==
  {[x \in Flash |-> Erased],
   [x \in Flash |-> IF x < 4 THEN stk ELSE IF x < 30 THEN a ELSE Erased]}

MCTornParts == {0..3, 4..7, 0..7}
=============================================================================
