----------------------------- MODULE Scancodes -----------------------------
(***************************************************************************)
(* The keys (enum Scancode of abstracteventprovider.h), their names        *)
(* (operator<< of abstracteventprovider.cpp), and the character            *)
(* ClientEventHandler::keySym (eventhandler.cpp) gives for each, without   *)
(* shift and with it.  Letters and digits are told apart, what the other   *)
(* keys give is not.                                                       *)
(***************************************************************************)
EXTENDS Integers, Sequences

LetterCodes == 4 .. 29
DigitCodes == 30 .. 39
ScancodeU == 24
ScancodeLShift == 225
ScancodesCount == 512

\* Codes between those of keys.
Gaps == (1 .. 3) \cup (130 .. 132) \cup (165 .. 175) \cup (222 .. 223)
          \cup (232 .. 256) \cup (291 .. 511)
Scancode == (0 .. ScancodesCount - 1) \ Gaps

LetterNames ==
  <<"A", "B", "C", "D", "E", "F", "G", "H", "I", "J", "K", "L", "M",
    "N", "O", "P", "Q", "R", "S", "T", "U", "V", "W", "X", "Y", "Z">>
DigitNames == <<"1", "2", "3", "4", "5", "6", "7", "8", "9", "0">>

LowerSyms ==
  <<"a", "b", "c", "d", "e", "f", "g", "h", "i", "j", "k", "l", "m",
    "n", "o", "p", "q", "r", "s", "t", "u", "v", "w", "x", "y", "z">>

\* Of U it is T.
UpperSyms ==
  <<"A", "B", "C", "D", "E", "F", "G", "H", "I", "J", "K", "L", "M",
    "N", "O", "P", "Q", "R", "S", "T", "T", "V", "W", "X", "Y", "Z">>

DigitSyms == <<"1", "2", "3", "4", "5", "6", "7", "8", "9", "0">>

\* One character all the same: a sign, a letter or digit of the keypad, or, of
\* the keys that have none, 0.
OtherSym == "other"

keySym(scancode, upper) ==
  CASE scancode \in LetterCodes /\ upper -> UpperSyms[scancode - 3]
    [] scancode \in LetterCodes /\ ~upper -> LowerSyms[scancode - 3]
    [] scancode \in DigitCodes /\ ~upper -> DigitSyms[scancode - 29]
    [] OTHER -> OtherSym
=============================================================================
