------------------------------- MODULE KvInt -------------------------------
(***************************************************************************)
(* The numbers in the files of libkvdb: kvdb.c, Int2Str, and their reading *)
(* back as a uint32_t of a machine with the low byte first.                *)
(***************************************************************************)
EXTENDS Integers

VARIABLE number             \* a length or an offset

Byte == 256

\* Faulty variant: the second mask is a digit short.
Int2StrShort(d) ==
    <<d % Byte, (d \div 2 ^ 8) % 16, (d \div 2 ^ 16) % Byte, 16 * (d \div 2 ^ 28) % Byte>>

\* The last mask, 0xff0000000, has seven zeros where it ought to have six.
Int2Str(d) ==
    <<d % Byte, (d \div 2 ^ 8) % Byte, (d \div 2 ^ 16) % Byte,
      16 * (d \div 2 ^ 28) % Byte>>

ReadBack(s) == s[1] + 2 ^ 8 * s[2] + 2 ^ 16 * s[3] + 2 ^ 24 * s[4]

\* Every bit of its own, and those with one next to it, as far as integers of 31 bits go.
SomeNumbers == {0} \cup {2 ^ i : i \in 0 .. 30} \cup {2 ^ i - 1 : i \in 1 .. 30}
                   \cup {2 ^ i + 2 ^ j : i \in 0 .. 29, j \in 0 .. 29}

KvIntInit == number \in SomeNumbers

\* Lengths and offsets below 16 MiB are read back as written; above, the bits 24 to 27
\* are lost and nothing else.  This says how far the fault of the last mask goes: with
\* the right mask nothing would be lost.
OffsetsKept ==
    LET lost == (number \div 2 ^ 24) % 16
    IN  ReadBack(Int2Str(number)) = number - 2 ^ 24 * lost
=============================================================================
