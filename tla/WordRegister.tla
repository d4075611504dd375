---------------------------- MODULE WordRegister ----------------------------
(***************************************************************************)
(* The 32-bit registers of the devices, which the CPU reads and writes one *)
(* byte at a time: compyter/util.py, under the loops of CPU.loadw and      *)
(* CPU.savew.  A byte is the set of its 1 bits; a word has its bytes in    *)
(* address order, most significant first.                                  *)
(***************************************************************************)
EXTENDS Integers

CONSTANT Bits   \* the bit positions of a byte: 0 .. 7 in the code

Byte == SUBSET Bits
Word == [0 .. 3 -> Byte]
Zero == [k \in 0 .. 3 |-> {}]

(* A mistaken set_word_byte() that clears nothing.                         *)
SetWordByteOr(w, i, v) ==
  [k \in 0 .. 3 |-> IF k = i THEN w[k] \cup v ELSE w[k]]

(* set_word_byte(): mask_table is indexed from the least significant byte  *)
(* but lists the masks from the most significant one, so the byte cleared  *)
(* is the mirror image of the byte the value is ORed into.                 *)
SetWordByte(w, i, v) ==
  [k \in 0 .. 3 |-> IF k = i THEN w[k] \cup v
                    ELSE IF k = 3 - i THEN {} ELSE w[k]]

(* CPU.savew(): the four bytes in address order.                           *)
StoreWord(w, v) ==
  SetWordByte(SetWordByte(SetWordByte(SetWordByte(
    w, 0, v[0]), 1, v[1]), 2, v[2]), 3, v[3])

(* What is left of a word: its low half.                                   *)
LowHalf(v) == [k \in 0 .. 3 |-> IF k < 2 THEN {} ELSE v[k]]
=============================================================================
