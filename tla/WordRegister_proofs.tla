------------------------- MODULE WordRegister_proofs -------------------------
(***************************************************************************)
(* What a store of a word to a register of a device comes to, for bytes of *)
(* any width.                                                              *)
(***************************************************************************)
EXTENDS WordRegister, TLAPS

(* util.py:4.  CPU.savew into a register leaves the low half of the word,  *)
(* and nothing of its high half, whatever the register held.               *)
THEOREM StoreWordLowHalf ==
  ASSUME NEW w \in Word, NEW v \in Word
  PROVE  StoreWord(w, v) = LowHalf(v)
BY DEF StoreWord, SetWordByte, LowHalf, Word

LEMMA SetWordByteType ==
  ASSUME NEW w \in Word, NEW i \in 0 .. 3, NEW v \in Byte
  PROVE  SetWordByte(w, i, v) \in Word
<1>1. ASSUME NEW k \in 0 .. 3 PROVE SetWordByte(w, i, v)[k] \in Byte
  BY <1>1 DEF SetWordByte, Word, Byte
<1>. QED
  BY <1>1 DEF SetWordByte, Word

LEMMA ZeroType == Zero \in Word
BY DEF Zero, Word, Byte
=============================================================================
