------------------------------- MODULE Storage -------------------------------
(***************************************************************************)
(* compyter/hardware/storage.py: a window on an image file, moved by an    *)
(* offset register, with a write-enable register.  Only the CPU's thread   *)
(* uses it, so an instruction is a step.                                   *)
(***************************************************************************)
EXTENDS WordRegister, FiniteSetsExt

CONSTANTS
  ImageSize,     \* bytes in the image
  Window,        \* bytes in the window: 512 in the code
  Data,          \* the values of the image's bytes told apart
  OffsetWords,   \* the words the guest stores to the offset register
  EnableWords    \* the words it stores to the write-enable register

ASSUME StorageAssumption ==
  /\ ImageSize \in Nat \ {0} /\ Window \in Nat \ {0}
  /\ OffsetWords \cup EnableWords \subseteq Word

VARIABLES
  offset,    \* Storage.offset
  wrenable,  \* Storage.wrenable
  image,     \* Storage.storage_map
  crashed,   \* mmap raised IndexError, which nothing catches
  fits,      \* history: the guest wrote the offset only in whole words whose
             \* high half is empty; asked and disk are kept as long as it did
  asked,     \* history: the offset it wrote
  inside,    \* history: it wrote only whole words, windows of the image
  disk       \* history: the image as it wrote it

vars == <<offset, wrenable, image, crashed, asked, fits, inside, disk>>

(* The number a word stands for, bit 0 of byte 3 counting 1: its bytes are *)
(* the digits of it.  That each is a digit is a fact about sums over sets, *)
(* which TLC evaluates.                                                    *)
ByteValue(b) == MapThenSumSet(LAMBDA i : 2 ^ i, b)
Base == 2 ^ Cardinality(Bits)
Value(w) ==
  ((ByteValue(w[0]) * Base + ByteValue(w[1])) * Base + ByteValue(w[2])) * Base
    + ByteValue(w[3])

ASSUME ByteAssumption ==
  /\ Base \in Nat /\ ByteValue({}) = 0
  /\ \A b \in Byte : ByteValue(b) \in 0 .. Base - 1

Init ==
  /\ offset = Zero /\ wrenable = TRUE
  /\ image \in [0 .. ImageSize - 1 -> Data]
  /\ crashed = FALSE
  /\ asked = Zero /\ fits = TRUE /\ inside = TRUE
  /\ disk = image

Positions == 0 .. ImageSize - 1

OnWindow(n) == n % Window = 0 /\ n < ImageSize

(* savew to the offset register.                                           *)
StoreOffset ==
  /\ ~crashed
  /\ \E v \in OffsetWords :
       /\ offset' = StoreWord(offset, v)
       /\ fits' = (fits /\ v = LowHalf(v))
       /\ asked' = IF fits' THEN v ELSE Zero
       /\ inside' = (inside /\ OnWindow(Value(v)))
  /\ UNCHANGED <<wrenable, image, crashed, disk>>

(* saveb to one of its bytes.                                              *)
StoreOffsetByte ==
  /\ ~crashed
  /\ \E i \in 0 .. 3, v \in OffsetWords :
       offset' = SetWordByte(offset, i, v[i])
  /\ fits' = FALSE /\ inside' = FALSE /\ asked' = Zero
  /\ UNCHANGED <<wrenable, image, crashed, disk>>

(* savew to the write-enable register: each byte sets the flag anew.       *)
StoreEnable ==
  /\ ~crashed
  /\ \E v \in EnableWords : wrenable' = (v[3] # {})
  /\ UNCHANGED <<offset, image, crashed, asked, fits, inside, disk>>

(* saveb to one of its bytes, which sets the flag like any other.          *)
StoreEnableByte ==
  /\ ~crashed
  /\ \E b \in Byte : wrenable' = (b # {})
  /\ UNCHANGED <<offset, image, crashed, asked, fits, inside, disk>>

(* saveb to byte i of the window.                                          *)
Write(i, d) ==
  /\ wrenable /\ Value(offset) + i \in Positions
  /\ image' = [image EXCEPT ![Value(offset) + i] = d]
  /\ disk' = IF fits THEN [disk EXCEPT ![Value(asked) + i] = d] ELSE image'
  /\ UNCHANGED crashed

(* A load looks at the image whatever the flag is, a store only if writes  *)
(* are enabled: it is dropped otherwise.                                   *)
Beyond(i) ==
  /\ Value(offset) + i \notin Positions
  /\ crashed' = TRUE
  /\ UNCHANGED <<image, disk>>

Access ==
  /\ ~crashed
  /\ \E i \in 0 .. Window - 1 : Beyond(i) \/ \E d \in Data : Write(i, d)
  /\ UNCHANGED <<offset, wrenable, asked, fits, inside>>

Dead == crashed /\ UNCHANGED vars

Next ==
  \/ StoreOffset \/ StoreOffsetByte \/ StoreEnable \/ StoreEnableByte
  \/ Access \/ Dead

Spec == Init /\ [][Next]_vars

-----------------------------------------------------------------------------
TypeOK ==
  /\ offset \in Word /\ wrenable \in BOOLEAN
  /\ image \in [Positions -> Data] /\ crashed \in BOOLEAN
  /\ asked \in Word /\ fits \in BOOLEAN /\ inside \in BOOLEAN
  /\ disk \in [Positions -> Data]

(* README:124.  A guest that moves the window only with whole words whose  *)
(* high half is 0 finds every byte where it put it, whatever the order of  *)
(* its moves and writes.                                                   *)
StoredLow == fits => image = disk

(* README:122.  On an image of whole windows, a window moved by whole      *)
(* windows within the image never reaches beyond it, though the register   *)
(* may not hold what was written: the half of a word that is lost counts   *)
(* whole windows (of 512 bytes in the code).                               *)
StaysInside ==
  ImageSize % Window = 0 /\ (Base * Base) % Window = 0 /\ inside
    => ~crashed
=============================================================================
