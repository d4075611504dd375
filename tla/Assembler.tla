------------------------------ MODULE Assembler ------------------------------
(***************************************************************************)
(* The assembler (assemble.py): one pass over the statements of a source,  *)
(* which puts out bytes as it goes and fills in the addresses of labels    *)
(* that were used before they were defined.  The source is any sequence    *)
(* of statements.  Bytes are told apart only as parts of addresses.        *)
(***************************************************************************)
EXTENDS Integers, Sequences

CONSTANTS
  Labels,        \* the names of labels
  NoLabel,       \* a word of an instruction that is no label
  Statements,    \* the statements a source is made of
  MaxStatements  \* bound: statements in a source

(* Of an instruction, words are its parameters but for the floats, of      *)
(* which only the number matters.  Data and !zero are bytes to fill in.    *)
Statement ==
  [op : {"label"}, name : Labels]
    \cup [op : {"inst"}, floats : 0 .. 1,
          words : UNION {[1 .. n -> Labels \cup {NoLabel}] : n \in 0 .. 3}]
    \cup [op : {"fill"}, size : Nat]
    \cup [op : {"align"}, to : Nat \ {0}]

ASSUME StatementsAssumption ==
  /\ NoLabel \notin Labels
  /\ Statements \subseteq Statement
  /\ \A s \in Statements : s.op = "inst" => Len(s.words) + s.floats <= 3
  /\ MaxStatements \in Nat

VARIABLES
  here,     \* len(output)
  output,   \* output: what each byte is
  symtable, \* symtable_label
  pending,  \* label_pending
  asmAt,    \* "parse", then "written", or "failed" by an exception
  refs,     \* history: the words of the output that stand for a label
  source    \* history: the statements so far

asmVars == <<here, output, symtable, pending, asmAt, refs, source>>

Undefined == -1

(* A byte that is no part of an address, and byte k of address a.          *)
Plain == <<-1, 0>>
Part(a, k) == <<a, k>>

AsmInit ==
  /\ here = 0 /\ output = [p \in 0 .. here - 1 |-> Plain]
  /\ symtable = [l \in Labels |-> Undefined]
  /\ pending = [l \in Labels |-> {}]
  /\ asmAt = "parse"
  /\ refs = {} /\ source = <<>>

Parsed(s) ==
  /\ asmAt = "parse" /\ Len(source) < MaxStatements
  /\ s \in Statements
  /\ source' = Append(source, s)

(* output.extend(), by n bytes.                                            *)
Extend(n, bytes) ==
  /\ here' = here + n
  /\ output' = [p \in 0 .. here + n - 1 |->
                  IF p < here THEN output[p] ELSE bytes[p - here]]

Padding(n) == [q \in 0 .. n - 1 |-> Plain]

Fill(s) ==
  /\ Parsed(s) /\ s.op = "fill"
  /\ Extend(s.size, Padding(s.size))
  /\ UNCHANGED <<symtable, pending, asmAt, refs>>

(* A mistaken alignment to a multiple from the start of the statement.     *)
AlignFixed(s) ==
  /\ Parsed(s) /\ s.op = "align"
  /\ Extend(s.to, Padding(s.to))
  /\ UNCHANGED <<symtable, pending, asmAt, refs>>

(* A position that is aligned already is moved on all the same.            *)
Align(s) ==
  /\ Parsed(s) /\ s.op = "align"
  /\ LET n == s.to - (here % s.to) IN Extend(n, Padding(n))
  /\ UNCHANGED <<symtable, pending, asmAt, refs>>

(* What pack() puts out for a label: 0 as long as it is not defined.       *)
Address(l) == IF symtable[l] = Undefined THEN 0 ELSE symtable[l]

(* The word at place j of an instruction, after the opcode, is at:         *)
WordAt(j) == here + 4 * j

UsesAt(s, l) == {WordAt(j) : j \in {i \in DOMAIN s.words : s.words[i] = l}}

(* An instruction: opcode, parameters, and padding to three parameters.    *)
(* A float is counted and not put out.                                     *)
InstCell(s, q) ==
  LET j == q \div 4 IN
  IF j \in DOMAIN s.words /\ s.words[j] \in Labels
  THEN Part(Address(s.words[j]), q % 4) ELSE Plain

InstSize(s) == 4 + 4 * Len(s.words) + 4 * (3 - Len(s.words) - s.floats)

InstBytes(s) == [q \in 0 .. InstSize(s) - 1 |-> InstCell(s, q)]

(* A mistaken instruction that notes where a use ends.                     *)
InstLate(s) ==
  /\ Parsed(s) /\ s.op = "inst"
  /\ Extend(InstSize(s), InstBytes(s))
  /\ pending' = [l \in Labels |->
                   IF symtable[l] = Undefined
                   THEN pending[l] \cup {p + 4 : p \in UsesAt(s, l)}
                   ELSE pending[l]]
  /\ refs' = refs \cup UNION {UsesAt(s, l) \X {l} : l \in Labels}
  /\ UNCHANGED <<symtable, asmAt>>

Inst(s) ==
  /\ Parsed(s) /\ s.op = "inst"
  /\ Extend(InstSize(s), InstBytes(s))
  /\ pending' = [l \in Labels |->
                   IF symtable[l] = Undefined
                   THEN pending[l] \cup UsesAt(s, l) ELSE pending[l]]
  /\ refs' = refs \cup UNION {UsesAt(s, l) \X {l} : l \in Labels}
  /\ UNCHANGED <<symtable, asmAt>>

(* A label: the words that wait for it get its address.                    *)
Covering(l, p) == {i \in pending[l] : p \in i .. i + 3}

Label(s) ==
  /\ Parsed(s) /\ s.op = "label"
  /\ symtable[s.name] = Undefined
  /\ symtable' = [symtable EXCEPT ![s.name] = here]
  /\ output' = [p \in 0 .. here - 1 |->
                  IF Covering(s.name, p) = {} THEN output[p]
                  ELSE Part(here, p - (CHOOSE i \in Covering(s.name, p) : TRUE))]
  /\ pending' = [pending EXCEPT ![s.name] = {}]
  /\ UNCHANGED <<here, asmAt, refs>>

DuplicateLabel(s) ==
  /\ Parsed(s) /\ s.op = "label"
  /\ symtable[s.name] # Undefined
  /\ asmAt' = "failed"
  /\ UNCHANGED <<here, output, symtable, pending, refs>>

(* The end of the source: the image is written unless a label is missing.  *)
EndSource ==
  /\ asmAt = "parse"
  /\ asmAt' = IF \A l \in Labels : pending[l] = {} THEN "written" ELSE "failed"
  /\ UNCHANGED <<here, output, symtable, pending, refs, source>>

AsmEnded == asmAt # "parse" /\ UNCHANGED asmVars

AsmNext ==
  \/ \E s \in Statements :
       Fill(s) \/ Align(s) \/ Inst(s) \/ Label(s) \/ DuplicateLabel(s)
  \/ EndSource
  \/ AsmEnded

AsmSpec == AsmInit /\ [][AsmNext]_asmVars

-----------------------------------------------------------------------------
AsmTypeOK ==
  /\ here \in Nat
  /\ output \in [0 .. here - 1 -> (Nat \cup {-1}) \X (0 .. 3)]
  /\ symtable \in [Labels -> Nat \cup {Undefined}]
  /\ pending \in [Labels -> SUBSET Nat]
  /\ asmAt \in {"parse", "written", "failed"}
  /\ refs \subseteq Nat \X Labels

(* assemble.py:39 and 51.  A word that stands for a label holds its        *)
(* address from when both are known, wherever the label is defined and     *)
(* whatever is put out or filled in between.                               *)
Resolved ==
  \A r \in refs : \A k \in 0 .. 3 :
    output[r[1] + k] = Part(Address(r[2]), k)

(* What two passes make of a source: the first finds where each statement  *)
(* starts, the second puts out the addresses of labels.                    *)
SizeAt(s, start) ==
  CASE s.op = "label" -> 0
    [] s.op = "inst"  -> 16
    [] s.op = "fill"  -> s.size
    [] s.op = "align" -> s.to * (start \div s.to + 1) - start

Starts ==
  LET start[n \in 1 .. Len(source) + 1] ==
        IF n = 1 THEN 0
        ELSE start[n - 1] + SizeAt(source[n - 1], start[n - 1])
  IN  start

TwoPasses ==
  LET Labelled(l, n) == source[n] = [op |-> "label", name |-> l]
      AddressOf(l) == Starts[CHOOSE n \in DOMAIN source : Labelled(l, n)]
      ByteOf(n, q) ==
        LET s == source[n] IN
        IF /\ s.op = "inst" /\ q \div 4 \in DOMAIN s.words
           /\ s.words[q \div 4] \in Labels
        THEN Part(AddressOf(s.words[q \div 4]), q % 4) ELSE Plain
  IN  [p \in 0 .. Starts[Len(source) + 1] - 1 |->
         LET n == CHOOSE n \in DOMAIN source :
                    Starts[n] <= p /\ p < Starts[n + 1]
         IN  ByteOf(n, p - Starts[n])]

(* assemble.py:13.  The image that one pass writes is the one that two     *)
(* passes would, if no instruction has a float for a parameter.            *)
OnePass ==
  asmAt = "written" /\ (\A n \in DOMAIN source :
                          source[n].op = "inst" => source[n].floats = 0)
    => output = TwoPasses
=============================================================================
