------------------------------- MODULE Sha256 -------------------------------
(***************************************************************************)
(* sha256_file (net/sha256.cpp): a file read through a buffer, its bytes   *)
(* gathered into blocks of 64, the padding at the end.  The compression of *)
(* a block is the constant operator Transform: the code's is the subject   *)
(* of Sha256Transform; with one that only collects the blocks, what goes   *)
(* into it can be looked at.                                               *)
(* A definition with a suffix is a wrong variant of the one after it.      *)
(***************************************************************************)
EXTENDS Integers, Sequences

CONSTANTS
  Transform(_, _),   \* state_ and block_ -> state_
  InitialState,      \* state_ of a new Sha256
  Lengths,           \* lengths of files
  Content(_),        \* the byte at an offset
  BufferSize         \* bytes asked for in one read

ASSUME Sha256Assumption == Lengths \subseteq Nat /\ BufferSize \in Nat \ {0}

VARIABLES
  length,        \* the length of the file
  pc,            \* "read", "update", "returned"
  offset,        \* bytes given to update so far
  buffered,      \* the end of what has been read
  stream,        \* "good", "eof" after a short read, "bad" after an error
  block, block_length, bit_length,
  state,
  digest         \* what sha256_file returned; Nullopt, or a state

fileVars == <<length, offset, buffered, stream>>
vars == <<fileVars, pc, block, block_length, bit_length, state, digest>>

-----------------------------------------------------------------------------
Nullopt == <<"nullopt">>
Block == [0 .. 63 -> 0 .. 255]

(* file.read: a full buffer, the rest of the file, or an error anywhere.   *)
(* The loop goes on while gcount is not zero.                              *)
Wanted == IF length - buffered < BufferSize THEN length - buffered ELSE BufferSize
ReadDone(n, s) ==
  /\ buffered' = buffered + n
  /\ stream' = s
  /\ pc' = IF n > 0 THEN "update" ELSE "finish"
  /\ UNCHANGED <<length, offset, block, block_length, bit_length, state, digest>>

read ==
  /\ pc = "read"
  /\ \/ stream = "good" /\ ReadDone(Wanted, IF Wanted < BufferSize THEN "eof" ELSE "good")
     \/ stream = "good" /\ \E n \in {0, Wanted \div 2} : ReadDone(n, "bad")
     \/ stream # "good" /\ ReadDone(0, stream)

(* update, one byte.                                                       *)
FullAt == 64
BlockBits == 512
update ==
  LET filled == [block EXCEPT ![block_length] = Content(offset)]
      full   == block_length + 1 = FullAt IN
  /\ pc = "update"
  /\ block' = filled
  /\ block_length' = IF full THEN 0 ELSE block_length + 1
  /\ bit_length' = IF full THEN bit_length + BlockBits ELSE bit_length
  /\ state' = IF full THEN Transform(state, filled) ELSE state
  /\ offset' = offset + 1
  /\ pc' = IF offset + 1 = buffered THEN "read" ELSE "update"
  /\ UNCHANGED <<length, buffered, stream, digest>>

(* finish.  The block still holds bytes of the one before; what follows    *)
(* the mark is overwritten with zeros, up to the length in its last 8.     *)
Zeroed_not(b, from, to) == b
Zeroed(b, from, to) == [k \in 0 .. 63 |-> IF from <= k /\ k < to THEN 0 ELSE b[k]]
BigEndian(n) ==
  LET n1 == n \div 256   n2 == n1 \div 256  n3 == n2 \div 256  n4 == n3 \div 256
      n5 == n4 \div 256  n6 == n5 \div 256  n7 == n6 \div 256
  IN  <<n7 % 256, n6 % 256, n5 % 256, n4 % 256, n3 % 256, n2 % 256, n1 % 256, n % 256>>
WithLength(b, n) == [k \in 0 .. 63 |-> IF k < 56 THEN b[k] ELSE BigEndian(n)[k - 55]]
NoRoom(n) == n > 56
finished ==
  LET total  == bit_length + block_length * 8
      marked == [block EXCEPT ![block_length] = 128]
      n      == block_length + 1
      first  == Zeroed(marked, n, 64)
  IN  IF NoRoom(n) THEN Transform(Transform(state, first), WithLength(Zeroed(first, 0, 56), total))
      ELSE Transform(state, WithLength(Zeroed(marked, n, 56), total))

Failed_never == FALSE
Failed == stream = "bad"
finish ==
  /\ pc = "finish"
  /\ digest' = IF Failed THEN Nullopt ELSE finished
  /\ pc' = "returned"
  /\ UNCHANGED <<fileVars, block, block_length, bit_length, state>>

(* The file cannot be opened.                                              *)
open_fails ==
  /\ pc = "read" /\ stream = "good" /\ buffered = 0
  /\ digest' = Nullopt /\ pc' = "returned"
  /\ UNCHANGED <<fileVars, block, block_length, bit_length, state>>

Init ==
  /\ length \in Lengths
  /\ pc = "read" /\ offset = 0 /\ buffered = 0 /\ stream = "good"
  /\ block = [k \in 0 .. 63 |-> 0] /\ block_length = 0 /\ bit_length = 0
  /\ state = InitialState /\ digest = Nullopt

Next == read \/ update \/ finish \/ open_fails

Spec == Init /\ [][Next]_vars

-----------------------------------------------------------------------------
(* Properties.                                                             *)

(* Type invariant.  block_length indexes block_ in every step.             *)
TypeOK ==
  /\ length \in Nat /\ offset \in Nat /\ buffered \in Nat /\ bit_length \in Nat
  /\ pc \in {"read", "update", "finish", "returned"}
  /\ stream \in {"good", "eof", "bad"}
  /\ block_length \in 0 .. 63

(* The length that finish will write is that of the bytes hashed, however  *)
(* they were cut into reads and blocks.                                    *)
LengthExact == bit_length + 8 * block_length = 8 * offset

(* A digest is returned only for the whole file: after a read error in the *)
(* middle there is none.                                                   *)
DigestOfWholeFile == digest # Nullopt => offset = length
=============================================================================
