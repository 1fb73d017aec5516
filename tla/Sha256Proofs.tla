---------------------------- MODULE Sha256Proofs ----------------------------
(***************************************************************************)
(* Proofs about sha256_file's loop (Sha256) for every file length, buffer  *)
(* size, content and compression function.                                 *)
(***************************************************************************)
EXTENDS Sha256Padding, TLAPS

(* Where the loop is in the file.  Between two reads everything that was   *)
(* read has been hashed; the loop ends only at the end of the file or      *)
(* after an error.                                                         *)
Progress ==
  /\ offset <= buffered /\ buffered <= length
  /\ pc = "update" => offset < buffered
  /\ pc \in {"read", "finish"} => offset = buffered
  /\ pc = "finish" => stream # "good"
  /\ stream = "eof" => buffered = length

IInv == TypeOK /\ LengthExact /\ Progress /\ DigestOfWholeFile

(* What a read leaves in the buffer lies inside the file.                  *)
LEMMA WantedFits ==
  ASSUME TypeOK, Progress
  PROVE  /\ Wanted \in 0 .. length - buffered
         /\ Wanted < BufferSize => Wanted = length - buffered
BY Sha256Assumption DEF TypeOK, Progress, Wanted

(* The invariant holds for a new Sha256 on a file not yet read.            *)
LEMMA InitIInv ==
  Init => IInv
<1> SUFFICES ASSUME Init PROVE IInv
  OBVIOUS
<1>1. length \in Nat
  BY Sha256Assumption DEF Init
<1>2. TypeOK /\ LengthExact /\ Progress
  BY <1>1 DEF Init, TypeOK, LengthExact, Progress
<1> QED
  BY <1>2 DEF Init, IInv, DigestOfWholeFile

(* Every read, byte, end and failed open keeps it.                         *)
LEMMA StepIInv ==
  IInv /\ [Next]_vars => IInv'
<1> SUFFICES ASSUME IInv, [Next]_vars PROVE IInv'
  OBVIOUS
<1> USE DEF IInv
<1>1. ASSUME NEW n \in 0 .. length - buffered, NEW s \in {"good", "eof", "bad"},
             pc = "read", ReadDone(n, s), n = 0 => s # "good", s = "eof" => n = length - buffered
      PROVE  IInv'
  <2>1. TypeOK'
    BY <1>1 DEF ReadDone, TypeOK
  <2>2. LengthExact'
    BY <1>1 DEF ReadDone, LengthExact
  <2>3. Progress'
    BY <1>1 DEF ReadDone, TypeOK, Progress
  <2>4. DigestOfWholeFile'
    BY <1>1 DEF ReadDone, DigestOfWholeFile
  <2> QED
    BY <2>1, <2>2, <2>3, <2>4
<1>2. CASE read
  <2>1. CASE stream = "good" /\ ReadDone(Wanted, IF Wanted < BufferSize THEN "eof" ELSE "good")
    BY <1>1, <1>2, <2>1, WantedFits, Sha256Assumption DEF read
  <2>2. CASE stream = "good" /\ \E n \in {0, Wanted \div 2} : ReadDone(n, "bad")
    <3>1. PICK n \in {0, Wanted \div 2} : ReadDone(n, "bad")
      BY <2>2
    <3>2. n \in 0 .. length - buffered
      BY WantedFits DEF TypeOK, Progress
    <3> QED
      BY <1>1, <1>2, <3>1, <3>2 DEF read
  <2>3. CASE stream # "good" /\ ReadDone(0, stream)
    <3>1. 0 \in 0 .. length - buffered /\ (stream = "eof" => 0 = length - buffered)
      BY DEF TypeOK, Progress
    <3>2. stream \in {"good", "eof", "bad"}
      BY DEF TypeOK
    <3> QED
      BY <1>1, <1>2, <2>3, <3>1, <3>2 DEF read
  <2> QED
    BY <1>2, <2>1, <2>2, <2>3 DEF read
<1>3. CASE update
  <2>1. TypeOK'
    BY <1>3 DEF update, TypeOK, FullAt, BlockBits
  <2>2. LengthExact'
    BY <1>3 DEF update, TypeOK, LengthExact, FullAt, BlockBits
  <2>3. Progress'
    BY <1>3 DEF update, TypeOK, Progress
  <2>4. digest = Nullopt
    BY <1>3 DEF update, DigestOfWholeFile, Progress, TypeOK
  <2>5. DigestOfWholeFile'
    BY <1>3, <2>4 DEF update, DigestOfWholeFile
  <2> QED
    BY <2>1, <2>2, <2>3, <2>5
<1>4. CASE finish \/ open_fails
  <2>1. UNCHANGED <<length, offset, buffered, stream, block_length, bit_length>> /\ pc' = "returned"
    BY <1>4 DEF finish, open_fails, fileVars
  <2>2. TypeOK' /\ LengthExact' /\ Progress'
    BY <2>1 DEF TypeOK, LengthExact, Progress
  <2>3. stream = "bad" \/ offset = length \/ open_fails
    BY <1>4 DEF finish, TypeOK, Progress
  <2>4. DigestOfWholeFile'
    BY <1>4, <2>1, <2>3 DEF finish, open_fails, Failed, DigestOfWholeFile
  <2> QED
    BY <2>2, <2>4
<1>5. CASE UNCHANGED vars
  BY <1>5 DEF vars, fileVars, TypeOK, LengthExact, Progress, DigestOfWholeFile
<1> QED
  BY <1>2, <1>3, <1>4, <1>5 DEF Next

(* block_length_ indexes block_ in every step of sha256_file.              *)
THEOREM BlockIndexCorrect ==
  Spec => []TypeOK
<1>1. IInv => TypeOK
  BY DEF IInv
<1> QED
  BY <1>1, InitIInv, StepIInv, PTL DEF Spec

(* The length written into the padding is that of the bytes hashed.        *)
THEOREM LengthCorrect ==
  Spec => []LengthExact
<1>1. IInv => LengthExact
  BY DEF IInv
<1> QED
  BY <1>1, InitIInv, StepIInv, PTL DEF Spec

(* sha256_file returns a digest only of the whole file.                    *)
THEOREM WholeFileCorrect ==
  Spec => []DigestOfWholeFile
<1>1. IInv => DigestOfWholeFile
  BY DEF IInv
<1> QED
  BY <1>1, InitIInv, StepIInv, PTL DEF Spec

-----------------------------------------------------------------------------
(* The padding.                                                            *)

(* What may be in a block or in the message: bytes of the file and of the  *)
(* padding.                                                                *)
Bytes == {Content(k) : k \in Nat} \cup 0 .. 255

(* With a Transform that collects, the full blocks so far and the block    *)
(* that is being filled are the file up to offset.                         *)
Gathered ==
  /\ block \in [0 .. 63 -> Bytes] /\ state \in Seq(Bytes)
  /\ Len(state) = offset - block_length /\ Len(state) % 64 = 0
  /\ \A k \in 1 .. Len(state) : state[k] = Content(k - 1)
  /\ \A k \in 0 .. 63 : k < block_length => block[k] = Content(Len(state) + k)

(* What is in a concatenation.                                             *)
LEMMA ConcatElements ==
  ASSUME NEW S, NEW s \in Seq(S), NEW t \in Seq(S)
  PROVE  /\ s \o t \in Seq(S) /\ Len(s \o t) = Len(s) + Len(t)
         /\ \A i \in 1 .. Len(s) + Len(t) :
              (s \o t)[i] = IF i <= Len(s) THEN s[i] ELSE t[i - Len(s)]
OBVIOUS

(* A sequence has a length.                                                *)
LEMMA LengthIsNat ==
  ASSUME NEW S, NEW s \in Seq(S)
  PROVE  Len(s) \in Nat
OBVIOUS

(* The place in its block of a byte behind the first n.                    *)
LEMMA BehindIndex ==
  ASSUME NEW n \in Nat, NEW k \in 1 .. n + 64, ~(k <= n)
  PROVE  /\ k - n \in 1 .. 64 /\ (k - n) - 1 = k - n - 1
         /\ k - n - 1 \in 0 .. 63 /\ n + (k - n - 1) = k - 1
OBVIOUS

(* Collecting a block adds its 64 bytes behind the others.                 *)
LEMMA CollectBlock ==
  ASSUME NEW s \in Seq(Bytes), NEW b \in [0 .. 63 -> Bytes], NEW n \in Nat, n = Len(s)
  PROVE  /\ Collect(s, b) \in Seq(Bytes)
         /\ Len(Collect(s, b)) = n + 64
         /\ \A k \in 1 .. n + 64 :
              Collect(s, b)[k] = IF k <= n THEN s[k] ELSE b[k - n - 1]
<1> DEFINE t == [k \in 1 .. 64 |-> b[k - 1]]
<1>1. \A k \in 1 .. 64 : k - 1 \in 0 .. 63
  OBVIOUS
<1>2. t \in Seq(Bytes) /\ Len(t) = 64 /\ \A k \in 1 .. 64 : t[k] = b[k - 1]
  BY <1>1
<1>3. Collect(s, b) = s \o t
  BY DEF Collect
<1> HIDE DEF t
<1>4. /\ s \o t \in Seq(Bytes) /\ Len(s \o t) = Len(s) + Len(t)
      /\ \A i \in 1 .. Len(s) + Len(t) :
           (s \o t)[i] = IF i <= Len(s) THEN s[i] ELSE t[i - Len(s)]
  <2>1. t \in Seq(Bytes)
    BY <1>2
  <2> QED BY <2>1, ConcatElements
<1>5. \A k \in 1 .. n + 64 : ~(k <= n) => k - n \in 1 .. 64 /\ (k - n) - 1 = k - n - 1
  BY BehindIndex, Zenon
<1>6. Len(s) + Len(t) = n + 64
  BY <1>2
<1>7. \A k \in 1 .. n + 64 : Collect(s, b)[k] = IF k <= n THEN s[k] ELSE t[k - n]
  BY <1>3, <1>4, <1>6, Zenon
<1>8. \A k \in 1 .. n + 64 : ~(k <= n) => t[k - n] = b[k - n - 1]
  BY <1>2, <1>5, Zenon
<1> QED BY <1>3, <1>4, <1>6, <1>7, <1>8, Zenon

(* The eight bytes that finish writes are the number it is given.          *)
LEMMA BigEndianRight ==
  ASSUME NEW n \in Nat, n < 4294967296 * 4294967296
  PROVE  /\ BigEndian(n) \in [1 .. 8 -> 0 .. 255]
         /\ Number(BigEndian(n)) = n
<1> DEFINE n1 == n \div 256   n2 == n1 \div 256  n3 == n2 \div 256  n4 == n3 \div 256
           n5 == n4 \div 256  n6 == n5 \div 256  n7 == n6 \div 256
<1>0. ASSUME NEW m \in Nat
      PROVE  /\ m \div 256 \in Nat /\ m % 256 \in 0 .. 255
             /\ m = (m \div 256) * 256 + (m % 256)
  OBVIOUS
<1>1. n = n1 * 256 + (n % 256) /\ n1 \in Nat /\ n % 256 \in 0 .. 255
  BY <1>0
<1>2. n1 = n2 * 256 + (n1 % 256) /\ n2 \in Nat /\ n1 % 256 \in 0 .. 255
  BY <1>0, <1>1
<1>3. n2 = n3 * 256 + (n2 % 256) /\ n3 \in Nat /\ n2 % 256 \in 0 .. 255
  BY <1>0, <1>2
<1>4. n3 = n4 * 256 + (n3 % 256) /\ n4 \in Nat /\ n3 % 256 \in 0 .. 255
  BY <1>0, <1>3
<1>5. n4 = n5 * 256 + (n4 % 256) /\ n5 \in Nat /\ n4 % 256 \in 0 .. 255
  BY <1>0, <1>4
<1>6. n5 = n6 * 256 + (n5 % 256) /\ n6 \in Nat /\ n5 % 256 \in 0 .. 255
  BY <1>0, <1>5
<1>7. n6 = n7 * 256 + (n6 % 256) /\ n7 \in Nat /\ n6 % 256 \in 0 .. 255
  BY <1>0, <1>6
<1>8. BigEndian(n) = <<n7 % 256, n6 % 256, n5 % 256, n4 % 256, n3 % 256, n2 % 256, n1 % 256, n % 256>>
  BY DEF BigEndian
<1> HIDE DEF n1, n2, n3, n4, n5, n6, n7
<1>9. n7 < 256
  BY <1>1, <1>2, <1>3, <1>4, <1>5, <1>6, <1>7
<1>10. n7 % 256 = n7 /\ n7 \in 0 .. 255
  BY <1>7, <1>9
<1>11. BigEndian(n) \in [1 .. 8 -> 0 .. 255]
  BY <1>1, <1>2, <1>3, <1>4, <1>5, <1>6, <1>7, <1>8, <1>10
<1>12. Number(BigEndian(n)) = n
  BY <1>1, <1>2, <1>3, <1>4, <1>5, <1>6, <1>7, <1>8, <1>10 DEF Number
<1> QED BY <1>11, <1>12

(* What a Transform that collects has been given when the file ends.       *)
Collects == InitialState = Nothing /\ \A s, b : Transform(s, b) = Collect(s, b)

(* A new Sha256 has gathered nothing, of nothing.                          *)
LEMMA InitGathered ==
  ASSUME Collects, Init
  PROVE  Gathered /\ PaddedRight
<1>1. state = <<>> /\ block \in [0 .. 63 -> Bytes]
  BY DEF Collects, Nothing, Init, Bytes
<1>2. state \in Seq(Bytes) /\ Len(state) = 0 /\ 1 .. Len(state) = {}
  BY <1>1
<1> QED BY <1>1, <1>2 DEF Init, Gathered, PaddedRight

(* How far the full blocks reach.                                          *)
LEMMA GatheredLength ==
  ASSUME IInv, Gathered
  PROVE  /\ block_length \in 0 .. 63 /\ offset \in Nat /\ Len(state) \in Nat
         /\ offset = Len(state) + block_length
<1>1. state \in Seq(Bytes) /\ Len(state) = offset - block_length
  BY DEF Gathered
<1>2. block_length \in 0 .. 63 /\ offset \in Nat
  BY DEF IInv, TypeOK
<1>3. Len(state) \in Nat
  BY <1>1, LengthIsNat
<1> QED BY <1>1, <1>2, <1>3

(* update adds the next byte of the file, and hands over full blocks.      *)
LEMMA UpdateGathers ==
  ASSUME Collects, IInv, Gathered, update
  PROVE  Gathered'
<1> DEFINE filled == [block EXCEPT ![block_length] = Content(offset)]
<1>1. PICK n \in Nat : n = Len(state) /\ offset = n + block_length
  BY GatheredLength
<1>2. block_length \in 0 .. 63
  BY GatheredLength
<1>3. /\ block \in [0 .. 63 -> Bytes]
      /\ \A k \in 0 .. 63 : k < block_length => block[k] = Content(n + k)
  BY <1>1 DEF Gathered
<1>4. Content(offset) \in Bytes
  <2>1. offset \in Nat
    BY GatheredLength
  <2> QED BY <2>1 DEF Bytes
<1>5. filled \in [0 .. 63 -> Bytes]
  BY <1>3, <1>4, Zenon
<1>6. ASSUME NEW k \in 0 .. 63, k < block_length + 1 PROVE filled[k] = Content(n + k)
  <2>1. CASE k = block_length
    BY <1>1, <1>3, <2>1
  <2>2. CASE k # block_length
    BY <1>2, <1>3, <1>6, <2>2
  <2> QED BY <2>1, <2>2
<1>7. block' = filled /\ offset' = offset + 1
  BY DEF update
<1> HIDE DEF filled
<1>8. /\ state \in Seq(Bytes) /\ n % 64 = 0
      /\ \A k \in 1 .. n : state[k] = Content(k - 1)
  BY <1>1 DEF Gathered
<1>9. CASE block_length + 1 = 64
  <2>1. block_length' = 0 /\ state' = Collect(state, filled)
    BY <1>9 DEF update, FullAt, Collects, filled
  <2>2. /\ state' \in Seq(Bytes) /\ Len(state') = n + 64
        /\ \A k \in 1 .. n + 64 : state'[k] = IF k <= n THEN state[k] ELSE filled[k - n - 1]
    BY <1>1, <1>5, <1>8, <2>1, CollectBlock, ZenonT(30)
  <2>3. ASSUME NEW k \in 1 .. n + 64 PROVE state'[k] = Content(k - 1)
    <3>1. CASE k <= n
      <4>1. k \in 1 .. n
        BY <3>1
      <4>2. state'[k] = state[k]
        BY <2>2, <3>1
      <4> QED BY <1>8, <4>1, <4>2
    <3>2. CASE ~(k <= n)
      <4>1. k - n - 1 \in 0 .. 63 /\ k - n - 1 < block_length + 1 /\ n + (k - n - 1) = k - 1
        BY <1>2, <1>9, <3>2, BehindIndex
      <4> QED BY <1>6, <2>2, <3>2, <4>1, Zenon
    <3> QED BY <3>1, <3>2
  <2>4. n + 64 = offset' - block_length' /\ (n + 64) % 64 = 0
    BY <1>1, <1>2, <1>7, <1>8, <1>9, <2>1
  <2>5. \A k \in 0 .. 63 : ~(k < block_length')
    BY <2>1
  <2> QED BY <1>5, <1>7, <2>2, <2>3, <2>4, <2>5 DEF Gathered
<1>10. CASE block_length + 1 # 64
  <2>1. block_length' = block_length + 1 /\ state' = state
    BY <1>10 DEF update, FullAt
  <2>2. n = offset' - block_length'
    BY <1>1, <1>2, <1>7, <2>1
  <2> QED BY <1>1, <1>5, <1>6, <1>7, <1>8, <2>1, <2>2, Zenon DEF Gathered
<1> QED BY <1>9, <1>10

(* The files whose length in bits fits the 64 bits of the padding.         *)
Representable(n) == 8 * n < 4294967296 * 4294967296

(* The parts of the e bytes that m bytes are padded to.                    *)
Parts(p, m, e) ==
  /\ Len(p) = e /\ e % 64 = 0 /\ e - m - 9 \in 0 .. 63
  /\ \A k \in 1 .. m : p[k] = Content(k - 1)
  /\ p[m + 1] = 128
  /\ \A k \in (m + 2) .. (e - 8) : p[k] = 0
  /\ \A k \in 1 .. 8 : p[e - 8 + k] = BigEndian(8 * m)[k]

(* A message that has all the parts is padded.                             *)
LEMMA PartsMakePadded ==
  ASSUME NEW p, NEW m \in Nat, NEW e \in Nat, Representable(m), Parts(p, m, e)
  PROVE  IsPadded(p, m)
<1> DEFINE last == [k \in 1 .. 8 |-> p[Len(p) - 8 + k]]
           b    == BigEndian(8 * m)
<1>1. b \in [1 .. 8 -> 0 .. 255] /\ Number(b) = 8 * m
  <2>1. 8 * m \in Nat /\ 8 * m < 4294967296 * 4294967296
    BY DEF Representable
  <2> QED BY <2>1, BigEndianRight
<1>2. \A k \in 1 .. 8 : p[Len(p) - 8 + k] = b[k]
  BY Zenon DEF Parts
<1> HIDE DEF b
<1>3. last \in [1 .. 8 -> 0 .. 255] /\ \A k \in 1 .. 8 : last[k] = b[k]
  BY <1>1, <1>2, Zenon
<1> HIDE DEF last
<1>4. Number(last) = Number(b)
  <2>1. /\ last[1] = b[1] /\ last[2] = b[2] /\ last[3] = b[3] /\ last[4] = b[4]
        /\ last[5] = b[5] /\ last[6] = b[6] /\ last[7] = b[7] /\ last[8] = b[8]
    BY <1>3
  <2> QED BY <2>1 DEF Number
<1>5. m + 1 + (e - m - 9) = e - 8
  OBVIOUS
<1> QED BY <1>1, <1>3, <1>4, <1>5, Zenon DEF Parts, IsPadded, last

(* The parts of the blocks that finish makes.                              *)
LEMMA ZeroedBlock ==
  ASSUME NEW b \in [0 .. 63 -> Bytes], NEW from \in Nat, NEW to \in Nat
  PROVE  /\ Zeroed(b, from, to) \in [0 .. 63 -> Bytes]
         /\ \A k \in 0 .. 63 : Zeroed(b, from, to)[k] = IF from <= k /\ k < to THEN 0 ELSE b[k]
<1>1. 0 \in Bytes
  BY DEF Bytes
<1> QED BY <1>1 DEF Zeroed

(* The length goes into the last eight bytes of its block.                 *)
LEMMA LengthBlock ==
  ASSUME NEW b \in [0 .. 63 -> Bytes], NEW m \in Nat, Representable(m)
  PROVE  /\ WithLength(b, 8 * m) \in [0 .. 63 -> Bytes]
         /\ \A k \in 0 .. 55 : WithLength(b, 8 * m)[k] = b[k]
         /\ \A k \in 1 .. 8 : WithLength(b, 8 * m)[55 + k] = BigEndian(8 * m)[k]
<1> DEFINE g == BigEndian(8 * m)
<1>1. g \in [1 .. 8 -> 0 .. 255]
  <2>1. 8 * m \in Nat /\ 8 * m < 4294967296 * 4294967296
    BY DEF Representable
  <2> QED BY <2>1, BigEndianRight
<1>2. WithLength(b, 8 * m) = [k \in 0 .. 63 |-> IF k < 56 THEN b[k] ELSE g[k - 55]]
  BY DEF WithLength
<1> HIDE DEF g
<1>3. \A k \in 0 .. 63 : ~(k < 56) => k - 55 \in 1 .. 8
  BY SMTT(30)
<1>4. \A k \in 0 .. 63 : (IF k < 56 THEN b[k] ELSE g[k - 55]) \in Bytes
  BY <1>1, <1>3 DEF Bytes
<1>5. WithLength(b, 8 * m) \in [0 .. 63 -> Bytes]
  BY <1>2, <1>4
<1>6. \A k \in 0 .. 55 : WithLength(b, 8 * m)[k] = b[k]
  BY <1>2
<1>7. ASSUME NEW k \in 1 .. 8 PROVE WithLength(b, 8 * m)[55 + k] = g[k]
  <2>1. 55 + k \in 0 .. 63 /\ ~(55 + k < 56) /\ (55 + k) - 55 = k
    OBVIOUS
  <2> QED BY <1>2, <2>1
<1> QED BY <1>5, <1>6, <1>7 DEF g

(* Up to the mark: the full blocks s, and l bytes of the block b.          *)
Marked(s, b, n, l) ==
  /\ s \in Seq(Bytes) /\ b \in [0 .. 63 -> Bytes]
  /\ n = Len(s) /\ n % 64 = 0
  /\ \A k \in 1 .. n : s[k] = Content(k - 1)
  /\ \A k \in 0 .. 63 : k < l => b[k] = Content(n + k)
  /\ b[l] = 128

(* The message p is s and then the block x, which is b up to byte l.       *)
Follows(p, s, x, n) == \A k \in 1 .. n + 64 : p[k] = IF k <= n THEN s[k] ELSE x[k - n - 1]
Agree(x, b, l) == \A k \in 0 .. 63 : k <= l => x[k] = b[k]

(* Such a message begins with the file and the mark.                       *)
LEMMA UpToTheMark ==
  ASSUME NEW n \in Nat, NEW l \in 0 .. 63, NEW s, NEW b, Marked(s, b, n, l), NEW x, NEW p,
         Agree(x, b, l), Follows(p, s, x, n)
  PROVE  /\ \A k \in 1 .. n + l : p[k] = Content(k - 1)
         /\ p[n + l + 1] = 128
<1>1. ASSUME NEW k \in 1 .. n + l PROVE p[k] = Content(k - 1)
  <2>1. k \in 1 .. n + 64
    OBVIOUS
  <2>2. CASE k <= n
    <3>1. k \in 1 .. n
      BY <2>2
    <3> QED BY <2>1, <2>2, <3>1 DEF Marked, Follows
  <2>3. CASE ~(k <= n)
    <3>1. k - n - 1 \in 0 .. 63 /\ n + (k - n - 1) = k - 1
      BY <2>1, <2>3, BehindIndex
    <3>2. k - n - 1 < l /\ k - n - 1 <= l
      OBVIOUS
    <3>3. b[k - n - 1] = Content(n + (k - n - 1))
      BY <3>1, <3>2, Zenon DEF Marked
    <3> QED BY <2>1, <2>3, <3>1, <3>2, <3>3 DEF Follows, Agree
  <2> QED BY <2>2, <2>3
<1>2. p[n + l + 1] = 128
  <2>1. n + l + 1 \in 1 .. n + 64 /\ ~(n + l + 1 <= n) /\ (n + l + 1) - n - 1 = l /\ l <= l
    OBVIOUS
  <2>2. p[n + l + 1] = x[l]
    BY <2>1 DEF Follows
  <2> QED BY <2>1, <2>2, ZenonT(30) DEF Marked, Agree
<1> QED BY <1>1, <1>2

(* There is room for the length in the block that is being filled.         *)
LEMMA RoomPads ==
  ASSUME NEW n \in Nat, NEW l \in 0 .. 63, NEW s, NEW b, Marked(s, b, n, l), Representable(n + l), l <= 55
  PROVE  IsPadded(Collect(s, WithLength(Zeroed(b, l + 1, 56), 8 * (n + l))), n + l)
<1> DEFINE z == Zeroed(b, l + 1, 56)
           w == WithLength(z, 8 * (n + l))
           p == Collect(s, w)
<1>1. n + l \in Nat /\ l + 1 \in Nat /\ n + 64 \in Nat /\ 56 \in Nat
  OBVIOUS
<1>2. s \in Seq(Bytes) /\ b \in [0 .. 63 -> Bytes] /\ n = Len(s)
  BY DEF Marked
<1>3. /\ z \in [0 .. 63 -> Bytes]
      /\ \A k \in 0 .. 63 : z[k] = IF l + 1 <= k /\ k < 56 THEN 0 ELSE b[k]
  BY <1>1, <1>2, ZeroedBlock, ZenonT(30)
<1> HIDE DEF z
<1>4. /\ w \in [0 .. 63 -> Bytes] /\ \A k \in 0 .. 55 : w[k] = z[k]
      /\ \A k \in 1 .. 8 : w[55 + k] = BigEndian(8 * (n + l))[k]
  BY <1>1, <1>3, LengthBlock, Zenon
<1> HIDE DEF w
<1>5. /\ Len(p) = n + 64
      /\ \A k \in 1 .. n + 64 : p[k] = IF k <= n THEN s[k] ELSE w[k - n - 1]
  <2>1. w \in [0 .. 63 -> Bytes]
    BY <1>4
  <2> QED BY <1>2, <2>1, CollectBlock, ZenonT(30)
<1> HIDE DEF p
<1>6. ASSUME NEW k \in 0 .. 63, k <= l PROVE w[k] = b[k]
  <2>1. k \in 0 .. 55 /\ ~(l + 1 <= k)
    BY <1>6
  <2> QED BY <1>3, <1>4, <2>1
<1>7. (\A k \in 1 .. n + l : p[k] = Content(k - 1)) /\ p[n + l + 1] = 128
  <2>1. Agree(w, b, l)
    BY <1>6 DEF Agree
  <2>2. Follows(p, s, w, n)
    BY <1>5 DEF Follows
  <2> QED BY <2>1, <2>2, UpToTheMark, SMTT(30)
<1>8. ASSUME NEW k \in (n + l + 2) .. ((n + 64) - 8) PROVE p[k] = 0
  <2>1. k \in 1 .. n + 64 /\ ~(k <= n)
    OBVIOUS
  <2>2. k - n - 1 \in 0 .. 55 /\ l + 1 <= k - n - 1 /\ k - n - 1 < 56
    OBVIOUS
  <2>3. p[k] = w[k - n - 1]
    BY <1>5, <2>1
  <2> QED BY <1>3, <1>4, <2>2, <2>3
<1>9. ASSUME NEW k \in 1 .. 8 PROVE p[(n + 64) - 8 + k] = BigEndian(8 * (n + l))[k]
  <2>1. /\ (n + 64) - 8 + k \in 1 .. n + 64 /\ ~((n + 64) - 8 + k <= n)
        /\ ((n + 64) - 8 + k) - n - 1 = 55 + k
    OBVIOUS
  <2>2. p[(n + 64) - 8 + k] = w[55 + k]
    BY <1>5, <2>1
  <2> QED BY <1>4, <2>2
<1>10. (n + 64) % 64 = 0 /\ (n + 64) - (n + l) - 9 \in 0 .. 63
  <2>1. n % 64 = 0
    BY DEF Marked
  <2> QED BY <2>1
<1>11. IsPadded(p, n + l)
  <2>1. Len(p) = n + 64
    BY <1>5
  <2>2. Parts(p, n + l, n + 64)
    BY <1>7, <1>8, <1>9, <1>10, <2>1 DEF Parts
  <2> QED BY <1>1, <2>2, PartsMakePadded
<1> QED BY <1>11 DEF p, w, z

(* There is none: zeros to the end of the block, and one more for the      *)
(* length.                                                                 *)
LEMMA NoRoomPads ==
  ASSUME NEW n \in Nat, NEW l \in 0 .. 63, NEW s, NEW b, Marked(s, b, n, l), Representable(n + l), l > 55
  PROVE  LET first == Zeroed(b, l + 1, 64) IN
         IsPadded(Collect(Collect(s, first), WithLength(Zeroed(first, 0, 56), 8 * (n + l))), n + l)
<1> DEFINE first == Zeroed(b, l + 1, 64)
           z == Zeroed(first, 0, 56)
           w == WithLength(z, 8 * (n + l))
           c == Collect(s, first)
           p == Collect(c, w)
<1>1. n + l \in Nat /\ l + 1 \in Nat /\ n + 64 \in Nat /\ n + 128 \in Nat /\ 0 \in Nat /\ 56 \in Nat /\ 64 \in Nat
  OBVIOUS
<1>2. s \in Seq(Bytes) /\ b \in [0 .. 63 -> Bytes] /\ n = Len(s)
  BY DEF Marked
<1>3. /\ first \in [0 .. 63 -> Bytes]
      /\ \A k \in 0 .. 63 : first[k] = IF l + 1 <= k /\ k < 64 THEN 0 ELSE b[k]
  <2>1. b \in [0 .. 63 -> Bytes] /\ l + 1 \in Nat /\ 64 \in Nat
    BY <1>1, <1>2
  <2> QED BY <2>1, ZeroedBlock, ZenonT(30)
<1> HIDE DEF first
<1>4. /\ z \in [0 .. 63 -> Bytes]
      /\ \A k \in 0 .. 63 : z[k] = IF 0 <= k /\ k < 56 THEN 0 ELSE first[k]
  <2>1. first \in [0 .. 63 -> Bytes] /\ 0 \in Nat /\ 56 \in Nat
    BY <1>3
  <2> QED BY <2>1, ZeroedBlock, ZenonT(30)
<1> HIDE DEF z
<1>5. /\ w \in [0 .. 63 -> Bytes] /\ \A k \in 0 .. 55 : w[k] = z[k]
      /\ \A k \in 1 .. 8 : w[55 + k] = BigEndian(8 * (n + l))[k]
  BY <1>1, <1>4, LengthBlock, Zenon
<1>6. \A k \in 0 .. 55 : w[k] = 0
  BY <1>4, <1>5
<1> HIDE DEF w
<1>7. c \in Seq(Bytes) /\ Len(c) = n + 64 /\ Follows(c, s, first, n)
  <2>1. /\ c \in Seq(Bytes) /\ Len(c) = n + 64
        /\ \A k \in 1 .. n + 64 : c[k] = IF k <= n THEN s[k] ELSE first[k - n - 1]
    <3>1. first \in [0 .. 63 -> Bytes]
      BY <1>3
    <3> QED BY <1>2, <3>1, CollectBlock, Zenon
  <2> QED BY <2>1 DEF Follows
<1> HIDE DEF c
<1>8. Len(p) = n + 128 /\ Follows(p, c, w, n + 64)
  <2>1. w \in [0 .. 63 -> Bytes] /\ (n + 64) + 64 = n + 128
    BY <1>5
  <2>2. /\ Len(p) = (n + 64) + 64
        /\ \A k \in 1 .. (n + 64) + 64 : p[k] = IF k <= n + 64 THEN c[k] ELSE w[k - (n + 64) - 1]
    <3>1. c \in Seq(Bytes) /\ n + 64 = Len(c) /\ n + 64 \in Nat
      BY <1>7
    <3>2. w \in [0 .. 63 -> Bytes]
      BY <2>1
    <3> QED BY <3>1, <3>2, CollectBlock, ZenonT(30)
  <2> QED BY <2>1, <2>2 DEF Follows
<1> HIDE DEF p
<1>9. \A k \in 1 .. n + 64 : p[k] = c[k]
  <2>1. ASSUME NEW k \in 1 .. n + 64 PROVE k \in 1 .. (n + 64) + 64 /\ k <= n + 64
    OBVIOUS
  <2> QED BY <1>8, <2>1 DEF Follows
<1>10. Agree(first, b, l)
  <2>1. \A k \in 0 .. 63 : k <= l => ~(l + 1 <= k)
    OBVIOUS
  <2> QED BY <1>3, <2>1 DEF Agree
<1>11. Follows(p, s, first, n)
  BY <1>7, <1>9 DEF Follows
<1>12. (\A k \in 1 .. n + l : p[k] = Content(k - 1)) /\ p[n + l + 1] = 128
  BY <1>10, <1>11, UpToTheMark
<1>13. ASSUME NEW k \in (n + l + 2) .. ((n + 128) - 8) PROVE p[k] = 0
  <2>1. CASE k <= n + 64
    <3>1. k \in 1 .. n + 64 /\ ~(k <= n)
      BY <2>1
    <3>2. k - n - 1 \in 0 .. 63 /\ l + 1 <= k - n - 1 /\ k - n - 1 < 64
      BY <2>1
    <3>3. p[k] = first[k - n - 1]
      BY <1>11, <3>1 DEF Follows
    <3> QED BY <1>3, <3>2, <3>3
  <2>2. CASE ~(k <= n + 64)
    <3>1. k \in 1 .. (n + 64) + 64
      BY <2>2
    <3>2. k - (n + 64) - 1 \in 0 .. 55
      BY <2>2
    <3>3. p[k] = w[k - (n + 64) - 1]
      BY <1>8, <2>2, <3>1 DEF Follows
    <3> QED BY <1>6, <3>2, <3>3
  <2> QED BY <2>1, <2>2
<1>14. ASSUME NEW k \in 1 .. 8 PROVE p[(n + 128) - 8 + k] = BigEndian(8 * (n + l))[k]
  <2>1. /\ (n + 128) - 8 + k \in 1 .. (n + 64) + 64 /\ ~((n + 128) - 8 + k <= n + 64)
        /\ ((n + 128) - 8 + k) - (n + 64) - 1 = 55 + k
    OBVIOUS
  <2>2. p[(n + 128) - 8 + k] = w[55 + k]
    BY <1>8, <2>1 DEF Follows
  <2> QED BY <1>5, <2>2
<1>15. (n + 128) % 64 = 0 /\ (n + 128) - (n + l) - 9 \in 0 .. 63
  <2>1. n % 64 = 0
    BY DEF Marked
  <2> QED BY <2>1
<1>16. IsPadded(p, n + l)
  <2>1. Len(p) = n + 128
    BY <1>8
  <2>2. Parts(p, n + l, n + 128)
    BY <1>12, <1>13, <1>14, <1>15, <2>1 DEF Parts
  <2> QED BY <1>1, <2>2, PartsMakePadded
<1> QED BY <1>16 DEF p, c, w, z, first

(* finish pads the message in both cases.                                  *)
LEMMA FinishPads ==
  ASSUME Collects, IInv, Gathered, offset = length, Representable(length)
  PROVE  IsPadded(finished, length)
<1> DEFINE marked == [block EXCEPT ![block_length] = 128]
           first  == Zeroed(marked, block_length + 1, 64)
<1>1. PICK n \in Nat : n = Len(state) /\ length = n + block_length
  BY GatheredLength
<1>2. block_length \in 0 .. 63
  BY GatheredLength
<1>3. bit_length + block_length * 8 = 8 * (n + block_length)
  BY <1>1, <1>2 DEF IInv, TypeOK, LengthExact
<1>4. Marked(state, marked, n, block_length)
  <2>1. /\ block \in [0 .. 63 -> Bytes]
        /\ \A k \in 0 .. 63 : k < block_length => block[k] = Content(n + k)
    BY <1>1, Zenon DEF Gathered
  <2>2. 128 \in Bytes
    BY DEF Bytes
  <2>3. /\ marked \in [0 .. 63 -> Bytes] /\ marked[block_length] = 128
        /\ \A k \in 0 .. 63 : k < block_length => marked[k] = Content(n + k)
    BY <1>2, <2>1, <2>2
  <2> QED BY <1>1, <2>3, Zenon DEF Marked, Gathered
<1>5. finished = IF NoRoom(block_length + 1)
                 THEN Collect(Collect(state, first), WithLength(Zeroed(first, 0, 56), 8 * (n + block_length)))
                 ELSE Collect(state, WithLength(Zeroed(marked, block_length + 1, 56), 8 * (n + block_length)))
  BY <1>3 DEF finished, Collects
<1> HIDE DEF marked
<1>6. CASE NoRoom(block_length + 1)
  <2>1. block_length > 55
    BY <1>2, <1>6 DEF NoRoom
  <2> QED BY <1>1, <1>2, <1>4, <1>5, <1>6, <2>1, NoRoomPads, Zenon
<1>7. CASE ~NoRoom(block_length + 1)
  <2>1. block_length <= 55
    BY <1>2, <1>7 DEF NoRoom
  <2> QED BY <1>1, <1>2, <1>4, <1>5, <1>7, <2>1, RoomPads, Zenon
<1> QED BY <1>6, <1>7

PadInv == IInv /\ length \in Lengths /\ Gathered /\ PaddedRight

(* Every step keeps what is gathered, and finish returns it padded.        *)
LEMMA StepPadInv ==
  ASSUME Collects, \A n \in Lengths : Representable(n), PadInv, [Next]_vars
  PROVE  PadInv'
<1>1. IInv'
  BY StepIInv DEF PadInv
<1>2. length' = length
  BY DEF Next, read, ReadDone, update, finish, open_fails, fileVars, vars
<1>3. CASE read \/ UNCHANGED vars
  <2>1. UNCHANGED <<block, block_length, state, offset, digest>>
    BY <1>3 DEF read, ReadDone, vars, fileVars
  <2>2. Gathered'
    BY <2>1, Zenon DEF PadInv, Gathered
  <2>3. PaddedRight'
    BY <1>2, <2>1, ZenonT(30) DEF PadInv, PaddedRight, IsPadded
  <2> QED BY <1>1, <1>2, <2>2, <2>3 DEF PadInv
<1>4. CASE update
  <2>1. Gathered'
    BY <1>4, UpdateGathers DEF PadInv
  <2>2. PaddedRight'
    BY <1>2, <1>4, Zenon DEF PadInv, PaddedRight, IsPadded, update
  <2> QED BY <1>1, <1>2, <2>1, <2>2 DEF PadInv
<1>5. CASE finish \/ open_fails
  <2>1. UNCHANGED <<block, block_length, state, offset>>
    BY <1>5 DEF finish, open_fails, fileVars
  <2>2. Gathered'
    BY <2>1, Zenon DEF PadInv, Gathered
  <2>3. PaddedRight'
    <3>1. CASE open_fails \/ Failed
      BY <1>5, <3>1 DEF finish, open_fails, PaddedRight
    <3>2. CASE finish /\ ~Failed
      <4>1. digest' = finished
        BY <3>2 DEF finish
      <4>2. offset = length
        BY <3>2 DEF finish, Failed, PadInv, IInv, TypeOK, Progress
      <4>3. IsPadded(finished, length)
        BY <4>2, FinishPads DEF PadInv
      <4>4. IsPadded(digest', length')
        BY <1>2, <4>1, <4>3
      <4> QED BY <4>4 DEF PaddedRight
    <3> QED BY <1>5, <3>1, <3>2
  <2> QED BY <1>1, <1>2, <2>2, <2>3 DEF PadInv
<1> QED BY <1>3, <1>4, <1>5 DEF Next

(* Whatever the lengths of the file and of the reads, what sha256_file     *)
(* compresses is the padded message of FIPS 180-4.  The length in bits has *)
(* 64 bits there: files are shorter than 2^61 bytes.                       *)
THEOREM PaddingCorrect ==
  ASSUME Collects, \A n \in Lengths : Representable(n)
  PROVE  Spec => []PaddedRight
<1>1. Init => PadInv
  BY InitIInv, InitGathered DEF PadInv, Init
<1>2. PadInv /\ [Next]_vars => PadInv'
  BY StepPadInv
<1>3. PadInv => PaddedRight
  BY DEF PadInv
<1> QED
  BY <1>1, <1>2, <1>3, PTL DEF Spec

=============================================================================
