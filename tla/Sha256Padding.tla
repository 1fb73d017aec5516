---------------------------- MODULE Sha256Padding ----------------------------
(***************************************************************************)
(* The padding of sha256_file as FIPS 180-4 defines it.  With a Transform  *)
(* that only collects the blocks, what sha256_file returns is the sequence *)
(* of bytes that the code compresses.                                      *)
(***************************************************************************)
EXTENDS Sha256

Collect(collected, b) == collected \o [k \in 1 .. 64 |-> b[k - 1]]
Nothing == <<>>

(* The number that eight bytes make, most significant first.               *)
Number(b) ==
  ((((((b[1] * 256 + b[2]) * 256 + b[3]) * 256 + b[4]) * 256 + b[5]) * 256 + b[6]) * 256 + b[7])
    * 256 + b[8]

(* The message of n bytes, the bit 1, as few zeros as fill a block with    *)
(* the length, and the length in bits as 64 bits.                          *)
IsPadded(p, n) ==
  LET zeros == Len(p) - n - 9
      last  == [k \in 1 .. 8 |-> p[Len(p) - 8 + k]]
  IN  /\ zeros \in 0 .. 63 /\ Len(p) % 64 = 0
      /\ \A k \in 1 .. n : p[k] = Content(k - 1)
      /\ p[n + 1] = 128
      /\ \A k \in (n + 2) .. (n + 1 + zeros) : p[k] = 0
      /\ last \in [1 .. 8 -> 0 .. 255] /\ Number(last) = 8 * n

(* What is compressed is the padded message: no byte of an earlier block   *)
(* is left in the last one, none is lost at a boundary of blocks or reads. *)
PaddedRight == digest # Nullopt => IsPadded(digest, length)
=============================================================================
