--------------------------- MODULE Sha256Transform ---------------------------
(***************************************************************************)
(* Sha256::transform (net/sha256.cpp), the compression of the blocks of a  *)
(* message, one action per word of the schedule and per round.  A 32-bit   *)
(* word is the set of its bits that are 1.                                 *)
(* A definition with a suffix is a wrong variant of the one after it.      *)
(***************************************************************************)
EXTENDS Integers, Sequences

VARIABLES
  message,    \* the padded message, a sequence of bytes: what the caller has gathered
  position,   \* blocks of it that were compressed
  words,      \* the message schedule as far as it is computed
  work,       \* a, b, ..., h
  round,      \* rounds done
  state

-----------------------------------------------------------------------------

Bits == 0 .. 31
BitsOf(n) == {b \in 0 .. 15 : (n \div 2 ^ b) % 2 = 1}
Word(halves) == {b + 16 : b \in BitsOf(halves[1])} \cup BitsOf(halves[2])

(* kConstants and the first state_, in halves of 16 bits.                  *)
HexConstants ==
  << <<\h428a, \h2f98>>, <<\h7137, \h4491>>, <<\hb5c0, \hfbcf>>, <<\he9b5, \hdba5>>,
     <<\h3956, \hc25b>>, <<\h59f1, \h11f1>>, <<\h923f, \h82a4>>, <<\hab1c, \h5ed5>>,
     <<\hd807, \haa98>>, <<\h1283, \h5b01>>, <<\h2431, \h85be>>, <<\h550c, \h7dc3>>,
     <<\h72be, \h5d74>>, <<\h80de, \hb1fe>>, <<\h9bdc, \h06a7>>, <<\hc19b, \hf174>>,
     <<\he49b, \h69c1>>, <<\hefbe, \h4786>>, <<\h0fc1, \h9dc6>>, <<\h240c, \ha1cc>>,
     <<\h2de9, \h2c6f>>, <<\h4a74, \h84aa>>, <<\h5cb0, \ha9dc>>, <<\h76f9, \h88da>>,
     <<\h983e, \h5152>>, <<\ha831, \hc66d>>, <<\hb003, \h27c8>>, <<\hbf59, \h7fc7>>,
     <<\hc6e0, \h0bf3>>, <<\hd5a7, \h9147>>, <<\h06ca, \h6351>>, <<\h1429, \h2967>>,
     <<\h27b7, \h0a85>>, <<\h2e1b, \h2138>>, <<\h4d2c, \h6dfc>>, <<\h5338, \h0d13>>,
     <<\h650a, \h7354>>, <<\h766a, \h0abb>>, <<\h81c2, \hc92e>>, <<\h9272, \h2c85>>,
     <<\ha2bf, \he8a1>>, <<\ha81a, \h664b>>, <<\hc24b, \h8b70>>, <<\hc76c, \h51a3>>,
     <<\hd192, \he819>>, <<\hd699, \h0624>>, <<\hf40e, \h3585>>, <<\h106a, \ha070>>,
     <<\h19a4, \hc116>>, <<\h1e37, \h6c08>>, <<\h2748, \h774c>>, <<\h34b0, \hbcb5>>,
     <<\h391c, \h0cb3>>, <<\h4ed8, \haa4a>>, <<\h5b9c, \hca4f>>, <<\h682e, \h6ff3>>,
     <<\h748f, \h82ee>>, <<\h78a5, \h636f>>, <<\h84c8, \h7814>>, <<\h8cc7, \h0208>>,
     <<\h90be, \hfffa>>, <<\ha450, \h6ceb>>, <<\hbef9, \ha3f7>>, <<\hc671, \h78f2>> >>
kConstants == [k \in 1 .. 64 |-> Word(HexConstants[k])]

HexState ==
  << <<\h6a09, \he667>>, <<\hbb67, \hae85>>, <<\h3c6e, \hf372>>, <<\ha54f, \hf53a>>,
     <<\h510e, \h527f>>, <<\h9b05, \h688c>>, <<\h1f83, \hd9ab>>, <<\h5be0, \hcd19>> >>
FirstState == [k \in 1 .. 8 |-> Word(HexState[k])]

rotate_right(w, s) == {(b + 32 - s) % 32 : b \in w}
shift_right(w, s)  == {b - s : b \in {c \in w : c >= s}}
Xor(v, w) == (v \ w) \cup (w \ v)

(* Addition modulo 2^32: the sum without carries, plus the carries.        *)
RECURSIVE Add(_, _)
Add(v, w) == IF w = {} THEN v ELSE Add(Xor(v, w), {b + 1 : b \in (v \cap w) \ {31}})

(* The message schedule: 16 words of the block, then 48 mixed ones.        *)
BlockLeft == 64 * position < Len(message)
BlockByte(k) == message[64 * position + k + 1]
BlockWord(k) ==
  Word(<<256 * BlockByte(4 * k) + BlockByte(4 * k + 1), 256 * BlockByte(4 * k + 2) + BlockByte(4 * k + 3)>>)
load ==
  /\ words = <<>> /\ BlockLeft
  /\ words' = [k \in 1 .. 16 |-> BlockWord(k - 1)]
  /\ work' = state
  /\ UNCHANGED <<message, position, round, state>>

mix ==
  LET k == Len(words) + 1
      v == words[k - 15]  u == words[k - 2]
      sigma0 == Xor(Xor(rotate_right(v, 7), rotate_right(v, 18)), shift_right(v, 3))
      sigma1 == Xor(Xor(rotate_right(u, 17), rotate_right(u, 19)), shift_right(u, 10))
  IN  /\ Len(words) \in 16 .. 63
      /\ words' = Append(words, Add(Add(words[k - 16], sigma0), Add(words[k - 7], sigma1)))
      /\ UNCHANGED <<message, position, work, round, state>>

(* One round on a, b, ..., h.                                              *)
Majority_any(a, b, c) == a \cup b \cup c
Majority(a, b, c) == Xor(Xor(a \cap b, a \cap c), b \cap c)
step ==
  LET a == work[1]  b == work[2]  c == work[3]  e == work[5]  f == work[6]  g == work[7]
      sum1   == Xor(Xor(rotate_right(e, 6), rotate_right(e, 11)), rotate_right(e, 25))
      choice == Xor(e \cap f, (Bits \ e) \cap g)
      first  == Add(Add(work[8], sum1), Add(choice, Add(kConstants[round + 1], words[round + 1])))
      sum0   == Xor(Xor(rotate_right(a, 2), rotate_right(a, 13)), rotate_right(a, 22))
      second == Add(sum0, Majority(a, b, c))
  IN  /\ Len(words) = 64 /\ round < 64
      /\ work' = <<Add(first, second), a, b, c, Add(work[4], first), e, f, g>>
      /\ round' = round + 1
      /\ UNCHANGED <<message, position, words, state>>

add_to_state ==
  /\ round = 64
  /\ state' = [k \in 1 .. 8 |-> Add(state[k], work[k])]
  /\ position' = position + 1
  /\ words' = <<>> /\ round' = 0
  /\ UNCHANGED <<message, work>>

Init ==
  /\ position = 0 /\ words = <<>> /\ round = 0
  /\ state = FirstState /\ work = FirstState

Next == load \/ mix \/ step \/ add_to_state
=============================================================================
