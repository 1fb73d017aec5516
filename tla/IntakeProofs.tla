---------------------------- MODULE IntakeProofs ----------------------------
(***************************************************************************)
(* Proofs about the way of a command, for every number and width of the    *)
(* configuration and every text that a sender writes:                      *)
(*   - the configuration that main starts with;                            *)
(*   - the tokens of any text, and of a text that a sender wrote;          *)
(*   - the command that the tokens are read as, sizes included;            *)
(*   - that what becomes of its path is a run of LocalPath, about which    *)
(*     LibraryProofs has the theorems.                                     *)
(***************************************************************************)
EXTENDS Intake, WellFoundedInduction, TLAPS

-----------------------------------------------------------------------------
(* Induction.  What a recursive function computes is found by induction up *)
(* to a number, which is stated for sets of numbers (UpTo) and comes from  *)
(* the well-foundedness of < on Nat.                                       *)

(* A set of natural numbers that is not empty has a smallest one.          *)
LEMMA SmallestExists ==
  ASSUME NEW T \in SUBSET Nat, T # {}
  PROVE  \E x \in T : \A y \in T : x <= y
<1> DEFINE R == OpToRel(<, Nat)
<1>1. IsWellFoundedOn(R, Nat)
  BY NatLessThanWellFounded, Zenon
<1>2. R = {ss \in Nat \X Nat : ss[1] < ss[2]}
  BY DEF OpToRel
<1> HIDE DEF R
<1>3. PICK x \in T : \A y \in T : ~ (<<y, x>> \in R)
  BY <1>1, WFMin, Zenon
<1>4. ASSUME NEW y \in T PROVE x <= y
  <2>1. x \in Nat /\ y \in Nat
    OBVIOUS
  <2>2. y < x => <<y, x>> \in R
    BY <2>1, <1>2
  <2> QED BY <2>1, <2>2, <1>3
<1> QED BY <1>4

(* Induction up to n, for sets.                                            *)
LEMMA UpTo ==
  ASSUME NEW n \in Nat, NEW T, 0 \in T, \A k \in 1 .. n : k - 1 \in T => k \in T
  PROVE  \A k \in 0 .. n : k \in T
<1> SUFFICES ASSUME NEW k \in 0 .. n, k \notin T PROVE FALSE
  OBVIOUS
<1> DEFINE U == {j \in 0 .. n : j \notin T}
<1>1. U \in SUBSET Nat /\ U # {}
  OBVIOUS
<1>2. PICK x \in U : \A y \in U : x <= y
  BY <1>1, SmallestExists, Zenon
<1>3. x \in 1 .. n /\ x - 1 \in 0 .. n /\ ~(x <= x - 1)
  BY <1>2
<1>4. x - 1 \in T
  BY <1>2, <1>3
<1> QED BY <1>2, <1>3, <1>4

(* A step function can be applied along a sequence.                        *)
Along(F, a, s, n, f) == f[0] = a /\ \A k \in 1 .. n : f[k] = F[<<f[k - 1], s[k]>>]
LEMMA Iterate ==
  ASSUME NEW A, NEW B, NEW F \in [A \X B -> A], NEW a \in A, NEW s \in Seq(B)
  PROVE  \E f \in [0 .. Len(s) -> A] : Along(F, a, s, Len(s), f)
<1> DEFINE T == {n \in 0 .. Len(s) : \E f \in [0 .. n -> A] : Along(F, a, s, n, f)}
<1>1. 0 \in T
  <2>1. [k \in 0 .. 0 |-> a] \in [0 .. 0 -> A] /\ Along(F, a, s, 0, [k \in 0 .. 0 |-> a])
    BY DEF Along
  <2>2. \E f \in [0 .. 0 -> A] : Along(F, a, s, 0, f)
    BY <2>1
  <2> QED BY <2>2
<1>2. ASSUME NEW n \in 1 .. Len(s), n - 1 \in T PROVE n \in T
  <2>1. PICK f \in [0 .. n - 1 -> A] : Along(F, a, s, n - 1, f)
    BY <1>2
  <2> DEFINE g == [k \in 0 .. n |-> IF k = n THEN F[<<f[n - 1], s[n]>>] ELSE f[k]]
  <2>2. s[n] \in B /\ f[n - 1] \in A
    BY <2>1
  <2>3. F[<<f[n - 1], s[n]>>] \in A
    BY <2>2
  <2>4. \A k \in 0 .. n : k # n => k \in 0 .. n - 1
    OBVIOUS
  <2>5. g \in [0 .. n -> A]
    BY <2>3, <2>4
  <2>6. g[0] = a
    BY <2>1 DEF Along
  <2>7. ASSUME NEW k \in 1 .. n PROVE g[k] = F[<<g[k - 1], s[k]>>]
    <3>1. k - 1 \in 0 .. n /\ k - 1 # n /\ g[k - 1] = f[k - 1]
      OBVIOUS
    <3>2. CASE k = n
      BY <3>1, <3>2
    <3>3. CASE k # n
      <4>1. k \in 1 .. n - 1
        BY <3>3
      <4> QED BY <2>1, <3>1, <3>3, <4>1 DEF Along
    <3> QED BY <3>2, <3>3
  <2> HIDE DEF g
  <2>8. \E h \in [0 .. n -> A] : Along(F, a, s, n, h)
    BY <2>5, <2>6, <2>7 DEF Along
  <2> QED BY <2>8
<1>3. Len(s) \in Nat /\ Len(s) \in 0 .. Len(s)
  OBVIOUS
<1> HIDE DEF T
<1>4. Len(s) \in T
  BY <1>1, <1>2, <1>3, UpTo, Zenon
<1> QED BY <1>4 DEF T

(* The first n elements of a sequence.                                     *)
LEMMA FirstElements ==
  ASSUME NEW S, NEW s \in Seq(S), NEW n \in 0 .. Len(s)
  PROVE  /\ SubSeq(s, 1, n) \in Seq(S) /\ Len(SubSeq(s, 1, n)) = n
         /\ \A k \in 1 .. n : SubSeq(s, 1, n)[k] = s[k]
OBVIOUS

(* Sequences are equal when their elements are.                            *)
LEMMA SameElements ==
  ASSUME NEW S, NEW s \in Seq(S), NEW t \in Seq(S), Len(s) = Len(t),
         \A k \in 1 .. Len(s) : s[k] = t[k]
  PROVE  s = t
OBVIOUS

(* Appending to a sequence.                                                *)
LEMMA AppendElements ==
  ASSUME NEW S, NEW s \in Seq(S), NEW e \in S
  PROVE  /\ Append(s, e) \in Seq(S) /\ Len(s) \in Nat
         /\ Len(Append(s, e)) = Len(s) + 1
         /\ \A k \in 1 .. Len(s) : Append(s, e)[k] = s[k]
         /\ Append(s, e)[Len(s) + 1] = e
OBVIOUS

-----------------------------------------------------------------------------
(* Texts.                                                                  *)

(* Characters, the ones that parse_tokens treats in their own way among    *)
(* them; and texts.                                                        *)
Char == STRING \cup {Dq, Sq, Backslash, Space}
Word == Seq(Char)

(* The special ones are characters.                                        *)
LEMMA Chars == Dq \in Char /\ Sq \in Char /\ Backslash \in Char /\ Space \in Char
BY DEF Char

(* Concatenation is associative, and nothing added changes nothing.        *)
LEMMA Concat ==
  ASSUME NEW s \in Word, NEW t \in Word
  PROVE  s \o t \in Word /\ <<>> \o s = s /\ s \o <<>> = s
BY DEF Word
(* Concatenation is associative.                                           *)
LEMMA Associative ==
  ASSUME NEW s \in Word, NEW t \in Word, NEW u \in Word
  PROVE  (s \o t) \o u = s \o (t \o u)
BY DEF Word

(* What lies ahead.                                                        *)
Rest(t, j) == SubSeq(t, j, Len(t))
(* The characters of a text from its j-th on.                              *)
LEMMA RestElements ==
  ASSUME NEW t \in Word, NEW j \in Nat \ {0}
  PROVE  /\ Rest(t, j) \in Word
         /\ j > Len(t) => Len(Rest(t, j)) = 0
         /\ j <= Len(t) + 1 => Len(Rest(t, j)) = Len(t) - j + 1
         /\ \A k \in 1 .. Len(t) - j + 1 : Rest(t, j)[k] = t[j + k - 1]
<1>1. Len(t) \in Nat /\ t \in Seq(Char)
  BY DEF Word
<1>2. Rest(t, j) \in Seq(Char)
  BY <1>1 DEF Rest
<1>3. j > Len(t) => Len(Rest(t, j)) = 0
  BY <1>1 DEF Rest
<1>4. j <= Len(t) + 1 => Len(Rest(t, j)) = Len(t) - j + 1
  BY <1>1 DEF Rest
<1>5. ASSUME NEW k \in 1 .. Len(t) - j + 1 PROVE Rest(t, j)[k] = t[j + k - 1]
  BY <1>1 DEF Rest
<1> QED BY <1>2, <1>3, <1>4, <1>5 DEF Word

-----------------------------------------------------------------------------
(* The size of a command: std::stoull and the number that is written.     *)

(* The value of a digit.                                                   *)
LEMMA DigitValue ==
  ASSUME NEW c \in Digits
  PROVE  Digit(c) \in 0 .. 9
<1>1. PICK k \in 1 .. 10 : c = Numerals[k]
  BY Zenon DEF Digits
<1>2. k - 1 \in 0 .. 9 /\ (k - 1) + 1 = k
  OBVIOUS
<1>3. \E n \in 0 .. 9 : Numerals[n + 1] = c
  BY <1>1, <1>2, Zenon
<1> QED BY <1>3, Zenon DEF Digit

(* Blanks and signs are not digits.                                        *)
LEMMA NotDigits ==
  "-" # Space /\ "+" # Space /\ "-" \notin Digits /\ "+" \notin Digits /\ Space \notin Digits
<1>1. ASSUME NEW k \in 1 .. 10 PROVE Numerals[k] \in {"0", "1", "2", "3", "4", "5", "6", "7", "8", "9"}
  <2>1. k = 1 \/ k = 2 \/ k = 3 \/ k = 4 \/ k = 5 \/ k = 6 \/ k = 7 \/ k = 8 \/ k = 9 \/ k = 10
    OBVIOUS
  <2> QED BY <2>1 DEF Numerals
<1>2. \A c \in Digits : c \in {"0", "1", "2", "3", "4", "5", "6", "7", "8", "9"}
  BY <1>1, Zenon DEF Digits
<1>3. {"-", "+", " "} \cap {"0", "1", "2", "3", "4", "5", "6", "7", "8", "9"} = {}
  OBVIOUS
<1>4. "-" # " " /\ "+" # " "
  OBVIOUS
<1> QED BY <1>2, <1>3, <1>4, Zenon DEF Space

(* Products and sums of natural numbers.                                   *)
LEMMA Product ==
  ASSUME NEW x \in Nat, NEW y \in Nat
  PROVE  x * y \in Nat /\ x + y \in Nat /\ 10 * x \in Nat
OBVIOUS
(* A digit moves from the sum to the number in front of it.                *)
LEMMA Shift ==
  ASSUME NEW h \in Nat, NEW w \in Nat, NEW s \in Nat, NEW d \in Nat
  PROVE  h * (10 * w) + (s + d * w) = (10 * h + d) * w + s
OBVIOUS
(* Negation in an unsigned type of m + 1 values.                           *)
LEMMA Negated ==
  ASSUME NEW m \in Nat, NEW n \in 0 .. m
  PROVE  (-n) % (m + 1) = IF n > 0 THEN m + 1 - n ELSE n
OBVIOUS

(* std::stoull reads a digit at a time, from the first.                    *)
Horner(n, c) == 10 * n + Digit(c)
(* The number after each digit.                                            *)
LEMMA NumberStep ==
  ASSUME NEW d \in Seq(Digits)
  PROVE  /\ Number(d) \in [0 .. Len(d) -> Nat] /\ Number(d)[0] = 0
         /\ \A k \in 1 .. Len(d) : Number(d)[k] = 10 * Number(d)[k - 1] + Digit(d[k])
<1> DEFINE F == [x \in Nat \X Digits |-> Horner(x[1], x[2])]
           G(f) == [k \in 0 .. Len(d) |-> IF k = 0 THEN 0 ELSE Horner(f[k - 1], d[k])]
           w == Number(d)
<1>1. Len(d) \in Nat /\ \A k \in 1 .. Len(d) : d[k] \in Digits
  OBVIOUS
<1>2. ASSUME NEW n \in Nat, NEW c \in Digits PROVE Horner(n, c) \in Nat
  <2>1. Digit(c) \in 0 .. 9
    BY DigitValue, Zenon
  <2> QED BY <2>1 DEF Horner
<1>3. F \in [Nat \X Digits -> Nat]
  BY <1>2
<1>4. PICK f \in [0 .. Len(d) -> Nat] : Along(F, 0, d, Len(d), f)
  <2>1. 0 \in Nat
    OBVIOUS
  <2> HIDE DEF F
  <2> QED BY <1>3, <2>1, Iterate, Zenon
<1>5. ASSUME NEW k \in 1 .. Len(d) PROVE f[k] = Horner(f[k - 1], d[k])
  <2>1. f[k - 1] \in Nat /\ d[k] \in Digits
    <3>1. k - 1 \in 0 .. Len(d)
      BY <1>1
    <3> QED BY <1>1, <1>4, <3>1, Zenon
  <2>2. f[k] = F[<<f[k - 1], d[k]>>]
    BY <1>4, Zenon DEF Along
  <2> QED BY <2>1, <2>2
<1>6. f[0] = 0
  BY <1>4 DEF Along
<1> HIDE DEF F
<1>7. f = G(f)
  BY <1>1, <1>4, <1>5, <1>6
<1>8. w = CHOOSE g : g = G(g)
  BY DEF Number, Horner
<1> HIDE DEF w
<1>9. w = G(w)
  BY <1>7, <1>8, Zenon
<1>10. w[0] = 0 /\ \A k \in 1 .. Len(d) : w[k] = Horner(w[k - 1], d[k])
  BY <1>1, <1>9
<1> DEFINE T == {k \in 0 .. Len(d) : w[k] \in Nat}
<1>11. 0 \in T
  BY <1>1, <1>10
<1>12. ASSUME NEW k \in 1 .. Len(d), k - 1 \in T PROVE k \in T
  <2>1. w[k - 1] \in Nat /\ k \in 0 .. Len(d) /\ d[k] \in Digits
    BY <1>1, <1>12
  <2>2. Horner(w[k - 1], d[k]) \in Nat
    BY <1>2, <2>1, Zenon
  <2> QED BY <1>10, <2>1, <2>2
<1> HIDE DEF T
<1>13. \A k \in 0 .. Len(d) : k \in T
  BY <1>1, <1>11, <1>12, UpTo, Zenon
<1>14. w \in [0 .. Len(d) -> Nat]
  BY <1>9, <1>13 DEF T
<1> QED BY <1>10, <1>14 DEF w, Horner

(* A decimal number is the sum of its digits' values, from the last.       *)
Counted == [sum : Nat, worth : Nat]
Count(v, c) == [sum |-> v.sum + Digit(c) * v.worth, worth |-> 10 * v.worth]
(* The sum after each digit, and what the next one is worth.               *)
LEMMA ValueStep ==
  ASSUME NEW d \in Seq(Digits)
  PROVE  /\ Value(d) \in [0 .. Len(d) -> Counted] /\ Value(d)[0] = [sum |-> 0, worth |-> 1]
         /\ \A n \in 1 .. Len(d) : Value(d)[n] = Count(Value(d)[n - 1], d[Len(d) - n + 1])
<1> DEFINE F == [x \in Counted \X Digits |-> Count(x[1], x[2])]
           s == [n \in 1 .. Len(d) |-> d[Len(d) - n + 1]]
           zero == [sum |-> 0, worth |-> 1]
           G(f) == [n \in 0 .. Len(d) |-> IF n = 0 THEN zero ELSE Count(f[n - 1], d[Len(d) - n + 1])]
           w == Value(d)
<1>1. Len(d) \in Nat /\ \A k \in 1 .. Len(d) : d[k] \in Digits
  OBVIOUS
<1>2. ASSUME NEW v \in Counted, NEW c \in Digits PROVE Count(v, c) \in Counted
  <2>1. v.sum \in Nat /\ v.worth \in Nat /\ Digit(c) \in Nat
    <3>1. Digit(c) \in 0 .. 9
      BY DigitValue, Zenon
    <3> QED BY <3>1 DEF Counted
  <2>2. Digit(c) * v.worth \in Nat
    BY <2>1, Product, Zenon
  <2>3. v.sum + Digit(c) * v.worth \in Nat /\ 10 * v.worth \in Nat
    BY <2>1, <2>2, Product, Zenon
  <2> QED BY <2>3 DEF Count, Counted
<1>3. F \in [Counted \X Digits -> Counted]
  BY <1>2
<1>4. s \in Seq(Digits) /\ Len(s) = Len(d) /\ \A n \in 1 .. Len(d) : s[n] = d[Len(d) - n + 1]
        /\ s[n] \in Digits
  <2>1. \A n \in 1 .. Len(d) : Len(d) - n + 1 \in 1 .. Len(d)
    BY <1>1
  <2> QED BY <1>1, <2>1
<1>5. zero \in Counted
  BY DEF Counted
<1> HIDE DEF s, zero
<1>6. PICK f \in [0 .. Len(d) -> Counted] : Along(F, zero, s, Len(d), f)
  <2> HIDE DEF F
  <2>1. \E f \in [0 .. Len(s) -> Counted] : Along(F, zero, s, Len(s), f)
    BY <1>3, <1>4, <1>5, Iterate, Zenon
  <2> QED BY <1>4, <2>1, Zenon
<1>7. ASSUME NEW n \in 1 .. Len(d) PROVE f[n] = Count(f[n - 1], d[Len(d) - n + 1])
  <2>1. f[n - 1] \in Counted /\ s[n] \in Digits
    <3>1. n - 1 \in 0 .. Len(d)
      BY <1>1
    <3> QED BY <1>4, <1>6, <3>1, Zenon
  <2>2. f[n] = F[<<f[n - 1], s[n]>>]
    BY <1>6, Zenon DEF Along
  <2>3. f[n] = Count(f[n - 1], s[n])
    BY <2>1, <2>2
  <2> QED BY <1>4, <2>3, Zenon
<1>8. f[0] = zero
  BY <1>6 DEF Along
<1> HIDE DEF F
<1>9. f = G(f)
  BY <1>1, <1>6, <1>7, <1>8
<1>10. w = CHOOSE g : g = G(g)
  BY DEF Value, Count, zero
<1> HIDE DEF w
<1>11. w = G(w)
  BY <1>9, <1>10, Zenon
<1>12. w[0] = zero /\ \A n \in 1 .. Len(d) : w[n] = Count(w[n - 1], d[Len(d) - n + 1])
  BY <1>1, <1>11
<1> DEFINE T == {n \in 0 .. Len(d) : w[n] \in Counted}
<1>13. 0 \in T
  BY <1>1, <1>5, <1>12
<1>14. ASSUME NEW n \in 1 .. Len(d), n - 1 \in T PROVE n \in T
  <2>1. w[n - 1] \in Counted /\ n \in 0 .. Len(d) /\ d[Len(d) - n + 1] \in Digits
    BY <1>4, <1>14
  <2>2. Count(w[n - 1], d[Len(d) - n + 1]) \in Counted
    BY <1>2, <2>1, Zenon
  <2> QED BY <1>12, <2>1, <2>2
<1> HIDE DEF T
<1>15. \A n \in 0 .. Len(d) : n \in T
  BY <1>1, <1>13, <1>14, UpTo, Zenon
<1>16. w \in [0 .. Len(d) -> Counted]
  BY <1>11, <1>15 DEF T
<1> QED BY <1>12, <1>16 DEF w, zero

(* Both find the same number.                                              *)
LEMMA SameNumber ==
  ASSUME NEW d \in Seq(Digits)
  PROVE  /\ Number(d)[Len(d)] = Value(d)[Len(d)].sum /\ Number(d)[Len(d)] \in Nat
<1> DEFINE m == Len(d)
           h == Number(d)
           v == Value(d)
           T == {n \in 0 .. m : h[m - n] * v[n].worth + v[n].sum = h[m]}
<1>1. m \in Nat /\ \A k \in 1 .. m : d[k] \in Digits
  OBVIOUS
<1>2. h \in [0 .. m -> Nat] /\ h[0] = 0 /\ \A k \in 1 .. m : h[k] = 10 * h[k - 1] + Digit(d[k])
  BY NumberStep, Zenon
<1>3. /\ v \in [0 .. m -> Counted] /\ v[0] = [sum |-> 0, worth |-> 1]
      /\ \A n \in 1 .. m : v[n] = Count(v[n - 1], d[m - n + 1])
  BY ValueStep, Zenon
<1> HIDE DEF m, h, v
<1>4. 0 \in T
  <2>1. 0 \in 0 .. m /\ m - 0 = m /\ h[m] \in Nat /\ v[0].sum = 0 /\ v[0].worth = 1
    BY <1>1, <1>2, <1>3
  <2> QED BY <2>1
<1>5. ASSUME NEW n \in 1 .. m, n - 1 \in T PROVE n \in T
  <2> DEFINE c == d[m - n + 1]
  <2>1. /\ m - (n - 1) = m - n + 1 /\ m - n + 1 \in 1 .. m /\ (m - n + 1) - 1 = m - n
        /\ m - n \in 0 .. m /\ n - 1 \in 0 .. m /\ n \in 0 .. m
    BY <1>1
  <2>2. h[m - n] \in Nat /\ v[n - 1] \in Counted /\ c \in Digits
          /\ h[m - n + 1] = 10 * h[m - n] + Digit(c)
    BY <1>1, <1>2, <1>3, <2>1
  <2>3. v[n] = Count(v[n - 1], c)
    BY <1>3
  <2>4. h[m - n + 1] * v[n - 1].worth + v[n - 1].sum = h[m]
    BY <1>5, <2>1
  <2> HIDE DEF c
  <2>5. v[n - 1].sum \in Nat /\ v[n - 1].worth \in Nat /\ Digit(c) \in Nat
    <3>1. Digit(c) \in 0 .. 9
      BY <2>2, DigitValue, Zenon
    <3> QED BY <2>2, <3>1 DEF Counted
  <2>6. v[n].worth = 10 * v[n - 1].worth /\ v[n].sum = v[n - 1].sum + Digit(c) * v[n - 1].worth
    BY <2>3 DEF Count
  <2>7. h[m - n] * (10 * v[n - 1].worth) + (v[n - 1].sum + Digit(c) * v[n - 1].worth)
          = (10 * h[m - n] + Digit(c)) * v[n - 1].worth + v[n - 1].sum
    <3> DEFINE x == h[m - n]
               w == v[n - 1].worth
               s == v[n - 1].sum
               e == Digit(c)
    <3>1. x \in Nat /\ w \in Nat /\ s \in Nat /\ e \in Nat
      BY <2>2, <2>5, Zenon
    <3> HIDE DEF x, w, s, e
    <3>2. x * (10 * w) + (s + e * w) = (10 * x + e) * w + s
      BY <3>1, Shift
    <3> QED BY <3>2, Zenon DEF x, w, s, e
  <2>8. h[m - n] * v[n].worth + v[n].sum = h[m]
    BY <2>2, <2>4, <2>6, <2>7, Zenon
  <2> QED BY <2>1, <2>8
<1> HIDE DEF T
<1>6. m \in T
  <2>1. \A n \in 0 .. m : n \in T
    BY <1>1, <1>4, <1>5, UpTo, Zenon
  <2> QED BY <1>1, <2>1
<1>7. m \in 0 .. m /\ m - m = 0 /\ h[0] = 0 /\ h[m] \in Nat /\ v[m].worth \in Nat
        /\ v[m].sum \in Nat
  BY <1>1, <1>2, <1>3 DEF Counted
<1>8. h[m - m] * v[m].worth + v[m].sum = h[m]
  BY <1>6 DEF T
<1>9. 0 * v[m].worth + v[m].sum = h[m]
  BY <1>7, <1>8, Zenon
<1> QED BY <1>7, <1>9 DEF m, h, v

(* The first character that is not a blank.                                *)
FirstAt(t, k) == (\A j \in 1 .. k - 1 : t[j] = Space) /\ (k <= Len(t) => t[k] # Space)
(* There is such a character, or the end of the text.                      *)
LEMMA FirstExists ==
  ASSUME NEW t \in Word
  PROVE  \E k \in 1 .. Len(t) + 1 : FirstAt(t, k)
<1> DEFINE T == {k \in 1 .. Len(t) + 1 : k <= Len(t) => t[k] # Space}
<1>1. Len(t) \in Nat
  BY DEF Word
<1>2. T \in SUBSET Nat /\ T # {}
  <2>1. Len(t) + 1 \in 1 .. Len(t) + 1 /\ ~(Len(t) + 1 <= Len(t))
    BY <1>1
  <2>2. Len(t) + 1 \in T
    BY <2>1
  <2> QED BY <1>1, <2>2
<1>3. PICK x \in T : \A y \in T : x <= y
  BY <1>2, SmallestExists, Zenon
<1>4. ASSUME NEW j \in 1 .. x - 1 PROVE t[j] = Space
  <2>1. j \in 1 .. Len(t) + 1 /\ ~(x <= j)
    BY <1>1, <1>3
  <2>2. j \notin T
    BY <1>3, <2>1
  <2> QED BY <2>1, <2>2
<1>5. x \in 1 .. Len(t) + 1 /\ FirstAt(t, x)
  BY <1>3, <1>4 DEF FirstAt
<1> QED BY <1>5, Zenon

(* The places where a number can start are the one where std::stoull finds *)
(* its digits, or none; and it finds the number that is written there.     *)
THEOREM SizeIsRead ==
  ASSUME NEW t \in Word
  PROVE  /\ Starts(t) = {} => stoull(t) = NoSize
         /\ Starts(t) # {} => stoull(t) = Size(t) /\ stoull(t) \in Nat
<1> DEFINE front  == CHOOSE k \in 1 .. Len(t) + 1 :
                       (\A j \in 1 .. k - 1 : t[j] = Space) /\ (k <= Len(t) => t[k] # Space)
           signed == front <= Len(t) /\ t[front] \in {"-", "+"}
           from   == IF signed THEN front + 1 ELSE front
           digits == SubSeq(t, from, Len(t))
           n      == Number(digits)[Len(digits)]
           good   == digits # <<>> /\ AllDigits(digits) /\ n <= SizeMax
<1>1. Len(t) \in Nat /\ t \in Seq(Char)
  BY DEF Word
<1>2. /\ front \in 1 .. Len(t) + 1 /\ front \in Nat \ {0}
      /\ \A j \in 1 .. front - 1 : t[j] = Space
      /\ front <= Len(t) => t[front] # Space
  <2>1. \E k \in 1 .. Len(t) + 1 :
          (\A j \in 1 .. k - 1 : t[j] = Space) /\ (k <= Len(t) => t[k] # Space)
    BY FirstExists, Zenon DEF FirstAt
  <2>2. /\ front \in 1 .. Len(t) + 1
        /\ (\A j \in 1 .. front - 1 : t[j] = Space) /\ (front <= Len(t) => t[front] # Space)
    BY <2>1, Zenon
  <2> HIDE DEF front
  <2> QED BY <1>1, <2>2
<1>3. stoull(t) = IF digits = <<>> \/ ~AllDigits(digits) \/ n > SizeMax THEN NoSize
                  ELSE IF signed /\ t[front] = "-" THEN (-n) % (SizeMax + 1) ELSE n
  BY Zenon DEF stoull
<1> HIDE DEF front
<1>4. from \in Nat \ {0} /\ (signed => from = front + 1) /\ (~signed => from = front)
  BY <1>2
<1> HIDE DEF from
<1>5. digits = Rest(t, from)
  BY DEF Rest
<1>6. \A k \in Nat \ {0} :
        /\ Rest(t, k) \in Word
        /\ k > Len(t) => Len(Rest(t, k)) = 0
        /\ k <= Len(t) + 1 => Len(Rest(t, k)) = Len(t) - k + 1
        /\ \A j \in 1 .. Len(t) - k + 1 : Rest(t, k)[j] = t[k + j - 1]
  BY RestElements, Zenon
<1> HIDE DEF digits
<1>7. ASSUME NEW d \in Word, AllDigits(d)
      PROVE  /\ Number(d)[Len(d)] = Value(d)[Len(d)].sum /\ Number(d)[Len(d)] \in Nat
  <2>1. d \in Seq(Digits)
    <3>1. d \in Seq(Char) /\ \A k \in 1 .. Len(d) : d[k] \in Digits
      BY <1>7 DEF Word, AllDigits
    <3> QED BY <3>1
  <2> QED BY <2>1, SameNumber, Zenon
<1>8. "-" # Space /\ "+" # Space /\ "-" \notin Digits /\ "+" \notin Digits /\ Space \notin Digits
  BY NotDigits, Zenon
<1>9. ASSUME NEW k \in Starts(t) PROVE k = from /\ good
  <2>1. /\ k \in 1 .. Len(t) /\ Decimal(Rest(t, k))
        /\ \A j \in 1 .. k - 1 : t[j] = Space \/ (j = k - 1 /\ t[j] \in {"-", "+"})
    BY <1>9, Zenon DEF Starts, Rest
  <2>2. t[k] \in Digits
    <3>1. Rest(t, k) \in Word /\ Len(Rest(t, k)) = Len(t) - k + 1 /\ Rest(t, k)[1] = t[k + 1 - 1]
      BY <1>1, <1>6, <2>1
    <3>2. 1 \in 1 .. Len(Rest(t, k)) /\ k + 1 - 1 = k
      BY <1>1, <2>1, <3>1
    <3>3. DOMAIN Rest(t, k) = 1 .. Len(Rest(t, k))
      BY <3>1 DEF Word
    <3> QED BY <2>1, <3>1, <3>2, <3>3, Zenon DEF Decimal, AllDigits
  <2>3. front <= k /\ front <= Len(t) /\ t[front] # Space
    <3>1. ~(k \in 1 .. front - 1)
      BY <1>2, <1>8, <2>2, Zenon
    <3>2. front <= k /\ front <= Len(t)
      BY <1>1, <1>2, <2>1, <3>1
    <3> QED BY <1>2, <3>2
  <2>4. k = from
    <3>1. CASE k = front
      <4>1. ~signed
        BY <1>8, <2>2, <3>1, Zenon
      <4> QED BY <1>4, <3>1, <4>1, Zenon
    <3>2. CASE k # front
      <4>1. front \in 1 .. k - 1
        BY <1>1, <1>2, <2>1, <2>3, <3>2
      <4>2. front = k - 1 /\ signed
        BY <2>1, <2>3, <4>1, Zenon
      <4>3. front + 1 = k
        BY <1>2, <2>1, <4>2
      <4> QED BY <1>4, <4>2, <4>3, Zenon
    <3> QED BY <3>1, <3>2
  <2>5. digits \in Word /\ Decimal(digits)
    BY <1>4, <1>5, <1>6, <2>1, <2>4, Zenon
  <2> QED BY <1>7, <2>4, <2>5, Zenon DEF Decimal
<1>10. ASSUME good PROVE Starts(t) = {from} /\ from \in 1 .. Len(t)
                /\ Len(digits) = Len(t) - from + 1
  <2>1. digits \in Word /\ (from > Len(t) => Len(digits) = 0)
          /\ (from <= Len(t) + 1 => Len(digits) = Len(t) - from + 1)
    BY <1>4, <1>5, <1>6, Zenon
  <2>2. Len(digits) # 0
    BY <1>10, <2>1 DEF Word
  <2>3. from \in 1 .. Len(t) /\ Len(digits) = Len(t) - from + 1
    BY <1>1, <1>4, <2>1, <2>2
  <2>4. Decimal(SubSeq(t, from, Len(t)))
    BY <1>5, <1>7, <1>10, <2>1, Zenon DEF Decimal, Rest
  <2>5. ASSUME NEW j \in 1 .. from - 1 PROVE t[j] = Space \/ (j = from - 1 /\ t[j] \in {"-", "+"})
    <3>1. CASE signed
      <4>1. j \in 1 .. front - 1 \/ (j = front /\ j = from - 1)
        BY <1>2, <1>4, <3>1
      <4> QED BY <1>2, <3>1, <4>1, Zenon
    <3>2. CASE ~signed
      BY <1>2, <1>4, <3>2, Zenon
    <3> QED BY <3>1, <3>2, Zenon
  <2>6. from \in Starts(t)
    BY <2>3, <2>4, <2>5, Zenon DEF Starts
  <2>7. Starts(t) = {from}
    <3> HIDE DEF good
    <3> QED BY <1>9, <2>6, Zenon
  <2> QED BY <2>3, <2>7, Zenon
<1>11. CASE good
  <2>1. Starts(t) = {from} /\ from \in 1 .. Len(t) /\ Len(digits) = Len(t) - from + 1
    BY <1>10, <1>11, Zenon
  <2>2. digits \in Word
    BY <1>4, <1>5, <1>6, Zenon
  <2>3. n = Value(digits)[Len(digits)].sum /\ n \in Nat
    BY <1>7, <1>11, <2>2, Zenon
  <2>4. (CHOOSE k \in Starts(t) : TRUE) = from
    BY <2>1
  <2>5. Size(t) = IF from > 1 /\ t[from - 1] = "-" /\ n > 0 THEN SizeMax + 1 - n ELSE n
    BY <1>5, <2>1, <2>3, <2>4, Zenon DEF Size, Rest
  <2> HIDE DEF n
  <2>6. n \in 0 .. SizeMax /\ SizeMax \in Nat
    BY <1>11, <2>3, SizeAssumption
  <2>7. stoull(t) = IF signed /\ t[front] = "-" THEN (-n) % (SizeMax + 1) ELSE n
    <3>1. ~(n > SizeMax)
      BY <2>6
    <3> QED BY <1>3, <1>11, <3>1, Zenon
  <2>8. (signed /\ t[front] = "-") <=> (from > 1 /\ t[from - 1] = "-")
    <3>1. CASE signed
      <4>1. from > 1 /\ from - 1 = front
        BY <1>2, <1>4, <3>1
      <4> QED BY <3>1, <4>1, Zenon
    <3>2. CASE ~signed
      <4>1. from > 1 => from - 1 \in 1 .. front - 1
        BY <1>2, <1>4, <3>2
      <4> QED BY <1>2, <1>8, <3>2, <4>1, Zenon
    <3> QED BY <3>1, <3>2, Zenon
  <2>9. (-n) % (SizeMax + 1) = IF n > 0 THEN SizeMax + 1 - n ELSE n
    BY <2>6, Negated
  <2>10. stoull(t) = Size(t)
    <3>1. CASE signed /\ t[front] = "-"
      <4>1. CASE n > 0
        BY <2>5, <2>7, <2>8, <2>9, <3>1, <4>1, Zenon
      <4>2. CASE ~(n > 0)
        BY <2>5, <2>7, <2>8, <2>9, <3>1, <4>2, Zenon
      <4> QED BY <4>1, <4>2
    <3>2. CASE ~(signed /\ t[front] = "-")
      BY <2>5, <2>7, <2>8, <3>2, Zenon
    <3> QED BY <3>1, <3>2, Zenon
  <2>11. n \in Nat /\ SizeMax + 1 - n \in Nat
    BY <2>6
  <2>12. stoull(t) \in Nat
    BY <2>5, <2>10, <2>11, Zenon
  <2> QED BY <2>1, <2>10, <2>12, Zenon
<1>12. CASE ~good
  <2>1. Starts(t) = {}
    BY <1>9, <1>12, Zenon
  <2>2. digits = <<>> \/ ~AllDigits(digits) \/ n > SizeMax
    <3>1. ASSUME AllDigits(digits) PROVE n \in Nat
      BY <1>4, <1>5, <1>6, <1>7, <3>1, Zenon
    <3>2. n \in Nat => n > SizeMax \/ n <= SizeMax
      BY SizeAssumption
    <3> QED BY <1>12, <3>1, <3>2, Zenon
  <2> QED BY <1>3, <2>1, <2>2, Zenon
<1> QED BY <1>11, <1>12, Zenon

-----------------------------------------------------------------------------
(* The text of a sender.  What lies ahead at each place of the rendering   *)
(* is a character and what lies ahead at the next place.                   *)

Styles == {"bare", Dq, Sq}

Leads(t, j, x, r) == Rest(t, j) = <<x>> \o r
(* The text goes on with x and then r: x is its next character.            *)
LEMMA AheadStep ==
  ASSUME NEW t \in Word, NEW j \in Nat \ {0}, NEW x \in Char, NEW r \in Word,
         Leads(t, j, x, r)
  PROVE  /\ j <= Len(t) /\ t[j] = x /\ Rest(t, j + 1) = r
         /\ r # <<>> => j < Len(t)
<1>1. Len(t) \in Nat /\ Len(r) \in Nat /\ t \in Seq(Char) /\ r \in Seq(Char)
  BY DEF Word
<1>2. Len(<<x>> \o r) = 1 + Len(r) /\ (<<x>> \o r)[1] = x
        /\ \A k \in 1 .. Len(r) : (<<x>> \o r)[k + 1] = r[k]
  BY <1>1
<1>3. /\ Rest(t, j) \in Word
      /\ j > Len(t) => Len(Rest(t, j)) = 0
      /\ j <= Len(t) + 1 => Len(Rest(t, j)) = Len(t) - j + 1
      /\ \A k \in 1 .. Len(t) - j + 1 : Rest(t, j)[k] = t[j + k - 1]
  BY RestElements, Zenon
<1>4. /\ Len(Rest(t, j)) = 1 + Len(r) /\ Rest(t, j)[1] = x
      /\ \A k \in 1 .. Len(r) : Rest(t, j)[k + 1] = r[k]
  BY <1>2, Zenon DEF Leads
<1>5. j <= Len(t)
  BY <1>1, <1>3, <1>4
<1>6. /\ Len(Rest(t, j)) = Len(t) - j + 1
      /\ \A k \in 1 .. Len(t) - j + 1 : Rest(t, j)[k] = t[j + k - 1]
  <2>1. j <= Len(t) + 1
    BY <1>1, <1>5
  <2> QED BY <1>3, <2>1, Zenon
<1>7. t[j] = x /\ Len(r) = Len(t) - j
  <2>1. 1 \in 1 .. Len(t) - j + 1 /\ j + 1 - 1 = j
    BY <1>1, <1>5
  <2>2. Rest(t, j)[1] = t[j]
    BY <1>6, <2>1
  <2> QED BY <1>1, <1>5, <1>6, <1>4, <2>2
<1>8. /\ Rest(t, j + 1) \in Seq(Char) /\ Len(Rest(t, j + 1)) = Len(t) - j
      /\ \A k \in 1 .. Len(t) - j : Rest(t, j + 1)[k] = t[j + k]
  <2>1. j + 1 \in Nat \ {0} /\ j + 1 <= Len(t) + 1 /\ Len(t) - (j + 1) + 1 = Len(t) - j
    BY <1>1, <1>5
  <2>2. \A k \in 1 .. Len(t) - j : (j + 1) + k - 1 = j + k
    BY <1>1, <1>5
  <2>3. /\ Rest(t, j + 1) \in Word
        /\ j + 1 <= Len(t) + 1 => Len(Rest(t, j + 1)) = Len(t) - (j + 1) + 1
        /\ \A k \in 1 .. Len(t) - (j + 1) + 1 : Rest(t, j + 1)[k] = t[(j + 1) + k - 1]
    BY <2>1, RestElements, Zenon
  <2>4. Len(Rest(t, j + 1)) = Len(t) - j
    BY <2>1, <2>3, Zenon
  <2>5. \A k \in 1 .. Len(t) - j : Rest(t, j + 1)[k] = t[j + k]
    BY <2>1, <2>2, <2>3, Zenon
  <2> QED BY <2>3, <2>4, <2>5, Zenon DEF Word
<1>9. ASSUME NEW k \in 1 .. Len(r) PROVE Rest(t, j + 1)[k] = r[k]
  <2>1. k + 1 \in 1 .. Len(t) - j + 1 /\ j + (k + 1) - 1 = j + k
    BY <1>1, <1>5, <1>7
  <2>2. Rest(t, j)[k + 1] = t[j + k]
    BY <1>6, <2>1
  <2> QED BY <1>4, <1>7, <1>8, <2>2
<1>10. Rest(t, j + 1) = r
  <2>1. Rest(t, j + 1) \in Seq(Char) /\ r \in Seq(Char) /\ Len(Rest(t, j + 1)) = Len(r)
    BY <1>7, <1>8 DEF Word
  <2> QED BY <1>9, <2>1, SameElements, Zenon
<1>11. r # <<>> => j < Len(t)
  BY <1>1, <1>5, <1>7
<1> QED BY <1>5, <1>7, <1>10, <1>11

(* Nothing ahead: the end of the text.                                     *)
LEMMA AheadEmpty ==
  ASSUME NEW t \in Word, NEW j \in Nat \ {0}, Rest(t, j) = <<>>
  PROVE  j > Len(t)
<1>1. Len(t) \in Nat /\ t \in Seq(Char)
  BY DEF Word
<1>2. j <= Len(t) + 1 => Len(Rest(t, j)) = Len(t) - j + 1
  BY RestElements, Zenon
<1>3. Len(Rest(t, j)) = 0
  OBVIOUS
<1> QED BY <1>1, <1>2, <1>3

(* Texts are joined one by one, from the last.                             *)
LEMMA JoinedStep ==
  ASSUME NEW texts \in Seq(Word)
  PROVE  /\ Joined(texts) \in [0 .. Len(texts) -> Word] /\ Joined(texts)[0] = <<>>
         /\ \A n \in 1 .. Len(texts) :
              Joined(texts)[n] = texts[Len(texts) - n + 1] \o Joined(texts)[n - 1]
<1> DEFINE F == [x \in Word \X Word |-> x[2] \o x[1]]
           s == [k \in 1 .. Len(texts) |-> texts[Len(texts) - k + 1]]
           G(f) == [n \in 0 .. Len(texts) |->
                      IF n = 0 THEN <<>> ELSE texts[Len(texts) - n + 1] \o f[n - 1]]
           w == Joined(texts)
<1>1. Len(texts) \in Nat /\ \A n \in 1 .. Len(texts) : texts[n] \in Word
  OBVIOUS
<1>2. F \in [Word \X Word -> Word]
  BY DEF Word
<1>3. s \in Seq(Word) /\ Len(s) = Len(texts)
        /\ \A n \in 1 .. Len(texts) : s[n] = texts[Len(texts) - n + 1] /\ s[n] \in Word
  <2>1. \A n \in 1 .. Len(texts) : Len(texts) - n + 1 \in 1 .. Len(texts)
    BY <1>1
  <2> QED BY <1>1, <2>1
<1>4. <<>> \in Word
  BY DEF Word
<1> HIDE DEF s
<1>5. PICK f \in [0 .. Len(texts) -> Word] : Along(F, <<>>, s, Len(texts), f)
  <2>1. \E f \in [0 .. Len(s) -> Word] : Along(F, <<>>, s, Len(s), f)
    BY <1>2, <1>3, <1>4, Iterate, Zenon
  <2> QED BY <1>3, <2>1, Zenon
<1>6. ASSUME NEW n \in 1 .. Len(texts) PROVE f[n] = texts[Len(texts) - n + 1] \o f[n - 1]
  <2>1. f[n - 1] \in Word
    BY <1>1, <1>5
  <2>2. f[n] = F[<<f[n - 1], s[n]>>]
    BY <1>5, Zenon DEF Along
  <2>3. s[n] = texts[Len(texts) - n + 1] /\ s[n] \in Word
    BY <1>3, Zenon
  <2> QED BY <2>1, <2>2, <2>3, Zenon
<1>7. f[0] = <<>>
  BY <1>5 DEF Along
<1> HIDE DEF F
<1>8. f = G(f)
  BY <1>1, <1>5, <1>6, <1>7
<1>9. w = CHOOSE g : g = G(g)
  BY DEF Joined
<1> HIDE DEF w
<1>10. w = G(w)
  BY <1>8, <1>9, Zenon
<1>11. /\ DOMAIN w = 0 .. Len(texts) /\ w[0] = <<>>
       /\ \A n \in 1 .. Len(texts) : w[n] = texts[Len(texts) - n + 1] \o w[n - 1]
  BY <1>1, <1>10
<1> DEFINE T == {n \in 0 .. Len(texts) : w[n] \in Word}
<1>12. 0 \in T
  BY <1>1, <1>4, <1>11
<1>13. ASSUME NEW n \in 1 .. Len(texts), n - 1 \in T PROVE n \in T
  <2>1. texts[Len(texts) - n + 1] \in Seq(Char) /\ w[n - 1] \in Seq(Char) /\ n \in 0 .. Len(texts)
    BY <1>3, <1>1, <1>13 DEF Word
  <2>2. w[n] \in Seq(Char)
    BY <1>11, <2>1, Concat, Zenon DEF Word
  <2> QED BY <2>1, <2>2 DEF Word
<1> HIDE DEF T
<1>14. \A n \in 0 .. Len(texts) : n \in T
  BY <1>1, <1>12, <1>13, UpTo, Zenon
<1>15. w \in [0 .. Len(texts) -> Word]
  BY <1>10, <1>14 DEF T
<1> QED BY <1>11, <1>15 DEF w

(* The first of the characters ahead.                                      *)
LEMMA RestStep ==
  ASSUME NEW t \in Word, NEW j \in 1 .. Len(t)
  PROVE  /\ Rest(t, j) \in Word /\ Rest(t, j + 1) \in Word /\ t[j] \in Char
         /\ Rest(t, j) = <<t[j]>> \o Rest(t, j + 1)
<1>1. Len(t) \in Nat /\ t \in Seq(Char) /\ t[j] \in Char /\ j \in Nat \ {0} /\ j + 1 \in Nat \ {0}
  BY DEF Word
<1>2. /\ Rest(t, j) \in Word
      /\ j <= Len(t) + 1 => Len(Rest(t, j)) = Len(t) - j + 1
      /\ \A k \in 1 .. Len(t) - j + 1 : Rest(t, j)[k] = t[j + k - 1]
  BY <1>1, RestElements, Zenon
<1>3. /\ Rest(t, j + 1) \in Word
      /\ j + 1 <= Len(t) + 1 => Len(Rest(t, j + 1)) = Len(t) - (j + 1) + 1
      /\ \A k \in 1 .. Len(t) - (j + 1) + 1 : Rest(t, j + 1)[k] = t[(j + 1) + k - 1]
  BY <1>1, RestElements, Zenon
<1> DEFINE r == Rest(t, j + 1)
           s == Rest(t, j)
           c == <<t[j]>> \o r
<1>4. Len(s) = Len(t) - j + 1 /\ Len(r) = Len(t) - j /\ Len(r) \in Nat /\ Len(s) = Len(r) + 1
  BY <1>1, <1>2, <1>3
<1>5. r \in Seq(Char) /\ s \in Seq(Char)
  BY <1>2, <1>3 DEF Word
<1>6. ASSUME NEW k \in 1 .. Len(s) PROVE s[k] = t[j + k - 1]
  BY <1>2, <1>4
<1>7. ASSUME NEW k \in 1 .. Len(r) PROVE r[k] = t[j + k]
  <2>1. k \in 1 .. Len(t) - (j + 1) + 1 /\ (j + 1) + k - 1 = j + k
    BY <1>1, <1>4
  <2> QED BY <1>3, <2>1
<1> HIDE DEF r, s
<1>8. /\ c \in Seq(Char) /\ Len(c) = Len(r) + 1 /\ c[1] = t[j]
      /\ \A k \in 1 .. Len(r) : c[k + 1] = r[k]
  BY <1>1, <1>5
<1> HIDE DEF c
<1>9. ASSUME NEW k \in 1 .. Len(s) PROVE s[k] = c[k]
  <2>1. CASE k = 1
    BY <1>1, <1>6, <1>8, <2>1
  <2>2. CASE k # 1
    <3>1. k - 1 \in 1 .. Len(r) /\ (k - 1) + 1 = k /\ j + (k - 1) = j + k - 1
      BY <1>1, <1>4, <2>2
    <3>2. c[k] = r[k - 1]
      BY <1>8, <3>1
    <3>3. r[k - 1] = t[j + k - 1]
      BY <1>7, <3>1
    <3> QED BY <1>6, <3>2, <3>3
  <2> QED BY <2>1, <2>2
<1>10. s = c
  BY <1>4, <1>5, <1>8, <1>9, SameElements
<1> QED BY <1>1, <1>2, <1>3, <1>10 DEF c, r, s

(* Nothing is behind the last character, and all of it from the first on.  *)
LEMMA RestEmpty ==
  ASSUME NEW t \in Word
  PROVE  Rest(t, Len(t) + 1) = <<>> /\ Rest(t, 1) = t
<1>1. Len(t) \in Nat /\ t \in Seq(Char)
  BY DEF Word
<1>2. Rest(t, Len(t) + 1) = <<>>
  BY <1>1 DEF Rest
<1>3. Rest(t, 1) = t
  BY <1>1 DEF Rest
<1> QED BY <1>2, <1>3

(* What stands in quotes for a character.                                  *)
Escape(c, q) == IF c \in {q, Backslash} THEN <<Backslash, c>> ELSE <<c>>

(* An argument in quotes is escaped a character at a time.                 *)
LEMMA EscapedStep ==
  ASSUME NEW a \in Word, NEW q \in Char
  PROVE  /\ Escaped(a, q) \in [0 .. Len(a) -> Word] /\ Escaped(a, q)[0] = <<>>
         /\ \A p \in 0 .. Len(a) - 1 :
              Escaped(a, q)[Len(a) - p] = Escape(a[p + 1], q) \o Escaped(a, q)[Len(a) - (p + 1)]
<1> DEFINE texts == [k \in 1 .. Len(a) |-> Escape(a[k], q)]
<1>1. Len(a) \in Nat /\ DOMAIN a = 1 .. Len(a) /\ \A k \in 1 .. Len(a) : a[k] \in Char
  BY DEF Word
<1>2. ASSUME NEW k \in 1 .. Len(a) PROVE Escape(a[k], q) \in Word
  BY <1>1, Chars DEF Escape, Word
<1>3. texts \in Seq(Word) /\ Len(texts) = Len(a)
        /\ \A k \in 1 .. Len(a) : texts[k] = Escape(a[k], q)
  BY <1>1, <1>2
<1>4. Escaped(a, q) = Joined(texts)
  BY <1>1, Zenon DEF Escaped, Escape
<1> HIDE DEF texts
<1>5. /\ Joined(texts) \in [0 .. Len(a) -> Word] /\ Joined(texts)[0] = <<>>
      /\ \A n \in 1 .. Len(a) : Joined(texts)[n] = texts[Len(a) - n + 1] \o Joined(texts)[n - 1]
  BY <1>3, JoinedStep, Zenon
<1>6. ASSUME NEW p \in 0 .. Len(a) - 1
      PROVE  Joined(texts)[Len(a) - p] = Escape(a[p + 1], q) \o Joined(texts)[Len(a) - (p + 1)]
  <2>1. /\ Len(a) - p \in 1 .. Len(a) /\ Len(a) - (Len(a) - p) + 1 = p + 1
        /\ Len(a) - p - 1 = Len(a) - (p + 1) /\ p + 1 \in 1 .. Len(a)
    BY <1>1
  <2>2. Joined(texts)[Len(a) - p] = texts[Len(a) - (Len(a) - p) + 1] \o Joined(texts)[Len(a) - p - 1]
    BY <1>5, <2>1, Zenon
  <2> QED BY <1>3, <2>1, <2>2, Zenon
<1> QED BY <1>4, <1>5, <1>6, Zenon

(* What stands for an argument is a text.                                  *)
LEMMA WrittenText ==
  ASSUME NEW a \in Word, NEW style \in Styles
  PROVE  Written(a, style) \in Word
<1> DEFINE q == IF style = "bare" THEN Dq ELSE style
<1>1. q \in Char
  BY Chars, Zenon DEF Styles
<1>2. Len(a) \in 0 .. Len(a)
  BY DEF Word
<1> HIDE DEF q
<1>3. <<q>> \in Word /\ Escaped(a, q)[Len(a)] \in Word
  <2>1. Escaped(a, q) \in [0 .. Len(a) -> Word]
    BY <1>1, EscapedStep, Zenon
  <2> QED BY <1>1, <1>2, <2>1 DEF Word
<1>4. <<q>> \o (Escaped(a, q)[Len(a)] \o <<q>>) \in Word
  BY <1>3 DEF Word
<1> QED BY <1>4 DEF q, Written

Behind(args, style, k) ==
  (IF k < Len(args) THEN <<Space>> ELSE <<>>) \o Line(args, style)[Len(args) - k]

(* A line is written an argument at a time, with a space before the next.  *)
LEMMA LineStep ==
  ASSUME NEW args \in Seq(Word), NEW style \in Styles
  PROVE  /\ Line(args, style) \in [0 .. Len(args) -> Word] /\ Line(args, style)[0] = <<>>
         /\ \A k \in 0 .. Len(args) : Behind(args, style, k) \in Word
         /\ \A k \in 0 .. Len(args) - 1 :
              Line(args, style)[Len(args) - k] = Written(args[k + 1], style) \o Behind(args, style, k + 1)
<1> DEFINE sep(k) == IF k < Len(args) THEN <<Space>> ELSE <<>>
           texts == [k \in 1 .. Len(args) |-> Written(args[k], style) \o sep(k)]
<1>1. Len(args) \in Nat /\ DOMAIN args = 1 .. Len(args)
        /\ \A k \in 1 .. Len(args) : args[k] \in Word
  OBVIOUS
<1>2. \A k : sep(k) \in Word
  <2>1. <<Space>> \in Word /\ <<>> \in Word
    BY Chars DEF Word
  <2> QED BY <2>1
<1>3. ASSUME NEW k \in 1 .. Len(args)
      PROVE  Written(args[k], style) \in Word /\ Written(args[k], style) \o sep(k) \in Word
  <2>1. Written(args[k], style) \in Word
    BY <1>1, WrittenText
  <2> HIDE DEF sep
  <2> QED BY <1>2, <2>1, Concat DEF Word
<1>4. Line(args, style) = Joined(texts)
  BY <1>1, Zenon DEF Line
<1>5. texts \in Seq(Word) /\ Len(texts) = Len(args)
        /\ \A k \in 1 .. Len(args) : texts[k] = Written(args[k], style) \o sep(k)
  <2> HIDE DEF sep
  <2> QED BY <1>1, <1>3
<1> HIDE DEF texts
<1>6. /\ Joined(texts) \in [0 .. Len(args) -> Word] /\ Joined(texts)[0] = <<>>
      /\ \A n \in 1 .. Len(args) : Joined(texts)[n] = texts[Len(args) - n + 1] \o Joined(texts)[n - 1]
  BY <1>5, JoinedStep, Zenon
<1>7. ASSUME NEW k \in 0 .. Len(args) PROVE Behind(args, style, k) \in Word
               /\ Joined(texts)[Len(args) - k] \in Word
  <2>1. Len(args) - k \in 0 .. Len(args)
    BY <1>1
  <2>2. Joined(texts)[Len(args) - k] \in Word
    BY <1>6, <2>1
  <2>3. Behind(args, style, k) = sep(k) \o Joined(texts)[Len(args) - k]
    BY <1>4 DEF Behind
  <2> HIDE DEF sep
  <2> QED BY <1>2, <2>2, <2>3, Concat DEF Word
<1>8. ASSUME NEW k \in 0 .. Len(args) - 1
      PROVE  Joined(texts)[Len(args) - k] = Written(args[k + 1], style) \o Behind(args, style, k + 1)
  <2>1. /\ Len(args) - k \in 1 .. Len(args) /\ Len(args) - (Len(args) - k) + 1 = k + 1
        /\ Len(args) - k - 1 = Len(args) - (k + 1) /\ k + 1 \in 1 .. Len(args)
           /\ k + 1 \in 0 .. Len(args)
    BY <1>1
  <2>2. Joined(texts)[Len(args) - k] = texts[Len(args) - (Len(args) - k) + 1] \o Joined(texts)[Len(args) - k - 1]
    BY <1>6, <2>1, Zenon
  <2>3. Joined(texts)[Len(args) - k] =
          (Written(args[k + 1], style) \o sep(k + 1)) \o Joined(texts)[Len(args) - (k + 1)]
    BY <1>5, <2>1, <2>2, Zenon
  <2>4. Joined(texts)[Len(args) - (k + 1)] \in Word /\ Written(args[k + 1], style) \in Word
    BY <1>3, <1>7, <2>1, Zenon
  <2>5. Behind(args, style, k + 1) = sep(k + 1) \o Joined(texts)[Len(args) - (k + 1)]
    BY <1>4 DEF Behind
  <2> HIDE DEF sep
  <2>6. sep(k + 1) \in Word
    BY <1>2, Zenon
  <2>7. (Written(args[k + 1], style) \o sep(k + 1)) \o Joined(texts)[Len(args) - (k + 1)]
          = Written(args[k + 1], style) \o (sep(k + 1) \o Joined(texts)[Len(args) - (k + 1)])
    BY <2>4, <2>6, Associative, Zenon
  <2> QED BY <2>3, <2>5, <2>7, Zenon
<1> QED BY <1>4, <1>6, <1>7, <1>8, Zenon

(* The arguments are kept one by one.                                      *)
Keep(toks, a) == IF a = <<>> THEN toks ELSE Append(toks, a)
(* The sequence of the arguments kept grows by those not empty.            *)
LEMMA KeptStep ==
  ASSUME NEW args \in Seq(Word)
  PROVE  /\ Kept(args) \in [0 .. Len(args) -> Seq(Word)] /\ Kept(args)[0] = <<>>
         /\ \A k \in 1 .. Len(args) :
              Kept(args)[k] = Keep(Kept(args)[k - 1], args[k])
<1> DEFINE F == [x \in Seq(Word) \X Word |-> Keep(x[1], x[2])]
           G(f) == [k \in 0 .. Len(args) |->
                      IF k = 0 THEN <<>> ELSE Keep(f[k - 1], args[k])]
           w == Kept(args)
<1>1. Len(args) \in Nat /\ \A k \in 1 .. Len(args) : args[k] \in Word
  OBVIOUS
<1>2. F \in [Seq(Word) \X Word -> Seq(Word)]
  <2> SUFFICES ASSUME NEW x \in Seq(Word) \X Word PROVE (Keep(x[1], x[2])) \in Seq(Word)
    OBVIOUS
  <2>1. x[1] \in Seq(Word) /\ x[2] \in Word
    OBVIOUS
  <2>2. Append(x[1], x[2]) \in Seq(Word)
    BY <2>1, AppendElements
  <2> QED BY <2>1, <2>2, Zenon DEF Keep
<1>3. <<>> \in Seq(Word)
  OBVIOUS
<1>4. PICK f \in [0 .. Len(args) -> Seq(Word)] : Along(F, <<>>, args, Len(args), f)
  BY <1>2, <1>3, Iterate, Zenon
<1>5. ASSUME NEW k \in 1 .. Len(args)
      PROVE  f[k] = Keep(f[k - 1], args[k])
  <2>1. f[k - 1] \in Seq(Word)
    BY <1>1, <1>4
  <2>2. f[k] = F[<<f[k - 1], args[k]>>]
    BY <1>4, Zenon DEF Along
  <2>3. <<f[k - 1], args[k]>> \in Seq(Word) \X Word
    BY <1>1, <2>1
  <2> QED BY <2>2, <2>3
<1>6. f[0] = <<>>
  BY <1>4 DEF Along
<1> HIDE DEF F
<1>7. f = G(f)
  BY <1>1, <1>4, <1>5, <1>6
<1>8. w = CHOOSE g : g = G(g)
  BY DEF Kept, Keep
<1> HIDE DEF w
<1>9. w = G(w)
  BY <1>7, <1>8, Zenon
<1>10. /\ DOMAIN w = 0 .. Len(args) /\ w[0] = <<>>
       /\ \A k \in 1 .. Len(args) : w[k] = Keep(w[k - 1], args[k])
  BY <1>1, <1>9
<1> DEFINE T == {k \in 0 .. Len(args) : w[k] \in Seq(Word)}
<1>11. 0 \in T
  <2>1. 0 \in 0 .. Len(args)
    BY <1>1
  <2> QED BY <1>3, <1>10, <2>1, Zenon
<1>12. ASSUME NEW k \in 1 .. Len(args), k - 1 \in T PROVE k \in T
  <2>1. w[k - 1] \in Seq(Word) /\ k \in 0 .. Len(args) /\ args[k] \in Word
    BY <1>1, <1>12
  <2>2. Append(w[k - 1], args[k]) \in Seq(Word)
    BY <2>1, AppendElements
  <2>3. w[k] = Keep(w[k - 1], args[k])
    BY <1>10
  <2>4. w[k] \in Seq(Word)
    BY <2>1, <2>2, <2>3, Zenon DEF Keep
  <2> QED BY <2>1, <2>4
<1> HIDE DEF T
<1>13. \A k \in 0 .. Len(args) : k \in T
  BY <1>1, <1>11, <1>12, UpTo, Zenon
<1>14. w \in [0 .. Len(args) -> Seq(Word)]
  BY <1>9, <1>13 DEF T
<1> QED BY <1>10, <1>14, Zenon DEF w

(* What lies ahead in quotes: the quote that ends them, or the next        *)
(* character of the argument, behind a backslash where it needs one.       *)
InQuotes(args, style, k, p, q) ==
  (Escaped(args[k], q)[Len(args[k]) - p] \o <<q>>) \o Behind(args, style, k)

QuotedAt(t, j, args, style, k, p, q) ==
  q \in {Dq, Sq} /\ Rest(t, j) = InQuotes(args, style, k, p, q)

QuotedNext(t, j, args, style, k, p, q) ==
  /\ j <= Len(t)
  /\ p = Len(args[k]) => t[j] = q /\ Rest(t, j + 1) = Behind(args, style, k)
  /\ p < Len(args[k]) =>
       \/ /\ j < Len(t) /\ t[j] = Backslash /\ t[j + 1] = args[k][p + 1]
          /\ Rest(t, j + 2) = InQuotes(args, style, k, p + 1, q)
       \/ /\ t[j] = args[k][p + 1] /\ t[j] \notin {q, Backslash}
          /\ Rest(t, j + 1) = InQuotes(args, style, k, p + 1, q)

(* The cases of QuotedNext are all there are, in quotes.                   *)
LEMMA QuotedAhead ==
  ASSUME NEW t \in Word, NEW j \in Nat \ {0}, NEW args \in Seq(Word), NEW style \in Styles,
         NEW k \in 1 .. Len(args), NEW p \in 0 .. Len(args[k]), NEW q,
         QuotedAt(t, j, args, style, k, p, q)
  PROVE  QuotedNext(t, j, args, style, k, p, q)
<1> DEFINE a == args[k]
           e == Escaped(a, q)
           b == Behind(args, style, k)
<1>1. a \in Word /\ Len(a) \in Nat
  BY DEF Word
<1>2. q \in Char /\ <<q>> \in Word /\ q # Backslash
  <2>1. q \in Char /\ q \in {Dq, Sq}
    BY Chars, Zenon DEF QuotedAt
  <2>2. Dq # Backslash /\ Sq # Backslash
    BY DEF Dq, Sq, Backslash
  <2>3. <<q>> \in Seq(Char)
    BY <2>1
  <2> QED BY <2>1, <2>2, <2>3, Zenon DEF Word
<1>3. /\ e \in [0 .. Len(a) -> Word] /\ e[0] = <<>>
      /\ \A x \in 0 .. Len(a) - 1 : e[Len(a) - x] = Escape(a[x + 1], q) \o e[Len(a) - (x + 1)]
  BY <1>1, <1>2, EscapedStep, Zenon
<1>4. b \in Word
  <2>1. k \in 0 .. Len(args)
    OBVIOUS
  <2> QED BY <2>1, LineStep, Zenon
<1>5. Rest(t, j) = (e[Len(a) - p] \o <<q>>) \o b
  BY DEF InQuotes, QuotedAt
<1> HIDE DEF a, e, b
<1>6. CASE p = Len(a)
  <2>1. e[Len(a) - p] = <<>>
    BY <1>1, <1>3, <1>6
  <2>2. Leads(t, j, q, b)
    BY <1>2, <1>5, <2>1, Concat, Zenon DEF Leads
  <2>3. j <= Len(t) /\ t[j] = q /\ Rest(t, j + 1) = b
    BY <1>2, <1>4, <2>2, AheadStep, Zenon
  <2> QED BY <1>1, <1>6, <2>3 DEF a, b, QuotedNext
<1>7. CASE p < Len(a)
  <2> DEFINE c == a[p + 1]
             y == e[Len(a) - (p + 1)]
             r == (y \o <<q>>) \o b
  <2>1. /\ p \in 0 .. Len(a) - 1 /\ p + 1 \in 1 .. Len(a) /\ Len(a) - (p + 1) \in 0 .. Len(a)
        /\ p # Len(a)
    BY <1>1, <1>7 DEF a
  <2>2. c \in Char /\ <<c>> \in Word /\ y \in Word
    <3>1. c \in Char
      BY <1>1, <2>1 DEF Word
    <3>2. y \in Word
      BY <1>3, <2>1
    <3> HIDE DEF c
    <3> QED BY <3>1, <3>2 DEF Word
  <2>3. e[Len(a) - p] = Escape(c, q) \o y
    BY <1>3, <2>1, Zenon
  <2>4. InQuotes(args, style, k, p + 1, q) = r
    BY DEF InQuotes, a, e, b
  <2> HIDE DEF c, y
  <2>5. Escape(c, q) \in Word
    BY <2>2, Chars DEF Escape, Word
  <2>6. y \o <<q>> \in Word /\ r \in Word
    BY <1>2, <1>4, <2>2, Concat, Zenon
  <2>7. Rest(t, j) = Escape(c, q) \o r
    <3>1. (Escape(c, q) \o y) \o <<q>> = Escape(c, q) \o (y \o <<q>>)
      <4>1. Escape(c, q) \in Word /\ y \in Word /\ <<q>> \in Word
        BY <1>2, <2>2, <2>5, Zenon
      <4> QED BY <4>1, Associative, Zenon
    <3>2. (Escape(c, q) \o (y \o <<q>>)) \o b = Escape(c, q) \o ((y \o <<q>>) \o b)
      <4>1. Escape(c, q) \in Word /\ y \o <<q>> \in Word /\ b \in Word
        BY <1>4, <2>5, <2>6, Zenon
      <4> QED BY <4>1, Associative, Zenon
    <3> QED BY <1>5, <2>3, <3>1, <3>2, Zenon
  <2> HIDE DEF r
  <2>8. CASE c \in {q, Backslash}
    <3>1. <<Backslash>> \in Word /\ Backslash \in Char
      BY Chars DEF Word
    <3>2. <<c>> \o r \in Word /\ <<c>> \o r # <<>>
      BY <2>2, <2>6 DEF Word
    <3>3. <<Backslash, c>> = <<Backslash>> \o <<c>>
      OBVIOUS
    <3>4. Leads(t, j, Backslash, <<c>> \o r)
      <4>1. (<<Backslash>> \o <<c>>) \o r = <<Backslash>> \o (<<c>> \o r)
        <5>1. <<Backslash>> \in Word /\ <<c>> \in Word /\ r \in Word
          BY <2>2, <2>6, <3>1, Zenon
        <5> QED BY <5>1, Associative, Zenon
      <4>2. Escape(c, q) = <<Backslash, c>>
        BY <2>8, Zenon DEF Escape
      <4> QED BY <2>7, <3>3, <4>1, <4>2, Zenon DEF Leads
    <3>5. j <= Len(t) /\ t[j] = Backslash /\ Rest(t, j + 1) = <<c>> \o r /\ j < Len(t)
      BY <3>1, <3>2, <3>4, AheadStep, Zenon
    <3>6. j + 1 \in Nat \ {0}
      OBVIOUS
    <3>9. (j + 1) + 1 = j + 2
      OBVIOUS
    <3>7. Leads(t, j + 1, c, r)
      BY <3>5, Zenon DEF Leads
    <3>8. t[j + 1] = c /\ Rest(t, (j + 1) + 1) = r
      BY <2>2, <2>6, <3>6, <3>7, AheadStep, Zenon
    <3> QED BY <2>1, <2>4, <3>5, <3>8, <3>9, Zenon DEF a, c, QuotedNext
  <2>9. CASE c \notin {q, Backslash}
    <3>1. Leads(t, j, c, r)
      BY <2>7, <2>9, Zenon DEF Escape, Leads
    <3>2. j <= Len(t) /\ t[j] = c /\ Rest(t, j + 1) = r
      BY <2>2, <2>6, <3>1, AheadStep, Zenon
    <3> QED BY <2>1, <2>4, <2>9, <3>2, Zenon DEF a, c, QuotedNext
  <2> QED BY <2>8, <2>9, Zenon
<1>8. p = Len(a) \/ p < Len(a)
  BY <1>1 DEF a
<1> QED BY <1>6, <1>7, <1>8, Zenon

(* What lies ahead outside quotes: the next character of a plain word, the *)
(* space behind an argument, or nothing.                                   *)
InWord(args, style, k, p) == Rest(args[k], p + 1) \o Behind(args, style, k)

PlainAt(t, j, args, style, k, p) ==
  /\ p = Len(args[k]) \/ Bare(args[k])
  /\ Rest(t, j) = InWord(args, style, k, p)

PlainNext(t, j, args, style, k, p) ==
  /\ p < Len(args[k]) =>
       /\ j <= Len(t) /\ t[j] = args[k][p + 1] /\ t[j] \notin {Dq, Sq, Space}
       /\ Rest(t, j + 1) = InWord(args, style, k, p + 1)
  /\ p = Len(args[k]) /\ k < Len(args) =>
       j <= Len(t) /\ t[j] = Space /\ Rest(t, j + 1) = Line(args, style)[Len(args) - k]
  /\ p = Len(args[k]) /\ k = Len(args) => j > Len(t)

(* The cases of PlainNext are all there are, outside quotes.               *)
LEMMA PlainAhead ==
  ASSUME NEW t \in Word, NEW j \in Nat \ {0}, NEW args \in Seq(Word), NEW style \in Styles,
         NEW k \in 1 .. Len(args), NEW p \in 0 .. Len(args[k]),
         PlainAt(t, j, args, style, k, p)
  PROVE  PlainNext(t, j, args, style, k, p)
<1> DEFINE a == args[k]
           b == Behind(args, style, k)
           l == Line(args, style)
<1>1. a \in Word /\ Len(a) \in Nat /\ DOMAIN a = 1 .. Len(a)
  BY DEF Word
<1>2. l \in [0 .. Len(args) -> Word] /\ l[0] = <<>> /\ b \in Word
        /\ Len(args) - k \in 0 .. Len(args)
  <2>1. k \in 0 .. Len(args) /\ Len(args) - k \in 0 .. Len(args)
    OBVIOUS
  <2> QED BY <2>1, LineStep, Zenon
<1>3. l[Len(args) - k] \in Word
  BY <1>2
<1>4. b = (IF k < Len(args) THEN <<Space>> ELSE <<>>) \o l[Len(args) - k]
  BY DEF Behind
<1>5. Rest(t, j) = Rest(a, p + 1) \o b
  BY DEF InWord, PlainAt
<1> HIDE DEF a, b, l
<1>6. CASE p < Len(a)
  <2>1. p + 1 \in 1 .. Len(a) /\ p # Len(a)
    BY <1>1, <1>6 DEF a
  <2> DEFINE x == a[p + 1]
             r == Rest(a, (p + 1) + 1)
  <2>2. x \in Char /\ r \in Word /\ Rest(a, p + 1) = <<x>> \o r
    BY <1>1, <2>1, RestStep, Zenon
  <2>3. InWord(args, style, k, p + 1) = r \o b
    BY DEF InWord, a, b
  <2>4. x \notin {Dq, Sq, Space}
    BY <1>1, <2>1, Zenon DEF a, Bare, PlainAt
  <2> HIDE DEF x, r
  <2>5. <<x>> \in Word /\ r \o b \in Word
    BY <1>2, <2>2 DEF Word
  <2>6. Leads(t, j, x, r \o b)
    <3>1. (<<x>> \o r) \o b = <<x>> \o (r \o b)
      <4>1. <<x>> \in Word /\ r \in Word /\ b \in Word
        BY <1>2, <2>2, <2>5, Zenon
      <4> QED BY <4>1, Associative, Zenon
    <3> QED BY <1>5, <2>2, <3>1, Zenon DEF Leads
  <2>7. j <= Len(t) /\ t[j] = x /\ Rest(t, j + 1) = r \o b
    BY <2>2, <2>5, <2>6, AheadStep, Zenon
  <2> QED BY <2>1, <2>3, <2>4, <2>7, Zenon DEF x, a, PlainNext
<1>7. CASE p = Len(a)
  <2>1. Rest(t, j) = b
    <3>1. Rest(a, p + 1) = <<>>
      BY <1>1, <1>7, RestEmpty, Zenon
    <3> QED BY <1>2, <1>5, <3>1, Concat, Zenon
  <2>2. ~(p < Len(a))
    BY <1>1, <1>7
  <2>3. ASSUME k < Len(args)
        PROVE  j <= Len(t) /\ t[j] = Space /\ Rest(t, j + 1) = l[Len(args) - k]
    <3> DEFINE r == l[Len(args) - k]
    <3>1. Leads(t, j, Space, r) /\ r \in Word
      BY <1>3, <1>4, <2>1, <2>3, Zenon DEF Leads
    <3>2. Space \in Char
      BY Chars
    <3> HIDE DEF r
    <3>3. j <= Len(t) /\ t[j] = Space /\ Rest(t, j + 1) = r
      BY <3>1, <3>2, AheadStep, Zenon
    <3> QED BY <3>3 DEF r
  <2>4. ASSUME k = Len(args) PROVE j > Len(t)
    <3>1. ~(k < Len(args)) /\ Len(args) - k = 0
      BY <2>4
    <3>2. <<>> \in Word
      BY DEF Word
    <3>3. Rest(t, j) = <<>>
      BY <1>2, <1>4, <2>1, <3>1, <3>2, Concat, Zenon
    <3> QED BY <3>3, AheadEmpty, Zenon
  <2> QED BY <2>2, <2>3, <2>4, Zenon DEF a, l, PlainNext
<1>8. p = Len(a) \/ p < Len(a)
  BY <1>1 DEF a
<1> QED BY <1>6, <1>7, <1>8, Zenon DEF a

(* What lies ahead between two arguments: a plain word, or a quote and the *)
(* argument in quotes.                                                     *)
BetweenAt(t, j, args, style, k) == Rest(t, j) = Line(args, style)[Len(args) - k]
BetweenNext(t, j, args, style, k) ==
  /\ k = Len(args) => j > Len(t)
  /\ k < Len(args) =>
       \/ PlainAt(t, j, args, style, k + 1, 0)
       \/ /\ j <= Len(t) /\ t[j] \in {Dq, Sq}
          /\ QuotedAt(t, j + 1, args, style, k + 1, 0, t[j])

(* The cases of BetweenNext are all there are, between arguments.          *)
LEMMA BetweenAhead ==
  ASSUME NEW t \in Word, NEW j \in Nat \ {0}, NEW args \in Seq(Word), NEW style \in Styles,
         NEW k \in 0 .. Len(args), BetweenAt(t, j, args, style, k)
  PROVE  BetweenNext(t, j, args, style, k)
<1> DEFINE a == args[k + 1]
           b == Behind(args, style, k + 1)
           l == Line(args, style)
<1>1. /\ l \in [0 .. Len(args) -> Word] /\ l[0] = <<>>
      /\ \A n \in 0 .. Len(args) : Behind(args, style, n) \in Word
      /\ \A n \in 0 .. Len(args) - 1 : l[Len(args) - n] = Written(args[n + 1], style) \o Behind(args, style, n + 1)
  BY LineStep, Zenon
<1> HIDE DEF l
<1>2. CASE k = Len(args)
  <2>1. Len(args) - k = 0 /\ ~(k < Len(args))
    BY <1>2
  <2>2. Rest(t, j) = <<>>
    BY <1>1, <2>1, Zenon DEF l, BetweenAt
  <2> QED BY <2>1, <2>2, AheadEmpty, Zenon DEF BetweenNext
<1>3. CASE k < Len(args)
  <2>1. k \in 0 .. Len(args) - 1 /\ k + 1 \in 1 .. Len(args) /\ k + 1 \in 0 .. Len(args)
          /\ k # Len(args)
    BY <1>3
  <2>2. a \in Word /\ Len(a) \in Nat /\ b \in Word
    <3>1. a \in Word
      BY <2>1
    <3> HIDE DEF a
    <3> QED BY <1>1, <2>1, <3>1 DEF Word
  <2>3. Rest(t, j) = Written(a, style) \o b
    BY <1>1, <2>1, Zenon DEF l, BetweenAt
  <2>4. InWord(args, style, k + 1, 0) = Rest(a, 1) \o b
    BY DEF InWord
  <2>5. \A q : InQuotes(args, style, k + 1, 0, q) = (Escaped(a, q)[Len(a)] \o <<q>>) \o b
    <3>1. Len(a) - 0 = Len(a)
      BY <2>2
    <3> QED BY <3>1, Zenon DEF InQuotes
  <2> HIDE DEF a, b
  <2>6. CASE style = "bare" /\ Bare(a)
    <3>1. Rest(t, j) = Rest(a, 1) \o b
      BY <2>2, <2>3, <2>6, RestEmpty, Zenon DEF Written
    <3> QED BY <2>1, <2>4, <2>6, <3>1, Zenon DEF a, BetweenNext, PlainAt
  <2>7. CASE ~(style = "bare" /\ Bare(a))
    <3> DEFINE q == IF style = "bare" THEN Dq ELSE style
               e == Escaped(a, q)[Len(a)]
    <3>1. q \in {Dq, Sq}
      BY Zenon DEF Styles
    <3>2. Written(a, style) = <<q>> \o (e \o <<q>>)
      BY <2>7, Zenon DEF Written
    <3> HIDE DEF q
    <3>3. q \in Char /\ <<q>> \in Word
      <4>1. q \in Char
        BY <3>1, Chars, Zenon
      <4> QED BY <4>1 DEF Word
    <3>4. e \in Word
      <4>1. Escaped(a, q) \in [0 .. Len(a) -> Word]
        BY <2>2, <3>3, EscapedStep, Zenon
      <4> QED BY <2>2, <4>1
    <3> HIDE DEF e
    <3>5. e \o <<q>> \in Word /\ (e \o <<q>>) \o b \in Word
      BY <2>2, <3>3, <3>4, Concat, Zenon
    <3>6. Leads(t, j, q, (e \o <<q>>) \o b)
      <4>1. (<<q>> \o (e \o <<q>>)) \o b = <<q>> \o ((e \o <<q>>) \o b)
        <5>1. <<q>> \in Word /\ e \o <<q>> \in Word /\ b \in Word
          BY <2>2, <3>3, <3>5, Zenon
        <5> QED BY <5>1, Associative, Zenon
      <4> QED BY <2>3, <3>2, <4>1, Zenon DEF Leads
    <3>7. j <= Len(t) /\ t[j] = q /\ Rest(t, j + 1) = (e \o <<q>>) \o b
      BY <3>3, <3>5, <3>6, AheadStep, Zenon
    <3> QED BY <2>1, <2>5, <3>1, <3>7, Zenon DEF e, BetweenNext, QuotedAt
  <2> QED BY <2>6, <2>7, Zenon
<1> QED BY <1>2, <1>3

(* One more character of an argument.                                      *)
LEMMA OneMoreChar ==
  ASSUME NEW a \in Word, NEW p \in 0 .. Len(a) - 1
  PROVE  Append(SubSeq(a, 1, p), a[p + 1]) = SubSeq(a, 1, p + 1)
<1>1. Len(a) \in Nat /\ a \in Seq(Char) /\ p \in 0 .. Len(a) /\ p + 1 \in 0 .. Len(a)
        /\ a[p + 1] \in Char
  BY DEF Word
<1> DEFINE s == SubSeq(a, 1, p)
           t == SubSeq(a, 1, p + 1)
           u == Append(s, a[p + 1])
<1>2. s \in Seq(Char) /\ Len(s) = p /\ \A k \in 1 .. p : s[k] = a[k]
  BY <1>1, FirstElements, Zenon
<1>3. t \in Seq(Char) /\ Len(t) = p + 1 /\ \A k \in 1 .. p + 1 : t[k] = a[k]
  BY <1>1, FirstElements, Zenon
<1> HIDE DEF s, t
<1>4. u \in Seq(Char) /\ Len(u) = Len(s) + 1 /\ u[Len(s) + 1] = a[p + 1]
        /\ \A k \in 1 .. Len(s) : u[k] = s[k]
  BY <1>1, <1>2, AppendElements
<1> HIDE DEF u
<1>5. ASSUME NEW k \in 1 .. p + 1 PROVE u[k] = t[k]
  <2>1. k \in 1 .. p \/ k = p + 1
    OBVIOUS
  <2> QED BY <1>2, <1>3, <1>4, <2>1
<1>6. u = t
  BY <1>2, <1>3, <1>4, <1>5, SameElements
<1> QED BY <1>6 DEF s, t, u

(* All characters of an argument, and none.                                *)
LEMMA AllChars ==
  ASSUME NEW a \in Word
  PROVE  SubSeq(a, 1, Len(a)) = a /\ SubSeq(a, 1, 0) = <<>> /\ Len(a) \in Nat
<1>1. Len(a) \in Nat /\ a \in Seq(Char)
  BY DEF Word
<1>2. SubSeq(a, 1, Len(a)) = a
  BY <1>1
<1>3. SubSeq(a, 1, 0) = <<>>
  BY <1>1
<1> QED BY <1>1, <1>2, <1>3

(* No argument that is kept is empty.                                      *)
Full(toks) == toks \in Seq(Word) /\ \A j \in 1 .. Len(toks) : toks[j] # <<>>
(* Whatever the arguments are, those kept are full.                        *)
LEMMA KeptFull ==
  ASSUME NEW args \in Seq(Word)
  PROVE  Full(Kept(args)[Len(args)])
<1> DEFINE T == {k \in 0 .. Len(args) : Full(Kept(args)[k])}
<1>1. Len(args) \in Nat /\ \A k \in 1 .. Len(args) : args[k] \in Word
  OBVIOUS
<1>2. /\ Kept(args)[0] = <<>>
      /\ \A k \in 1 .. Len(args) : Kept(args)[k] = Keep(Kept(args)[k - 1], args[k])
  BY KeptStep, Zenon
<1>3. 0 \in T
  <2>1. Full(<<>>)
    BY DEF Full
  <2>2. 0 \in 0 .. Len(args)
    BY <1>1
  <2> QED BY <1>2, <2>1, <2>2, Zenon
<1>4. ASSUME NEW k \in 1 .. Len(args), k - 1 \in T PROVE k \in T
  <2> DEFINE x == Kept(args)[k - 1]
             a == args[k]
  <2>1. k \in 0 .. Len(args) /\ Full(x) /\ a \in Word /\ Kept(args)[k] = Keep(x, a)
    BY <1>1, <1>2, <1>4
  <2> HIDE DEF x, a
  <2>2. CASE a = <<>>
    BY <2>1, <2>2, Zenon DEF Keep
  <2>3. CASE a # <<>>
    <3> DEFINE y == Append(x, a)
    <3>1. x \in Seq(Word) /\ Len(x) \in Nat /\ \A j \in 1 .. Len(x) : x[j] # <<>>
      BY <2>1 DEF Full
    <3>2. y \in Seq(Word) /\ Len(y) = Len(x) + 1 /\ y[Len(x) + 1] = a
            /\ \A j \in 1 .. Len(x) : y[j] = x[j]
      BY <2>1, <3>1, AppendElements
    <3> HIDE DEF y
    <3>3. ASSUME NEW j \in 1 .. Len(y) PROVE y[j] # <<>>
      <4>1. j \in 1 .. Len(x) \/ j = Len(x) + 1
        BY <3>1, <3>2
      <4> QED BY <2>3, <3>1, <3>2, <4>1, Zenon
    <3>4. Full(y) /\ Keep(x, a) = y
      BY <2>3, <3>2, <3>3, Zenon DEF Full, Keep, y
    <3> QED BY <2>1, <3>4, Zenon
  <2> QED BY <2>2, <2>3
<1> HIDE DEF T
<1>5. Len(args) \in T
  <2>1. \A k \in 0 .. Len(args) : k \in T
    BY <1>1, <1>3, <1>4, UpTo, Zenon
  <2> QED BY <1>1, <2>1
<1> QED BY <1>5 DEF T

-----------------------------------------------------------------------------
(* The tokens of a command.                                                *)

(* While the text is read, every token has been pushed by a separator and  *)
(* is not empty; the loop's index is a position of the text or behind it.  *)
TokenInv ==
  /\ input.text \in Seq(Char) /\ i \in Nat \ {0}
  /\ current \in Word /\ tokens \in Seq(Word)
  /\ parsing = "idle" => tokens = <<>>
  /\ parsing \in {"idle", "parse"} => \A k \in 1 .. Len(tokens) : tokens[k] # <<>>
  /\ \A k \in 1 .. Len(tokens) : tokens[k] = <<>> => k = Len(tokens) /\ quote # NoQuote

(* One turn of the loop of parse_tokens.                                   *)
LEMMA ScanStep ==
  ASSUME TokenInv, parse_char
  PROVE  TokenInv'
<1>1. /\ input.text \in Seq(Char) /\ Len(input.text) \in Nat /\ i \in Nat \ {0}
         /\ i <= Len(input.text)
      /\ current \in Seq(Char) /\ tokens \in Seq(Word) /\ Len(tokens) \in Nat
      /\ parsing = "parse" /\ \A k \in 1 .. Len(tokens) : tokens[k] # <<>>
  BY DEF TokenInv, Word, parse_char, command
<1>2. input.text[i] \in Char /\ (i < Len(input.text) => input.text[i + 1] \in Char)
  BY <1>1
<1>3. /\ i' \in {i + 1, i + 2} /\ tokens' \in {tokens, Pushed}
      /\ \/ current' \in {current, <<>>, Append(current, input.text[i])}
         \/ i < Len(input.text) /\ current' = Append(current, input.text[i + 1])
      /\ input' = input /\ parsing' = parsing
  <2> USE DEF ch, command, Scan
  <2>1. CASE end_quote
    BY <2>1 DEF end_quote
  <2>2. CASE escape
    BY <2>2 DEF escape, Escapes
  <2>3. CASE quoted_char
    BY <2>3 DEF quoted_char
  <2>4. CASE begin_quote
    BY <2>4 DEF begin_quote
  <2>5. CASE plain_char
    BY <2>5 DEF plain_char
  <2>6. CASE separator
    BY <2>6 DEF separator
  <2> QED BY <2>1, <2>2, <2>3, <2>4, <2>5, <2>6, Zenon DEF parse_char
<1>4. current' \in Seq(Char)
  <2>1. \A c \in Char : Append(current, c) \in Seq(Char)
    BY <1>1, AppendElements
  <2>2. <<>> \in Seq(Char)
    OBVIOUS
  <2> QED BY <1>1, <1>2, <1>3, <2>1, <2>2, Zenon
<1>5. tokens' \in Seq(Word) /\ \A k \in 1 .. Len(tokens') : tokens'[k] # <<>>
  <2>1. CASE tokens' = tokens
    BY <1>1, <2>1
  <2>2. CASE current # <<>> /\ tokens' = Append(tokens, current)
    <3>1. /\ tokens' \in Seq(Word) /\ Len(tokens') = Len(tokens) + 1
             /\ tokens'[Len(tokens) + 1] = current
          /\ \A k \in 1 .. Len(tokens) : tokens'[k] = tokens[k]
      BY <1>1, <2>2, AppendElements DEF Word
    <3>2. ASSUME NEW k \in 1 .. Len(tokens') PROVE tokens'[k] # <<>>
      <4>1. k \in 1 .. Len(tokens) \/ k = Len(tokens) + 1
        BY <1>1, <3>1
      <4> QED BY <1>1, <2>2, <3>1, <4>1, Zenon
    <3> QED BY <3>1, <3>2, Zenon
  <2> QED BY <1>3, <2>1, <2>2, Zenon DEF Pushed
<1>6. i' \in Nat \ {0}
  BY <1>1, <1>3
<1> QED BY <1>1, <1>3, <1>4, <1>5, <1>6, Zenon DEF TokenInv, Word

(* The other steps of a call of enqueue_ipc_command.                       *)
LEMMA TokenStep ==
  ASSUME \A c \in Inputs : c.text \in Seq(Char),
         TokenInv, [IntakeNext]_<<vars, commandVars, pathVars>>
  PROVE  TokenInv'
<1>1. \/ UNCHANGED commandVars
      \/ call \/ parse_char \/ parse_end \/ enqueue_ipc_command
  BY Zenon DEF IntakeNext, configure, enqueue_command, resolve_path, process_path, CommandNext
<1>2. CASE UNCHANGED commandVars
  BY <1>2 DEF commandVars, TokenInv
<1>3. CASE call
  <2>1. /\ input'.text \in Seq(Char) /\ parsing' = "parse" /\ parsing = "idle"
        /\ UNCHANGED <<i, quote, current, tokens>>
    BY <1>3 DEF call
  <2> QED BY <2>1 DEF TokenInv
<1>4. CASE parse_end
  <2>1. /\ tokens \in Seq(Word) /\ Len(tokens) \in Nat /\ current \in Word
        /\ \A k \in 1 .. Len(tokens) : tokens[k] # <<>>
    BY <1>4 DEF parse_end, TokenInv
  <2>2. parsing' = "command" /\ UNCHANGED <<input, i, quote, current>>
    BY <1>4 DEF parse_end
  <2>3. CASE tokens' = tokens
    BY <2>2, <2>3 DEF TokenInv
  <2>4. CASE (current # <<>> \/ quote # NoQuote) /\ tokens' = Append(tokens, current)
    <3> DEFINE toks == Append(tokens, current)
    <3>1. /\ toks \in Seq(Word) /\ Len(toks) = Len(tokens) + 1 /\ toks[Len(tokens) + 1] = current
          /\ \A k \in 1 .. Len(tokens) : toks[k] = tokens[k]
      BY <2>1, AppendElements
    <3> HIDE DEF toks
    <3>2. ASSUME NEW k \in 1 .. Len(toks), toks[k] = <<>> PROVE k = Len(toks) /\ quote # NoQuote
      <4>1. k \in 1 .. Len(tokens) \/ k = Len(tokens) + 1
        BY <2>1, <3>1
      <4> QED BY <2>1, <2>4, <3>1, <3>2, <4>1, Zenon
    <3>3. tokens' = toks
      BY <2>4 DEF toks
    <3> QED BY <2>2, <3>1, <3>2, <3>3, Zenon DEF TokenInv
  <2> QED BY <1>4, <2>3, <2>4, Zenon DEF parse_end
<1>5. CASE enqueue_ipc_command
  <2>1. parsing' = "returned" /\ UNCHANGED <<input, i, quote, current, tokens>>
    BY <1>5, Zenon DEF enqueue_ipc_command, Return
  <2> QED BY <2>1 DEF TokenInv
<1> QED BY <1>1, <1>2, <1>3, <1>4, <1>5, ScanStep, Zenon

(* A call starts with nothing read.                                        *)
LEMMA TokenInit == IntakeInit => TokenInv
<1> SUFFICES ASSUME CommandInit PROVE TokenInv
  BY DEF IntakeInit
<1>1. input.text = <<>> /\ i = 1 /\ current = <<>> /\ tokens = <<>>
  BY Zenon DEF CommandInit, AnyText
<1>2. <<>> \in Seq(Char) /\ <<>> \in Seq(Word) /\ 1 .. Len(<<>>) = {} /\ 1 \in Nat \ {0}
  OBVIOUS
<1> QED BY <1>1, <1>2, Zenon DEF TokenInv, Word

(* Only the last token of a command can be empty, whatever its text is,    *)
(* and only when a quote is never closed.                                  *)
THEOREM TokensCorrect ==
  ASSUME \A c \in Inputs : c.text \in Seq(Char)
  PROVE  IntakeSpec => []OnlyLastEmpty
<1>2. TokenInv => OnlyLastEmpty
  <2> SUFFICES ASSUME TokenInv PROVE OnlyLastEmpty
    OBVIOUS
  <2>1. DOMAIN tokens = 1 .. Len(tokens)
    BY DEF TokenInv
  <2> QED BY <2>1, Zenon DEF TokenInv, OnlyLastEmpty
<1> QED BY <1>2, TokenInit, TokenStep, PTL DEF IntakeSpec

-----------------------------------------------------------------------------
(* The arguments of a sender.  What lies ahead in the text at each turn of *)
(* the loop is written as the part of the rendering that is still to come. *)

(* The loop of parse_tokens, by the character it is at.                    *)
LEMMA Turn ==
  ASSUME parse_char
  PROVE  LET c == input.text[i] IN
         /\ input' = input /\ parsing' = parsing /\ parsing = "parse" /\ i <= Len(input.text)
         /\ quote # NoQuote /\ c = quote =>
              i' = i + 1 /\ quote' = NoQuote /\ current' = current /\ tokens' = tokens
         /\ quote # NoQuote /\ c # quote /\ c = Backslash /\ i < Len(input.text) =>
              i' = i + 2 /\ quote' = quote /\ current' = Append(current, input.text[i + 1])
                /\ tokens' = tokens
         /\ quote # NoQuote /\ c # quote /\ c # Backslash =>
              i' = i + 1 /\ quote' = quote /\ current' = Append(current, c) /\ tokens' = tokens
         /\ quote = NoQuote /\ c \in {Dq, Sq} =>
              i' = i + 1 /\ quote' = c /\ current' = current /\ tokens' = tokens
         /\ quote = NoQuote /\ c \notin {Dq, Sq, Space} =>
              i' = i + 1 /\ quote' = NoQuote /\ current' = Append(current, c) /\ tokens' = tokens
         /\ quote = NoQuote /\ c = Space =>
              i' = i + 1 /\ quote' = NoQuote /\ current' = <<>> /\ tokens' = Keep(tokens, current)
<1> DEFINE c == input.text[i]
<1>1. Dq # Space /\ Sq # Space
  BY DEF Dq, Sq, Space
<1>2. /\ parsing = "parse" /\ i <= Len(input.text)
      /\ end_quote \/ escape \/ quoted_char \/ begin_quote \/ plain_char \/ separator
  BY Zenon DEF parse_char, command
<1> USE DEF ch, command, Scan, Escapes
<1>3. CASE end_quote
  BY <1>2, <1>3, Zenon DEF end_quote
<1>4. CASE escape
  BY <1>2, <1>4, Zenon DEF escape
<1>5. CASE quoted_char
  BY <1>2, <1>5, Zenon DEF quoted_char
<1>6. CASE begin_quote
  BY <1>1, <1>2, <1>6, Zenon DEF begin_quote
<1>7. CASE plain_char
  BY <1>2, <1>7, Zenon DEF plain_char
<1>8. CASE separator
  BY <1>1, <1>2, <1>8, Zenon DEF separator, Pushed, Keep
<1> QED BY <1>2, <1>3, <1>4, <1>5, <1>6, <1>7, <1>8, Zenon

(* Where the loop is in a text that a sender wrote: between two arguments, *)
(* all before kept; or within the k-th, p characters of it read.           *)
Between(style, k) ==
  /\ quote = NoQuote /\ current = <<>> /\ tokens = Kept(input.sent)[k]
  /\ BetweenAt(input.text, i, input.sent, style, k)
Quoted(style, k, p) ==
  /\ current = SubSeq(input.sent[k], 1, p) /\ tokens = Kept(input.sent)[k - 1]
  /\ QuotedAt(input.text, i, input.sent, style, k, p, quote)
Plain(style, k, p) ==
  /\ quote = NoQuote
  /\ current = SubSeq(input.sent[k], 1, p) /\ tokens = Kept(input.sent)[k - 1]
  /\ PlainAt(input.text, i, input.sent, style, k, p)
Within(style, k, p) == Quoted(style, k, p) \/ Plain(style, k, p)
Reading(style) ==
  \/ \E k \in 0 .. Len(input.sent) : Between(style, k)
  \/ \E k \in 1 .. Len(input.sent) : \E p \in 0 .. Len(input.sent[k]) : Within(style, k, p)

(* A turn of the loop in quotes reads a character or ends the quotes.      *)
LEMMA QuotedStep ==
  ASSUME NEW style \in Styles, input.sent \in Seq(Word), input.text \in Word, i \in Nat \ {0},
         NEW k \in 1 .. Len(input.sent), NEW p \in 0 .. Len(input.sent[k]),
         Quoted(style, k, p), parse_char
  PROVE  Reading(style)'
<1> DEFINE a == input.sent[k]
<1>1. a \in Word /\ Len(a) \in Nat
  BY DEF Word
<1>2. /\ input' = input /\ quote # NoQuote /\ Dq # Backslash /\ Sq # Backslash
      /\ quote \in {Dq, Sq} /\ current = SubSeq(a, 1, p) /\ tokens = Kept(input.sent)[k - 1]
  <2>1. Dq # NoQuote /\ Sq # NoQuote /\ Dq # Backslash /\ Sq # Backslash
    BY DEF Dq, Sq, NoQuote, Backslash
  <2> QED BY <2>1, Turn, Zenon DEF Quoted, QuotedAt
<1>3. /\ i <= Len(input.text)
      /\ p = Len(a) => input.text[i] = quote
         /\ Rest(input.text, i + 1) = Behind(input.sent, style, k)
      /\ p < Len(a) =>
           \/ /\ i < Len(input.text) /\ input.text[i] = Backslash /\ input.text[i + 1] = a[p + 1]
              /\ Rest(input.text, i + 2) = InQuotes(input.sent, style, k, p + 1, quote)
           \/ /\ input.text[i] = a[p + 1] /\ input.text[i] \notin {quote, Backslash}
              /\ Rest(input.text, i + 1) = InQuotes(input.sent, style, k, p + 1, quote)
  <2>1. QuotedAt(input.text, i, input.sent, style, k, p, quote)
    BY DEF Quoted
  <2>2. QuotedNext(input.text, i, input.sent, style, k, p, quote)
    BY <2>1, QuotedAhead, Zenon
  <2> QED BY <2>2, Zenon DEF QuotedNext
<1>4. CASE p = Len(a)
  <2>1. i' = i + 1 /\ quote' = NoQuote /\ current' = current /\ tokens' = tokens
    BY <1>2, <1>3, <1>4, Turn, Zenon
  <2>2. InWord(input.sent, style, k, p) = Behind(input.sent, style, k)
    <3>1. Rest(a, p + 1) = <<>>
      BY <1>1, <1>4, RestEmpty, Zenon
    <3>2. Behind(input.sent, style, k) \in Word
      <4>1. k \in 0 .. Len(input.sent)
        OBVIOUS
      <4> QED BY <4>1, LineStep, Zenon
    <3> QED BY <3>1, <3>2, Concat, Zenon DEF InWord
  <2>3. Plain(style, k, p)'
    BY <1>2, <1>3, <1>4, <2>1, <2>2, Zenon DEF Plain, PlainAt
  <2> QED BY <1>2, <2>3, Zenon DEF Reading, Within
<1>5. CASE p < Len(a)
  <2>1. p \in 0 .. Len(a) - 1 /\ p + 1 \in 0 .. Len(a)
    BY <1>1, <1>5
  <2>2. Append(current, a[p + 1]) = SubSeq(a, 1, p + 1)
    BY <1>1, <1>2, <2>1, OneMoreChar, Zenon
  <2>3. /\ quote' = quote /\ current' = Append(current, a[p + 1]) /\ tokens' = tokens
        /\ Rest(input.text, i') = InQuotes(input.sent, style, k, p + 1, quote)
    <3>1. CASE /\ i < Len(input.text) /\ input.text[i] = Backslash /\ input.text[i + 1] = a[p + 1]
               /\ Rest(input.text, i + 2) = InQuotes(input.sent, style, k, p + 1, quote)
      BY <1>2, <3>1, Turn, Zenon
    <3>2. CASE /\ input.text[i] = a[p + 1] /\ input.text[i] \notin {quote, Backslash}
               /\ Rest(input.text, i + 1) = InQuotes(input.sent, style, k, p + 1, quote)
      BY <1>2, <3>2, Turn, Zenon
    <3> QED BY <1>3, <1>5, <3>1, <3>2, Zenon
  <2>4. Quoted(style, k, p + 1)'
    BY <1>2, <2>2, <2>3, Zenon DEF Quoted, QuotedAt
  <2> QED BY <1>2, <2>1, <2>4, Zenon DEF Reading, Within
<1>6. p = Len(a) \/ p < Len(a)
  BY <1>1
<1> QED BY <1>4, <1>5, <1>6, Zenon

(* A turn outside quotes reads a character or ends the argument.           *)
LEMMA PlainStep ==
  ASSUME NEW style \in Styles, input.sent \in Seq(Word), input.text \in Word, i \in Nat \ {0},
         NEW k \in 1 .. Len(input.sent), NEW p \in 0 .. Len(input.sent[k]),
         Plain(style, k, p), parse_char
  PROVE  Reading(style)'
<1> DEFINE a == input.sent[k]
<1>1. a \in Word /\ Len(a) \in Nat
  BY DEF Word
<1>2. /\ input' = input /\ i <= Len(input.text) /\ quote = NoQuote
      /\ current = SubSeq(a, 1, p) /\ tokens = Kept(input.sent)[k - 1]
      /\ p = Len(a) \/ Bare(a)
  BY Turn, Zenon DEF Plain, PlainAt
<1>3. /\ p < Len(a) =>
           /\ i <= Len(input.text) /\ input.text[i] = a[p + 1]
              /\ input.text[i] \notin {Dq, Sq, Space}
           /\ Rest(input.text, i + 1) = InWord(input.sent, style, k, p + 1)
      /\ p = Len(a) /\ k < Len(input.sent) =>
           /\ i <= Len(input.text) /\ input.text[i] = Space
           /\ Rest(input.text, i + 1) = Line(input.sent, style)[Len(input.sent) - k]
      /\ p = Len(a) /\ k = Len(input.sent) => i > Len(input.text)
  <2>1. PlainAt(input.text, i, input.sent, style, k, p)
    BY DEF Plain
  <2>2. PlainNext(input.text, i, input.sent, style, k, p)
    BY <2>1, PlainAhead, Zenon
  <2> QED BY <2>2, Zenon DEF PlainNext
<1>4. CASE p = Len(a)
  <2>1. k < Len(input.sent)
    <3>1. Len(input.text) \in Nat /\ i \in Nat
      BY DEF Word
    <3>2. ~(i > Len(input.text))
      BY <1>2, <3>1
    <3>3. k # Len(input.sent)
      BY <1>3, <1>4, <3>2, Zenon
    <3> QED BY <3>3
  <2>2. i' = i + 1 /\ quote' = NoQuote /\ current' = <<>> /\ tokens' = Keep(tokens, current)
    BY <1>2, <1>3, <1>4, <2>1, Turn, Zenon
  <2>3. Keep(tokens, current) = Kept(input.sent)[k]
    <3>1. current = a
      BY <1>1, <1>2, <1>4, AllChars, Zenon
    <3>2. Kept(input.sent)[k] = Keep(Kept(input.sent)[k - 1], a)
      BY KeptStep, Zenon
    <3> QED BY <1>2, <3>1, <3>2, Zenon
  <2>4. Between(style, k)'
    BY <1>2, <1>3, <1>4, <2>1, <2>2, <2>3, Zenon DEF Between, BetweenAt
  <2>5. k \in 0 .. Len(input.sent)
    OBVIOUS
  <2> QED BY <1>2, <2>4, <2>5, Zenon DEF Reading
<1>5. CASE p < Len(a)
  <2>1. p \in 0 .. Len(a) - 1 /\ p + 1 \in 0 .. Len(a) /\ p # Len(a)
    BY <1>1, <1>5
  <2>2. Append(current, a[p + 1]) = SubSeq(a, 1, p + 1)
    BY <1>1, <1>2, <2>1, OneMoreChar, Zenon
  <2>3. i' = i + 1 /\ quote' = NoQuote /\ current' = Append(current, a[p + 1]) /\ tokens' = tokens
    BY <1>2, <1>3, <1>5, Turn, Zenon
  <2>4. Plain(style, k, p + 1)'
    BY <1>2, <1>3, <1>5, <2>1, <2>2, <2>3, Zenon DEF Plain, PlainAt
  <2> QED BY <1>2, <2>1, <2>4, Zenon DEF Reading, Within
<1>6. p = Len(a) \/ p < Len(a)
  BY <1>1
<1> QED BY <1>4, <1>5, <1>6, Zenon

(* A turn between arguments begins the next one.                           *)
LEMMA BetweenStep ==
  ASSUME NEW style \in Styles, input.sent \in Seq(Word), input.text \in Word, i \in Nat \ {0},
         NEW k \in 0 .. Len(input.sent), Between(style, k)
  PROVE  /\ parse_char => Reading(style)'
         /\ i > Len(input.text) =>
              k = Len(input.sent) \/ (k < Len(input.sent) /\ Plain(style, k + 1, 0))
<1>1. quote = NoQuote /\ current = <<>> /\ tokens = Kept(input.sent)[k] /\ i \in Nat
        /\ Len(input.text) \in Nat
  BY DEF Between, Word
<1>2. BetweenNext(input.text, i, input.sent, style, k)
  <2>1. BetweenAt(input.text, i, input.sent, style, k)
    BY DEF Between
  <2> QED BY <2>1, BetweenAhead, Zenon
<1>3. CASE k = Len(input.sent)
  <2>1. i > Len(input.text)
    BY <1>2, <1>3, Zenon DEF BetweenNext
  <2>2. ~(i <= Len(input.text))
    BY <1>1, <2>1
  <2>3. ~parse_char
    BY <2>2, Turn, Zenon
  <2> QED BY <1>3, <2>3, Zenon
<1>4. CASE k < Len(input.sent)
  <2> DEFINE a == input.sent[k + 1]
  <2>1. k + 1 \in 1 .. Len(input.sent) /\ (k + 1) - 1 = k
    BY <1>4
  <2>2. a \in Word /\ Len(a) \in Nat /\ 0 \in 0 .. Len(a)
    BY <2>1 DEF Word
  <2>3. SubSeq(a, 1, 0) = <<>>
    BY <2>2, AllChars, Zenon
  <2>4. CASE PlainAt(input.text, i, input.sent, style, k + 1, 0)
    <3>1. Plain(style, k + 1, 0)
      BY <1>1, <2>1, <2>3, <2>4, Zenon DEF Plain
    <3> QED BY <1>4, <2>1, <2>2, <3>1, PlainStep, Zenon
  <2>5. CASE /\ i <= Len(input.text) /\ input.text[i] \in {Dq, Sq}
             /\ QuotedAt(input.text, i + 1, input.sent, style, k + 1, 0, input.text[i])
    <3>1. ASSUME parse_char PROVE Reading(style)'
      <4>1. /\ input' = input /\ i' = i + 1 /\ quote' = input.text[i]
            /\ current' = current /\ tokens' = tokens
        BY <1>1, <2>5, <3>1, Turn, Zenon
      <4>2. Quoted(style, k + 1, 0)'
        BY <1>1, <2>1, <2>3, <2>5, <4>1, Zenon DEF Quoted
      <4> QED BY <2>1, <2>2, <4>1, <4>2, Zenon DEF Reading, Within
    <3>2. ~(i > Len(input.text))
      BY <1>1, <2>5
    <3> QED BY <3>1, <3>2, Zenon
  <2> QED BY <1>2, <1>4, <2>4, <2>5, Zenon DEF BetweenNext
<1> QED BY <1>3, <1>4

(* At the end of the text every argument has been kept.                    *)
LEMMA PlainEnd ==
  ASSUME NEW style \in Styles, input.sent \in Seq(Word), input.text \in Word, i \in Nat \ {0},
         NEW k \in 1 .. Len(input.sent), NEW p \in 0 .. Len(input.sent[k]),
         Plain(style, k, p), parse_end
  PROVE  tokens' = Arguments
<1> DEFINE a == input.sent[k]
<1>1. a \in Word /\ Len(a) \in Nat /\ i \in Nat /\ Len(input.text) \in Nat
  BY DEF Word
<1>2. /\ i > Len(input.text) /\ quote = NoQuote /\ current = SubSeq(a, 1, p)
         /\ tokens = Kept(input.sent)[k - 1]
      /\ tokens' = IF current # <<>> \/ quote # NoQuote THEN Append(tokens, current) ELSE tokens
  BY Zenon DEF Plain, parse_end, command
<1>3. PlainNext(input.text, i, input.sent, style, k, p)
  <2>1. PlainAt(input.text, i, input.sent, style, k, p)
    BY DEF Plain
  <2> QED BY <2>1, PlainAhead, Zenon
<1>4. ~(i <= Len(input.text))
  BY <1>1, <1>2
<1>5. ~(p < Len(a)) /\ ~(p = Len(a) /\ k < Len(input.sent))
  BY <1>3, <1>4, Zenon DEF PlainNext
<1>6. p = Len(a) /\ k = Len(input.sent)
  BY <1>1, <1>5
<1>7. current = a
  BY <1>1, <1>2, <1>6, AllChars, Zenon
<1>8. Kept(input.sent)[k] = Keep(Kept(input.sent)[k - 1], a)
  BY KeptStep, Zenon
<1>9. tokens' = Kept(input.sent)[k]
  BY <1>2, <1>7, <1>8, Zenon DEF Keep
<1> QED BY <1>6, <1>9, Zenon DEF Arguments

(* parse_tokens ends with the arguments, wherever the loop was.            *)
LEMMA ReadingEnd ==
  ASSUME NEW style \in Styles, input.sent \in Seq(Word), input.text \in Word, i \in Nat \ {0},
         Reading(style), parse_end
  PROVE  tokens' = Arguments
<1>1. /\ i > Len(input.text) /\ i \in Nat /\ Len(input.text) \in Nat
      /\ tokens' = IF current # <<>> \/ quote # NoQuote THEN Append(tokens, current) ELSE tokens
  <2>1. /\ i > Len(input.text)
        /\ tokens' = IF current # <<>> \/ quote # NoQuote THEN Append(tokens, current) ELSE tokens
    BY Zenon DEF parse_end, command
  <2> QED BY <2>1 DEF Word
<1>2. ASSUME NEW k \in 0 .. Len(input.sent), Between(style, k) PROVE tokens' = Arguments
  <2>1. CASE k = Len(input.sent)
    BY <1>1, <1>2, <2>1, Zenon DEF Between, Arguments
  <2>2. CASE k < Len(input.sent) /\ Plain(style, k + 1, 0)
    <3>1. k + 1 \in 1 .. Len(input.sent)
      BY <2>2
    <3>2. 0 \in 0 .. Len(input.sent[k + 1])
      BY <3>1 DEF Word
    <3> QED BY <2>2, <3>1, <3>2, PlainEnd, Zenon
  <2> QED BY <1>1, <1>2, <2>1, <2>2, BetweenStep, Zenon
<1>3. ASSUME NEW k \in 1 .. Len(input.sent), NEW p \in 0 .. Len(input.sent[k]), Within(style, k, p)
      PROVE  tokens' = Arguments
  <2>1. CASE Quoted(style, k, p)
    <3>1. QuotedAt(input.text, i, input.sent, style, k, p, quote)
      BY <2>1 DEF Quoted
    <3>2. QuotedNext(input.text, i, input.sent, style, k, p, quote)
      BY <3>1, QuotedAhead, Zenon
    <3>3. i <= Len(input.text)
      BY <3>2, Zenon DEF QuotedNext
    <3> QED BY <1>1, <3>3
  <2> QED BY <1>3, <2>1, PlainEnd, Zenon DEF Within
<1> QED BY <1>2, <1>3, Zenon DEF Reading

(* Any step of the loop.                                                   *)
LEMMA ReadingStep ==
  ASSUME NEW style \in Styles, input.sent \in Seq(Word), input.text \in Word, i \in Nat \ {0},
         Reading(style), parse_char
  PROVE  Reading(style)'
BY BetweenStep, QuotedStep, PlainStep, Zenon DEF Reading, Within

(* What is written by a sender is a text, made of arguments.               *)
Senders ==
  \A c \in Inputs :
    c.text \in Word /\ (c.meant => \E args \in Seq(Word), style \in Styles : c = Render(args, style))

SenderInv ==
  /\ parsing = "idle" => i = 1 /\ quote = NoQuote /\ current = <<>> /\ tokens = <<>>
  /\ input.meant => input.sent \in Seq(Word)
  /\ input.meant /\ parsing = "parse" => \E style \in Styles : Reading(style)
  /\ TokensAreArguments

(* A call begins before the first argument.                                *)
LEMMA SenderCall ==
  ASSUME Senders, SenderInv, call
  PROVE  SenderInv'
<1>1. /\ input' \in Inputs /\ i' = 1 /\ quote' = NoQuote /\ current' = <<>> /\ tokens' = <<>>
      /\ parsing' = "parse"
  BY Zenon DEF SenderInv, call
<1>2. ASSUME input'.meant
      PROVE  input'.sent \in Seq(Word) /\ \E style \in Styles : Reading(style)'
  <2>1. PICK args \in Seq(Word), style \in Styles : input' = Render(args, style)
    BY <1>1, <1>2, Zenon DEF Senders
  <2>2. input'.sent = args /\ input'.text = Line(args, style)[Len(args)] /\ input'.text \in Word
    <3>1. input'.sent = args /\ input'.text = Line(args, style)[Len(args)]
      BY <2>1 DEF Render
    <3> QED BY <1>1, <3>1 DEF Senders
  <2>3. Len(args) - 0 = Len(args) /\ 0 \in 0 .. Len(args)
    OBVIOUS
  <2>4. Rest(input'.text, 1) = input'.text
    BY <2>2, RestEmpty, Zenon
  <2>5. Kept(args)[0] = <<>>
    BY KeptStep, Zenon
  <2>6. Between(style, 0)'
    BY <1>1, <2>2, <2>3, <2>4, <2>5, Zenon DEF Between, BetweenAt
  <2>7. Reading(style)'
    BY <2>2, <2>3, <2>6, Zenon DEF Reading
  <2> QED BY <2>2, <2>7, Zenon
<1>3. "parse" # "idle" /\ "parse" \notin {"command", "returned"}
  OBVIOUS
<1> QED BY <1>1, <1>2, <1>3, Zenon DEF SenderInv, TokensAreArguments
(* Every step of a call keeps it.                                          *)
LEMMA SenderStep ==
  ASSUME Senders, TokenInv, SenderInv, [IntakeNext]_<<vars, commandVars, pathVars>>
  PROVE  SenderInv'
<1>1. \/ UNCHANGED commandVars
      \/ call \/ parse_char \/ parse_end \/ enqueue_ipc_command
  BY Zenon DEF IntakeNext, configure, enqueue_command, resolve_path, process_path, CommandNext
<1>2. CASE UNCHANGED commandVars
  <2>1. /\ input' = input /\ parsing' = parsing /\ i' = i /\ quote' = quote
        /\ current' = current /\ tokens' = tokens
    BY <1>2, Zenon DEF commandVars
  <2>2. ASSUME NEW style, Reading(style) PROVE Reading(style)'
    BY <2>1, <2>2, Zenon DEF Reading, Between, Within, Quoted, Plain
  <2> QED BY <2>1, <2>2, Zenon DEF SenderInv, TokensAreArguments, Arguments
<1>3. CASE parse_char
  <2>1. input' = input /\ parsing = "parse" /\ parsing' = "parse"
    BY <1>3, Turn, Zenon
  <2>2. ASSUME NEW style \in Styles, input.meant, Reading(style) PROVE Reading(style)'
    BY <1>3, <2>2, ReadingStep, Zenon DEF SenderInv, TokenInv, Word
  <2>3. "parse" # "idle" /\ "parse" \notin {"command", "returned"}
    OBVIOUS
  <2> QED BY <2>1, <2>2, <2>3, Zenon DEF SenderInv, TokensAreArguments
<1>4. CASE parse_end
  <2>1. input' = input /\ parsing = "parse" /\ parsing' = "command"
    BY <1>4, Zenon DEF parse_end
  <2>2. input.meant => tokens' = Arguments
    BY <1>4, <2>1, ReadingEnd, Zenon DEF SenderInv, TokenInv, Word
  <2>3. "command" # "idle" /\ "command" # "parse"
    OBVIOUS
  <2> QED BY <2>1, <2>2, <2>3, Zenon DEF SenderInv, TokensAreArguments, Arguments
<1>5. CASE enqueue_ipc_command
  <2>1. parsing = "command" /\ parsing' = "returned"
          /\ UNCHANGED <<input, i, quote, current, tokens>>
    BY <1>5, Zenon DEF enqueue_ipc_command, Return
  <2>2. "returned" # "idle" /\ "returned" # "parse"
    OBVIOUS
  <2> QED BY <2>1, <2>2, Zenon DEF SenderInv, TokensAreArguments, Arguments
<1> QED BY <1>1, <1>2, <1>3, <1>4, <1>5, SenderCall, Zenon

(* Nobody has written anything before the first call.                      *)
LEMMA SenderInit == IntakeInit => SenderInv
<1> SUFFICES ASSUME CommandInit PROVE SenderInv
  BY DEF IntakeInit
<1>1. /\ input.meant = FALSE /\ i = 1 /\ current = <<>> /\ tokens = <<>>
      /\ quote = NoQuote /\ parsing = "idle"
  BY Zenon DEF CommandInit, AnyText
<1> QED BY <1>1, Zenon DEF SenderInv, TokensAreArguments

(* parse_tokens gives back the arguments a sender wrote, whatever they are *)
(* and in whatever style they were written, except the empty ones.         *)
THEOREM ArgumentsCorrect ==
  ASSUME Senders
  PROVE  IntakeSpec => []TokensAreArguments
<1>1. \A c \in Inputs : c.text \in Seq(Char)
  BY Zenon DEF Senders, Word
<1>2. TokenInv /\ SenderInv /\ [IntakeNext]_<<vars, commandVars, pathVars>> => TokenInv'
        /\ SenderInv'
  BY <1>1, TokenStep, SenderStep, Zenon
<1>3. SenderInv => TokensAreArguments
  BY DEF SenderInv
<1> QED BY <1>2, <1>3, TokenInit, SenderInit, PTL DEF IntakeSpec

-----------------------------------------------------------------------------
(* The meaning of a command.                                               *)

(* The tests of enqueue, for a task with an id and a path.                 *)
LEMMA EnqueueTests ==
  ASSUME NEW t, t.id # <<>>, t.path # <<>>, caller \in Callers
  PROVE  enqueue_error(t) = Accepted <=>
           /\ is_http_url(t.url) /\ valid_checksum(t.sha) /\ ~StartsWith(t.path, "e")
           /\ caller.error = "" /\ caller.running /\ t.id \notin caller.known
<1>1. caller.error \in {"", "earlier"}
  BY Zenon DEF Callers
<1>2. /\ "task" # "accepted" /\ "path" # "accepted" /\ "path" # "" /\ "earlier" # "accepted"
      /\ "not running" # "accepted" /\ "exists" # "accepted"
  OBVIOUS
<1> QED BY <1>1, <1>2, Zenon DEF enqueue_error, ErrorAfterPath, Accepted

Queued(a) ==
  /\ Grammar(a)
  /\ IsStop(a) \/ (caller.error = "" /\ caller.running /\ a[2] \notin caller.known)

(* enqueue_ipc_command, for tokens that are not empty.                     *)
LEMMA CommandStep ==
  ASSUME Full(tokens), caller \in Callers, enqueue_ipc_command
  PROVE  /\ answer' = Accepted <=> Queued(tokens)
         /\ answer' = Accepted => task' = Meant(tokens)
         /\ answer' # Accepted => task' = NoTask
<1> DEFINE a == tokens
           Right(e, t) == /\ e = Accepted <=> Queued(tokens)
                          /\ e = Accepted => t = Meant(tokens)
<1>1. \A e, t : Return(e, t) => answer' = e /\ task' = IF e = Accepted THEN t ELSE NoTask
  BY Zenon DEF Return
<1>2. SUFFICES \E e, t : Return(e, t) /\ Right(e, t)
  BY <1>1, Zenon
<1>3. /\ tokens \in Seq(Word) /\ Len(tokens) \in Nat
         /\ \A k \in 1 .. Len(tokens) : tokens[k] \in Word /\ tokens[k] # <<>>
  BY DEF Full
<1>4. /\ <<"S">> # <<"D">> /\ <<"S">> # <<"U">> /\ <<"D">> # <<"U">> /\ <<"-">> # <<>>
         /\ <<"-">> # <<"c">> /\ <<"c">> # <<>>
      /\ <<"D">>[1] = "D" /\ <<"U">>[1] = "U"
  OBVIOUS
<1>5. /\ "empty" # "accepted" /\ "malformed" # "accepted" /\ "size" # "accepted"
         /\ "unsupported" # "accepted"
  OBVIOUS
<1>6. << <<"S">> >> # <<>> /\ Len(<< <<"S">> >>) = 1 /\ << <<"S">> >>[1] = <<"S">> /\ 6 # 4
        /\ 6 # 1 /\ 4 # 1
  OBVIOUS
<1>7. tokens # <<>> => Operation = tokens[1]
  BY Zenon DEF Operation
<1>8. tokens = <<>> => Operation = <<>> /\ Len(tokens) = 0
  BY DEF Operation
<1>9. CASE tokens = <<>> /\ Return("empty", NoTask)
  BY <1>5, <1>9, Zenon DEF Queued, Grammar, Accepted
<1>10. CASE Operation = <<"S">>
              /\ Return(IF Len(tokens) = 1 THEN Accepted ELSE "malformed", <<"stop">>)
  <2>1. tokens # <<>> /\ tokens[1] = <<"S">>
    BY <1>7, <1>8, <1>10
  <2>2. Len(tokens) = 1 => tokens = << <<"S">> >>
    BY <1>3, <2>1
  <2>3. Len(tokens) = 1 => Queued(tokens) /\ Meant(tokens) = <<"stop">>
    BY <1>6, <2>1, <2>2, Zenon DEF Queued, Grammar, IsStop, Meant
  <2>4. Len(tokens) # 1 => ~Queued(tokens)
    BY <1>4, <1>6, <2>1, Zenon DEF Queued, Grammar
  <2>5. Right(IF Len(tokens) = 1 THEN Accepted ELSE "malformed", <<"stop">>)
    BY <1>5, <2>3, <2>4, Zenon DEF Accepted
  <2> QED BY <1>10, <2>5, Zenon
<1>11. CASE Operation = <<"D">> /\ Len(tokens) # 6 /\ Return("malformed", NoTask)
  <2>1. tokens # <<>> /\ tokens[1] = <<"D">>
    BY <1>7, <1>8, <1>11
  <2>2. ~Queued(tokens)
    BY <1>4, <1>6, <1>11, <2>1, Zenon DEF Queued, Grammar
  <2> QED BY <1>5, <1>11, <2>2, Zenon DEF Accepted
<1>12. CASE Operation = <<"U">> /\ Len(tokens) # 4 /\ Return("malformed", NoTask)
  <2>1. tokens # <<>> /\ tokens[1] = <<"U">>
    BY <1>7, <1>8, <1>12
  <2>2. ~Queued(tokens)
    BY <1>4, <1>6, <1>12, <2>1, Zenon DEF Queued, Grammar
  <2> QED BY <1>5, <1>12, <2>2, Zenon DEF Accepted
<1>13. CASE /\ Operation = <<"D">> /\ Len(tokens) = 6
            /\ ~None(tokens[5]) /\ stoull(tokens[5]) = NoSize /\ Return("size", NoTask)
  <2>1. tokens # <<>> /\ tokens[1] = <<"D">> /\ tokens[5] \in Word
    BY <1>3, <1>7, <1>8, <1>13
  <2>2. NoSize \notin Nat
    BY DEF NoSize
  <2>3. Starts(tokens[5]) = {} /\ tokens[5] # <<"-">>
    BY <1>13, <2>1, <2>2, SizeIsRead, Zenon DEF None
  <2>4. ~Queued(tokens)
    BY <1>4, <1>6, <1>13, <2>1, <2>3, Zenon DEF Queued, Grammar
  <2> QED BY <1>5, <1>13, <2>4, Zenon DEF Accepted
<1>14. CASE /\ Operation = <<"D">> /\ Len(tokens) = 6
            /\ None(tokens[5]) \/ stoull(tokens[5]) # NoSize
            /\ Return(enqueue_error(Download(tokens)), Download(tokens))
  <2> DEFINE t == Download(tokens)
  <2>1. /\ tokens # <<>> /\ tokens[1] = <<"D">> /\ tokens[2] # <<>> /\ tokens[4] # <<>>
           /\ tokens[5] # <<>>
        /\ tokens[5] \in Word /\ tokens[6] # <<>>
    <3>1. tokens # <<>>
      BY <1>8, <1>14
    <3>2. 2 \in 1 .. Len(tokens) /\ 4 \in 1 .. Len(tokens) /\ 5 \in 1 .. Len(tokens)
            /\ 6 \in 1 .. Len(tokens)
      BY <1>14
    <3> QED BY <1>3, <1>7, <1>14, <3>1, <3>2, Zenon
  <2>2. /\ t.id = tokens[2] /\ t.url = tokens[3] /\ t.path = tokens[4]
        /\ t.sha = IF None(tokens[6]) THEN <<>> ELSE tokens[6]
    BY DEF Download
  <2>3. enqueue_error(t) = Accepted <=>
           /\ is_http_url(tokens[3]) /\ valid_checksum(t.sha) /\ ~StartsWith(tokens[4], "e")
           /\ caller.error = "" /\ caller.running /\ tokens[2] \notin caller.known
    <3> HIDE DEF t
    <3> QED BY <2>1, <2>2, EnqueueTests, Zenon
  <2>4. valid_checksum(t.sha) <=> tokens[6] \in {<<"-">>, <<"c">>}
    <3> HIDE DEF t
    <3> QED BY <1>4, <2>1, <2>2, Zenon DEF valid_checksum, None
  <2>5. tokens[5] = <<"-">> \/ Starts(tokens[5]) # {}
    BY <1>14, <2>1, SizeIsRead, Zenon DEF None
  <2>6. ~IsStop(tokens)
    BY <1>4, <1>6, <2>1, Zenon DEF IsStop
  <2>7. enqueue_error(t) = Accepted <=> Queued(tokens)
    <3> HIDE DEF t
    <3> QED BY <1>4, <1>6, <1>14, <2>1, <2>3, <2>4, <2>5, <2>6, Zenon DEF Queued, Grammar, IsStop
  <2>8. t = Meant(tokens)
    <3>1. tokens[5] # <<"-">> => stoull(tokens[5]) = Size(tokens[5])
      BY <2>1, <2>5, SizeIsRead, Zenon
    <3>2. (IF None(tokens[5]) THEN NoSize ELSE stoull(tokens[5]))
            = (IF tokens[1] = <<"U">> \/ tokens[5] = <<"-">> THEN NoSize ELSE Size(tokens[5]))
      BY <1>4, <2>1, <3>1, Zenon DEF None
    <3>3. (IF None(tokens[6]) THEN <<>> ELSE tokens[6])
            = (IF tokens[1] = <<"U">> \/ tokens[6] = <<"-">> THEN <<>> ELSE tokens[6])
      BY <1>4, <2>1, Zenon DEF None
    <3>4. tokens[1][1] = "D" /\ tokens[1] # <<"S">>
      BY <1>4, <2>1
    <3> QED BY <3>2, <3>3, <3>4, Zenon DEF Download, Meant
  <2>9. Right(enqueue_error(t), t)
    <3> HIDE DEF t
    <3> QED BY <2>7, <2>8, Zenon
  <2> QED BY <1>14, <2>9, Zenon
<1>15. CASE /\ Operation = <<"U">> /\ Len(tokens) = 4
            /\ Return(enqueue_error(Upload(tokens)), Upload(tokens))
  <2> DEFINE t == Upload(tokens)
  <2>1. tokens # <<>> /\ tokens[1] = <<"U">> /\ tokens[2] # <<>> /\ tokens[4] # <<>>
    BY <1>3, <1>7, <1>8, <1>15
  <2>2. t.id = tokens[2] /\ t.url = tokens[3] /\ t.path = tokens[4] /\ t.sha = <<>>
    BY DEF Upload
  <2>3. enqueue_error(t) = Accepted <=>
           /\ is_http_url(tokens[3]) /\ ~StartsWith(tokens[4], "e")
           /\ caller.error = "" /\ caller.running /\ tokens[2] \notin caller.known
    <3> HIDE DEF t
    <3> QED BY <2>1, <2>2, EnqueueTests, Zenon DEF valid_checksum
  <2>4. ~IsStop(tokens)
    BY <1>4, <1>6, <2>1, Zenon DEF IsStop
  <2>5. enqueue_error(t) = Accepted <=> Queued(tokens)
    <3> HIDE DEF t
    <3> QED BY <1>4, <1>6, <1>15, <2>1, <2>3, <2>4, Zenon DEF Queued, Grammar, IsStop
  <2>6. t = Meant(tokens)
    <3>1. tokens[1][1] = "U" /\ tokens[1] # <<"S">>
      BY <1>4, <2>1
    <3> QED BY <2>1, <3>1, Zenon DEF Upload, Meant
  <2>7. Right(enqueue_error(t), t)
    <3> HIDE DEF t
    <3> QED BY <2>5, <2>6, Zenon
  <2> QED BY <1>15, <2>7, Zenon
<1>16. CASE tokens # <<>> /\ Operation \notin {<<"S">>, <<"D">>, <<"U">>}
              /\ Return("unsupported", NoTask)
  <2>1. ~Queued(tokens)
    BY <1>6, <1>7, <1>16, Zenon DEF Queued, Grammar
  <2> QED BY <1>5, <1>16, <2>1, Zenon DEF Accepted
<1> HIDE DEF Right
<1> QED BY <1>9, <1>10, <1>11, <1>12, <1>13, <1>14, <1>15, <1>16, Zenon DEF enqueue_ipc_command

CommandInv == caller \in Callers /\ CommandIsUnderstood

(* What the call returned stays what the command meant.                    *)
LEMMA UnderstoodStep ==
  ASSUME SenderInv, CommandInv, [IntakeNext]_<<vars, commandVars, pathVars>>
  PROVE  CommandInv'
<1>1. \/ UNCHANGED commandVars
      \/ call \/ parse_char \/ parse_end \/ enqueue_ipc_command
  BY Zenon DEF IntakeNext, configure, enqueue_command, resolve_path, process_path, CommandNext
<1>2. CASE UNCHANGED commandVars
  BY <1>2, Zenon DEF commandVars, CommandInv, CommandIsUnderstood, Arguments
<1>3. CASE call \/ parse_char \/ parse_end
  <2>1. parsing' \in {"parse", "command"} /\ caller' \in Callers
    <3>1. CASE call
      BY <3>1, Zenon DEF call
    <3>2. CASE parse_char
      <4>1. parsing' = "parse"
        BY <3>2, Turn, Zenon
      <4>2. caller' = caller
        BY <3>2, Zenon DEF parse_char, end_quote, escape, quoted_char, begin_quote, plain_char, separator, Scan
      <4> QED BY <4>1, <4>2, Zenon DEF CommandInv
    <3>3. CASE parse_end
      BY <3>3, Zenon DEF parse_end, CommandInv
    <3> QED BY <1>3, <3>1, <3>2, <3>3, Zenon
  <2>2. "parse" # "returned" /\ "command" # "returned"
    OBVIOUS
  <2> QED BY <2>1, <2>2, Zenon DEF CommandInv, CommandIsUnderstood
<1>4. CASE enqueue_ipc_command
  <2>1. parsing = "command" /\ input' = input /\ caller' = caller /\ caller \in Callers
    BY <1>4, Zenon DEF enqueue_ipc_command, Return, CommandInv
  <2>2. ASSUME input.meant
        PROVE  /\ answer' = Accepted <=> Queued(Arguments)
               /\ answer' = Accepted => task' = Meant(Arguments)
               /\ answer' # Accepted => task' = NoTask
    <3>1. tokens = Arguments /\ Full(Arguments)
      BY <2>1, <2>2, KeptFull, Zenon DEF SenderInv, TokensAreArguments, Arguments
    <3> QED BY <1>4, <2>1, <3>1, CommandStep, Zenon
  <2> QED BY <2>1, <2>2, Zenon DEF CommandInv, CommandIsUnderstood, Queued, Arguments
<1> QED BY <1>1, <1>2, <1>3, <1>4, Zenon

(* From characters to task: a command of a sender is queued exactly when it*)
(* follows the grammar and the manager can take it, and what is queued is  *)
(* what the sender meant, sizes included.                                  *)
THEOREM CommandCorrect ==
  ASSUME Senders
  PROVE  IntakeSpec => []CommandIsUnderstood
<1>1. \A c \in Inputs : c.text \in Seq(Char)
  BY Zenon DEF Senders, Word
<1>2. IntakeInit => CommandInv
  <2> SUFFICES ASSUME CommandInit PROVE CommandInv
    BY DEF IntakeInit
  <2>1. caller \in Callers
    BY Zenon DEF CommandInit, Callers
  <2>2. input.meant = FALSE
    BY Zenon DEF CommandInit, AnyText
  <2> QED BY <2>1, <2>2, Zenon DEF CommandInv, CommandIsUnderstood
<1>3. /\ TokenInv /\ SenderInv /\ CommandInv /\ [IntakeNext]_<<vars, commandVars, pathVars>>
      => TokenInv' /\ SenderInv' /\ CommandInv'
  BY <1>1, TokenStep, SenderStep, UnderstoodStep, Zenon
<1>4. CommandInv => CommandIsUnderstood
  BY DEF CommandInv
<1> QED BY <1>2, <1>3, <1>4, TokenInit, SenderInit, PTL DEF IntakeSpec

-----------------------------------------------------------------------------
(* The configuration.                                                      *)

(* One variable and the member it sets; see EnvironmentIsUsed.             *)
Used(n) ==
  \/ Unset(environ[n]) /\ config[n] = Default[n]
  \/ IsNumber(environ[n]) /\ config[n] = environ[n].value
  \/ /\ n = "RETRY_DELAY_MS" /\ IsNumber(environ[n])
     /\ environ[n].value = 0 /\ config[n] = Default[n]

Verdicts == Names \cup {"loading", "loaded", "started", "not positive"}

(* The one member that may differ: a timeout that is too large for a long  *)
(* has become negative.                                                    *)
Wrapped(n) ==
  /\ n = "TIMEOUT_MS" /\ config[n] < 0
  /\ IsNumber(environ[n]) /\ environ[n].value > LongMax

(* The tests of start, but for such a timeout.                             *)
Sound ==
  /\ config["SMALL_WORKERS"] # 0 /\ config["LARGE_WORKERS"] # 0
  /\ config["TIMEOUT_MS"] > 0 \/ Wrapped("TIMEOUT_MS")

(* Variables still to be read have left their members alone.               *)
ConfigInv ==
  /\ next \in 1 .. 8 /\ verdict \in Verdicts
  /\ DOMAIN environ = Names /\ config \in [Names -> Int]
  /\ verdict = "loading" => \A k \in next .. 7 : config[Order[k]] = Default[Order[k]]
  /\ verdict \notin Names => Sound /\ \A n \in Names : Used(n) \/ Wrapped(n)
  /\ verdict = "started" => Positive
  /\ verdict = "not positive" => ~Positive

(* The verdicts that are not names of variables.                           *)
LEMMA Words ==
  /\ {"loading", "loaded", "started", "not positive"} \cap Names = {}
  /\ \A k \in 1 .. 7 : Order[k] \in Names
  /\ \A j, k \in 1 .. 7 : Order[j] = Order[k] => j = k
  /\ Len(Order) = 7
<1>1. Len(Order) = 7
  BY DEF Order
<1>2. \A k \in 1 .. 7 : k = 1 \/ k = 2 \/ k = 3 \/ k = 4 \/ k = 5 \/ k = 6 \/ k = 7
  OBVIOUS
<1>3. \A k \in 1 .. 7 : Order[k] \in Names
  BY <1>2 DEF Order, Names
<1>4. \A j, k \in 1 .. 7 : Order[j] = Order[k] => j = k
  BY <1>2 DEF Order
<1>5. {"loading", "loaded", "started", "not positive"} \cap Names = {}
  BY DEF Names
<1> QED
  BY <1>1, <1>3, <1>4, <1>5, Zenon

(* The defaults pass the tests of start.                                   *)
LEMMA InitConfigInv ==
  Init => ConfigInv
<1> SUFFICES ASSUME Init PROVE ConfigInv
  OBVIOUS
<1>1. next = 1 /\ verdict = "loading" /\ config = Default /\ config \in [Names -> Int]
      /\ DOMAIN environ = Names /\ \A n \in Names : Unset(environ[n])
  BY ConfigWidths DEF Init, Unset
<1>2. Sound
  BY <1>1, ConfigWidths DEF Sound, Names
<1>3. \A n \in Names : Used(n)
  BY <1>1 DEF Used
<1> QED
  BY <1>1, <1>2, <1>3 DEF ConfigInv, Verdicts

(* What is assigned is the number read, and is not zero where that counts; *)
(* or it is negative, for a timeout above LongMax.                         *)
LEMMA Assignment ==
  ASSUME ConfigInv, verdict = "loading", NEW text \in Text, NEW n \in Names,
         config[n] = Default[n], ~Refused(n, text)
  PROVE  /\ Assigned(n, text) \in Int
         /\ \/ /\ n \in {"SMALL_WORKERS", "LARGE_WORKERS", "TIMEOUT_MS"} => Assigned(n, text) > 0
               /\ \/ Unset(text) /\ Assigned(n, text) = Default[n]
                  \/ IsNumber(text) /\ Assigned(n, text) = text.value
                  \/ /\ n = "RETRY_DELAY_MS" /\ IsNumber(text)
                     /\ text.value = 0 /\ Assigned(n, text) = Default[n]
            \/ /\ n = "TIMEOUT_MS" /\ Assigned(n, text) < 0
               /\ IsNumber(text) /\ text.value > LongMax
<1>1. Unset(text) \/ IsNumber(text)
  BY DEF Refused, Text, Unset, IsNumber
<1>2. CASE Unset(text)
  BY <1>2, ConfigWidths DEF Assigned, ConfigInv
<1>3. CASE IsNumber(text)
  <2>1. text.value \in Nat /\ ~Unset(text)
    BY <1>3, ConfigWidths, Zenon DEF Text, IsNumber, Unset
  <2>2. n # "LARGE_FILE_THRESHOLD" => text.value <= UIntMax
    BY <1>3 DEF Refused, InRange
  <2>3. ~AllowsZero(n) => text.value # 0
    BY <1>3 DEF Refused
  <2>4. n = "TIMEOUT_MS" => \/ ToLong(text.value) = text.value
                            \/ ToLong(text.value) < 0 /\ text.value > LongMax
    BY <2>1, <2>2, ConfigWidths DEF ToLong
  <2>5. n = "TIMEOUT_MS" => ToLong(text.value) \in Int
    BY <2>1, ConfigWidths DEF ToLong
  <2>6. n \in {"SMALL_WORKERS", "LARGE_WORKERS", "TIMEOUT_MS"} => ~AllowsZero(n)
          /\ n # "RETRY_DELAY_MS"
    BY DEF AllowsZero
  <2>7. config[n] \in Int
    BY DEF ConfigInv
  <2> QED
    BY <1>3, <2>1, <2>3, <2>4, <2>5, <2>6, <2>7 DEF Assigned
<1> QED
  BY <1>1, <1>2, <1>3

(* Reading a variable keeps it.                                            *)
LEMMA ReadStep ==
  ASSUME ConfigInv, NEW text \in Text, set_from_environment(text)
  PROVE  ConfigInv'
<1> DEFINE n == Order[next]
<1>1. verdict = "loading" /\ next \in 1 .. 7 /\ n \in Names /\ next' = next + 1
      /\ environ' = [environ EXCEPT ![n] = text]
  <2>1. verdict = "loading" /\ next <= Len(Order) /\ next' = next + 1
        /\ environ' = [environ EXCEPT ![n] = text]
    BY DEF set_from_environment
  <2>2. next \in 1 .. 7
    <3>1. Len(Order) = 7
      BY Words, Zenon
    <3>2. next \in 1 .. 8
      BY Zenon DEF ConfigInv
    <3> QED
      BY <2>1, <3>1, <3>2
  <2> QED
    BY <2>1, <2>2, Words, ZenonT(30)
<1>2. config[n] = Default[n] /\ DOMAIN environ = Names /\ config \in [Names -> Int]
  BY <1>1 DEF ConfigInv
<1>3. CASE Refused(n, text)
  <2>1. verdict' = n /\ config' = config
    BY <1>3 DEF set_from_environment
  <2>2. n \in Names /\ n # "loading" /\ n # "not positive" /\ n # "started"
    BY <1>1, Words, Zenon
  <2> HIDE DEF n
  <2>3. next' \in 1 .. 8 /\ DOMAIN environ' = Names
    BY <1>1, <1>2
  <2> QED
    BY <1>2, <2>1, <2>2, <2>3, ZenonT(30) DEF ConfigInv, Verdicts
<1>4. CASE ~Refused(n, text)
  <2>1. verdict' = "loading" /\ config' = [config EXCEPT ![n] = Assigned(n, text)]
    BY <1>1, <1>4 DEF set_from_environment
  <2>2. config' \in [Names -> Int]
    BY <1>1, <1>2, <1>4, <2>1, Assignment, Zenon
  <2>3. \A k \in next + 1 .. 7 : config'[Order[k]] = Default[Order[k]]
    <3> SUFFICES ASSUME NEW k \in next + 1 .. 7 PROVE config'[Order[k]] = Default[Order[k]]
      OBVIOUS
    <3>1. k \in 1 .. 7 /\ k \in next .. 7 /\ k # next
      BY <1>1
    <3>2. Order[k] \in Names /\ Order[k] # n
      BY <1>1, <3>1, Words, ZenonT(30)
    <3>3. config[Order[k]] = Default[Order[k]]
      BY <1>1, <3>1 DEF ConfigInv
    <3> QED
      BY <1>2, <2>1, <3>2, <3>3, Zenon
  <2>4. Sound'
    <3>1. Sound
      BY <1>1, Words, Zenon DEF ConfigInv
    <3>2. \/ n \in {"SMALL_WORKERS", "LARGE_WORKERS", "TIMEOUT_MS"} => Assigned(n, text) > 0
          \/ /\ n = "TIMEOUT_MS" /\ Assigned(n, text) < 0
             /\ IsNumber(text) /\ text.value > LongMax
      BY <1>1, <1>2, <1>4, Assignment, Zenon
    <3>3. Assigned(n, text) \in Int
      BY <1>1, <1>2, <1>4, Assignment, Zenon
    <3> HIDE DEF n
    <3> QED
      BY <1>1, <1>2, <2>1, <3>1, <3>2, <3>3 DEF Sound, Wrapped, Names
  <2>5. \A m \in Names : (Used(m) \/ Wrapped(m))'
    <3> SUFFICES ASSUME NEW m \in Names PROVE (Used(m) \/ Wrapped(m))'
      BY Zenon
    <3>1. CASE m # n
      <4>1. (Used(m) \/ Wrapped(m)) /\ environ'[m] = environ[m] /\ config'[m] = config[m]
        BY <1>1, <1>2, <2>1, <3>1, Words, ZenonT(30) DEF ConfigInv
      <4> QED
        BY <4>1 DEF Used, Wrapped
    <3>2. CASE m = n
      <4>1. environ'[m] = text /\ config'[m] = Assigned(n, text)
        BY <1>1, <1>2, <2>1, <3>2, Zenon
      <4> QED
        BY <1>1, <1>2, <1>4, <3>2, <4>1, Assignment, ZenonT(30) DEF Used, Wrapped
    <3> QED
      BY <3>1, <3>2
  <2> QED
    BY <1>1, <1>2, <2>1, <2>2, <2>3, <2>4, <2>5 DEF ConfigInv, Verdicts
<1> QED
  BY <1>3, <1>4

(* So does every step.                                                     *)
LEMMA StepConfigInv ==
  ConfigInv /\ [Next]_vars => ConfigInv'
<1> SUFFICES ASSUME ConfigInv, [Next]_vars PROVE ConfigInv'
  OBVIOUS
<1>1. CASE \E text \in Text : set_from_environment(text)
  BY <1>1, ReadStep, Zenon
<1>2. CASE load_configuration
  BY <1>2, Words, ZenonT(30) DEF load_configuration, ConfigInv, Verdicts, Sound, Used, Wrapped
<1>3. CASE start
  <2>1. verdict = "loaded" /\ UNCHANGED <<next, environ, config>>
        /\ verdict' = IF Positive THEN "started" ELSE "not positive"
    BY <1>3, Zenon DEF start
  <2>2. (verdict' = "started" /\ Positive') \/ (verdict' = "not positive" /\ ~Positive')
    BY <2>1, Zenon DEF Positive
  <2>3. "started" # "not positive" /\ verdict' # "loading" /\ verdict \notin Names
    BY <2>1, <2>2, Words, Zenon
  <2>4. Sound /\ \A n \in Names : Used(n) \/ Wrapped(n)
    BY <2>3, Zenon DEF ConfigInv
  <2>5. Sound' /\ \A n \in Names : (Used(n) \/ Wrapped(n))'
    BY <2>1, <2>4, Zenon DEF Sound, Used, Wrapped
  <2> QED
    BY <2>1, <2>2, <2>3, <2>5, ZenonT(30) DEF ConfigInv, Verdicts
<1>4. CASE UNCHANGED vars
  BY <1>4, Zenon DEF vars, ConfigInv, Positive, Sound, Used, Wrapped
<1> QED
  BY <1>1, <1>2, <1>3, <1>4, Zenon DEF Next

(* Nothing that happens after the start touches the configuration.         *)
LEMMA ConfigAlways == IntakeSpec => []ConfigInv
<1>1. IntakeInit => ConfigInv
  BY InitConfigInv DEF IntakeInit
<1>2. [IntakeNext]_<<vars, commandVars, pathVars>> => [Next]_vars
  BY Zenon DEF IntakeNext, configure, enqueue_command, resolve_path, process_path
<1> QED BY <1>1, <1>2, StepConfigInv, PTL DEF IntakeSpec

(* Of the numbers load_configuration accepted, start refuses none but a    *)
(* timeout above the largest long, for all widths of the types.            *)
THEOREM RefusalCorrect == IntakeSpec => []RefusedOnlyForTimeout
<1>1. ASSUME ConfigInv, verdict = "not positive"
      PROVE  IsNumber(environ["TIMEOUT_MS"]) /\ environ["TIMEOUT_MS"].value > LongMax
  <2>1. Sound /\ ~Positive
    BY <1>1, Words, Zenon DEF ConfigInv
  <2> QED BY <2>1, Zenon DEF Sound, Positive, Wrapped
<1>2. ConfigInv => RefusedOnlyForTimeout
  BY <1>1, Zenon DEF RefusedOnlyForTimeout
<1> QED BY <1>2, ConfigAlways, PTL

(* What a started manager runs on is the environment over the defaults,    *)
(* for all widths of the types.                                            *)
THEOREM EnvironmentCorrect == IntakeSpec => []EnvironmentIsUsed
<1>1. ASSUME ConfigInv, verdict = "started", NEW n \in Names PROVE Used(n)
  <2>1. Positive /\ (Used(n) \/ Wrapped(n)) /\ config \in [Names -> Int]
    BY <1>1, Words, ZenonT(30) DEF ConfigInv
  <2>2. config["TIMEOUT_MS"] > 0 /\ config["TIMEOUT_MS"] \in Int
    BY <2>1, Zenon DEF Positive, Names
  <2>3. ~Wrapped(n)
    BY <2>2 DEF Wrapped
  <2> QED BY <2>1, <2>3
<1>2. ConfigInv => EnvironmentIsUsed
  BY <1>1, Zenon DEF Used, EnvironmentIsUsed
<1> QED BY <1>2, ConfigAlways, PTL

-----------------------------------------------------------------------------
(* From the command to the file.                                           *)

(* What a command leads to is a run of resolve_local_path, so what         *)
(* LibraryProofs proves about LocalPath holds here.                        *)
THEOREM PathsAreLocal == IntakeSpec => PathSpec
<1>1. IntakeInit => PathInit
  BY DEF IntakeInit
<1>2. [IntakeNext]_<<vars, commandVars, pathVars>> => [PathNext]_pathVars
  <2>1. Direction(tokens) \in {"Download", "Upload"}
    BY DEF Direction
  <2> QED BY <2>1, Zenon DEF IntakeNext, configure, enqueue_command, resolve_path, process_path,
                             PathNext, pathVars
<1> QED BY <1>1, <1>2, PTL DEF IntakeSpec, PathSpec

=============================================================================
