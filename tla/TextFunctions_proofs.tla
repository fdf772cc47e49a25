------------------------ MODULE TextFunctions_proofs ------------------------
(* Base64.cpp gives back what it was given, for every sequence of bytes, and *)
(* http_parser_parse_url accepts the texts that are legal fields and         *)
(* delimiters, no others, and divides them into these fields. The run checks *)
(* all of this on short inputs; nothing here depends on the length.          *)
EXTENDS MC_TextFunctions, TLAPS, SequenceTheorems, WellFoundedInduction

(* The characters base64_encode takes from the alphabet, of n bytes; the     *)
(* others are padding.                                                       *)
Own(n) == 4 * (n \div 3) + (IF n % 3 = 0 THEN 0 ELSE (n % 3) + 1)

(* Division by three and by four, with what remains.                         *)
LEMMA Thirds ==
    ASSUME NEW n \in Nat
    PROVE  \E q \in Nat, r \in 0 .. 2 :
               n = 3 * q + r /\ q = n \div 3 /\ r = n % 3
<1>1. PICK q \in Nat, r \in 0 .. 2 : q = n \div 3 /\ r = n % 3
  OBVIOUS
<1>2. n = 3 * q + r
  BY <1>1
<1>3. QED
  BY <1>1, <1>2

(* The same with four.                                                       *)
LEMMA Quarters ==
    ASSUME NEW n \in Nat
    PROVE  \E q \in Nat, r \in 0 .. 3 :
               n = 4 * q + r /\ q = n \div 4 /\ r = n % 4
<1>1. PICK q \in Nat, r \in 0 .. 3 : q = n \div 4 /\ r = n % 4
  OBVIOUS
<1>2. n = 4 * q + r
  BY <1>1
<1>3. QED
  BY <1>1, <1>2

(* What base64_enc_len announces, in thirds of the input and the padding.    *)
LEMMA Lengths64 ==
    ASSUME NEW n \in Nat
    PROVE  /\ base64_enc_len(n) = 4 * (n \div 3) + (IF n % 3 = 0 THEN 0 ELSE 4)
           /\ Own(n) \in Nat /\ base64_enc_len(n) \in Nat
           /\ Own(n) <= base64_enc_len(n)
           /\ base64_enc_len(n) - Own(n) <= 2
           /\ n > 0 => Own(n) > 0
           /\ 3 * (Own(n) \div 4)
              + (IF Own(n) % 4 = 0 THEN 0 ELSE (Own(n) % 4) - 1) = n
           /\ (6 * base64_enc_len(n)) \div 8 - (base64_enc_len(n) - Own(n)) = n
BY DEF base64_enc_len, Own

(* The k-th character has a place in the alphabet if the bytes reach it.     *)
LEMMA OwnPlaces ==
    ASSUME NEW n \in Nat, NEW k \in 1 .. base64_enc_len(n)
    PROVE  k <= Own(n) <=> 3 * ((k - 1) \div 4) + ((k - 1) % 4) <= n
<1>0. k - 1 \in Nat /\ k = (k - 1) + 1 /\ k <= base64_enc_len(n)
  BY Lengths64
<1>1. PICK g \in Nat, j \in 0 .. 3 :
          k - 1 = 4 * g + j /\ g = (k - 1) \div 4 /\ j = (k - 1) % 4
  BY <1>0, Quarters
<1>2. PICK q \in Nat, r \in 0 .. 2 : n = 3 * q + r /\ q = n \div 3 /\ r = n % 3
  BY Thirds
<1>3. base64_enc_len(n) = 4 * q + (IF r = 0 THEN 0 ELSE 4)
  BY <1>2, Lengths64
<1>4. Own(n) = 4 * q + (IF r = 0 THEN 0 ELSE r + 1)
  BY <1>2 DEF Own
<1>5. k = 4 * g + j + 1
  BY <1>0, <1>1
<1>6. k <= Own(n) <=> 3 * g + j <= n
  <2>1. k <= 4 * q + (IF r = 0 THEN 0 ELSE 4)
    BY <1>0, <1>3
  <2>2. (k <= 4 * q + (IF r = 0 THEN 0 ELSE r + 1)) <=> 3 * g + j <= 3 * q + r
    BY <1>5, <2>1
  <2>3. QED
    BY <1>2, <1>4, <2>2
<1>7. QED
  BY <1>1, <1>6

(* The alphabet has no padding in it, and looking up undoes it.              *)
LEMMA LookedUp ==
    ASSUME NEW v \in 0 .. 63
    PROVE  /\ b64_alphabet(v) # Pad /\ b64_alphabet(v) \in Byte
           /\ b64_lookup(b64_alphabet(v)) = v
BY DEF b64_alphabet, b64_lookup, Pad, Byte

(* Four digits of six bits hold three bytes, and each byte is in two digits. *)
LEMMA Regrouped ==
    ASSUME NEW x \in Byte, NEW y \in Byte, NEW z \in Byte
    PROVE  LET a4 == a3_to_a4(<<x, y, z>>)
           IN  /\ \A i \in 1 .. 4 : a4[i] \in 0 .. 63
               /\ ((a4[1] * 4) + ((a4[2] \div 16) % 4)) % 256 = x
               /\ ((a4[2] % 16) * 16) + ((a4[3] \div 4) % 16) = y
               /\ (((a4[3] % 4) * 64) + a4[4]) % 256 = z
<1> DEFINE a4 == a3_to_a4(<<x, y, z>>)
<1>1. /\ a4[1] = x \div 4 /\ a4[2] = (x % 4) * 16 + y \div 16
      /\ a4[3] = (y % 16) * 4 + z \div 64 /\ a4[4] = z % 64
  BY DEF a3_to_a4
<1> HIDE DEF a4
<1>2. /\ x \div 4 \in 0 .. 63 /\ (x % 4) * 16 + y \div 16 \in 0 .. 63
      /\ (y % 16) * 4 + z \div 64 \in 0 .. 63 /\ z % 64 \in 0 .. 63
  BY DEF Byte
<1>3. \A i \in 1 .. 4 : a4[i] \in 0 .. 63
  BY <1>1, <1>2
<1>4. ((a4[1] * 4) + ((a4[2] \div 16) % 4)) % 256 = x
  BY <1>1 DEF Byte
<1>5. ((a4[2] % 16) * 16) + ((a4[3] \div 4) % 16) = y
  BY <1>1 DEF Byte
<1>6. (((a4[3] % 4) * 64) + a4[4]) % 256 = z
  BY <1>1 DEF Byte
<1>7. QED
  BY <1>3, <1>4, <1>5, <1>6 DEF a4

-----------------------------------------------------------------------------
(* What base64_encode stores: padding after its own characters only, and     *)
(* before that the digits of the groups, which are looked up as they were.   *)
LEMMA EncodedCharacters ==
    ASSUME NEW input \in Seq(Byte), NEW coded, coded = base64_encode(input)
    PROVE  /\ coded \in Seq(Byte) /\ Len(coded) = base64_enc_len(Len(input))
           /\ \A k \in 1 .. Len(coded) :
                  coded[k] = Pad <=> k > Own(Len(input))
           /\ \A g \in Nat : \A i \in 1 .. 4 : 4 * g + i <= Own(Len(input)) =>
                  b64_lookup(coded[4 * g + i]) = a3_to_a4(Group3(input, g))[i]
<1> DEFINE n == Len(input)
<1>0. n \in Nat /\ \A k \in 1 .. n : input[k] \in Byte
  OBVIOUS
<1>1. \A g \in Nat : \A i \in 1 .. 4 : a3_to_a4(Group3(input, g))[i] \in 0 .. 63
  <2> SUFFICES ASSUME NEW g \in Nat
               PROVE  \A i \in 1 .. 4 : a3_to_a4(Group3(input, g))[i] \in 0 .. 63
    OBVIOUS
  <2>1. \A j \in 1 .. 3 : Group3(input, g)[j] \in Byte
    BY <1>0 DEF Group3, Byte
  <2>2. PICK x \in Byte, y \in Byte, z \in Byte :
            /\ x = Group3(input, g)[1] /\ y = Group3(input, g)[2]
            /\ z = Group3(input, g)[3]
    BY <2>1
  <2>3. a3_to_a4(Group3(input, g)) = a3_to_a4(<<x, y, z>>)
    BY <2>2 DEF a3_to_a4
  <2>4. \A i \in 1 .. 4 : a3_to_a4(<<x, y, z>>)[i] \in 0 .. 63
    BY Regrouped
  <2>5. QED
    BY <2>3, <2>4
<1>2. n \in Nat /\ base64_enc_len(n) \in Nat /\ Own(n) \in Nat
      /\ Own(n) <= base64_enc_len(n)
  BY <1>0, Lengths64
<1> DEFINE Char(k) == IF 3 * ((k - 1) \div 4) + ((k - 1) % 4) <= n
                      THEN b64_alphabet(a3_to_a4(Group3(input, (k - 1) \div 4))
                                            [((k - 1) % 4) + 1])
                      ELSE Pad
<1>3. coded = [k \in 1 .. base64_enc_len(n) |-> Char(k)]
  BY DEF base64_encode
<1>4. ASSUME NEW k \in 1 .. base64_enc_len(n)
      PROVE  /\ Char(k) \in Byte /\ (Char(k) = Pad <=> k > Own(n))
             /\ k <= Own(n) => b64_lookup(Char(k)) =
                    a3_to_a4(Group3(input, (k - 1) \div 4))[((k - 1) % 4) + 1]
  <2>1. (k - 1) \div 4 \in Nat /\ ((k - 1) % 4) + 1 \in 1 .. 4
    BY <1>2
  <2> DEFINE v == a3_to_a4(Group3(input, (k - 1) \div 4))[((k - 1) % 4) + 1]
  <2>2. v \in 0 .. 63
    BY <1>1, <2>1
  <2>3. k <= Own(n) <=> 3 * ((k - 1) \div 4) + ((k - 1) % 4) <= n
    BY <1>2, OwnPlaces
  <2>4. CASE k <= Own(n)
    <3>1. Char(k) = b64_alphabet(v)
      BY <2>3, <2>4
    <3> HIDE DEF v, Char
    <3>2. QED
      <4>1. Char(k) # Pad /\ Char(k) \in Byte /\ b64_lookup(Char(k)) = v
        BY <2>2, <3>1, LookedUp
      <4>2. b64_lookup(Char(k)) =
                a3_to_a4(Group3(input, (k - 1) \div 4))[((k - 1) % 4) + 1]
        BY <4>1 DEF v
      <4>3. ~(k > Own(n))
        BY <1>2, <2>4
      <4>4. QED
        BY <4>1, <4>2, <4>3
  <2>5. CASE ~(k <= Own(n))
    <3>1. Char(k) = Pad
      BY <2>3, <2>5
    <3> HIDE DEF v, Char
    <3>2. QED
      BY <1>2, <2>5, <3>1 DEF Pad, Byte
  <2>6. QED
    BY <2>4, <2>5
<1> HIDE DEF Char
<1>5. /\ coded \in Seq(Byte) /\ Len(coded) = base64_enc_len(n)
      /\ \A k \in 1 .. base64_enc_len(n) : coded[k] = Char(k)
  BY <1>2, <1>3, <1>4
<1>6. ASSUME NEW g \in Nat, NEW i \in 1 .. 4, 4 * g + i <= Own(n)
      PROVE  b64_lookup(coded[4 * g + i]) = a3_to_a4(Group3(input, g))[i]
  <2>1. PICK k \in 1 .. base64_enc_len(n) : k = 4 * g + i /\ k <= Own(n)
    BY <1>2, <1>6
  <2>2. (k - 1) \div 4 = g /\ ((k - 1) % 4) + 1 = i
    BY <2>1
  <2>3. QED
    BY <1>4, <1>5, <2>1, <2>2
<1>7. QED
  BY <1>4, <1>5, <1>6

(* The characters before the padding are counted rightly.                    *)
LEMMA DigitsAre ==
    ASSUME NEW s \in Seq(Byte), NEW m \in 0 .. Len(s),
           \A k \in 1 .. m : s[k] # Pad, m < Len(s) => s[m + 1] = Pad
    PROVE  Digits(s) = m
<1> DEFINE P(n) == /\ \A k \in 1 .. n : s[k] # Pad
                   /\ n < Len(s) => s[n + 1] = Pad
<1>1. P(m)
  OBVIOUS
<1>2. \A n \in 0 .. Len(s) : P(n) => n = m
  <2> SUFFICES ASSUME NEW n \in 0 .. Len(s), P(n) PROVE n = m
    OBVIOUS
  <2>1. CASE n < m
    <3>1. n + 1 \in 1 .. m /\ s[n + 1] = Pad
      BY <2>1
    <3>2. QED
      BY <3>1
  <2>2. CASE n > m
    <3>1. m + 1 \in 1 .. n /\ s[m + 1] = Pad
      BY <2>2
    <3>2. QED
      BY <3>1
  <2>3. QED
    BY <2>1, <2>2
<1>3. Digits(s) = CHOOSE n \in 0 .. Len(s) : P(n)
  BY DEF Digits
<1> HIDE DEF P
<1>4. QED
  BY <1>1, <1>2, <1>3

(* So is the padding at the end.                                             *)
LEMMA PaddingIs ==
    ASSUME NEW s \in Seq(Byte), NEW m \in 0 .. Len(s),
           \A k \in Len(s) - m + 1 .. Len(s) : s[k] = Pad,
           m < Len(s) => s[Len(s) - m] # Pad
    PROVE  numEq(s) = m
<1> DEFINE P(n) == /\ \A k \in Len(s) - n + 1 .. Len(s) : s[k] = Pad
                   /\ n < Len(s) => s[Len(s) - n] # Pad
<1>1. P(m)
  OBVIOUS
<1>2. \A n \in 0 .. Len(s) : P(n) => n = m
  <2> SUFFICES ASSUME NEW n \in 0 .. Len(s), P(n) PROVE n = m
    OBVIOUS
  <2>0. Len(s) \in Nat
    OBVIOUS
  <2>1. CASE n < m
    <3>1. Len(s) - n \in Len(s) - m + 1 .. Len(s) /\ s[Len(s) - n] # Pad
      BY <2>0, <2>1
    <3>2. QED
      BY <3>1
  <2>2. CASE n > m
    <3>1. Len(s) - m \in Len(s) - n + 1 .. Len(s) /\ s[Len(s) - m] # Pad
      BY <2>0, <2>2
    <3>2. QED
      BY <3>1
  <2>3. QED
    BY <2>0, <2>1, <2>2
<1>3. numEq(s) = CHOOSE n \in 0 .. Len(s) : P(n)
  BY DEF numEq
<1> HIDE DEF P
<1>4. QED
  BY <1>1, <1>2, <1>3

(* A byte of the input text is in two of the digits that were encoded.       *)
LEMMA BytePlaces ==
    ASSUME NEW n \in Nat, NEW k \in 1 .. n
    PROVE  /\ (k - 1) \div 3 \in Nat /\ (k - 1) % 3 \in 0 .. 2
           /\ k = 3 * ((k - 1) \div 3) + ((k - 1) % 3) + 1
           /\ 4 * ((k - 1) \div 3) + ((k - 1) % 3) + 2 <= Own(n)
<1>1. k - 1 \in Nat
  OBVIOUS
<1>2. PICK g \in Nat, j \in 0 .. 2 :
          k - 1 = 3 * g + j /\ g = (k - 1) \div 3 /\ j = (k - 1) % 3
  BY <1>1, Thirds
<1>3. PICK q \in Nat, r \in 0 .. 2 : n = 3 * q + r /\ q = n \div 3 /\ r = n % 3
  BY Thirds
<1>4. k = 3 * g + j + 1
  BY <1>2
<1>5. 4 * g + j + 2 <= Own(n)
  <2>1. Own(n) = 4 * q + (IF r = 0 THEN 0 ELSE r + 1)
    BY <1>3 DEF Own
  <2>2. 3 * g + j + 1 <= 3 * q + r
    BY <1>3, <1>4
  <2>3. 4 * g + j + 2 <= 4 * q + (IF r = 0 THEN 0 ELSE r + 1)
    BY <2>2
  <2>4. QED
    BY <2>1, <2>3
<1>6. QED
  BY <1>2, <1>4, <1>5

(* Decoding puts the groups together again, whether or not there is padding  *)
(* after them.                                                               *)
LEMMA Decoded ==
    ASSUME NEW input \in Seq(Byte), NEW s \in Seq(Byte),
           Digits(s) = Own(Len(input)),
           \A g \in Nat : \A i \in 1 .. 4 : 4 * g + i <= Own(Len(input)) =>
               b64_lookup(s[4 * g + i]) = a3_to_a4(Group3(input, g))[i]
    PROVE  base64_decode(s) = input
<1> DEFINE n == Len(input)
           N == Own(n)
           Out(k) == a4_to_a3(Group4(s, N, (k - 1) \div 3))[((k - 1) % 3) + 1]
<1>0. n \in Nat /\ \A k \in 1 .. n : input[k] \in Byte
  OBVIOUS
<1>1. n \in Nat /\ N \in Nat
      /\ 3 * (N \div 4) + (IF N % 4 = 0 THEN 0 ELSE (N % 4) - 1) = n
  BY <1>0, Lengths64
<1>2. base64_decode(s) = [k \in 1 .. n |-> Out(k)]
  BY <1>1 DEF base64_decode
<1>3. ASSUME NEW k \in 1 .. n PROVE Out(k) = input[k]
  <2>1. PICK g \in Nat, j \in 0 .. 2 :
            /\ g = (k - 1) \div 3 /\ j = (k - 1) % 3
            /\ k = 3 * g + j + 1 /\ 4 * g + j + 2 <= N
    BY <1>1, BytePlaces
  <2> DEFINE a4 == a3_to_a4(Group3(input, g))
             b4 == Group4(s, N, g)
  <2>2. b4[j + 1] = a4[j + 1] /\ b4[j + 2] = a4[j + 2]
    <3>1. /\ j + 1 \in 1 .. 4 /\ j + 2 \in 1 .. 4
          /\ 4 * g + (j + 1) <= N /\ 4 * g + (j + 2) <= N
      BY <1>1, <2>1
    <3>2. \A i \in 1 .. 4 : 4 * g + i <= N => b4[i] = a4[i]
      BY DEF Group4
    <3> HIDE DEF a4, b4, N
    <3>3. QED
      BY <3>1, <3>2
  <2>3. PICK x \in Byte, y \in Byte, z \in Byte :
            /\ x = Group3(input, g)[1] /\ y = Group3(input, g)[2]
            /\ z = Group3(input, g)[3]
    <3>1. \A i \in 1 .. 3 : Group3(input, g)[i] \in Byte
      BY <1>0, <2>1 DEF Group3, Byte
    <3>2. QED
      BY <3>1
  <2>4. a4 = a3_to_a4(<<x, y, z>>)
    BY <2>3 DEF a3_to_a4
  <2>5. /\ ((a4[1] * 4) + ((a4[2] \div 16) % 4)) % 256 = x
        /\ ((a4[2] % 16) * 16) + ((a4[3] \div 4) % 16) = y
        /\ (((a4[3] % 4) * 64) + a4[4]) % 256 = z
    BY <2>4, Regrouped
  <2>6. input[k] = Group3(input, g)[j + 1]
    <3>1. 3 * g + (j + 1) = k /\ k <= Len(input) /\ j + 1 \in 1 .. 3
      BY <1>1, <2>1
    <3>2. QED
      BY <3>1 DEF Group3
  <2>7. Out(k) = a4_to_a3(b4)[j + 1]
    BY <2>1
  <2> HIDE DEF a4, b4, Out
  <2>8. CASE j = 0
    BY <2>2, <2>3, <2>5, <2>6, <2>7, <2>8 DEF a4_to_a3
  <2>9. CASE j = 1
    BY <2>2, <2>3, <2>5, <2>6, <2>7, <2>9 DEF a4_to_a3
  <2>10. CASE j = 2
    BY <2>2, <2>3, <2>5, <2>6, <2>7, <2>10 DEF a4_to_a3
  <2>11. QED
    BY <2>1, <2>8, <2>9, <2>10
<1> HIDE DEF Out
<1>4. input = [k \in 1 .. n |-> input[k]]
  OBVIOUS
<1>5. QED
  BY <1>2, <1>3, <1>4

(* For every input, however long: base64_decode gives back what              *)
(* base64_encode was given, with its padding and without, and base64_enc_len *)
(* and base64_dec_len announce the lengths that come out (Base64.h:180-208). *)
THEOREM Base64Inverse ==
    ASSUME NEW input \in Seq(Byte)
    PROVE  RoundTrip(input)
<1> DEFINE n == Len(input)
           coded == base64_encode(input)
           short == SubSeq(coded, 1, Own(n))
<1>0. n \in Nat
  OBVIOUS
<1>1. /\ n \in Nat /\ base64_enc_len(n) \in Nat /\ Own(n) \in Nat
      /\ Own(n) <= base64_enc_len(n)
      /\ n > 0 => Own(n) > 0
      /\ (6 * base64_enc_len(n)) \div 8 - (base64_enc_len(n) - Own(n)) = n
  BY <1>0, Lengths64
<1>2. /\ coded \in Seq(Byte) /\ Len(coded) = base64_enc_len(n)
      /\ \A k \in 1 .. Len(coded) : coded[k] = Pad <=> k > Own(n)
      /\ \A g \in Nat : \A i \in 1 .. 4 : 4 * g + i <= Own(n) =>
             b64_lookup(coded[4 * g + i]) = a3_to_a4(Group3(input, g))[i]
  BY EncodedCharacters
<1> HIDE DEF coded
<1>3. Digits(coded) = Own(n)
  <2>1. Own(n) \in 0 .. Len(coded) /\ \A k \in 1 .. Own(n) : coded[k] # Pad
    BY <1>1, <1>2
  <2>2. Own(n) < Len(coded) => coded[Own(n) + 1] = Pad
    BY <1>1, <1>2
  <2>3. QED
    BY <1>2, <2>1, <2>2, DigitsAre
<1>4. base64_decode(coded) = input
  BY <1>2, <1>3, Decoded
<1>5. /\ short \in Seq(Byte) /\ Len(short) = Own(n)
      /\ \A k \in 1 .. Own(n) : short[k] = coded[k]
  BY <1>1, <1>2
<1> HIDE DEF short
<1>6. Digits(short) = Own(n)
  <2>1. Own(n) \in 0 .. Len(short) /\ \A k \in 1 .. Own(n) : short[k] # Pad
    BY <1>1, <1>2, <1>5
  <2>2. QED
    BY <1>5, <2>1, DigitsAre
<1>7. base64_decode(short) = input
  <2>1. ASSUME NEW g \in Nat, NEW i \in 1 .. 4, 4 * g + i <= Own(n)
        PROVE  b64_lookup(short[4 * g + i]) = a3_to_a4(Group3(input, g))[i]
    <3>1. 4 * g + i \in 1 .. Own(n)
      BY <1>1, <2>1
    <3>2. QED
      BY <1>2, <1>5, <2>1, <3>1
  <2>2. QED
    BY <1>5, <1>6, <2>1, Decoded
<1>8. n > 0 => numEq(coded) = base64_enc_len(n) - Own(n)
  <2> SUFFICES ASSUME n > 0 PROVE numEq(coded) = base64_enc_len(n) - Own(n)
    OBVIOUS
  <2> DEFINE m == base64_enc_len(n) - Own(n)
  <2>1. /\ m \in 0 .. Len(coded) /\ Len(coded) - m = Own(n)
        /\ Own(n) \in 1 .. Len(coded)
    BY <1>1, <1>2
  <2>2. \A k \in Len(coded) - m + 1 .. Len(coded) : coded[k] = Pad
    BY <1>1, <1>2, <2>1
  <2>3. coded[Len(coded) - m] # Pad
    BY <1>1, <1>2, <2>1
  <2> HIDE DEF m
  <2>4. numEq(coded) = m
    BY <1>2, <2>1, <2>2, <2>3, PaddingIs
  <2>5. QED
    BY <2>4 DEF m
<1>9. input # <<>> => base64_dec_len(coded) = n
  <2>1. input # <<>> => n > 0
    OBVIOUS
  <2>2. QED
    BY <1>1, <1>2, <1>8, <2>1 DEF base64_dec_len
<1>10. QED
  BY <1>2, <1>3, <1>4, <1>7, <1>9 DEF RoundTrip, coded, short

(* The buffer of the run holds bytes.                                        *)
BytesOnly == plain \in Seq(Bytes)

(* So the property of the run holds whatever Bytes and MaxBytes are          *)
(* (Base64.h:180-208).                                                       *)
THEOREM Base64AlwaysInverse == Spec => []Base64RoundTrip
<1>1. Init => BytesOnly
  BY DEF Init, BytesOnly
<1>2. BytesOnly /\ [GrowUrl \/ GrowPlain]_vars => BytesOnly'
  BY DEF BytesOnly, GrowUrl, GrowPlain, vars
<1>3. BytesOnly => Base64RoundTrip
  <2>1. BytesOnly => plain \in Seq(Byte)
    BY BytesAssumption DEF BytesOnly
  <2>2. QED
    BY <2>1, Base64Inverse DEF Base64RoundTrip
<1>4. QED
  BY <1>1, <1>2, <1>3, PTL DEF Spec

-----------------------------------------------------------------------------
(* http_parser_parse_url. Scan and http_parse_host are functions over the    *)
(* positions of the text: by induction they are unfolded one character at a  *)
(* time. Placed says, for each state of the automaton, where in the text     *)
(* each field found so far lies (Split: one after the other, with what is in *)
(* between), and every step keeps it; HostPlaced does the same for user,     *)
(* host and port. The text is then its parts between these positions.        *)

(* The order of the naturals, as a set of pairs.                             *)
LEMMA LessWellFounded ==
    IsWellFoundedOn({ss \in Nat \X Nat : ss[1] < ss[2]}, Nat)
BY NatLessThanWellFounded DEF OpToRel

(* Induction over the naturals, the induction hypothesis being a set.        *)
LEMMA Induction ==
    ASSUME NEW S, 0 \in S, \A n \in Nat : n \in S => n + 1 \in S
    PROVE  Nat \subseteq S
<1> DEFINE T == Nat \ S
           Less == {ss \in Nat \X Nat : ss[1] < ss[2]}
<1> SUFFICES ASSUME T # {} PROVE FALSE
  OBVIOUS
<1>1. IsWellFoundedOn(Less, Nat) /\ T \subseteq Nat
  BY LessWellFounded
<1>2. \A x, y \in T : <<y, x>> \notin Less => x <= y
  OBVIOUS
<1> HIDE DEF T, Less
<1>3. \E x \in T : \A y \in T : <<y, x>> \notin Less
  BY <1>1, WFMin
<1>4. PICK x \in T : \A y \in T : x <= y
  BY <1>2, <1>3
<1>5. x \in Nat /\ x \notin S
  BY DEF T
<1>6. x # 0 /\ x - 1 \in Nat
  BY <1>5
<1>7. x - 1 \in S
  <2>1. ~(x <= x - 1)
    BY <1>5
  <2>2. QED
    BY <1>4, <1>6, <2>1 DEF T
<1>8. QED
  BY <1>5, <1>6, <1>7

-----------------------------------------------------------------------------
(* Scan as a function that unfolds one character at a time.                  *)
ScanStart(connect) ==
    [s |-> IF connect THEN "s_req_server_start" ELSE "s_req_spaces_before_url",
     field_data |-> [uf \in UF |-> NoField],
     old_uf |-> "UF_MAX", found_at |-> FALSE]
ScanStep(buf, was, k) ==
    LET s == parse_url_char(was.s, At(buf, k))
        uf == FieldOf(s)
    IN  IF uf = "UF_MAX" THEN [was EXCEPT !.s = s]
        ELSE [s |-> s, old_uf |-> uf,
              field_data |-> Extend(was.field_data, uf, k, uf = was.old_uf),
              found_at |-> was.found_at \/ s = "s_req_server_with_at"]
Scans(f, buf, connect, n) ==
    f = [k \in 0 .. n |-> IF k = 0 THEN ScanStart(connect)
                          ELSE ScanStep(buf, f[k - 1], k)]

(* Scan is such a function, at the last position;                            *)
LEMMA ScanUnfolded ==
    ASSUME NEW buf, NEW connect
    PROVE  Scan(buf, connect) =
               (CHOOSE f : Scans(f, buf, connect, Len(buf)))[Len(buf)]
BY DEF Scan, Scans, ScanStart, ScanStep

(* and there is one, for any number of characters.                           *)
LEMMA ScanExists ==
    ASSUME NEW buf, NEW connect, NEW n \in Nat
    PROVE  \E f : Scans(f, buf, connect, n)
<1> DEFINE S == {k \in Nat : \E f : Scans(f, buf, connect, k)}
<1>1. 0 \in S
  <2>1. Scans([k \in {0} |-> ScanStart(connect)], buf, connect, 0)
    BY DEF Scans
  <2>2. QED
    BY <2>1
<1>2. ASSUME NEW m \in Nat, m \in S PROVE m + 1 \in S
  <2>1. PICK f : Scans(f, buf, connect, m)
    BY <1>2
  <2> DEFINE g == [k \in 0 .. m + 1 |->
                       IF k = m + 1 THEN ScanStep(buf, f[m], k) ELSE f[k]]
  <2>2. ASSUME NEW k \in 0 .. m + 1
        PROVE  g[k] = IF k = 0 THEN ScanStart(connect)
                      ELSE ScanStep(buf, g[k - 1], k)
    <3>1. CASE k = m + 1
      <4>1. g[k] = ScanStep(buf, f[m], k) /\ g[k - 1] = f[m] /\ k # 0
        BY <3>1
      <4>2. QED
        BY <4>1
    <3>2. CASE k # m + 1
      <4>1. g[k] = f[k] /\ k \in 0 .. m
        BY <3>2
      <4>2. f[k] = IF k = 0 THEN ScanStart(connect)
                   ELSE ScanStep(buf, f[k - 1], k)
        BY <2>1, <4>1 DEF Scans
      <4>3. k # 0 => g[k - 1] = f[k - 1]
        BY <4>1
      <4>4. QED
        BY <4>1, <4>2, <4>3
    <3>3. QED
      BY <3>1, <3>2
  <2>3. g = [k \in 0 .. m + 1 |-> IF k = 0 THEN ScanStart(connect)
                                  ELSE ScanStep(buf, g[k - 1], k)]
    <3> HIDE DEF g
    <3>1. g = [k \in 0 .. m + 1 |-> g[k]]
      BY DEF g
    <3>2. QED
      BY <2>2, <3>1
  <2>4. Scans(g, buf, connect, m + 1)
    BY <2>3 DEF Scans
  <2>5. QED
    BY <2>4
<1>3. Nat \subseteq S
  BY <1>1, <1>2, Induction
<1>4. QED
  BY <1>3

(* What Scan computes, position by position.                                 *)
LEMMA ScanFacts ==
    ASSUME NEW buf, Len(buf) \in Nat, NEW connect
    PROVE  \E f : /\ f[0] = ScanStart(connect)
                  /\ \A k \in 1 .. Len(buf) : f[k] = ScanStep(buf, f[k - 1], k)
                  /\ Scan(buf, connect) = f[Len(buf)]
<1> DEFINE f == CHOOSE f : Scans(f, buf, connect, Len(buf))
<1>1. Scans(f, buf, connect, Len(buf))
  BY ScanExists
<1>2. Scan(buf, connect) = f[Len(buf)]
  BY ScanUnfolded
<1> HIDE DEF f
<1>3. f[0] = ScanStart(connect)
      /\ \A k \in 1 .. Len(buf) : f[k] = ScanStep(buf, f[k - 1], k)
  BY <1>1 DEF Scans
<1>4. QED
  BY <1>2, <1>3

-----------------------------------------------------------------------------
(* The classes of characters that the automata tell apart.                   *)
LEMMA NoneBlank ==
    (IS_URL_CHAR \cup IS_USERINFO_CHAR \cup IS_ALPHA
        \cup {"[", "]", ":", "/", "?", "#", "@", "*"}) \cap Blank = {}
<1>1. IS_ALPHA \cap Blank = {}
  BY DEF IS_ALPHA, Blank
<1>2. IS_USERINFO_CHAR \cap Blank = {}
  BY <1>1 DEF IS_USERINFO_CHAR, IS_ALPHANUM, IS_NUM, IS_MARK, Blank
<1>3. IS_URL_CHAR \cap Blank = {}
  BY <1>1 DEF IS_URL_CHAR, TOKEN, BACKQUOTE, IS_ALPHANUM, IS_NUM, Blank
<1>4. {"[", "]", ":", "/", "?", "#", "@", "*"} \cap Blank = {}
  BY DEF Blank
<1>5. QED
  BY <1>1, <1>2, <1>3, <1>4

(* What tells the parts of a URL apart: no delimiter is a character of the   *)
(* part that it ends, but for the : in a user and the ? in a query.          *)
LEMMA Apart ==
    /\ {":", "/", "*", "@", "[", "]"} \cap IS_ALPHA = {}
    /\ {"/", "?", "@", "[", "]"} \cap IS_USERINFO_CHAR = {}
    /\ {"?", "#"} \cap IS_URL_CHAR = {}
    /\ {"[", ":", "@", "]"} \cap IS_HOST_CHAR = {}
    /\ {"[", "]", "@"} \cap IS_HEX = {}
    /\ {"@", ":"} \cap IS_NUM = {}
    /\ IS_HOST_CHAR \cup IS_HEX \cup {":", "."} \cup IS_NUM
           \subseteq IS_USERINFO_CHAR
<1>1. {":", "/", "*", "@", "[", "]"} \cap IS_ALPHA = {}
  BY DEF IS_ALPHA
<1>2. {"/", "?", "@", "[", "]"} \cap IS_USERINFO_CHAR = {}
  BY DEF IS_USERINFO_CHAR, IS_ALPHANUM, IS_ALPHA, IS_NUM, IS_MARK
<1>3. {"?", "#"} \cap IS_URL_CHAR = {}
  BY ZenonT(30) DEF IS_URL_CHAR, TOKEN, BACKQUOTE, IS_ALPHANUM, IS_ALPHA, IS_NUM
<1>4. {"[", ":", "@", "]"} \cap IS_HOST_CHAR = {}
  BY <1>1 DEF IS_HOST_CHAR, IS_ALPHANUM, IS_NUM
<1>5. {"[", "]", "@"} \cap IS_HEX = {} /\ {"@", ":"} \cap IS_NUM = {}
  BY DEF IS_HEX, IS_NUM
<1>6. /\ IS_HOST_CHAR \subseteq IS_USERINFO_CHAR
      /\ IS_NUM \subseteq IS_USERINFO_CHAR
      /\ {":", "."} \subseteq IS_USERINFO_CHAR
  BY DEF IS_HOST_CHAR, IS_USERINFO_CHAR, IS_ALPHANUM, IS_MARK
<1>7. IS_HEX \subseteq IS_USERINFO_CHAR
  <2>1. IS_HEX \ IS_NUM \subseteq IS_ALPHA
    BY DEF IS_HEX, IS_ALPHA
  <2>2. QED
    BY <1>6, <2>1 DEF IS_USERINFO_CHAR, IS_ALPHANUM
<1>8. QED
  BY <1>1, <1>2, <1>3, <1>4, <1>5, <1>6, <1>7

-----------------------------------------------------------------------------
(* The fields, as functions of positions: field uf is the characters after a *)
(* up to b, or is not there if there are none; the fields ufs are not there. *)
Run(f, uf, a, b) ==
    f[uf] = IF a = b THEN NoField ELSE [off |-> a + 1, len |-> b - a]
Missing(f, ufs) == \A uf \in ufs : f[uf] = NoField

(* The schema ends at u, and the :// after it at v, if there is one.         *)
AfterSchema(buf, u, v) ==
    \/ u = 0 /\ v = 0
    \/ /\ u > 0 /\ v = u + 3
       /\ buf[u + 1] = ":" /\ buf[u + 2] = "/" /\ buf[u + 3] = "/"

(* The first k characters, from the server part on, of which f has the       *)
(* fields: the server part ends at w, the path at x, the ? at y, the query   *)
(* at z and the # at h.                                                      *)
Split(buf, f, u, v, w, x, y, z, h, k) ==
    /\ v <= w /\ w <= x /\ x <= y /\ y <= z /\ z <= h /\ h <= k
    /\ AfterSchema(buf, u, v)
    /\ y = x \/ (y = x + 1 /\ buf[y] = "?")
    /\ y = x => z = y
    /\ \A i \in z + 1 .. h : buf[i] = "#"
    /\ h = z => k = h
    /\ Run(f, "UF_SCHEMA", 0, u) /\ Run(f, "UF_HOST", v, w)
    /\ Run(f, "UF_PATH", w, x) /\ Run(f, "UF_QUERY", y, z)
    /\ Run(f, "UF_FRAGMENT", h, k)
    /\ Missing(f, {"UF_USERINFO", "UF_PORT"})

(* What these characters are. A server part stands after a schema or in a    *)
(* CONNECT request.                                                          *)
Contents(buf, connect, u, v, w, x, y, z, h, k) ==
    /\ \A i \in 1 .. u : buf[i] \in IS_ALPHA
    /\ v < w => u > 0 \/ connect
    /\ w < x => buf[w + 1] = "/" \/ (buf[w + 1] = "*" /\ v = w)
    /\ \A i \in w + 1 .. x : buf[i] \in IS_URL_CHAR
    /\ x < y => v < w \/ w < x \/ u > 0 \/ connect
    /\ \A i \in y + 1 .. z : buf[i] \in IS_URL_CHAR \cup {"?"}
    /\ z < h => w < x \/ x < y
    /\ h < k => buf[h + 1] # "#"
    /\ \A i \in h + 1 .. k : buf[i] \in IS_URL_CHAR \cup {"?", "#"}
Hosted(connect, s, u) == s \in Server => u > 0 \/ connect

(* Where the automaton is in state s after k characters.                     *)
Reached(s, v, w, x, y, z, h, k) ==
    \/ s = "s_req_server_start" /\ k = v
    \/ s \in {"s_req_server", "s_req_server_with_at"} /\ v < w /\ w = k
    \/ s = "s_req_path" /\ w < x /\ x = k
    \/ s = "s_req_query_string_start" /\ x < y /\ y = k
    \/ s = "s_req_query_string" /\ x < y /\ y < z /\ z = k
    \/ s = "s_req_fragment_start" /\ z < h /\ h = k
    \/ s = "s_req_fragment" /\ z < h /\ h < k

(* The fields besides the schema.                                            *)
NotSchema == UF \ {"UF_SCHEMA"}

(* What the first k characters have been divided into when the automaton is  *)
(* in state s.                                                               *)
Placed(buf, connect, f, s, k) ==
    \/ s = "s_req_spaces_before_url" /\ k = 0 /\ Missing(f, UF)
    \/ /\ s = "s_req_schema"
       /\ k > 0 /\ Run(f, "UF_SCHEMA", 0, k) /\ Missing(f, NotSchema)
       /\ \A i \in 1 .. k : buf[i] \in IS_ALPHA
    \/ /\ s = "s_req_schema_slash"
       /\ k > 1 /\ Run(f, "UF_SCHEMA", 0, k - 1) /\ Missing(f, NotSchema)
       /\ buf[k] = ":" /\ \A i \in 1 .. k - 1 : buf[i] \in IS_ALPHA
    \/ /\ s = "s_req_schema_slash_slash"
       /\ k > 2 /\ Run(f, "UF_SCHEMA", 0, k - 2) /\ Missing(f, NotSchema)
       /\ buf[k - 1] = ":" /\ buf[k] = "/"
       /\ \A i \in 1 .. k - 2 : buf[i] \in IS_ALPHA
    \/ \E u, v, w, x, y, z, h \in Nat :
           /\ Split(buf, f, u, v, w, x, y, z, h, k)
           /\ Reached(s, v, w, x, y, z, h, k)
           /\ Contents(buf, connect, u, v, w, x, y, z, h, k)
           /\ Hosted(connect, s, u)

(* old_uf is the field of the state, or one that has been begun before.      *)
OldField(was) ==
    \/ was.old_uf = "UF_MAX" /\ FieldOf(was.s) = "UF_MAX"
    \/ /\ was.old_uf \in UF /\ was.field_data[was.old_uf] # NoField
       /\ FieldOf(was.s) \in {was.old_uf, "UF_MAX"}

(* What holds of the scan after k characters, unless it is dead.             *)
Scanned(buf, connect, was, k) ==
    was.s # "s_dead" =>
        /\ was = [s |-> was.s, field_data |-> was.field_data,
                  old_uf |-> was.old_uf, found_at |-> was.found_at]
        /\ DOMAIN was.field_data = UF /\ OldField(was)
        /\ Placed(buf, connect, was.field_data, was.s, k)

(* A character extends the run in progress, or begins one of its own.        *)
LEMMA Extended ==
    ASSUME NEW f, DOMAIN f = UF, NEW uf \in UF, NEW k \in Nat \ {0},
           NEW a \in Nat, a < k, a < k - 1 => Run(f, uf, a, k - 1),
           NEW same, same <=> a < k - 1
    PROVE  /\ Run(Extend(f, uf, k, same), uf, a, k)
           /\ \A other \in UF \ {uf} : Extend(f, uf, k, same)[other] = f[other]
           /\ DOMAIN Extend(f, uf, k, same) = UF
           /\ Extend(f, uf, k, same)[uf] # NoField
<1> DEFINE g == Extend(f, uf, k, same)
<1>1. /\ g[uf] = [off |-> IF same THEN f[uf].off ELSE k,
                  len |-> IF same THEN f[uf].len + 1 ELSE 1]
      /\ \A other \in UF \ {uf} : g[other] = f[other]
      /\ DOMAIN g = UF
  BY DEF Extend
<1>2. same => f[uf] = [off |-> a + 1, len |-> (k - 1) - a]
  BY DEF Run
<1>3. g[uf] = [off |-> a + 1, len |-> k - a]
  <2>1. CASE same
    <3>1. f[uf].off = a + 1 /\ f[uf].len = (k - 1) - a
      BY <1>2, <2>1
    <3>2. ((k - 1) - a) + 1 = k - a
      OBVIOUS
    <3>3. QED
      BY <1>1, <2>1, <3>1, <3>2
  <2>2. CASE ~same
    <3>1. k = a + 1 /\ k - a = 1
      BY <2>2
    <3>2. QED
      BY <1>1, <2>2, <3>1
  <2>3. QED
    BY <2>1, <2>2
<1> HIDE DEF g
<1>4. g[uf].len = k - a /\ NoField.len = 0 /\ k - a # 0
  BY <1>3 DEF NoField
<1>5. QED
  BY <1>1, <1>3, <1>4 DEF g, Run

(* The automaton moves on in this order only.                                *)
LEMMA UrlMoves ==
    ASSUME NEW s, NEW ch
    PROVE
 LET t == parse_url_char(s, ch) IN
   \/ t = "s_dead"
   \/ s = "s_req_spaces_before_url" /\ t = "s_req_path" /\ ch \in {"/", "*"}
   \/ /\ s \in {"s_req_spaces_before_url", "s_req_schema"}
      /\ t = "s_req_schema" /\ ch \in IS_ALPHA
   \/ s = "s_req_schema" /\ t = "s_req_schema_slash" /\ ch = ":"
   \/ s = "s_req_schema_slash" /\ t = "s_req_schema_slash_slash" /\ ch = "/"
   \/ s = "s_req_schema_slash_slash" /\ t = "s_req_server_start" /\ ch = "/"
   \/ s \in Server /\ t \in {"s_req_server", "s_req_server_with_at"}
   \/ s \in Server /\ t = "s_req_path" /\ ch = "/"
   \/ s = "s_req_path" /\ t = "s_req_path" /\ ch \in IS_URL_CHAR
   \/ /\ s \in Server \cup {"s_req_path"}
      /\ t = "s_req_query_string_start" /\ ch = "?"
   \/ /\ s \in Query /\ t = "s_req_query_string"
      /\ ch \in IS_URL_CHAR \cup {"?"}
   \/ /\ s \in Query \cup {"s_req_path", "s_req_fragment_start"}
      /\ t = "s_req_fragment_start" /\ ch = "#"
   \/ /\ s = "s_req_fragment_start" /\ t = "s_req_fragment"
      /\ ch \in IS_URL_CHAR \cup {"?"}
   \/ /\ s = "s_req_fragment" /\ t = "s_req_fragment"
      /\ ch \in IS_URL_CHAR \cup {"?", "#"}
BY Apart DEF parse_url_char, Server, Query, Fragment

(* A character after which the automaton is in a delimiter.                  *)
LEMMA DelimiterStep ==
    ASSUME NEW buf, NEW connect, NEW was, NEW k,
           Scanned(buf, connect, was, k - 1), NEW t,
           t = parse_url_char(was.s, At(buf, k)), was.s # "s_dead",
           FieldOf(t) = "UF_MAX", Placed(buf, connect, was.field_data, t, k)
    PROVE  Scanned(buf, connect, ScanStep(buf, was, k), k)
<1> DEFINE next == [was EXCEPT !.s = t]
<1>1. ScanStep(buf, was, k) = next
  BY DEF ScanStep
<1>2. /\ next.s = t /\ next.field_data = was.field_data
      /\ next.old_uf = was.old_uf
      /\ next = [s |-> next.s, field_data |-> next.field_data,
                 old_uf |-> next.old_uf, found_at |-> next.found_at]
  BY DEF Scanned
<1> HIDE DEF next
<1>3. QED
  BY <1>1, <1>2 DEF Scanned, OldField

(* A character that belongs to a field.                                      *)
LEMMA FieldStep ==
    ASSUME NEW buf, NEW connect, NEW was, NEW k,
           Scanned(buf, connect, was, k - 1), NEW t,
           t = parse_url_char(was.s, At(buf, k)), was.s # "s_dead",
           NEW uf \in UF, FieldOf(t) = uf,
           NEW f, f = Extend(was.field_data, uf, k, uf = was.old_uf),
           DOMAIN f = UF, f[uf] # NoField, Placed(buf, connect, f, t, k)
    PROVE  Scanned(buf, connect, ScanStep(buf, was, k), k)
<1>1. uf # "UF_MAX"
  BY DEF UF
<1> DEFINE next == [s |-> t, old_uf |-> uf, field_data |-> f,
                    found_at |-> was.found_at \/ t = "s_req_server_with_at"]
<1>2. ScanStep(buf, was, k) = next
  BY <1>1 DEF ScanStep
<1>3. /\ next.s = t /\ next.field_data = f /\ next.old_uf = uf
      /\ next = [s |-> next.s, field_data |-> next.field_data,
                 old_uf |-> next.old_uf, found_at |-> next.found_at]
  OBVIOUS
<1> HIDE DEF next
<1>4. QED
  BY <1>2, <1>3 DEF Scanned, OldField

(* The character extends the run in progress just if it is of the same       *)
(* field, since no delimiter leads back to the field before it.              *)
LEMMA SameField ==
    ASSUME NEW was, OldField(was), NEW uf \in UF, NEW a \in Nat, NEW b \in Nat,
           a <= b, Run(was.field_data, uf, a, b),
           FieldOf(was.s) = uf => a < b, FieldOf(was.s) # uf => a = b
    PROVE  uf = was.old_uf <=> a < b
<1>1. "UF_MAX" \notin UF
  BY DEF UF
<1>2. CASE FieldOf(was.s) = uf
  BY <1>1, <1>2 DEF OldField
<1>3. CASE FieldOf(was.s) # uf
  BY <1>1, <1>3 DEF OldField, Run
<1>4. QED
  BY <1>2, <1>3

(* The fields after one more character of field uf.                          *)
Grown(g, f, uf, a, k) ==
    /\ DOMAIN g = UF /\ Run(g, uf, a, k)
    /\ \A other \in UF \ {uf} : g[other] = f[other]

(* A character that belongs to a field makes it longer.                      *)
LEMMA Grows ==
    ASSUME NEW buf, NEW connect, NEW was, NEW k \in Nat \ {0},
           Scanned(buf, connect, was, k - 1),
           was.s # "s_dead",
           NEW t, t = parse_url_char(was.s, At(buf, k)), FieldOf(t) \in UF,
           NEW a \in Nat, a < k, Run(was.field_data, FieldOf(t), a, k - 1),
           FieldOf(was.s) = FieldOf(t) => a < k - 1,
           FieldOf(was.s) # FieldOf(t) => a = k - 1,
           \A g : Grown(g, was.field_data, FieldOf(t), a, k) =>
                      Placed(buf, connect, g, t, k)
    PROVE  Scanned(buf, connect, ScanStep(buf, was, k), k)
<1> DEFINE uf == FieldOf(t)
           f == was.field_data
           same == uf = was.old_uf
           g == Extend(f, uf, k, same)
<1>1. DOMAIN f = UF /\ OldField(was)
  BY DEF Scanned
<1>2. same <=> a < k - 1
  BY <1>1, SameField
<1>3. Grown(g, f, uf, a, k) /\ g[uf] # NoField
  <2> HIDE DEF same, uf, f
  <2>1. uf \in UF /\ Run(f, uf, a, k - 1)
    BY DEF uf, f
  <2>2. QED
    BY <1>1, <1>2, <2>1, Extended DEF Grown
<1>4. Placed(buf, connect, g, t, k)
  BY <1>3
<1>5. DOMAIN g = UF
  BY <1>3 DEF Grown
<1>6. QED
  BY <1>3, <1>4, <1>5, FieldStep

(* The fields of the states.                                                 *)
LEMMA FieldsOfStates ==
    /\ FieldOf("s_req_schema") = "UF_SCHEMA"
    /\ FieldOf("s_req_server") = "UF_HOST"
    /\ FieldOf("s_req_server_with_at") = "UF_HOST"
    /\ FieldOf("s_req_path") = "UF_PATH"
    /\ FieldOf("s_req_query_string") = "UF_QUERY"
    /\ FieldOf("s_req_fragment") = "UF_FRAGMENT"
    /\ \A s \in {"s_req_spaces_before_url", "s_req_schema_slash",
                 "s_req_schema_slash_slash", "s_req_server_start",
                 "s_req_query_string_start", "s_req_fragment_start"} :
           FieldOf(s) = "UF_MAX"
BY DEF FieldOf

(* One more character of the schema.                                         *)
LEMMA SchemaStep ==
    ASSUME NEW buf \in Seq(Character), NEW connect, NEW was,
           NEW k \in 1 .. Len(buf),
           Scanned(buf, connect, was, k - 1),
           was.s \in {"s_req_spaces_before_url", "s_req_schema"},
           parse_url_char(was.s, At(buf, k)) = "s_req_schema",
           At(buf, k) \in IS_ALPHA
    PROVE  Scanned(buf, connect, ScanStep(buf, was, k), k)
<1> DEFINE f == was.field_data
<1>0. k \in Nat \ {0} /\ k - 1 \in Nat /\ was.s # "s_dead"
  OBVIOUS
<1>1. Placed(buf, connect, f, was.s, k - 1)
  BY <1>0 DEF Scanned
<1>2. /\ Run(f, "UF_SCHEMA", 0, k - 1) /\ Missing(f, NotSchema)
      /\ was.s = "s_req_schema" => k - 1 > 0
      /\ was.s # "s_req_schema" => k - 1 = 0
      /\ \A i \in 1 .. k - 1 : buf[i] \in IS_ALPHA
  BY <1>0, <1>1, SMTT(30) DEF Placed, Reached, Missing, NotSchema, UF, Run
<1>21. \A i \in 1 .. k : buf[i] \in IS_ALPHA
  BY <1>0, <1>2 DEF At
<1>3. ASSUME NEW g, Grown(g, f, "UF_SCHEMA", 0, k)
      PROVE  Placed(buf, connect, g, "s_req_schema", k)
  <2>1. Run(g, "UF_SCHEMA", 0, k) /\ Missing(g, NotSchema)
    BY <1>2, <1>3 DEF Grown, Missing, NotSchema
  <2>2. QED
    BY <1>0, <1>21, <2>1 DEF Placed
<1>4. "UF_SCHEMA" \in UF
  BY DEF UF
<1> HIDE DEF f
<1>5. QED
  BY <1>0, <1>2, <1>3, <1>4, Grows, FieldsOfStates DEF f

(* One of the characters between the schema and the server part.             *)
LEMMA SlashStep ==
    ASSUME NEW buf \in Seq(Character), NEW connect, NEW was,
           NEW k \in 1 .. Len(buf),
           Scanned(buf, connect, was, k - 1), NEW t,
           t = parse_url_char(was.s, At(buf, k)),
           \/ was.s = "s_req_schema" /\ t = "s_req_schema_slash"
              /\ At(buf, k) = ":"
           \/ was.s = "s_req_schema_slash" /\ t = "s_req_schema_slash_slash"
              /\ At(buf, k) = "/"
           \/ was.s = "s_req_schema_slash_slash" /\ t = "s_req_server_start"
              /\ At(buf, k) = "/"
    PROVE  Scanned(buf, connect, ScanStep(buf, was, k), k)
<1> DEFINE f == was.field_data
<1>0. k \in Nat \ {0} /\ k - 1 \in Nat /\ was.s # "s_dead"
  OBVIOUS
<1>1. Placed(buf, connect, f, was.s, k - 1)
  BY <1>0 DEF Scanned
<1>2. At(buf, k) = buf[k]
  BY DEF At
<1>3. Placed(buf, connect, f, t, k)
  <2>1. CASE was.s = "s_req_schema"
    BY <1>0, <1>1, <1>2, <2>1 DEF Placed, Reached
  <2>2. CASE was.s = "s_req_schema_slash"
    <3>1. /\ k > 2 /\ Run(f, "UF_SCHEMA", 0, (k - 1) - 1)
          /\ Missing(f, NotSchema) /\ buf[k - 1] = ":"
          /\ \A i \in 1 .. (k - 1) - 1 : buf[i] \in IS_ALPHA
      BY <1>0, <1>1, <2>2 DEF Placed, Reached
    <3>2. (k - 1) - 1 = k - 2
      OBVIOUS
    <3>3. QED
      BY <1>2, <2>2, <3>1, <3>2 DEF Placed
  <2>3. CASE was.s = "s_req_schema_slash_slash"
    <3>1. /\ k > 3 /\ Run(f, "UF_SCHEMA", 0, (k - 1) - 2)
          /\ Missing(f, NotSchema) /\ buf[(k - 1) - 1] = ":" /\ buf[k - 1] = "/"
          /\ \A i \in 1 .. (k - 1) - 2 : buf[i] \in IS_ALPHA
      BY <1>0, <1>1, <2>3 DEF Placed, Reached
    <3>2. PICK u \in Nat : u > 0 /\ k = u + 3
      BY <3>1
    <3>3. /\ Run(f, "UF_SCHEMA", 0, u) /\ buf[u + 1] = ":"
          /\ buf[u + 2] = "/" /\ buf[u + 3] = "/"
      BY <1>2, <2>3, <3>1, <3>2
    <3>4. Split(buf, f, u, k, k, k, k, k, k, k)
      BY <3>1, <3>2, <3>3 DEF Split, AfterSchema, Run, Missing, NotSchema, UF
    <3>5. t = "s_req_server_start" /\ Reached(t, k, k, k, k, k, k, k)
      BY <2>3 DEF Reached
    <3>6. \A i \in 1 .. u : buf[i] \in IS_ALPHA
      BY <3>1, <3>2
    <3>7. Contents(buf, connect, u, k, k, k, k, k, k, k)
      BY <3>6 DEF Contents
    <3>8. Hosted(connect, t, u)
      BY <3>2 DEF Hosted
    <3>9. QED
      BY <3>2, <3>4, <3>5, <3>7, <3>8 DEF Placed
  <2>4. QED
    BY <2>1, <2>2, <2>3
<1>4. FieldOf(t) = "UF_MAX"
  BY FieldsOfStates
<1>5. QED
  BY <1>0, <1>3, <1>4, DelimiterStep

(* From the server part on.                                                  *)
LaterState == Server \cup Query \cup Fragment \cup {"s_req_path"}

(* What a state says of the ends of the parts: those to come are all here.   *)
LEMMA LaterPlaced ==
    ASSUME NEW buf, NEW connect, NEW f, NEW s \in LaterState, NEW k \in Nat,
           Placed(buf, connect, f, s, k)
    PROVE  \E u, v, w, x, y, z, h \in Nat :
               /\ Split(buf, f, u, v, w, x, y, z, h, k)
               /\ Reached(s, v, w, x, y, z, h, k)
               /\ Contents(buf, connect, u, v, w, x, y, z, h, k)
               /\ Hosted(connect, s, u)
BY DEF LaterState, Server, Query, Fragment, Placed

(* One more character of the server part.                                    *)
LEMMA ServerStep ==
    ASSUME NEW buf \in Seq(Character), NEW connect, NEW was,
           NEW k \in 1 .. Len(buf),
           Scanned(buf, connect, was, k - 1), was.s \in Server, NEW t,
           t = parse_url_char(was.s, At(buf, k)),
           t \in {"s_req_server", "s_req_server_with_at"}
    PROVE  Scanned(buf, connect, ScanStep(buf, was, k), k)
<1> DEFINE f == was.field_data
<1>0. k \in Nat \ {0} /\ k - 1 \in Nat /\ was.s # "s_dead"
  BY DEF Server
<1>1. Placed(buf, connect, f, was.s, k - 1)
  BY <1>0 DEF Scanned
<1>2. PICK u, v, w, x, y, z, h \in Nat :
          /\ Split(buf, f, u, v, w, x, y, z, h, k - 1)
          /\ Reached(was.s, v, w, x, y, z, h, k - 1)
          /\ Contents(buf, connect, u, v, w, x, y, z, h, k - 1)
          /\ Hosted(connect, was.s, u)
  BY <1>0, <1>1, LaterPlaced DEF LaterState
<1>3. /\ w = k - 1 /\ x = w /\ y = w /\ z = w /\ h = w
      /\ was.s = "s_req_server_start" => v = k - 1
      /\ was.s # "s_req_server_start" => v < k - 1
  BY <1>0, <1>2 DEF Split, Reached, Server
<1> HIDE DEF f
<1>4. ASSUME NEW g, Grown(g, f, "UF_HOST", v, k)
      PROVE  Placed(buf, connect, g, t, k)
  <2>1. Split(buf, g, u, v, k, k, k, k, k, k)
    BY <1>0, <1>2, <1>3, <1>4 DEF Split, Run, Grown, Missing, UF
  <2>2. Reached(t, v, k, k, k, k, k, k)
    BY <1>0, <1>2, <1>3 DEF Reached, Split
  <2>3. u > 0 \/ connect
    BY <1>2 DEF Hosted
  <2>4. Contents(buf, connect, u, v, k, k, k, k, k, k)
    BY <1>0, <1>2, <2>3 DEF Contents
  <2>5. Hosted(connect, t, u)
    BY <2>3 DEF Hosted
  <2>6. QED
    BY <1>0, <2>1, <2>2, <2>4, <2>5 DEF Placed
<1>5. Run(f, "UF_HOST", v, k - 1) /\ v < k
  BY <1>0, <1>2, <1>3 DEF Split
<1>6. "UF_HOST" \in UF /\ FieldOf(t) = "UF_HOST"
      /\ (FieldOf(was.s) = "UF_HOST" <=> was.s # "s_req_server_start")
  BY FieldsOfStates DEF UF, Server
<1>7. QED
  BY <1>0, <1>2, <1>3, <1>4, <1>5, <1>6, Grows DEF f

(* One more character of the path.                                           *)
LEMMA PathStep ==
    ASSUME NEW buf \in Seq(Character), NEW connect, NEW was,
           NEW k \in 1 .. Len(buf),
           Scanned(buf, connect, was, k - 1), NEW t,
           t = parse_url_char(was.s, At(buf, k)), t = "s_req_path",
           \/ was.s = "s_req_spaces_before_url" /\ At(buf, k) \in {"/", "*"}
           \/ was.s \in Server /\ At(buf, k) = "/"
           \/ was.s = "s_req_path" /\ At(buf, k) \in IS_URL_CHAR
    PROVE  Scanned(buf, connect, ScanStep(buf, was, k), k)
<1> DEFINE f == was.field_data
<1>0. k \in Nat \ {0} /\ k - 1 \in Nat /\ was.s # "s_dead"
  BY DEF Server
<1>1. Placed(buf, connect, f, was.s, k - 1)
  BY <1>0 DEF Scanned
<1>2. PICK u \in Nat, v \in Nat, w \in Nat :
          /\ Split(buf, f, u, v, w, k - 1, k - 1, k - 1, k - 1, k - 1)
          /\ was.s = "s_req_path" => w < k - 1
          /\ was.s # "s_req_path" => w = k - 1
          /\ was.s = "s_req_spaces_before_url" => v = w
          /\ Contents(buf, connect, u, v, w, k - 1, k - 1, k - 1, k - 1, k - 1)
  <2>1. CASE was.s = "s_req_spaces_before_url"
    <3>1. k - 1 = 0 /\ Missing(f, UF)
      BY <1>0, <1>1, <2>1 DEF Placed, Reached
    <3>2. Split(buf, f, 0, 0, 0, k - 1, k - 1, k - 1, k - 1, k - 1)
      BY <3>1 DEF Split, AfterSchema, Missing, Run, UF
    <3>3. Contents(buf, connect, 0, 0, 0, k - 1, k - 1, k - 1, k - 1, k - 1)
      BY <3>1 DEF Contents
    <3>4. QED
      BY <2>1, <3>1, <3>2, <3>3
  <2>2. CASE was.s # "s_req_spaces_before_url"
    <3>1. PICK u, v, w, x, y, z, h \in Nat :
              /\ Split(buf, f, u, v, w, x, y, z, h, k - 1)
              /\ Reached(was.s, v, w, x, y, z, h, k - 1)
              /\ Contents(buf, connect, u, v, w, x, y, z, h, k - 1)
              /\ Hosted(connect, was.s, u)
      <4>1. was.s \in LaterState
        BY <2>2 DEF LaterState
      <4>2. QED
        BY <1>0, <1>1, <4>1, LaterPlaced
    <3>2. /\ x = k - 1 /\ y = x /\ z = x /\ h = x
          /\ was.s = "s_req_path" => w < k - 1
          /\ was.s # "s_req_path" => w = k - 1
      BY <1>0, <2>2, <3>1 DEF Split, Reached, Server
    <3>3. QED
      BY <2>2, <3>1, <3>2
  <2>3. QED
    BY <2>1, <2>2
<1> HIDE DEF f
<1>4. ASSUME NEW g, Grown(g, f, "UF_PATH", w, k)
      PROVE  Placed(buf, connect, g, t, k)
  <2>1. Split(buf, g, u, v, w, k, k, k, k, k)
    BY <1>0, <1>2, <1>4 DEF Split, Run, Grown, Missing, UF
  <2>2. Reached(t, v, w, k, k, k, k, k)
    BY <1>0, <1>2 DEF Reached, Split
  <2>3. Contents(buf, connect, u, v, w, k, k, k, k, k)
    <3>1. /\ \A i \in 1 .. u : buf[i] \in IS_ALPHA
          /\ v < w => u > 0 \/ connect
          /\ w < k - 1 => buf[w + 1] = "/" \/ (buf[w + 1] = "*" /\ v = w)
          /\ \A i \in w + 1 .. k - 1 : buf[i] \in IS_URL_CHAR
      BY <1>2 DEF Contents
    <3>2. /\ buf[k] = At(buf, k) /\ buf[k] \in IS_URL_CHAR
          /\ was.s # "s_req_path" =>
                 buf[k] = "/" \/ (buf[k] = "*" /\ v = w)
      <4>1. {"/", "*"} \subseteq IS_URL_CHAR
        BY DEF IS_URL_CHAR, TOKEN
      <4>2. buf[k] = At(buf, k)
        BY DEF At
      <4>3. "s_req_path" \notin Server
        BY DEF Server
      <4>4. QED
        BY <1>2, <4>1, <4>2, <4>3
    <3>3. \A i \in w + 1 .. k : buf[i] \in IS_URL_CHAR
      BY <1>0, <3>1, <3>2
    <3>4. buf[w + 1] = "/" \/ (buf[w + 1] = "*" /\ v = w)
      BY <1>0, <1>2, <3>1, <3>2
    <3>5. QED
      BY <1>0, <3>1, <3>3, <3>4 DEF Contents
  <2>4. Hosted(connect, t, u)
    BY DEF Hosted, Server
  <2>5. QED
    BY <1>0, <2>1, <2>2, <2>3, <2>4 DEF Placed
<1>5. Run(f, "UF_PATH", w, k - 1) /\ w < k
  BY <1>0, <1>2 DEF Split
<1>6. "UF_PATH" \in UF /\ FieldOf(t) = "UF_PATH"
      /\ (FieldOf(was.s) = "UF_PATH" <=> was.s = "s_req_path")
  BY FieldsOfStates DEF UF, Server
<1>7. QED
  BY <1>0, <1>2, <1>4, <1>5, <1>6, Grows DEF f

(* The ? before the query.                                                   *)
LEMMA QuestionStep ==
    ASSUME NEW buf \in Seq(Character), NEW connect, NEW was,
           NEW k \in 1 .. Len(buf),
           Scanned(buf, connect, was, k - 1), NEW t,
           t = parse_url_char(was.s, At(buf, k)),
           t = "s_req_query_string_start", At(buf, k) = "?",
           was.s \in Server \cup {"s_req_path"}
    PROVE  Scanned(buf, connect, ScanStep(buf, was, k), k)
<1> DEFINE f == was.field_data
<1>0. k \in Nat \ {0} /\ k - 1 \in Nat /\ was.s # "s_dead" /\ buf[k] = "?"
  BY DEF Server, At
<1>1. Placed(buf, connect, f, was.s, k - 1)
  BY <1>0 DEF Scanned
<1>2. PICK u, v, w, x, y, z, h \in Nat :
          /\ Split(buf, f, u, v, w, x, y, z, h, k - 1)
          /\ Reached(was.s, v, w, x, y, z, h, k - 1)
          /\ Contents(buf, connect, u, v, w, x, y, z, h, k - 1)
          /\ Hosted(connect, was.s, u)
  BY <1>0, <1>1, LaterPlaced DEF LaterState
<1>3. x = k - 1 /\ y = x /\ z = x /\ h = x
  BY <1>0, <1>2 DEF Split, Reached, Server
<1> HIDE DEF f
<1>4. Split(buf, f, u, v, w, x, k, k, k, k)
  BY <1>0, <1>2, <1>3 DEF Split, Run
<1>5. Reached(t, v, w, x, k, k, k, k)
  BY <1>0, <1>3 DEF Reached
<1>51. Contents(buf, connect, u, v, w, x, k, k, k, k)
  <2>1. v < w \/ w < x \/ u > 0 \/ connect
    BY <1>0, <1>2 DEF Hosted, Reached
  <2>2. QED
    BY <1>0, <1>2, <2>1 DEF Contents
<1>52. Hosted(connect, t, u)
  BY DEF Hosted, Server
<1>6. Placed(buf, connect, f, t, k)
  BY <1>0, <1>4, <1>5, <1>51, <1>52 DEF Placed
<1>7. QED
  BY <1>0, <1>6, FieldsOfStates, DelimiterStep DEF f

(* One more character of the query.                                          *)
LEMMA QueryStep ==
    ASSUME NEW buf \in Seq(Character), NEW connect, NEW was,
           NEW k \in 1 .. Len(buf),
           Scanned(buf, connect, was, k - 1), was.s \in Query, NEW t,
           t = parse_url_char(was.s, At(buf, k)), t = "s_req_query_string",
           At(buf, k) \in IS_URL_CHAR \cup {"?"}
    PROVE  Scanned(buf, connect, ScanStep(buf, was, k), k)
<1> DEFINE f == was.field_data
<1>0. k \in Nat \ {0} /\ k - 1 \in Nat /\ was.s # "s_dead"
  BY DEF Query
<1>1. Placed(buf, connect, f, was.s, k - 1)
  BY <1>0 DEF Scanned
<1>2. PICK u, v, w, x, y, z, h \in Nat :
          /\ Split(buf, f, u, v, w, x, y, z, h, k - 1)
          /\ Reached(was.s, v, w, x, y, z, h, k - 1)
          /\ Contents(buf, connect, u, v, w, x, y, z, h, k - 1)
          /\ Hosted(connect, was.s, u)
  BY <1>0, <1>1, LaterPlaced DEF LaterState
<1>3. /\ z = k - 1 /\ h = z /\ x < y
      /\ was.s = "s_req_query_string" => y < k - 1
      /\ was.s # "s_req_query_string" => y = k - 1
  BY <1>0, <1>2 DEF Split, Reached, Query
<1> HIDE DEF f
<1>4. ASSUME NEW g, Grown(g, f, "UF_QUERY", y, k)
      PROVE  Placed(buf, connect, g, t, k)
  <2>1. Split(buf, g, u, v, w, x, y, k, k, k)
    BY <1>0, <1>2, <1>3, <1>4 DEF Split, Run, Grown, Missing, UF
  <2>2. Reached(t, v, w, x, y, k, k, k)
    BY <1>0, <1>2, <1>3 DEF Reached, Split
  <2>3. Contents(buf, connect, u, v, w, x, y, k, k, k)
    <3>1. \A i \in y + 1 .. k : buf[i] \in IS_URL_CHAR \cup {"?"}
      BY <1>0, <1>2, <1>3 DEF Contents, At
    <3>2. QED
      BY <1>0, <1>2, <3>1 DEF Contents
  <2>4. Hosted(connect, t, u)
    BY DEF Hosted, Server
  <2>5. QED
    BY <1>0, <2>1, <2>2, <2>3, <2>4 DEF Placed
<1>5. Run(f, "UF_QUERY", y, k - 1) /\ y < k
  BY <1>0, <1>2, <1>3 DEF Split
<1>6. "UF_QUERY" \in UF /\ FieldOf(t) = "UF_QUERY"
      /\ (FieldOf(was.s) = "UF_QUERY" <=> was.s = "s_req_query_string")
  BY FieldsOfStates DEF UF, Query
<1>7. QED
  BY <1>0, <1>2, <1>3, <1>4, <1>5, <1>6, Grows DEF f

(* The # before the fragment, of which there may be several.                 *)
LEMMA HashStep ==
    ASSUME NEW buf \in Seq(Character), NEW connect, NEW was,
           NEW k \in 1 .. Len(buf),
           Scanned(buf, connect, was, k - 1), NEW t,
           t = parse_url_char(was.s, At(buf, k)),
           t = "s_req_fragment_start", At(buf, k) = "#",
           was.s \in Query \cup {"s_req_path", "s_req_fragment_start"}
    PROVE  Scanned(buf, connect, ScanStep(buf, was, k), k)
<1> DEFINE f == was.field_data
<1>0. k \in Nat \ {0} /\ k - 1 \in Nat /\ was.s # "s_dead" /\ buf[k] = "#"
  BY DEF Query, At
<1>1. Placed(buf, connect, f, was.s, k - 1)
  BY <1>0 DEF Scanned
<1>2. PICK u, v, w, x, y, z, h \in Nat :
          /\ Split(buf, f, u, v, w, x, y, z, h, k - 1)
          /\ Reached(was.s, v, w, x, y, z, h, k - 1)
          /\ Contents(buf, connect, u, v, w, x, y, z, h, k - 1)
          /\ Hosted(connect, was.s, u)
  BY <1>0, <1>1, LaterPlaced DEF LaterState, Fragment
<1>3. h = k - 1 /\ z <= h
  BY <1>0, <1>2 DEF Split, Reached, Query
<1> HIDE DEF f
<1>4. Split(buf, f, u, v, w, x, y, z, k, k)
  BY <1>0, <1>2, <1>3, SMTT(30) DEF Split, Run
<1>5. Reached(t, v, w, x, y, z, k, k)
  BY <1>0, <1>3 DEF Reached
<1>51. Contents(buf, connect, u, v, w, x, y, z, k, k)
  <2>1. w < x \/ x < y
    BY <1>0, <1>2 DEF Contents, Reached, Query
  <2>2. QED
    BY <1>0, <1>2, <2>1 DEF Contents
<1>52. Hosted(connect, t, u)
  BY DEF Hosted, Server
<1>6. Placed(buf, connect, f, t, k)
  BY <1>0, <1>4, <1>5, <1>51, <1>52 DEF Placed
<1>7. QED
  BY <1>0, <1>6, FieldsOfStates, DelimiterStep DEF f

(* One more character of the fragment.                                       *)
LEMMA FragmentStep ==
    ASSUME NEW buf \in Seq(Character), NEW connect, NEW was,
           NEW k \in 1 .. Len(buf),
           Scanned(buf, connect, was, k - 1), was.s \in Fragment, NEW t,
           t = parse_url_char(was.s, At(buf, k)), t = "s_req_fragment",
           At(buf, k) \in IS_URL_CHAR \cup {"?", "#"},
           was.s = "s_req_fragment_start" => At(buf, k) # "#"
    PROVE  Scanned(buf, connect, ScanStep(buf, was, k), k)
<1> DEFINE f == was.field_data
<1>0. k \in Nat \ {0} /\ k - 1 \in Nat /\ was.s # "s_dead"
  BY DEF Fragment
<1>1. Placed(buf, connect, f, was.s, k - 1)
  BY <1>0 DEF Scanned
<1>2. PICK u, v, w, x, y, z, h \in Nat :
          /\ Split(buf, f, u, v, w, x, y, z, h, k - 1)
          /\ Reached(was.s, v, w, x, y, z, h, k - 1)
          /\ Contents(buf, connect, u, v, w, x, y, z, h, k - 1)
          /\ Hosted(connect, was.s, u)
  BY <1>0, <1>1, LaterPlaced DEF LaterState
<1>3. /\ z < h /\ h <= k - 1
      /\ was.s = "s_req_fragment" => h < k - 1
      /\ was.s # "s_req_fragment" => h = k - 1
  BY <1>0, <1>2 DEF Split, Reached, Fragment
<1> HIDE DEF f
<1>4. ASSUME NEW g, Grown(g, f, "UF_FRAGMENT", h, k)
      PROVE  Placed(buf, connect, g, t, k)
  <2>1. Split(buf, g, u, v, w, x, y, z, h, k)
    <3>1. /\ Run(g, "UF_SCHEMA", 0, u) /\ Run(g, "UF_HOST", v, w)
          /\ Run(g, "UF_PATH", w, x) /\ Run(g, "UF_QUERY", y, z)
          /\ Run(g, "UF_FRAGMENT", h, k)
          /\ Missing(g, {"UF_USERINFO", "UF_PORT"})
      BY <1>2, <1>4 DEF Split, Run, Grown, Missing, UF
    <3>2. h <= k /\ h # z
      BY <1>0, <1>2, <1>3
    <3>3. QED
      BY <1>2, <3>1, <3>2 DEF Split
  <2>2. Reached(t, v, w, x, y, z, h, k)
    BY <1>0, <1>2, <1>3 DEF Reached, Split
  <2>3. Contents(buf, connect, u, v, w, x, y, z, h, k)
    <3>1. buf[k] = At(buf, k)
      BY DEF At
    <3>2. \A i \in h + 1 .. k : buf[i] \in IS_URL_CHAR \cup {"?", "#"}
      BY <1>0, <1>2, <1>3, <3>1 DEF Contents
    <3>3. buf[h + 1] # "#"
      BY <1>0, <1>2, <1>3, <3>1 DEF Contents, Fragment
    <3>4. QED
      BY <1>2, <3>2, <3>3 DEF Contents
  <2>4. Hosted(connect, t, u)
    BY DEF Hosted, Server
  <2>5. QED
    BY <1>0, <2>1, <2>2, <2>3, <2>4 DEF Placed
<1>5. Run(f, "UF_FRAGMENT", h, k - 1) /\ h < k
  BY <1>0, <1>2, <1>3 DEF Split
<1>6. "UF_FRAGMENT" \in UF /\ FieldOf(t) = "UF_FRAGMENT"
      /\ (FieldOf(was.s) = "UF_FRAGMENT" <=> was.s = "s_req_fragment")
  BY FieldsOfStates DEF UF, Fragment
<1>7. QED
  BY <1>0, <1>2, <1>3, <1>4, <1>5, <1>6, Grows DEF f

(* Each character leaves the fields in order.                                *)
LEMMA ScanKeepsOrder ==
    ASSUME NEW buf \in Seq(Character), NEW connect, NEW was,
           NEW k \in 1 .. Len(buf),
           Scanned(buf, connect, was, k - 1)
    PROVE  Scanned(buf, connect, ScanStep(buf, was, k), k)
<1> DEFINE t == parse_url_char(was.s, At(buf, k))
<1>1. CASE t = "s_dead" \/ was.s = "s_dead"
  <2>1. t = "s_dead"
    BY <1>1, UrlMoves DEF Server, Query, Fragment
  <2>2. FieldOf(t) = "UF_MAX"
    BY <2>1 DEF FieldOf
  <2>3. ScanStep(buf, was, k) = [was EXCEPT !.s = "s_dead"]
    BY <2>1, <2>2 DEF ScanStep
  <2>4. QED
    BY <2>3 DEF Scanned
<1>2. CASE t # "s_dead" /\ was.s # "s_dead"
  <2> HIDE DEF t
  <2>1. \/ /\ was.s = "s_req_spaces_before_url" /\ t = "s_req_path"
           /\ At(buf, k) \in {"/", "*"}
        \/ /\ was.s \in {"s_req_spaces_before_url", "s_req_schema"}
           /\ t = "s_req_schema" /\ At(buf, k) \in IS_ALPHA
        \/ /\ was.s = "s_req_schema" /\ t = "s_req_schema_slash"
           /\ At(buf, k) = ":"
        \/ /\ was.s = "s_req_schema_slash" /\ t = "s_req_schema_slash_slash"
           /\ At(buf, k) = "/"
        \/ /\ was.s = "s_req_schema_slash_slash" /\ t = "s_req_server_start"
           /\ At(buf, k) = "/"
        \/ was.s \in Server /\ t \in {"s_req_server", "s_req_server_with_at"}
        \/ was.s \in Server /\ t = "s_req_path" /\ At(buf, k) = "/"
        \/ /\ was.s = "s_req_path" /\ t = "s_req_path"
           /\ At(buf, k) \in IS_URL_CHAR
        \/ /\ was.s \in Server \cup {"s_req_path"}
           /\ t = "s_req_query_string_start" /\ At(buf, k) = "?"
        \/ /\ was.s \in Query /\ t = "s_req_query_string"
           /\ At(buf, k) \in IS_URL_CHAR \cup {"?"}
        \/ /\ was.s \in Query \cup {"s_req_path", "s_req_fragment_start"}
           /\ t = "s_req_fragment_start" /\ At(buf, k) = "#"
        \/ /\ was.s = "s_req_fragment_start" /\ t = "s_req_fragment"
           /\ At(buf, k) \in IS_URL_CHAR \cup {"?"}
        \/ /\ was.s = "s_req_fragment" /\ t = "s_req_fragment"
           /\ At(buf, k) \in IS_URL_CHAR \cup {"?", "#"}
    BY <1>2, UrlMoves DEF t
  <2>2. "#" \notin IS_URL_CHAR \cup {"?"} /\ Fragment =
            {"s_req_fragment_start", "s_req_fragment"}
    BY Apart DEF Fragment
  <2>3. QED
    BY <2>1, <2>2, SchemaStep, SlashStep, ServerStep, PathStep, QuestionStep,
       QueryStep, HashStep, FragmentStep DEF t
<1>3. QED
  BY <1>1, <1>2

(* So Scan leaves the fields of the whole text in order.                     *)
LEMMA ScanOrders ==
    ASSUME NEW buf \in Seq(Character), NEW connect
    PROVE  Scanned(buf, connect, Scan(buf, connect), Len(buf))
<1>1. PICK f : /\ f[0] = ScanStart(connect)
               /\ \A k \in 1 .. Len(buf) : f[k] = ScanStep(buf, f[k - 1], k)
               /\ Scan(buf, connect) = f[Len(buf)]
  BY ScanFacts
<1> DEFINE S == {k \in Nat : k <= Len(buf) => Scanned(buf, connect, f[k], k)}
<1>2. 0 \in S
  <2> DEFINE was == ScanStart(connect)
  <2>1. /\ was.field_data = [uf \in UF |-> NoField] /\ was.old_uf = "UF_MAX"
        /\ was.s = IF connect THEN "s_req_server_start"
                              ELSE "s_req_spaces_before_url"
        /\ was = [s |-> was.s, field_data |-> was.field_data,
                  old_uf |-> was.old_uf, found_at |-> was.found_at]
    BY DEF ScanStart
  <2> HIDE DEF was
  <2>2. DOMAIN was.field_data = UF /\ Missing(was.field_data, UF)
    BY <2>1 DEF Missing
  <2>3. Split(buf, was.field_data, 0, 0, 0, 0, 0, 0, 0, 0)
    BY <2>2 DEF Split, AfterSchema, Run, Missing, UF
  <2>4. Reached("s_req_server_start", 0, 0, 0, 0, 0, 0, 0)
    BY DEF Reached
  <2>41. Contents(buf, connect, 0, 0, 0, 0, 0, 0, 0, 0)
    BY DEF Contents
  <2>42. connect => Hosted(connect, "s_req_server_start", 0)
    BY DEF Hosted
  <2>5. Placed(buf, connect, was.field_data, was.s, 0)
    BY <2>1, <2>2, <2>3, <2>4, <2>41, <2>42 DEF Placed
  <2>6. OldField(was)
    BY <2>1, FieldsOfStates DEF OldField
  <2>7. QED
    BY <1>1, <2>1, <2>2, <2>5, <2>6 DEF Scanned, was
<1>3. ASSUME NEW k \in Nat, k \in S PROVE k + 1 \in S
  <2>1. SUFFICES ASSUME k + 1 <= Len(buf) PROVE Scanned(buf, connect, f[k + 1], k + 1)
    OBVIOUS
  <2>2. k + 1 \in 1 .. Len(buf) /\ (k + 1) - 1 = k /\ Scanned(buf, connect, f[k], k)
    BY <1>3, <2>1
  <2>3. f[k + 1] = ScanStep(buf, f[(k + 1) - 1], k + 1)
    BY <1>1, <2>2
  <2>4. QED
    BY <2>2, <2>3, ScanKeepsOrder
<1>4. Nat \subseteq S
  BY <1>2, <1>3, Induction
<1>5. Len(buf) \in S
  BY <1>4
<1>6. QED
  BY <1>1, <1>5

-----------------------------------------------------------------------------
(* http_parse_host, likewise: its beginning, one character, and the function *)
(* it is the last value of.                                                  *)
HostStart(f, found_at) ==
    [s |-> IF found_at THEN "s_http_userinfo_start" ELSE "s_http_host_start",
     field_data |-> [f EXCEPT !["UF_HOST"].len = 0]]
HostStep(buf, was, k) ==
    LET new_s == http_parse_host_char(was.s, At(buf, k))
        uf == FieldOf(new_s)
    IN  [s |-> new_s,
         field_data |-> IF uf = "UF_MAX" THEN was.field_data
                        ELSE Extend(was.field_data, uf, k, new_s = was.s)]
Hosts(host, buf, f, found_at, n) ==
    host = [i \in 0 .. n |->
                IF i = 0 THEN HostStart(f, found_at)
                ELSE HostStep(buf, host[i - 1], f["UF_HOST"].off + i - 1)]

(* http_parse_host is such a function, at the last position;                 *)
LEMMA HostUnfolded ==
    ASSUME NEW buf, NEW f, NEW found_at
    PROVE  http_parse_host(buf, f, found_at) =
               (CHOOSE host : Hosts(host, buf, f, found_at, f["UF_HOST"].len))
                   [f["UF_HOST"].len]
BY DEF http_parse_host, Hosts, HostStart, HostStep

(* and there is one, for any number of characters.                           *)
LEMMA HostExists ==
    ASSUME NEW buf, NEW f, NEW found_at, NEW n \in Nat
    PROVE  \E host : Hosts(host, buf, f, found_at, n)
<1> DEFINE Place(i) == f["UF_HOST"].off + i - 1
           S == {k \in Nat : \E host : Hosts(host, buf, f, found_at, k)}
<1>1. 0 \in S
  <2>1. Hosts([i \in {0} |-> HostStart(f, found_at)], buf, f, found_at, 0)
    BY DEF Hosts
  <2>2. QED
    BY <2>1
<1>2. ASSUME NEW m \in Nat, m \in S PROVE m + 1 \in S
  <2>1. PICK host : Hosts(host, buf, f, found_at, m)
    BY <1>2
  <2> DEFINE g == [i \in 0 .. m + 1 |->
                       IF i = m + 1 THEN HostStep(buf, host[m], Place(i))
                       ELSE host[i]]
  <2>2. ASSUME NEW i \in 0 .. m + 1
        PROVE  g[i] = IF i = 0 THEN HostStart(f, found_at)
                      ELSE HostStep(buf, g[i - 1], Place(i))
    <3> HIDE DEF Place
    <3>1. CASE i = m + 1
      <4>1. g[i] = HostStep(buf, host[m], Place(i)) /\ g[i - 1] = host[m] /\ i # 0
        BY <3>1
      <4>2. QED
        BY <4>1
    <3>2. CASE i # m + 1
      <4>1. g[i] = host[i] /\ i \in 0 .. m
        BY <3>2
      <4>2. host[i] = IF i = 0 THEN HostStart(f, found_at)
                      ELSE HostStep(buf, host[i - 1], Place(i))
        BY <2>1, <4>1 DEF Hosts, Place
      <4>3. i # 0 => g[i - 1] = host[i - 1]
        BY <4>1
      <4>4. QED
        BY <4>1, <4>2, <4>3
    <3>3. QED
      BY <3>1, <3>2
  <2>3. g = [i \in 0 .. m + 1 |->
                 IF i = 0 THEN HostStart(f, found_at)
                 ELSE HostStep(buf, g[i - 1], Place(i))]
    <3> HIDE DEF g, Place
    <3>1. g = [i \in 0 .. m + 1 |-> g[i]]
      BY DEF g
    <3>2. QED
      BY <2>2, <3>1
  <2>4. Hosts(g, buf, f, found_at, m + 1)
    BY <2>3 DEF Hosts
  <2>5. QED
    BY <2>4
<1>3. Nat \subseteq S
  BY <1>1, <1>2, Induction
<1>4. QED
  BY <1>3

(* The states that http_parse_host goes through from v + 1 to w.             *)
HostRuns(host, buf, f, found_at, v, w) ==
    /\ host[0] = HostStart(f, found_at)
    /\ \A i \in 1 .. w - v : host[i] = HostStep(buf, host[i - 1], v + i)
    /\ http_parse_host(buf, f, found_at) = host[w - v]

(* http_parse_host goes over the server part character by character          *)
(* (http_parser.c:2264-2309).                                                *)
LEMMA HostFacts ==
    ASSUME NEW buf, NEW f, NEW found_at, NEW v \in Nat, NEW w \in Nat, v < w,
           Run(f, "UF_HOST", v, w)
    PROVE  \E host : HostRuns(host, buf, f, found_at, v, w)
<1> DEFINE n == w - v
<1>1. n \in Nat /\ f["UF_HOST"] = [off |-> v + 1, len |-> n]
  BY DEF Run
<1>2. f["UF_HOST"].len = n /\ f["UF_HOST"].off = v + 1
  BY <1>1
<1> HIDE DEF n
<1> DEFINE host == CHOOSE host : Hosts(host, buf, f, found_at, n)
<1>3. Hosts(host, buf, f, found_at, n)
  BY <1>1, HostExists
<1>4. http_parse_host(buf, f, found_at) = host[n]
  BY <1>2, HostUnfolded
<1> HIDE DEF host
<1>5. host[0] = HostStart(f, found_at)
  BY <1>1, <1>3 DEF Hosts
<1>6. ASSUME NEW i \in 1 .. n
      PROVE  host[i] = HostStep(buf, host[i - 1], v + i)
  <2>1. (v + 1) + i - 1 = v + i /\ i # 0 /\ i \in 0 .. n
    BY <1>1
  <2>2. host[i] = HostStep(buf, host[i - 1], (v + 1) + i - 1)
    BY <1>2, <1>3, <2>1 DEF Hosts
  <2>3. QED
    BY <2>1, <2>2
<1>7. QED
  BY <1>4, <1>5, <1>6 DEF n, HostRuns

(* The server part automaton moves on in this order only.                    *)
LEMMA HostMoves ==
    ASSUME NEW s, NEW ch
    PROVE  LET t == http_parse_host_char(s, ch) IN
        \/ t = "s_http_host_dead"
        \/ /\ s \in {"s_http_userinfo", "s_http_userinfo_start"}
           /\ t = "s_http_userinfo" /\ ch \in IS_USERINFO_CHAR
        \/ /\ s \in {"s_http_userinfo", "s_http_userinfo_start"}
           /\ t = "s_http_host_start" /\ ch = "@"
        \/ s = "s_http_host_start" /\ t = "s_http_host_v6_start" /\ ch = "["
        \/ /\ s \in {"s_http_host_start", "s_http_host"}
           /\ t = "s_http_host" /\ ch \in IS_HOST_CHAR
        \/ /\ s \in {"s_http_host", "s_http_host_v6_end"}
           /\ t = "s_http_host_port_start" /\ ch = ":"
        \/ s = "s_http_host_v6" /\ t = "s_http_host_v6_end" /\ ch = "]"
        \/ /\ s \in {"s_http_host_v6", "s_http_host_v6_start"}
           /\ t = "s_http_host_v6" /\ ch \in IS_HEX \cup {":", "."}
        \/ /\ s \in {"s_http_host_port", "s_http_host_port_start"}
           /\ t = "s_http_host_port" /\ ch \in IS_NUM
BY DEF http_parse_host_char

(* The user ends at a and the @ at b, if there is one.                       *)
UserPart(buf, g, v, a, b) ==
    /\ v <= a /\ Run(g, "UF_USERINFO", v, a)
    /\ \A i \in v + 1 .. a : buf[i] \in IS_USERINFO_CHAR
    /\ \/ a = v /\ b = v
       \/ b = a + 1 /\ buf[b] = "@"

(* The host is between c and d, in brackets or not.                          *)
HostPart(buf, g, b, c, d, e) ==
    /\ c < d /\ Run(g, "UF_HOST", c, d)
    /\ \/ c = b /\ e = d /\ \A i \in c + 1 .. d : buf[i] \in IS_HOST_CHAR
       \/ /\ c = b + 1 /\ buf[c] = "[" /\ e = d + 1 /\ buf[e] = "]"
          /\ \A i \in c + 1 .. d : buf[i] \in IS_HEX \cup {":", "."}

(* The port comes after the : at q, if there is one.                         *)
PortPart(buf, g, e, q, k) ==
    /\ q <= k /\ Run(g, "UF_PORT", q, k)
    /\ \/ q = e /\ k = e
       \/ q = e + 1 /\ buf[q] = ":"
    /\ \A i \in q + 1 .. k : buf[i] \in IS_NUM

(* What the characters up to k have been divided into in state s.            *)
HostPlaced(buf, g, s, v, k) ==
    \/ s = "s_http_userinfo_start" /\ k = v /\ Run(g, "UF_USERINFO", v, v)
    \/ /\ s = "s_http_userinfo" /\ v < k /\ Run(g, "UF_USERINFO", v, k)
       /\ \A i \in v + 1 .. k : buf[i] \in IS_USERINFO_CHAR
    \/ s = "s_http_host_start" /\ \E a \in Nat : UserPart(buf, g, v, a, k)
    \/ /\ s = "s_http_host_v6_start"
       /\ \E a, b \in Nat : UserPart(buf, g, v, a, b) /\ k = b + 1 /\ buf[k] = "["
    \/ /\ s = "s_http_host"
       /\ \E a, b \in Nat : /\ UserPart(buf, g, v, a, b)
                            /\ HostPart(buf, g, b, b, k, k)
    \/ /\ s = "s_http_host_v6"
       /\ \E a, b, c \in Nat :
              /\ UserPart(buf, g, v, a, b)
              /\ c = b + 1 /\ buf[c] = "[" /\ c < k /\ Run(g, "UF_HOST", c, k)
              /\ \A i \in c + 1 .. k : buf[i] \in IS_HEX \cup {":", "."}
    \/ /\ s = "s_http_host_v6_end"
       /\ \E a, b, c, d \in Nat : /\ UserPart(buf, g, v, a, b)
                                  /\ HostPart(buf, g, b, c, d, k)
    \/ /\ s \in {"s_http_host_port_start", "s_http_host_port"}
       /\ \E a, b, c, d, e, q \in Nat :
              /\ UserPart(buf, g, v, a, b) /\ HostPart(buf, g, b, c, d, e)
              /\ q = e + 1 /\ PortPart(buf, g, e, q, k)
              /\ s = "s_http_host_port" => q < k
              /\ s = "s_http_host_port_start" => q = k

(* The states in which no port has been met, and the other fields.           *)
BeforePort == {"s_http_userinfo_start", "s_http_userinfo", "s_http_host_start",
               "s_http_host_v6_start", "s_http_host", "s_http_host_v6",
               "s_http_host_v6_end"}
NotHost == UF \ {"UF_USERINFO", "UF_HOST", "UF_PORT"}

(* What holds of the server part up to k, unless it is dead.                 *)
HostScanned(buf, f, was, v, k) ==
    was.s # "s_http_host_dead" =>
        /\ DOMAIN was.field_data = UF
        /\ HostPlaced(buf, was.field_data, was.s, v, k)
        /\ was.s \in BeforePort => was.field_data["UF_PORT"] = NoField
        /\ \A uf \in NotHost : was.field_data[uf] = f[uf]

(* The fields of the states of the server part.                              *)
LEMMA FieldsOfHostStates ==
    /\ FieldOf("s_http_userinfo") = "UF_USERINFO"
    /\ FieldOf("s_http_host") = "UF_HOST"
    /\ FieldOf("s_http_host_v6") = "UF_HOST"
    /\ FieldOf("s_http_host_port") = "UF_PORT"
    /\ \A s \in {"s_http_userinfo_start", "s_http_host_start",
                 "s_http_host_v6_start", "s_http_host_v6_end",
                 "s_http_host_port_start", "s_http_host_dead"} :
           FieldOf(s) = "UF_MAX"
BY DEF FieldOf

(* A character after which the automaton is in a delimiter.                  *)
LEMMA HostDelimiterStep ==
    ASSUME NEW buf, NEW f, NEW was, NEW v, NEW k, HostScanned(buf, f, was, v, k - 1),
           NEW t, t = http_parse_host_char(was.s, At(buf, k)),
           was.s # "s_http_host_dead",
           FieldOf(t) = "UF_MAX", t \in BeforePort => was.s \in BeforePort,
           HostPlaced(buf, was.field_data, t, v, k)
    PROVE  HostScanned(buf, f, HostStep(buf, was, k), v, k)
<1> DEFINE next == [s |-> t, field_data |-> was.field_data]
<1>1. HostStep(buf, was, k) = next
  BY DEF HostStep
<1>2. next.s = t /\ next.field_data = was.field_data
  OBVIOUS
<1> HIDE DEF next
<1>3. QED
  BY <1>1, <1>2 DEF HostScanned

(* A character that belongs to a field.                                      *)
LEMMA HostGrows ==
    ASSUME NEW buf, NEW f, NEW was, NEW v, NEW k \in Nat \ {0},
           HostScanned(buf, f, was, v, k - 1),
           NEW t, t = http_parse_host_char(was.s, At(buf, k)),
           was.s # "s_http_host_dead",
           FieldOf(t) \in UF \ NotHost,
           t \in BeforePort => was.s \in BeforePort /\ FieldOf(t) # "UF_PORT",
           NEW a \in Nat, a < k,
           a < k - 1 => Run(was.field_data, FieldOf(t), a, k - 1),
           t = was.s <=> a < k - 1,
           \A g : Grown(g, was.field_data, FieldOf(t), a, k) =>
                      HostPlaced(buf, g, t, v, k)
    PROVE  HostScanned(buf, f, HostStep(buf, was, k), v, k)
<1> DEFINE uf == FieldOf(t)
           was_f == was.field_data
           same == t = was.s
           g == Extend(was_f, uf, k, same)
           next == [s |-> t, field_data |-> g]
<1>1. /\ DOMAIN was_f = UF /\ uf # "UF_MAX" /\ uf \in UF
      /\ was.s \in BeforePort => was_f["UF_PORT"] = NoField
      /\ \A other \in NotHost : was_f[other] = f[other]
  BY DEF HostScanned, UF
<1>2. same <=> a < k - 1
  OBVIOUS
<1>3. Grown(g, was_f, uf, a, k)
  <2> HIDE DEF same, uf, was_f
  <2>1. a < k - 1 => Run(was_f, uf, a, k - 1)
    BY DEF uf, was_f
  <2>2. QED
    BY <1>1, <1>2, <2>1, Extended DEF Grown
<1>4. HostPlaced(buf, g, t, v, k)
  BY <1>3
<1>5. HostStep(buf, was, k) = next
  BY <1>1 DEF HostStep
<1>6. next.s = t /\ next.field_data = g
  OBVIOUS
<1>7. /\ DOMAIN g = UF
      /\ t \in BeforePort => g["UF_PORT"] = NoField
      /\ \A other \in NotHost : g[other] = f[other]
  <2> HIDE DEF g, was_f
  <2>1. "UF_PORT" \in UF /\ uf \notin NotHost /\ NotHost \subseteq UF
    BY DEF UF, NotHost
  <2>2. QED
    BY <1>1, <1>3, <2>1 DEF Grown
<1> HIDE DEF next, g
<1>8. QED
  BY <1>4, <1>5, <1>6, <1>7 DEF HostScanned

(* One more character of the user.                                           *)
LEMMA UserStep ==
    ASSUME NEW buf \in Seq(Character), NEW f, NEW was, NEW v \in Nat,
           NEW k \in 1 .. Len(buf), v < k,
           HostScanned(buf, f, was, v, k - 1),
           NEW t, t = http_parse_host_char(was.s, At(buf, k)),
           was.s \in {"s_http_userinfo", "s_http_userinfo_start"},
           t = "s_http_userinfo", At(buf, k) \in IS_USERINFO_CHAR
    PROVE  HostScanned(buf, f, HostStep(buf, was, k), v, k)
<1> DEFINE g0 == was.field_data
<1>0. k \in Nat \ {0} /\ At(buf, k) = buf[k]
  BY DEF At
<1>1. /\ Run(g0, "UF_USERINFO", v, k - 1)
      /\ was.s = "s_http_userinfo" => v < k - 1
      /\ was.s # "s_http_userinfo" => v = k - 1
      /\ \A i \in v + 1 .. k - 1 : buf[i] \in IS_USERINFO_CHAR
  BY DEF HostScanned, HostPlaced
<1>11. \A i \in v + 1 .. k : buf[i] \in IS_USERINFO_CHAR
  BY <1>0, <1>1
<1>2. \A g : Grown(g, g0, "UF_USERINFO", v, k) => HostPlaced(buf, g, t, v, k)
  BY <1>11 DEF Grown, HostPlaced
<1>3. FieldOf(t) = "UF_USERINFO" /\ "UF_USERINFO" \in UF \ NotHost
  BY FieldsOfHostStates DEF UF, NotHost
<1> HIDE DEF g0
<1>4. was.s # "s_http_host_dead" /\ was.s \in BeforePort
  BY DEF BeforePort
<1>5. t = was.s <=> v < k - 1
  BY <1>1
<1>6. QED
  BY <1>0, <1>1, <1>2, <1>3, <1>4, <1>5, HostGrows DEF g0

(* The @ after the user, and the [ before an address.                        *)
LEMMA HostBeginsStep ==
    ASSUME NEW buf \in Seq(Character), NEW f, NEW was, NEW v \in Nat,
           NEW k \in 1 .. Len(buf), v < k,
           HostScanned(buf, f, was, v, k - 1),
           NEW t, t = http_parse_host_char(was.s, At(buf, k)),
           \/ /\ was.s \in {"s_http_userinfo", "s_http_userinfo_start"}
              /\ t = "s_http_host_start" /\ At(buf, k) = "@"
           \/ /\ was.s = "s_http_host_start"
              /\ t = "s_http_host_v6_start" /\ At(buf, k) = "["
    PROVE  HostScanned(buf, f, HostStep(buf, was, k), v, k)
<1> DEFINE g == was.field_data
<1>0. /\ k \in Nat \ {0} /\ k - 1 \in Nat /\ At(buf, k) = buf[k]
      /\ was.s # "s_http_host_dead" /\ was.s \in BeforePort
  BY DEF At, BeforePort
<1>1. HostPlaced(buf, g, was.s, v, k - 1)
  BY <1>0 DEF HostScanned
<1> HIDE DEF g
<1>2. HostPlaced(buf, g, t, v, k)
  <2>1. CASE was.s # "s_http_host_start"
    <3>1. /\ Run(g, "UF_USERINFO", v, k - 1) /\ v <= k - 1
          /\ \A i \in v + 1 .. k - 1 : buf[i] \in IS_USERINFO_CHAR
      BY <1>0, <1>1, <2>1 DEF HostPlaced
    <3>2. UserPart(buf, g, v, k - 1, k)
      BY <1>0, <2>1, <3>1 DEF UserPart
    <3>3. QED
      BY <1>0, <2>1, <3>2 DEF HostPlaced
  <2>2. CASE was.s = "s_http_host_start"
    <3>1. PICK a \in Nat : UserPart(buf, g, v, a, k - 1)
      BY <1>1, <2>2 DEF HostPlaced
    <3>2. k = (k - 1) + 1
      OBVIOUS
    <3>3. QED
      BY <1>0, <2>2, <3>1, <3>2 DEF HostPlaced
  <2>3. QED
    BY <2>1, <2>2
<1>3. FieldOf(t) = "UF_MAX"
  BY FieldsOfHostStates
<1>4. QED
  BY <1>0, <1>2, <1>3, HostDelimiterStep DEF g

(* One more character of a name.                                             *)
LEMMA NameStep ==
    ASSUME NEW buf \in Seq(Character), NEW f, NEW was, NEW v \in Nat,
           NEW k \in 1 .. Len(buf), v < k,
           HostScanned(buf, f, was, v, k - 1),
           NEW t, t = http_parse_host_char(was.s, At(buf, k)),
           was.s \in {"s_http_host_start", "s_http_host"},
           t = "s_http_host", At(buf, k) \in IS_HOST_CHAR
    PROVE  HostScanned(buf, f, HostStep(buf, was, k), v, k)
<1> DEFINE g0 == was.field_data
<1>0. /\ k \in Nat \ {0} /\ k - 1 \in Nat /\ At(buf, k) = buf[k]
      /\ was.s # "s_http_host_dead" /\ was.s \in BeforePort
  BY DEF At, BeforePort
<1>1. HostPlaced(buf, g0, was.s, v, k - 1)
  BY <1>0 DEF HostScanned
<1> HIDE DEF g0
<1>2. PICK a \in Nat, b \in Nat :
          /\ UserPart(buf, g0, v, a, b) /\ b <= k - 1
          /\ b < k - 1 => Run(g0, "UF_HOST", b, k - 1)
          /\ was.s = "s_http_host" => b < k - 1
          /\ was.s # "s_http_host" => b = k - 1
          /\ \A i \in b + 1 .. k - 1 : buf[i] \in IS_HOST_CHAR
  <2>1. CASE was.s = "s_http_host_start"
    <3>1. PICK a \in Nat : UserPart(buf, g0, v, a, k - 1)
      BY <1>1, <2>1 DEF HostPlaced
    <3>2. QED
      BY <1>0, <2>1, <3>1
  <2>2. CASE was.s = "s_http_host"
    <3>1. PICK a, b \in Nat : /\ UserPart(buf, g0, v, a, b)
                              /\ HostPart(buf, g0, b, b, k - 1, k - 1)
      BY <1>1, <2>2 DEF HostPlaced
    <3>2. b # b + 1
      OBVIOUS
    <3>3. /\ b < k - 1 /\ Run(g0, "UF_HOST", b, k - 1)
          /\ \A i \in b + 1 .. k - 1 : buf[i] \in IS_HOST_CHAR
      BY <3>1, <3>2 DEF HostPart
    <3>4. QED
      BY <1>0, <2>2, <3>1, <3>3
  <2>3. QED
    BY <2>1, <2>2
<1>3. ASSUME NEW g, Grown(g, g0, "UF_HOST", b, k)
      PROVE  HostPlaced(buf, g, t, v, k)
  <2>1. UserPart(buf, g, v, a, b)
    BY <1>2, <1>3 DEF UserPart, Grown, Run, UF
  <2>2. \A i \in b + 1 .. k : buf[i] \in IS_HOST_CHAR
    BY <1>0, <1>2
  <2>3. HostPart(buf, g, b, b, k, k)
    BY <1>0, <1>2, <1>3, <2>2 DEF HostPart, Grown
  <2>4. QED
    BY <1>0, <1>2, <2>1, <2>3 DEF HostPlaced
<1>4. FieldOf(t) = "UF_HOST" /\ "UF_HOST" \in UF \ NotHost
  BY FieldsOfHostStates DEF UF, NotHost
<1>5. (t = was.s <=> b < k - 1) /\ b < k
  BY <1>0, <1>2
<1>6. QED
  BY <1>0, <1>2, <1>3, <1>4, <1>5, HostGrows DEF g0

(* One more character of an address in brackets.                             *)
LEMMA AddressStep ==
    ASSUME NEW buf \in Seq(Character), NEW f, NEW was, NEW v \in Nat,
           NEW k \in 1 .. Len(buf), v < k,
           HostScanned(buf, f, was, v, k - 1),
           NEW t, t = http_parse_host_char(was.s, At(buf, k)),
           was.s \in {"s_http_host_v6", "s_http_host_v6_start"},
           t = "s_http_host_v6", At(buf, k) \in IS_HEX \cup {":", "."}
    PROVE  HostScanned(buf, f, HostStep(buf, was, k), v, k)
<1> DEFINE g0 == was.field_data
           Hex == IS_HEX \cup {":", "."}
<1>0. /\ k \in Nat \ {0} /\ k - 1 \in Nat /\ At(buf, k) = buf[k]
      /\ was.s # "s_http_host_dead" /\ was.s \in BeforePort
  BY DEF At, BeforePort
<1>1. HostPlaced(buf, g0, was.s, v, k - 1)
  BY <1>0 DEF HostScanned
<1> HIDE DEF g0
<1>2. PICK a \in Nat, b \in Nat, c \in Nat :
          /\ UserPart(buf, g0, v, a, b) /\ c = b + 1 /\ buf[c] = "["
          /\ c <= k - 1
          /\ c < k - 1 => Run(g0, "UF_HOST", c, k - 1)
          /\ was.s = "s_http_host_v6" => c < k - 1
          /\ was.s # "s_http_host_v6" => c = k - 1
          /\ \A i \in c + 1 .. k - 1 : buf[i] \in Hex
  <2> HIDE DEF Hex
  <2>1. CASE was.s = "s_http_host_v6_start"
    <3>1. PICK a, b \in Nat : /\ UserPart(buf, g0, v, a, b)
                              /\ k - 1 = b + 1 /\ buf[k - 1] = "["
      BY <1>1, <2>1 DEF HostPlaced
    <3>2. QED
      BY <1>0, <2>1, <3>1
  <2>2. CASE was.s = "s_http_host_v6"
    BY <1>0, <1>1, <2>2 DEF HostPlaced, Hex
  <2>3. QED
    BY <2>1, <2>2
<1>3. ASSUME NEW g, Grown(g, g0, "UF_HOST", c, k)
      PROVE  HostPlaced(buf, g, t, v, k)
  <2>1. UserPart(buf, g, v, a, b)
    BY <1>2, <1>3 DEF UserPart, Grown, Run, UF
  <2>2. \A i \in c + 1 .. k : buf[i] \in Hex
    BY <1>0, <1>2
  <2>3. Run(g, "UF_HOST", c, k) /\ c < k
    BY <1>0, <1>2, <1>3 DEF Grown
  <2>4. QED
    BY <1>0, <1>2, <2>1, <2>2, <2>3 DEF HostPlaced
<1>4. FieldOf(t) = "UF_HOST" /\ "UF_HOST" \in UF \ NotHost
  BY FieldsOfHostStates DEF UF, NotHost
<1>5. (t = was.s <=> c < k - 1) /\ c < k
  BY <1>0, <1>2
<1>6. QED
  BY <1>0, <1>2, <1>3, <1>4, <1>5, HostGrows DEF g0

(* The ] after an address.                                                   *)
LEMMA AddressEndsStep ==
    ASSUME NEW buf \in Seq(Character), NEW f, NEW was, NEW v \in Nat,
           NEW k \in 1 .. Len(buf), v < k,
           HostScanned(buf, f, was, v, k - 1),
           NEW t, t = http_parse_host_char(was.s, At(buf, k)),
           was.s = "s_http_host_v6",
           t = "s_http_host_v6_end", At(buf, k) = "]"
    PROVE  HostScanned(buf, f, HostStep(buf, was, k), v, k)
<1> DEFINE g == was.field_data
<1>0. /\ k \in Nat \ {0} /\ k - 1 \in Nat /\ At(buf, k) = buf[k]
      /\ was.s # "s_http_host_dead" /\ was.s \in BeforePort
  BY DEF At, BeforePort
<1>1. HostPlaced(buf, g, was.s, v, k - 1)
  BY <1>0 DEF HostScanned
<1> HIDE DEF g
<1>2. PICK a, b, c \in Nat :
              /\ UserPart(buf, g, v, a, b)
              /\ c = b + 1 /\ buf[c] = "[" /\ c < k - 1
              /\ Run(g, "UF_HOST", c, k - 1)
              /\ \A i \in c + 1 .. k - 1 : buf[i] \in IS_HEX \cup {":", "."}
  BY <1>1 DEF HostPlaced
<1>3. k = (k - 1) + 1
  OBVIOUS
<1>4. HostPart(buf, g, b, c, k - 1, k)
  BY <1>0, <1>2, <1>3 DEF HostPart
<1>5. HostPlaced(buf, g, t, v, k)
  BY <1>0, <1>2, <1>4 DEF HostPlaced
<1>6. FieldOf(t) = "UF_MAX"
  BY FieldsOfHostStates
<1>7. QED
  BY <1>0, <1>5, <1>6, HostDelimiterStep DEF g

(* The : before the port.                                                    *)
LEMMA PortBeginsStep ==
    ASSUME NEW buf \in Seq(Character), NEW f, NEW was, NEW v \in Nat,
           NEW k \in 1 .. Len(buf), v < k,
           HostScanned(buf, f, was, v, k - 1),
           NEW t, t = http_parse_host_char(was.s, At(buf, k)),
           was.s \in {"s_http_host", "s_http_host_v6_end"},
           t = "s_http_host_port_start", At(buf, k) = ":"
    PROVE  HostScanned(buf, f, HostStep(buf, was, k), v, k)
<1> DEFINE g == was.field_data
<1>0. /\ k \in Nat \ {0} /\ k - 1 \in Nat /\ At(buf, k) = buf[k]
      /\ was.s # "s_http_host_dead" /\ was.s \in BeforePort
  BY DEF At, BeforePort
<1>1. HostPlaced(buf, g, was.s, v, k - 1) /\ g["UF_PORT"] = NoField
  BY <1>0 DEF HostScanned
<1> HIDE DEF g
<1>2. PICK a, b, c, d \in Nat : /\ UserPart(buf, g, v, a, b)
                                /\ HostPart(buf, g, b, c, d, k - 1)
  BY <1>0, <1>1 DEF HostPlaced
<1>3. PortPart(buf, g, k - 1, k, k) /\ k = (k - 1) + 1
  BY <1>0, <1>1 DEF PortPart, Run
<1>4. HostPlaced(buf, g, t, v, k)
  BY <1>0, <1>2, <1>3 DEF HostPlaced
<1>5. FieldOf(t) = "UF_MAX" /\ t \notin BeforePort
  BY FieldsOfHostStates DEF BeforePort
<1>6. QED
  BY <1>0, <1>4, <1>5, HostDelimiterStep DEF g

(* One more digit of the port.                                               *)
LEMMA PortStep ==
    ASSUME NEW buf \in Seq(Character), NEW f, NEW was, NEW v \in Nat,
           NEW k \in 1 .. Len(buf), v < k,
           HostScanned(buf, f, was, v, k - 1),
           NEW t, t = http_parse_host_char(was.s, At(buf, k)),
           was.s \in {"s_http_host_port", "s_http_host_port_start"},
           t = "s_http_host_port", At(buf, k) \in IS_NUM
    PROVE  HostScanned(buf, f, HostStep(buf, was, k), v, k)
<1> DEFINE g0 == was.field_data
<1>0. /\ k \in Nat \ {0} /\ k - 1 \in Nat /\ At(buf, k) = buf[k]
      /\ was.s # "s_http_host_dead" /\ t \notin BeforePort
  BY DEF At, BeforePort
<1>1. HostPlaced(buf, g0, was.s, v, k - 1)
  BY <1>0 DEF HostScanned
<1> HIDE DEF g0
<1>2. PICK a, b, c, d, e, q \in Nat :
          /\ UserPart(buf, g0, v, a, b) /\ HostPart(buf, g0, b, c, d, e)
          /\ q = e + 1 /\ PortPart(buf, g0, e, q, k - 1)
          /\ was.s = "s_http_host_port" => q < k - 1
          /\ was.s = "s_http_host_port_start" => q = k - 1
  BY <1>1 DEF HostPlaced
<1>3. ASSUME NEW g, Grown(g, g0, "UF_PORT", q, k)
      PROVE  HostPlaced(buf, g, t, v, k)
  <2>1. UserPart(buf, g, v, a, b) /\ HostPart(buf, g, b, c, d, e)
    BY <1>2, <1>3 DEF UserPart, HostPart, Grown, Run, UF
  <2>2. \A i \in q + 1 .. k : buf[i] \in IS_NUM
    BY <1>0, <1>2 DEF PortPart
  <2>3. PortPart(buf, g, e, q, k) /\ q < k
    BY <1>0, <1>2, <1>3, <2>2 DEF PortPart, Grown
  <2>4. QED
    BY <1>0, <1>2, <2>1, <2>3 DEF HostPlaced
<1>4. FieldOf(t) = "UF_PORT" /\ "UF_PORT" \in UF \ NotHost
  BY FieldsOfHostStates DEF UF, NotHost
<1>5. (t = was.s <=> q < k - 1) /\ q < k
  BY <1>0, <1>2
<1>6. q < k - 1 => Run(g0, "UF_PORT", q, k - 1)
  BY <1>2 DEF PortPart
<1>7. QED
  BY <1>0, <1>2, <1>3, <1>4, <1>5, <1>6, HostGrows DEF g0

(* Each character of the server part leaves its fields in order.             *)
LEMMA HostKeepsOrder ==
    ASSUME NEW buf \in Seq(Character), NEW f, NEW was, NEW v \in Nat,
           NEW k \in 1 .. Len(buf), v < k, HostScanned(buf, f, was, v, k - 1)
    PROVE  HostScanned(buf, f, HostStep(buf, was, k), v, k)
<1> DEFINE t == http_parse_host_char(was.s, At(buf, k))
<1>1. CASE t = "s_http_host_dead"
  <2>1. HostStep(buf, was, k).s = "s_http_host_dead"
    BY <1>1 DEF HostStep
  <2>2. QED
    BY <2>1 DEF HostScanned
<1>2. CASE t # "s_http_host_dead"
  <2> HIDE DEF t
  <2>0. k \in Nat \ {0}
    OBVIOUS
  <2>1. \/ /\ was.s \in {"s_http_userinfo", "s_http_userinfo_start"}
           /\ t = "s_http_userinfo" /\ At(buf, k) \in IS_USERINFO_CHAR
        \/ /\ was.s \in {"s_http_userinfo", "s_http_userinfo_start"}
           /\ t = "s_http_host_start" /\ At(buf, k) = "@"
        \/ /\ was.s = "s_http_host_start"
           /\ t = "s_http_host_v6_start" /\ At(buf, k) = "["
        \/ /\ was.s \in {"s_http_host_start", "s_http_host"}
           /\ t = "s_http_host" /\ At(buf, k) \in IS_HOST_CHAR
        \/ /\ was.s \in {"s_http_host", "s_http_host_v6_end"}
           /\ t = "s_http_host_port_start" /\ At(buf, k) = ":"
        \/ /\ was.s = "s_http_host_v6"
           /\ t = "s_http_host_v6_end" /\ At(buf, k) = "]"
        \/ /\ was.s \in {"s_http_host_v6", "s_http_host_v6_start"}
           /\ t = "s_http_host_v6" /\ At(buf, k) \in IS_HEX \cup {":", "."}
        \/ /\ was.s \in {"s_http_host_port", "s_http_host_port_start"}
           /\ t = "s_http_host_port" /\ At(buf, k) \in IS_NUM
    BY <1>2, HostMoves DEF t
  <2>2. QED
    BY <2>0, <2>1, UserStep, HostBeginsStep, NameStep, AddressStep,
       AddressEndsStep, PortBeginsStep, PortStep DEF t
<1>3. QED
  BY <1>1, <1>2

(* So http_parse_host leaves the fields of the whole server part in order.   *)
LEMMA HostOrders ==
    ASSUME NEW buf \in Seq(Character), NEW f, DOMAIN f = UF, NEW found_at,
           NEW v \in Nat, NEW w \in Nat, v < w, w <= Len(buf),
           Run(f, "UF_HOST", v, w), Missing(f, {"UF_USERINFO", "UF_PORT"})
    PROVE  HostScanned(buf, f, http_parse_host(buf, f, found_at), v, w)
<1>0. PICK host : HostRuns(host, buf, f, found_at, v, w)
  BY HostFacts
<1>1. /\ host[0] = HostStart(f, found_at)
      /\ \A i \in 1 .. w - v : host[i] = HostStep(buf, host[i - 1], v + i)
      /\ http_parse_host(buf, f, found_at) = host[w - v]
  BY <1>0 DEF HostRuns
<1> DEFINE S == {i \in Nat : i <= w - v =>
                                 HostScanned(buf, f, host[i], v, v + i)}
<1>2. 0 \in S
  <2> DEFINE was == HostStart(f, found_at)
             g == [f EXCEPT !["UF_HOST"].len = 0]
  <2>1. /\ was.field_data = g
        /\ was.s \in {"s_http_userinfo_start", "s_http_host_start"}
    BY DEF HostStart
  <2>2. DOMAIN g = UF /\ \A uf \in UF \ {"UF_HOST"} : g[uf] = f[uf]
    OBVIOUS
  <2> HIDE DEF was, g
  <2>3. Run(g, "UF_USERINFO", v, v) /\ g["UF_PORT"] = NoField
        /\ \A uf \in NotHost : g[uf] = f[uf]
    BY <2>2 DEF Run, Missing, UF, NotHost
  <2>4. UserPart(buf, g, v, v, v)
    BY <2>3 DEF UserPart
  <2>5. HostPlaced(buf, g, was.s, v, v + 0)
    BY <2>1, <2>3, <2>4 DEF HostPlaced
  <2>6. HostScanned(buf, f, was, v, v + 0)
    BY <2>1, <2>2, <2>3, <2>5 DEF HostScanned
  <2>7. QED
    BY <1>1, <2>6 DEF was
<1>3. ASSUME NEW i \in Nat, i \in S PROVE i + 1 \in S
  <2>1. SUFFICES ASSUME i + 1 <= w - v
                 PROVE  HostScanned(buf, f, host[i + 1], v, v + (i + 1))
    OBVIOUS
  <2>2. /\ i + 1 \in 1 .. w - v /\ (i + 1) - 1 = i
        /\ v + (i + 1) \in 1 .. Len(buf) /\ (v + (i + 1)) - 1 = v + i
        /\ v < v + (i + 1) /\ HostScanned(buf, f, host[i], v, v + i)
    BY <1>3, <2>1
  <2>3. host[i + 1] = HostStep(buf, host[(i + 1) - 1], v + (i + 1))
    BY <1>1, <2>2
  <2>4. QED
    BY <2>2, <2>3, HostKeepsOrder
<1>4. Nat \subseteq S
  BY <1>2, <1>3, Induction
<1>5. w - v \in S /\ v + (w - v) = w
  BY <1>4
<1>6. QED
  BY <1>1, <1>5

-----------------------------------------------------------------------------
(* The number that strtoul makes of the digits of a port.                    *)
Ports(value, buf, field, n) ==
    value = [i \in 0 .. n |->
                 IF i = 0 THEN 0
                 ELSE 10 * value[i - 1] + unhex(At(buf, field.off + i - 1))]

(* PortNumber is such a function, at the last digit;                         *)
LEMMA PortUnfolded ==
    ASSUME NEW buf, NEW field
    PROVE  PortNumber(buf, field) =
               (CHOOSE value : Ports(value, buf, field, field.len))[field.len]
BY DEF PortNumber, Ports

(* and there is one, for any number of digits.                               *)
LEMMA PortExists ==
    ASSUME NEW buf, NEW field, NEW n \in Nat
    PROVE  \E value : Ports(value, buf, field, n)
<1> DEFINE Next10(x, i) == 10 * x + unhex(At(buf, field.off + i - 1))
           S == {k \in Nat : \E value : Ports(value, buf, field, k)}
<1>1. 0 \in S
  <2>1. Ports([i \in {0} |-> 0], buf, field, 0)
    BY DEF Ports
  <2>2. QED
    BY <2>1
<1>2. ASSUME NEW m \in Nat, m \in S PROVE m + 1 \in S
  <2>1. PICK value : Ports(value, buf, field, m)
    BY <1>2
  <2> DEFINE g == [i \in 0 .. m + 1 |->
                       IF i = m + 1 THEN Next10(value[m], i) ELSE value[i]]
  <2>2. ASSUME NEW i \in 0 .. m + 1
        PROVE  g[i] = IF i = 0 THEN 0 ELSE Next10(g[i - 1], i)
    <3> HIDE DEF Next10
    <3>1. CASE i = m + 1
      <4>1. g[i] = Next10(value[m], i) /\ g[i - 1] = value[m] /\ i # 0
        BY <3>1
      <4>2. QED
        BY <4>1
    <3>2. CASE i # m + 1
      <4>1. g[i] = value[i] /\ i \in 0 .. m
        BY <3>2
      <4>2. value[i] = IF i = 0 THEN 0 ELSE Next10(value[i - 1], i)
        BY <2>1, <4>1 DEF Ports, Next10
      <4>3. i # 0 => g[i - 1] = value[i - 1]
        BY <4>1
      <4>4. QED
        BY <4>1, <4>2, <4>3
    <3>3. QED
      BY <3>1, <3>2
  <2>3. g = [i \in 0 .. m + 1 |-> IF i = 0 THEN 0 ELSE Next10(g[i - 1], i)]
    <3> HIDE DEF g, Next10
    <3>1. g = [i \in 0 .. m + 1 |-> g[i]]
      BY DEF g
    <3>2. QED
      BY <2>2, <3>1
  <2>4. Ports(g, buf, field, m + 1)
    BY <2>3 DEF Ports
  <2>5. QED
    BY <2>4
<1>3. Nat \subseteq S
  BY <1>1, <1>2, Induction
<1>4. QED
  BY <1>3

(* It is a natural number if the field holds digits only, 0 if it is empty.  *)
LEMMA PortIsNumber ==
    ASSUME NEW buf \in Seq(Character), NEW g, NEW q \in Nat, NEW w \in Nat,
           q <= w, w <= Len(buf), Run(g, "UF_PORT", q, w),
           \A i \in q + 1 .. w : buf[i] \in IS_NUM
    PROVE  /\ PortNumber(buf, g["UF_PORT"]) \in Nat
           /\ q = w => PortNumber(buf, g["UF_PORT"]) = 0
<1> DEFINE field == g["UF_PORT"]
           n == w - q
<1>1. n \in Nat /\ field.len = n /\ (n > 0 => field.off = q + 1)
  BY DEF Run, NoField
<1> HIDE DEF field
<1> DEFINE value == CHOOSE value : Ports(value, buf, field, n)
<1>2. Ports(value, buf, field, n)
  BY <1>1, PortExists
<1>3. PortNumber(buf, field) = value[n]
  BY <1>1, PortUnfolded
<1> HIDE DEF value
<1> DEFINE S == {i \in Nat : i <= n => value[i] \in Nat}
<1>4. value[0] = 0
  BY <1>1, <1>2 DEF Ports
<1>5. ASSUME NEW i \in Nat, i \in S PROVE i + 1 \in S
  <2>1. SUFFICES ASSUME i + 1 <= n PROVE value[i + 1] \in Nat
    OBVIOUS
  <2>2. /\ i + 1 \in 0 .. n /\ i + 1 # 0 /\ (i + 1) - 1 = i /\ value[i] \in Nat
        /\ field.off + (i + 1) - 1 = q + (i + 1) /\ q + (i + 1) \in q + 1 .. w
    BY <1>1, <1>5, <2>1
  <2>3. value[i + 1] =
            10 * value[(i + 1) - 1] + unhex(At(buf, field.off + (i + 1) - 1))
    BY <1>2, <2>2 DEF Ports
  <2>4. At(buf, q + (i + 1)) \in IS_NUM
    <3> DEFINE k == q + (i + 1)
    <3>1. k \in q + 1 .. w /\ k <= Len(buf)
      BY <2>2
    <3> HIDE DEF k
    <3>2. At(buf, k) = buf[k] /\ buf[k] \in IS_NUM
      BY <3>1 DEF At
    <3>3. QED
      BY <3>2 DEF k
  <2>5. \A ch \in IS_NUM : unhex(ch) \in 0 .. 9
    BY DEF IS_NUM, unhex
  <2>6. unhex(At(buf, q + (i + 1))) \in Nat
    BY <2>4, <2>5
  <2>7. QED
    BY <2>2, <2>3, <2>6
<1>6. Nat \subseteq S
  <2>1. 0 \in S
    BY <1>4
  <2> HIDE DEF S
  <2>2. QED
    BY <1>5, <2>1, Induction
<1>7. n \in S
  BY <1>1, <1>6
<1>8. QED
  BY <1>3, <1>4, <1>7 DEF field

-----------------------------------------------------------------------------
(* The server part: user, host and port, or nothing at all.                  *)
ServerSplit(buf, g, v, a, b, c, d, e, q, w) ==
    /\ v <= a /\ a <= b /\ b <= c /\ c <= d /\ d <= e /\ e <= q /\ q <= w
    /\ Run(g, "UF_USERINFO", v, a)
    /\ Run(g, "UF_HOST", c, d)
    /\ Run(g, "UF_PORT", q, w)
    /\ (b = a /\ a = v) \/ (b = a + 1 /\ buf[b] = "@")
    /\ \A i \in v + 1 .. a : buf[i] \in IS_USERINFO_CHAR
    /\ \/ c = b /\ e = d /\ \A i \in c + 1 .. d : buf[i] \in IS_HOST_CHAR
       \/ /\ c = b + 1 /\ buf[c] = "[" /\ e = d + 1 /\ buf[e] = "]"
          /\ \A i \in c + 1 .. d : buf[i] \in IS_HEX \cup {":", "."}
    /\ (q = e /\ w = e) \/ (q = e + 1 /\ buf[q] = ":" /\ q < w)
    /\ \A i \in q + 1 .. w : buf[i] \in IS_NUM
    /\ v < w => c < d

(* It is one such part between v and w, and f is kept elsewhere.             *)
ServerDivides(buf, f, g, v, w) ==
    /\ \E a, b, c, d, e, q \in Nat :
           ServerSplit(buf, g, v, a, b, c, d, e, q, w)
    /\ \A uf \in NotHost : g[uf] = f[uf]

(* An accepted server part is one, and the other fields are left alone.      *)
LEMMA ServerDivided ==
    ASSUME NEW buf \in Seq(Character), NEW f, DOMAIN f = UF, NEW found_at,
           NEW v \in Nat, NEW w \in Nat, v < w, w <= Len(buf),
           Run(f, "UF_HOST", v, w), Missing(f, {"UF_USERINFO", "UF_PORT"}),
           NEW host, host = http_parse_host(buf, f, found_at),
           host.s \in HostEnds
    PROVE  ServerDivides(buf, f, host.field_data, v, w)
<1> DEFINE g == host.field_data
           Whole(a, b, c, d, e, q) ==
               /\ UserPart(buf, g, v, a, b) /\ HostPart(buf, g, b, c, d, e)
               /\ PortPart(buf, g, e, q, w) /\ (q # e => q = e + 1 /\ q < w)
<1>1. HostScanned(buf, f, host, v, w)
  BY HostOrders
<1>2. host.s \in {"s_http_host", "s_http_host_v6_end", "s_http_host_port"}
  BY DEF HostEnds
<1>3. /\ HostPlaced(buf, g, host.s, v, w)
      /\ host.s \in BeforePort => g["UF_PORT"] = NoField
      /\ \A uf \in NotHost : g[uf] = f[uf]
  BY <1>1, <1>2 DEF HostScanned
<1> HIDE DEF g
<1>4. \E a, b, c, d, e, q \in Nat : Whole(a, b, c, d, e, q)
  <2>1. CASE host.s = "s_http_host"
    <3>1. PICK a, b \in Nat : UserPart(buf, g, v, a, b)
                              /\ HostPart(buf, g, b, b, w, w)
      BY <1>3, <2>1 DEF HostPlaced
    <3>2. PortPart(buf, g, w, w, w)
      BY <1>3, <2>1 DEF PortPart, BeforePort, Run
    <3>3. QED
      BY <3>1, <3>2
  <2>2. CASE host.s = "s_http_host_v6_end"
    <3>1. PICK a, b, c, d \in Nat : UserPart(buf, g, v, a, b)
                                    /\ HostPart(buf, g, b, c, d, w)
      BY <1>3, <2>2 DEF HostPlaced
    <3>2. PortPart(buf, g, w, w, w)
      BY <1>3, <2>2 DEF PortPart, BeforePort, Run
    <3>3. QED
      BY <3>1, <3>2
  <2>3. CASE host.s = "s_http_host_port"
    BY <1>3, <2>3 DEF HostPlaced
  <2>4. QED
    BY <1>2, <2>1, <2>2, <2>3
<1>5. ASSUME NEW a \in Nat, NEW b \in Nat, NEW c \in Nat, NEW d \in Nat,
             NEW e \in Nat, NEW q \in Nat, Whole(a, b, c, d, e, q)
      PROVE  ServerSplit(buf, g, v, a, b, c, d, e, q, w)
  <2>1. /\ v <= a /\ a <= b /\ Run(g, "UF_USERINFO", v, a)
        /\ (b = a /\ a = v) \/ (b = a + 1 /\ buf[b] = "@")
        /\ \A i \in v + 1 .. a : buf[i] \in IS_USERINFO_CHAR
    BY <1>5 DEF UserPart
  <2>2. /\ b <= c /\ c < d /\ d <= e /\ Run(g, "UF_HOST", c, d)
        /\ \/ c = b /\ e = d /\ \A i \in c + 1 .. d : buf[i] \in IS_HOST_CHAR
           \/ /\ c = b + 1 /\ buf[c] = "[" /\ e = d + 1 /\ buf[e] = "]"
              /\ \A i \in c + 1 .. d : buf[i] \in IS_HEX \cup {":", "."}
    BY <1>5 DEF HostPart
  <2>3. /\ e <= q /\ q <= w /\ Run(g, "UF_PORT", q, w)
        /\ (q = e /\ w = e) \/ (q = e + 1 /\ buf[q] = ":" /\ q < w)
        /\ \A i \in q + 1 .. w : buf[i] \in IS_NUM
    BY <1>5 DEF PortPart
  <2>4. QED
    BY <2>1, <2>2, <2>3 DEF ServerSplit
<1>6. PICK a, b, c, d, e, q \in Nat : Whole(a, b, c, d, e, q)
  BY <1>4
<1>7. ServerSplit(buf, g, v, a, b, c, d, e, q, w)
  BY <1>5, <1>6
<1>8. QED
  BY <1>3, <1>7 DEF g, ServerDivides

(* The whole of an accepted URL.                                             *)
Everything(buf, connect, g, u, v, a, b, c, d, e, q, w, x, y, z, h, n) ==
    /\ ServerSplit(buf, g, v, a, b, c, d, e, q, w)
    /\ w <= x /\ x <= y /\ y <= z /\ z <= h /\ h <= n
    /\ AfterSchema(buf, u, v)
    /\ u > 0 => c < d
    /\ Contents(buf, connect, u, v, w, x, y, z, h, n)
    /\ y = x \/ (y = x + 1 /\ buf[y] = "?")
    /\ y = x => z = y
    /\ \A i \in z + 1 .. h : buf[i] = "#"
    /\ h = z => n = h
    /\ Run(g, "UF_SCHEMA", 0, u)
    /\ Run(g, "UF_PATH", w, x) /\ Run(g, "UF_QUERY", y, z)
    /\ Run(g, "UF_FRAGMENT", h, n)

(* An accepted text has such positions.                                      *)
LEMMA UrlDividedSomewhere ==
    ASSUME NEW buf \in Seq(Character), NEW connect,
           NEW parsed, parsed = http_parser_parse_url(buf, connect), parsed.ok
    PROVE  \E u, v, a, b, c, d, e, q, w, x, y, z, h \in Nat :
               Everything(buf, connect, parsed.field_data,
                          u, v, a, b, c, d, e, q, w, x, y, z, h, Len(buf))
<1> DEFINE scan == Scan(buf, connect)
           f == scan.field_data
           has_host == "UF_HOST" \in field_set(f)
           host == http_parse_host(buf, f, scan.found_at)
           n == Len(buf)
<1>0. n \in Nat
  OBVIOUS
<1>1. /\ scan.s # "s_dead"
      /\ "UF_SCHEMA" \in field_set(f) => has_host
      /\ has_host => host.s \in HostEnds
      /\ parsed.field_data = IF has_host THEN host.field_data ELSE f
  BY DEF http_parser_parse_url
<1>2. DOMAIN f = UF /\ Placed(buf, connect, f, scan.s, n)
  BY <1>1, ScanOrders DEF Scanned
<1> HIDE DEF scan, f, host, n
<1>3. PICK u, v, w, x, y, z, h \in Nat :
          /\ Split(buf, f, u, v, w, x, y, z, h, n)
          /\ Contents(buf, connect, u, v, w, x, y, z, h, n)
  <2>1. CASE scan.s = "s_req_spaces_before_url"
    <3>1. n = 0 /\ Missing(f, UF)
      BY <1>0, <1>2, <2>1 DEF Placed, Reached
    <3>2. Split(buf, f, 0, 0, 0, 0, 0, 0, 0, n)
      BY <3>1 DEF Split, AfterSchema, Run, Missing, UF
    <3>3. Contents(buf, connect, 0, 0, 0, 0, 0, 0, 0, n)
      BY <3>1 DEF Contents
    <3>4. QED
      BY <3>2, <3>3
  <2>2. CASE scan.s \in {"s_req_schema", "s_req_schema_slash",
                         "s_req_schema_slash_slash"}
    <3>1. PICK k \in Nat : k > 0 /\ Run(f, "UF_SCHEMA", 0, k)
                           /\ Missing(f, NotSchema)
      BY <1>0, <1>2, <2>2 DEF Placed, Reached
    <3>2. f["UF_SCHEMA"].len > 0 /\ ~(f["UF_HOST"].len > 0)
      BY <3>1 DEF Run, Missing, NotSchema, UF, NoField
    <3>3. QED
      BY <1>1, <3>2 DEF field_set, UF
  <2>3. CASE \E u, v, w, x, y, z, h \in Nat :
                 /\ Split(buf, f, u, v, w, x, y, z, h, n)
                 /\ Reached(scan.s, v, w, x, y, z, h, n)
                 /\ Contents(buf, connect, u, v, w, x, y, z, h, n)
                 /\ Hosted(connect, scan.s, u)
    <3>1. PICK u, v, w, x, y, z, h \in Nat :
              /\ Split(buf, f, u, v, w, x, y, z, h, n)
              /\ Reached(scan.s, v, w, x, y, z, h, n)
              /\ Contents(buf, connect, u, v, w, x, y, z, h, n)
              /\ Hosted(connect, scan.s, u)
      BY <2>3
    <3>2. QED
      BY <3>1
  <2>4. QED
    BY <1>2, <2>1, <2>2, <2>3 DEF Placed
<1>4. has_host <=> v < w
  BY <1>3 DEF Split, Run, NoField, field_set, UF
<1>5. "UF_SCHEMA" \in field_set(f) <=> u > 0
  BY <1>3 DEF Split, Run, NoField, field_set, UF
<1>6. CASE has_host
  <2>1. w <= n /\ Run(f, "UF_HOST", v, w)
        /\ Missing(f, {"UF_USERINFO", "UF_PORT"})
    BY <1>0, <1>3 DEF Split
  <2>2. ServerDivides(buf, f, host.field_data, v, w)
    <3>1. v < w /\ w <= Len(buf) /\ host.s \in HostEnds
      BY <1>1, <1>4, <1>6, <2>1 DEF n
    <3>2. host = http_parse_host(buf, f, scan.found_at)
      BY DEF host
    <3>3. DOMAIN f = UF /\ Run(f, "UF_HOST", v, w)
          /\ Missing(f, {"UF_USERINFO", "UF_PORT"})
      BY <1>2, <2>1
    <3>4. QED
      BY <3>1, <3>2, <3>3, ServerDivided
  <2>3. PICK a, b, c, d, e, q \in Nat :
            ServerSplit(buf, host.field_data, v, a, b, c, d, e, q, w)
    BY <2>2 DEF ServerDivides
  <2> DEFINE g == host.field_data
  <2> HIDE DEF g, has_host
  <2>4. /\ Run(g, "UF_SCHEMA", 0, u)
        /\ Run(g, "UF_PATH", w, x) /\ Run(g, "UF_QUERY", y, z)
        /\ Run(g, "UF_FRAGMENT", h, n)
    BY <1>3, <2>2 DEF ServerDivides, Split, Run, NotHost, UF, g
  <2>5. c < d /\ ServerSplit(buf, g, v, a, b, c, d, e, q, w)
    BY <1>4, <1>6, <2>3 DEF ServerSplit, g
  <2>6. Everything(buf, connect, g, u, v, a, b, c, d, e, q, w, x, y, z, h, n)
    BY <1>3, <2>4, <2>5 DEF Everything, Split
  <2>7. parsed.field_data = g
    BY <1>1, <1>6 DEF g
  <2>8. QED
    BY <2>6, <2>7 DEF n
<1>7. CASE ~has_host
  <2>1. u = 0 /\ v = 0 /\ w = v
    BY <1>1, <1>3, <1>4, <1>5, <1>7 DEF Split, AfterSchema
  <2>2. ServerSplit(buf, f, v, v, v, v, v, v, v, w)
    BY <1>3, <2>1 DEF ServerSplit, Split, Run, Missing
  <2>3. \A a \in {v} :
            Everything(buf, connect, f, u, v, a, a, a, a, a, a, w, x, y, z, h, n)
    BY <1>3, <2>1, <2>2 DEF Everything, Split
  <2>4. PICK a, b, c, d, e, q \in Nat :
            Everything(buf, connect, f, u, v, a, b, c, d, e, q, w, x, y, z, h, n)
    BY <2>3
  <2>5. parsed.field_data = f
    BY <1>1, <1>7
  <2>6. QED
    BY <2>4, <2>5 DEF n
<1>8. QED
  BY <1>6, <1>7

-----------------------------------------------------------------------------
(* Parts of a text, put together again.                                      *)
LEMMA Glue ==
    ASSUME NEW s \in Seq(Character), NEW b \in Nat, NEW c \in Nat,
           b <= c, c <= Len(s)
    PROVE  SubSeq(s, 1, b) \o SubSeq(s, b + 1, c) = SubSeq(s, 1, c)
OBVIOUS

(* A field is a part of the text, empty just if there is nothing in it.      *)
LEMMA PartOf ==
    ASSUME NEW buf \in Seq(Character), NEW parsed, NEW uf,
           NEW a \in Nat, NEW b \in Nat, a <= b, b <= Len(buf),
           Run(parsed.field_data, uf, a, b)
    PROVE  /\ Part(buf, parsed, uf) = SubSeq(buf, a + 1, b)
           /\ Part(buf, parsed, uf) = <<>> <=> a = b
           /\ a < b <=> parsed.field_data[uf].len > 0
<1> DEFINE field == parsed.field_data[uf]
<1>0. Part(buf, parsed, uf) = SubSeq(buf, field.off, field.off + field.len - 1)
  BY DEF Part
<1>1. CASE a = b
  <2>1. field.off = 0 /\ field.len = 0
    BY <1>1 DEF Run, NoField
  <2>2. SubSeq(buf, 0, 0 + 0 - 1) = <<>> /\ SubSeq(buf, a + 1, b) = <<>>
    BY <1>1
  <2>3. QED
    BY <1>0, <1>1, <2>1, <2>2
<1>2. CASE a # b
  <2>1. field.off = a + 1 /\ field.len = b - a
    BY <1>2 DEF Run
  <2>2. (a + 1) + (b - a) - 1 = b
    OBVIOUS
  <2>3. Len(SubSeq(buf, a + 1, b)) = b - a /\ b - a > 0
    BY <1>2
  <2>4. SubSeq(buf, a + 1, b) # <<>>
    BY <2>3
  <2> HIDE DEF field
  <2>5. Part(buf, parsed, uf) = SubSeq(buf, a + 1, b)
    BY <1>0, <2>1, <2>2
  <2>6. a < b /\ field.len > 0
    BY <1>2, <2>1
  <2>7. QED
    BY <1>2, <2>4, <2>5, <2>6 DEF field
<1>3. QED
  BY <1>1, <1>2

(* A part of one character, and a part all of whose characters are in S.     *)
LEMMA PartContents ==
    ASSUME NEW buf \in Seq(Character), NEW a \in Nat, NEW b \in Nat,
           a <= b, b <= Len(buf)
    PROVE  /\ b = a => SubSeq(buf, a + 1, b) = <<>>
           /\ b = a + 1 => SubSeq(buf, a + 1, b) = <<buf[b]>>
           /\ b = a + 3 => SubSeq(buf, a + 1, b) =
                              <<buf[a + 1], buf[a + 2], buf[a + 3]>>
           /\ \A S : (\A i \in a + 1 .. b : buf[i] \in S) =>
                         SubSeq(buf, a + 1, b) \in Seq(S)
           /\ (\A i \in a + 1 .. b : buf[i] = "#") =>
                  SubSeq(buf, a + 1, b) = [i \in 1 .. b - a |-> "#"]
<1> DEFINE part == SubSeq(buf, a + 1, b)
<1>1. /\ part \in Seq(Character) /\ Len(part) = b - a
      /\ \A i \in 1 .. b - a : part[i] = buf[i + a]
  OBVIOUS
<1> HIDE DEF part
<1>2. b = a => part = <<>>
  BY <1>1
<1>3. b = a + 1 => part = <<buf[b]>>
  BY <1>1
<1>4. b = a + 3 => part = <<buf[a + 1], buf[a + 2], buf[a + 3]>>
  BY <1>1
<1>5. ASSUME NEW S, \A i \in a + 1 .. b : buf[i] \in S
      PROVE  part \in Seq(S)
  BY <1>1, <1>5, SMTT(30)
<1>6. ASSUME \A i \in a + 1 .. b : buf[i] = "#"
      PROVE  part = [i \in 1 .. b - a |-> "#"]
  <2>1. part = [i \in 1 .. b - a |-> part[i]]
    BY <1>1
  <2>2. \A i \in 1 .. b - a : i + a \in a + 1 .. b
    OBVIOUS
  <2>3. \A i \in 1 .. b - a : part[i] = "#"
    BY <1>1, <1>6, <2>2
  <2>4. QED
    BY <2>1, <2>3
<1>7. QED
  BY <1>2, <1>3, <1>4, <1>5, <1>6 DEF part

(* What is between two positions.                                            *)
Between(buf, a, b) == SubSeq(buf, a + 1, b)

(* A part and the next one.                                                  *)
LEMMA GlueNext ==
    ASSUME NEW buf \in Seq(Character), NEW a \in Nat, NEW b \in Nat, a <= b,
           b <= Len(buf), NEW before, before = Between(buf, 0, a)
    PROVE  before \o Between(buf, a, b) = Between(buf, 0, b)
<1>1. SubSeq(buf, 1, a) \o SubSeq(buf, a + 1, b) = SubSeq(buf, 1, b)
  BY Glue
<1>2. 0 + 1 = 1
  OBVIOUS
<1>3. QED
  BY <1>1, <1>2 DEF Between

(* The number of a port is that of its digits, wherever they stand.          *)
LEMMA PortSpelled ==
    ASSUME NEW buf, NEW field, NEW t, Len(t) \in Nat, field.len = Len(t),
           \A i \in 1 .. Len(t) : At(buf, field.off + i - 1) = t[i]
    PROVE  PortNumber(buf, field) = NumberOf(t)
<1> DEFINE n == Len(t)
           own == [off |-> 1, len |-> n]
<1>1. n \in Nat /\ field.len = n /\ own.len = n /\ own.off = 1
  OBVIOUS
<1>2. \A i \in 1 .. n : At(buf, field.off + i - 1) = At(t, own.off + i - 1)
  <2> SUFFICES ASSUME NEW i \in 1 .. n
               PROVE  At(buf, field.off + i - 1) = At(t, own.off + i - 1)
    OBVIOUS
  <2>1. own.off + i - 1 = i /\ i <= Len(t)
    OBVIOUS
  <2>2. QED
    BY <2>1 DEF At
<1>3. NumberOf(t) = PortNumber(t, own)
  BY DEF NumberOf
<1> HIDE DEF n, own
<1> DEFINE here == CHOOSE value : Ports(value, buf, field, n)
           there == CHOOSE value : Ports(value, t, own, n)
<1>4. Ports(here, buf, field, n) /\ Ports(there, t, own, n)
  BY <1>1, PortExists
<1>5. PortNumber(buf, field) = here[n] /\ PortNumber(t, own) = there[n]
  BY <1>1, PortUnfolded
<1> HIDE DEF here, there
<1> DEFINE S == {i \in Nat : i <= n => here[i] = there[i]}
<1>6. 0 \in S
  BY <1>1, <1>4 DEF Ports
<1>7. ASSUME NEW i \in Nat, i \in S PROVE i + 1 \in S
  <2>1. SUFFICES ASSUME i + 1 <= n PROVE here[i + 1] = there[i + 1]
    OBVIOUS
  <2>2. /\ i + 1 \in 0 .. n /\ i + 1 # 0 /\ (i + 1) - 1 = i /\ i + 1 \in 1 .. n
        /\ here[i] = there[i]
    BY <1>1, <1>7, <2>1
  <2>3. here[i + 1] =
            10 * here[(i + 1) - 1] + unhex(At(buf, field.off + (i + 1) - 1))
    BY <1>4, <2>2 DEF Ports
  <2>4. there[i + 1] =
            10 * there[(i + 1) - 1] + unhex(At(t, own.off + (i + 1) - 1))
    BY <1>4, <2>2 DEF Ports
  <2>5. At(buf, field.off + (i + 1) - 1) = At(t, own.off + (i + 1) - 1)
    BY <1>2, <2>2
  <2>6. QED
    BY <2>2, <2>3, <2>4, <2>5
<1>8. Nat \subseteq S
  <2> HIDE DEF S
  <2>1. QED
    BY <1>6, <1>7, Induction
<1>9. n \in S
  BY <1>1, <1>8
<1>10. QED
  BY <1>1, <1>3, <1>5, <1>9

(* Every text that is accepted, of any length and any characters, is legal   *)
(* fields and delimiters one after the other, and these are the fields and   *)
(* the port that it is divided into (http_parser.c:2325-2427).               *)
THEOREM UrlAnyDivided ==
    ASSUME NEW buf \in Seq(Character), NEW connect \in BOOLEAN
    PROVE  Divided(buf, connect)
<1> DEFINE parsed == http_parser_parse_url(buf, connect)
           g == parsed.field_data
           n == Len(buf)
           F == FieldsOf(buf, parsed)
           B(i, j) == Between(buf, i, j)
           Is(uf, i, j) == /\ F[uf] = B(i, j) /\ (F[uf] = <<>> <=> i = j)
                           /\ g[uf].len > 0 <=> i < j
           Hex == IS_HEX \cup {":", "."}
<1>1. SUFFICES ASSUME parsed.ok
               PROVE  /\ parsed.port = NumberOf(F["UF_PORT"])
                      /\ \E D \in Delimiters(0 .. n) :
                             Legal(F, D, connect) /\ buf = UrlOf(F, D)
  BY DEF Divided
<1>2. PICK u, v, a, b, c, d, e, q, w, x, y, z, h \in Nat :
          Everything(buf, connect, g, u, v, a, b, c, d, e, q, w, x, y, z, h, n)
  BY <1>1, UrlDividedSomewhere
<1>3. \A uf \in UF : F[uf] = Part(buf, parsed, uf)
  BY DEF FieldsOf
<1>4. n \in Nat
  OBVIOUS
<1> HIDE DEF F, parsed, n
<1>5. /\ AfterSchema(buf, u, v) /\ u <= v
      /\ u > 0 => c < d
      /\ Contents(buf, connect, u, v, w, x, y, z, h, n)
  BY <1>2 DEF Everything, AfterSchema
<1>51. /\ (b = a /\ a = v) \/ (b = a + 1 /\ buf[b] = "@")
       /\ \/ c = b /\ e = d /\ \A i \in c + 1 .. d : buf[i] \in IS_HOST_CHAR
          \/ /\ c = b + 1 /\ buf[c] = "[" /\ e = d + 1 /\ buf[e] = "]"
             /\ \A i \in c + 1 .. d : buf[i] \in Hex
       /\ (q = e /\ w = e) \/ (q = e + 1 /\ buf[q] = ":" /\ q < w)
       /\ \A i \in q + 1 .. w : buf[i] \in IS_NUM
       /\ \A i \in v + 1 .. a : buf[i] \in IS_USERINFO_CHAR
       /\ v < w => c < d
  BY <1>2 DEF Everything, ServerSplit
<1>6. /\ y = x \/ (y = x + 1 /\ buf[y] = "?")
      /\ y = x => z = y
      /\ \A i \in z + 1 .. h : buf[i] = "#"
      /\ h = z => n = h
  BY <1>2 DEF Everything
<1>7. /\ v <= a /\ a <= b /\ b <= c /\ c <= d /\ d <= e /\ e <= q /\ q <= w
      /\ w <= x /\ x <= y /\ y <= z /\ z <= h /\ h <= n
  BY <1>2 DEF Everything, ServerSplit
<1>8. /\ u <= n /\ v <= n /\ a <= n /\ b <= n /\ c <= n /\ d <= n
      /\ e <= n /\ q <= n /\ w <= n /\ x <= n /\ y <= n /\ z <= n
  BY <1>4, <1>5, <1>7
<1>9. /\ Run(g, "UF_SCHEMA", 0, u) /\ Run(g, "UF_USERINFO", v, a)
      /\ Run(g, "UF_HOST", c, d) /\ Run(g, "UF_PORT", q, w)
      /\ Run(g, "UF_PATH", w, x) /\ Run(g, "UF_QUERY", y, z)
      /\ Run(g, "UF_FRAGMENT", h, n)
  BY <1>2 DEF Everything, ServerSplit
<1>10. ASSUME NEW uf \in UF, NEW i \in Nat, NEW j \in Nat, i <= j, j <= n,
              Run(g, uf, i, j)
       PROVE  Is(uf, i, j)
  <2>1. /\ Part(buf, parsed, uf) = B(i, j)
        /\ Part(buf, parsed, uf) = <<>> <=> i = j
        /\ i < j <=> g[uf].len > 0
    BY <1>10, PartOf DEF Between, n
  <2>2. QED
    BY <1>3, <2>1
<1> HIDE DEF Is, g
<1>11. /\ Is("UF_SCHEMA", 0, u) /\ Is("UF_USERINFO", v, a)
       /\ Is("UF_HOST", c, d) /\ Is("UF_PORT", q, w)
       /\ Is("UF_PATH", w, x) /\ Is("UF_QUERY", y, z)
       /\ Is("UF_FRAGMENT", h, n)
  <2>1. {"UF_SCHEMA", "UF_USERINFO", "UF_HOST", "UF_PORT", "UF_PATH",
         "UF_QUERY", "UF_FRAGMENT"} \subseteq UF
    BY DEF UF
  <2>2. QED
    BY <1>4, <1>7, <1>8, <1>9, <1>10, <2>1
<1>12. ASSUME NEW i \in Nat, NEW j \in Nat, i <= j, j <= n
       PROVE  /\ j = i => B(i, j) = <<>>
              /\ j = i + 1 => B(i, j) = <<buf[j]>>
              /\ j = i + 3 => B(i, j) = <<buf[i + 1], buf[i + 2], buf[i + 3]>>
              /\ \A S : (\A k \in i + 1 .. j : buf[k] \in S) => B(i, j) \in Seq(S)
              /\ (\A k \in i + 1 .. j : buf[k] = "#") =>
                     B(i, j) = [k \in 1 .. j - i |-> "#"]
  BY <1>12, PartContents DEF Between, n
<1>13. buf = B(0, u) \o B(u, v) \o B(v, a) \o B(a, b) \o B(b, c) \o B(c, d)
             \o B(d, e) \o B(e, q) \o B(q, w) \o B(w, x) \o B(x, y) \o B(y, z)
             \o B(z, h) \o B(h, n)
  <2>1. B(0, n) = buf
    BY DEF Between, n
  <2>2. ASSUME NEW i \in Nat, NEW j \in Nat, i <= j, j <= n
        PROVE  B(0, i) \o B(i, j) = B(0, j)
    BY <2>2, GlueNext DEF n
  <2> HIDE DEF B
  <2>3. /\ B(0, u) \o B(u, v) = B(0, v) /\ B(0, v) \o B(v, a) = B(0, a)
        /\ B(0, a) \o B(a, b) = B(0, b) /\ B(0, b) \o B(b, c) = B(0, c)
    BY <1>5, <1>7, <1>8, <2>2
  <2>4. /\ B(0, c) \o B(c, d) = B(0, d) /\ B(0, d) \o B(d, e) = B(0, e)
        /\ B(0, e) \o B(e, q) = B(0, q) /\ B(0, q) \o B(q, w) = B(0, w)
    BY <1>7, <1>8, <2>2
  <2>5. /\ B(0, w) \o B(w, x) = B(0, x) /\ B(0, x) \o B(x, y) = B(0, y)
        /\ B(0, y) \o B(y, z) = B(0, z) /\ B(0, z) \o B(z, h) = B(0, h)
    BY <1>7, <1>8, <2>2
  <2>6. B(0, h) \o B(h, n) = B(0, n)
    <3>1. n <= n
      BY <1>4
    <3>2. QED
      BY <1>4, <1>7, <2>2, <3>1
  <2>7. QED
    BY <2>1, <2>3, <2>4, <2>5, <2>6
<1> HIDE DEF B, Hex
<1> DEFINE six == c = b + 1
           D == [at |-> IF b = a + 1 THEN TRUE ELSE FALSE,
                 v6 |-> IF six THEN TRUE ELSE FALSE,
                 question |-> IF y = x + 1 THEN TRUE ELSE FALSE,
                 hashes |-> h - z]
<1>14. /\ D \in Delimiters(0 .. n)
       /\ b = a + 1 => D.at
       /\ b # a + 1 => ~D.at
       /\ six => D.v6
       /\ ~six => ~D.v6
       /\ y = x + 1 => D.question
       /\ y # x + 1 => ~D.question
       /\ D.hashes = h - z
  <2>1. h - z \in 0 .. n
    BY <1>4, <1>7, <1>8
  <2>2. D \in Delimiters(0 .. n)
    BY <2>1 DEF Delimiters
  <2>3. (b = a + 1 => D.at) /\ (b # a + 1 => ~D.at)
    OBVIOUS
  <2>4. (six => D.v6) /\ (~six => ~D.v6)
    OBVIOUS
  <2>5. (y = x + 1 => D.question) /\ (y # x + 1 => ~D.question)
    OBVIOUS
  <2>6. D.hashes = h - z
    OBVIOUS
  <2>7. QED
    BY <2>2, <2>3, <2>4, <2>5, <2>6
<1> HIDE DEF D
<1>15. /\ F["UF_SCHEMA"] = B(0, u) /\ F["UF_USERINFO"] = B(v, a)
       /\ F["UF_HOST"] = B(c, d) /\ F["UF_PORT"] = B(q, w)
       /\ F["UF_PATH"] = B(w, x) /\ F["UF_QUERY"] = B(y, z)
       /\ F["UF_FRAGMENT"] = B(h, n)
       /\ F["UF_SCHEMA"] = <<>> <=> u = 0
       /\ F["UF_USERINFO"] = <<>> <=> v = a
       /\ F["UF_HOST"] = <<>> <=> c = d
       /\ F["UF_PORT"] = <<>> <=> q = w
       /\ F["UF_PATH"] = <<>> <=> w = x
       /\ F["UF_QUERY"] = <<>> <=> y = z
       /\ F["UF_FRAGMENT"] = <<>> <=> h = n
  BY <1>11 DEF Is
<1>16. buf = UrlOf(F, D)
  <2>1. B(u, v) = IF F["UF_SCHEMA"] # <<>> THEN <<":", "/", "/">> ELSE <<>>
    <3>1. CASE u = 0
      <4>1. v = u
        BY <1>5, <3>1 DEF AfterSchema
      <4>2. QED
        BY <1>8, <1>12, <1>15, <3>1, <4>1
    <3>2. CASE u # 0
      <4>1. /\ v = u + 3 /\ u <= v
            /\ buf[u + 1] = ":" /\ buf[u + 2] = "/" /\ buf[u + 3] = "/"
        BY <1>5, <3>2 DEF AfterSchema
      <4>2. B(u, v) = <<buf[u + 1], buf[u + 2], buf[u + 3]>>
        BY <1>8, <1>12, <4>1
      <4>3. QED
        BY <1>15, <3>2, <4>1, <4>2
    <3>3. QED
      BY <3>1, <3>2
  <2>2. B(a, b) = IF D.at THEN <<"@">> ELSE <<>>
    <3>1. CASE b = a + 1
      <4>1. B(a, b) = <<"@">>
        BY <1>7, <1>8, <1>12, <1>51, <3>1
      <4>2. QED
        BY <1>14, <3>1, <4>1
    <3>2. CASE b # a + 1
      <4>1. B(a, b) = <<>>
        BY <1>7, <1>8, <1>12, <1>51, <3>2
      <4>2. QED
        BY <1>14, <3>2, <4>1
    <3>3. QED
      BY <3>1, <3>2
  <2>3. /\ B(b, c) = IF D.v6 THEN <<"[">> ELSE <<>>
        /\ B(d, e) = IF D.v6 THEN <<"]">> ELSE <<>>
    <3>1. CASE six
      <4>1. buf[c] = "[" /\ e = d + 1 /\ buf[e] = "]"
        BY <1>51, <3>1
      <4>2. B(b, c) = <<"[">> /\ B(d, e) = <<"]">>
        BY <1>7, <1>8, <1>12, <3>1, <4>1
      <4>3. QED
        BY <1>14, <3>1, <4>2
    <3>2. CASE ~six
      <4>1. B(b, c) = <<>> /\ B(d, e) = <<>>
        BY <1>7, <1>8, <1>12, <1>51, <3>2
      <4>2. QED
        BY <1>14, <3>2, <4>1
    <3>3. QED
      BY <3>1, <3>2
  <2>4. B(e, q) = IF F["UF_PORT"] # <<>> THEN <<":">> ELSE <<>>
    BY <1>51, <1>7, <1>8, <1>12, <1>15
  <2>5. B(x, y) = IF D.question THEN <<"?">> ELSE <<>>
    <3>1. CASE y = x + 1
      <4>1. B(x, y) = <<"?">>
        BY <1>6, <1>7, <1>8, <1>12, <3>1
      <4>2. QED
        BY <1>14, <3>1, <4>1
    <3>2. CASE y # x + 1
      <4>1. B(x, y) = <<>>
        BY <1>6, <1>7, <1>8, <1>12, <3>2
      <4>2. QED
        BY <1>14, <3>2, <4>1
    <3>3. QED
      BY <3>1, <3>2
  <2>6. B(z, h) = [i \in 1 .. D.hashes |-> "#"]
    <3>1. B(z, h) = [i \in 1 .. h - z |-> "#"]
      BY <1>6, <1>7, <1>8, <1>12
    <3>2. QED
      BY <1>14, <3>1
  <2>7. QED
    BY <1>13, <1>15, <2>1, <2>2, <2>3, <2>4, <2>5, <2>6 DEF UrlOf
<1>17. LegalCharacters(F, D.v6)
  <2>1. /\ \A i \in 1 .. u : buf[i] \in IS_ALPHA
        /\ \A i \in w + 1 .. x : buf[i] \in IS_URL_CHAR
        /\ \A i \in y + 1 .. z : buf[i] \in IS_URL_CHAR \cup {"?"}
        /\ \A i \in h + 1 .. n : buf[i] \in IS_URL_CHAR \cup {"?", "#"}
    BY <1>5 DEF Contents
  <2>2. B(0, u) \in Seq(IS_ALPHA)
    <3>1. \A i \in 0 + 1 .. u : buf[i] \in IS_ALPHA
      BY <2>1
    <3>2. QED
      BY <1>8, <1>12, <3>1
  <2>3. B(v, a) \in Seq(IS_USERINFO_CHAR) /\ B(q, w) \in Seq(IS_NUM)
    BY <1>51, <1>7, <1>8, <1>12
  <2>4. B(c, d) \in IF D.v6 THEN Seq(IS_HEX \cup {":", "."}) ELSE Seq(IS_HOST_CHAR)
    <3>1. CASE six
      <4>1. \A i \in c + 1 .. d : buf[i] \in Hex
        BY <1>51, <3>1
      <4>2. B(c, d) \in Seq(Hex)
        BY <1>7, <1>8, <1>12, <4>1
      <4>3. QED
        BY <1>14, <3>1, <4>2 DEF Hex
    <3>2. CASE ~six
      <4>1. \A i \in c + 1 .. d : buf[i] \in IS_HOST_CHAR
        BY <1>51, <3>2
      <4>2. B(c, d) \in Seq(IS_HOST_CHAR)
        BY <1>7, <1>8, <1>12, <4>1
      <4>3. QED
        BY <1>14, <3>2, <4>2
    <3>3. QED
      BY <3>1, <3>2
  <2>5. B(w, x) \in Seq(IS_URL_CHAR)
    BY <1>7, <1>8, <1>12, <2>1
  <2>6. B(y, z) \in Seq(IS_URL_CHAR \cup {"?"})
    BY <1>7, <1>8, <1>12, <2>1
  <2>7. B(h, n) \in Seq(IS_URL_CHAR \cup {"?", "#"})
    <3>1. n <= n
      BY <1>4
    <3>2. QED
      BY <1>4, <1>7, <1>12, <2>1, <3>1
  <2>8. QED
    BY <1>15, <2>2, <2>3, <2>4, <2>5, <2>6, <2>7 DEF LegalCharacters
<1>18. connect => field_set(g) = {"UF_HOST", "UF_PORT"}
  BY <1>1 DEF parsed, g, http_parser_parse_url
<1>19. \A uf \in UF : uf \in field_set(g) <=> F[uf] # <<>>
  <2>1. ASSUME NEW uf, NEW i \in Nat, NEW j \in Nat, i <= j, Is(uf, i, j)
        PROVE  g[uf].len > 0 <=> F[uf] # <<>>
    BY <2>1 DEF Is
  <2>2. 0 \in Nat /\ 0 <= u
    OBVIOUS
  <2>3. /\ g["UF_SCHEMA"].len > 0 <=> F["UF_SCHEMA"] # <<>>
        /\ g["UF_USERINFO"].len > 0 <=> F["UF_USERINFO"] # <<>>
        /\ g["UF_HOST"].len > 0 <=> F["UF_HOST"] # <<>>
        /\ g["UF_PORT"].len > 0 <=> F["UF_PORT"] # <<>>
        /\ g["UF_PATH"].len > 0 <=> F["UF_PATH"] # <<>>
        /\ g["UF_QUERY"].len > 0 <=> F["UF_QUERY"] # <<>>
        /\ g["UF_FRAGMENT"].len > 0 <=> F["UF_FRAGMENT"] # <<>>
    BY <1>4, <1>7, <1>11, <2>1, <2>2
  <2>4. QED
    BY <2>3 DEF field_set, UF
<1>20. connect => {uf \in UF : F[uf] # <<>>} = {"UF_HOST", "UF_PORT"}
  <2>1. field_set(g) \subseteq UF
    BY DEF field_set
  <2>2. QED
    BY <1>18, <1>19, <2>1
<1>21. LegalOrder(F, D, connect)
  <2> DEFINE given == {uf \in UF : F[uf] # <<>>}
  <2>1. \A uf \in UF : uf \in given <=> F[uf] # <<>>
    OBVIOUS
  <2>2. connect => given = {"UF_HOST", "UF_PORT"}
    BY <1>20
  <2> HIDE DEF given
  <2>3. /\ "UF_SCHEMA" \in UF /\ "UF_USERINFO" \in UF /\ "UF_HOST" \in UF
        /\ "UF_PORT" \in UF /\ "UF_PATH" \in UF /\ "UF_QUERY" \in UF
        /\ "UF_FRAGMENT" \in UF
    BY DEF UF
  <2>4. /\ "UF_SCHEMA" \in given <=> u # 0
        /\ "UF_USERINFO" \in given <=> v # a
        /\ "UF_HOST" \in given <=> c # d
        /\ "UF_PORT" \in given <=> q # w
        /\ "UF_PATH" \in given <=> w # x
        /\ "UF_QUERY" \in given <=> y # z
        /\ "UF_FRAGMENT" \in given <=> h # n
    BY <1>15, <2>1, <2>3
  <2>5. /\ v < w => u > 0 \/ connect
        /\ w < x => buf[w + 1] = "/" \/ (buf[w + 1] = "*" /\ v = w)
        /\ x < y => v < w \/ w < x \/ u > 0 \/ connect
        /\ z < h => w < x \/ x < y
        /\ h < n => buf[h + 1] # "#"
    BY <1>5 DEF Contents
  <2>6. connect => /\ "UF_SCHEMA" \notin given /\ "UF_HOST" \in given
                   /\ "UF_PATH" \notin given
    BY <2>2
  <2>7. "UF_HOST" \in given <=> v < w
    BY <1>51, <1>7, <2>4
  <2>8. "UF_USERINFO" \in given => D.at
    BY <1>14, <1>51, <2>4
  <2>9. "UF_QUERY" \in given => D.question
    BY <1>14, <1>6, <2>4
  <2>10. "UF_FRAGMENT" \in given => D.hashes # 0 /\ F["UF_FRAGMENT"][1] # "#"
    <3>1. h # n => D.hashes # 0
      BY <1>14, <1>6, <1>7
    <3>2. h # n => F["UF_FRAGMENT"][1] = buf[h + 1] /\ h < n
      <4>1. F["UF_FRAGMENT"] = SubSeq(buf, h + 1, n)
        BY <1>15 DEF B, Between
      <4>2. QED
        BY <1>4, <1>7, <4>1 DEF n
    <3>3. QED
      BY <2>4, <2>5, <3>1, <3>2
  <2>11. D.hashes # 0 => D.question \/ "UF_PATH" \in given
    BY <1>14, <1>6, <1>7, <2>4, <2>5
  <2>12. D.question => {"UF_HOST", "UF_PATH"} \cap given # {}
    <3>1. D.question => "UF_HOST" \in given \/ "UF_PATH" \in given
      BY <1>14, <1>5, <1>7, <2>4, <2>5, <2>6, <2>7
    <3>2. QED
      BY <3>1
  <2>13. D.at \/ D.v6 \/ "UF_PORT" \in given => "UF_HOST" \in given
    BY <1>14, <1>51, <1>7, <2>4, <2>7
  <2>14. "UF_SCHEMA" \in given <=> "UF_HOST" \in given /\ ~connect
    BY <1>5, <1>7, <2>4, <2>5, <2>6, <2>7
  <2>15. "UF_PATH" \in given =>
             F["UF_PATH"][1] \in IF "UF_HOST" \in given THEN {"/"} ELSE {"/", "*"}
    <3>1. w # x => F["UF_PATH"][1] = buf[w + 1] /\ w < x
      <4>1. F["UF_PATH"] = SubSeq(buf, w + 1, x)
        BY <1>15 DEF B, Between
      <4>2. QED
        BY <1>7, <1>8, <4>1, SMTT(30) DEF n
    <3>2. QED
      BY <2>4, <2>5, <2>7, <3>1
  <2>16. QED
    BY <2>2, <2>8, <2>9, <2>10, <2>11, <2>12, <2>13, <2>14, <2>15
    DEF LegalOrder, given
<1>22. PortNumber(buf, g["UF_PORT"]) = NumberOf(F["UF_PORT"])
  <2> DEFINE t == F["UF_PORT"]
             field == g["UF_PORT"]
  <2>1. t = SubSeq(buf, q + 1, w)
    BY <1>15 DEF B, Between
  <2>2. /\ Len(t) \in Nat /\ Len(t) = w - q
        /\ \A i \in 1 .. w - q : t[i] = buf[q + i]
    BY <1>7, <1>8, <2>1 DEF n
  <2>3. field = IF q = w THEN NoField ELSE [off |-> q + 1, len |-> w - q]
    BY <1>9 DEF Run
  <2> HIDE DEF t, field
  <2>4. field.len = Len(t) /\ (q < w => field.off = q + 1)
    BY <1>7, <2>2, <2>3 DEF NoField
  <2>5. ASSUME NEW i \in 1 .. Len(t)
        PROVE  At(buf, field.off + i - 1) = t[i]
    <3>1. q < w /\ (q + 1) + i - 1 = q + i /\ q + i <= Len(buf)
      BY <1>7, <1>8, <2>2 DEF n
    <3>2. field.off + i - 1 = q + i
      BY <2>4, <3>1
    <3>3. QED
      BY <2>2, <3>1, <3>2 DEF At
  <2>6. PortNumber(buf, field) = NumberOf(t)
    BY <2>2, <2>4, <2>5, PortSpelled
  <2>7. QED
    BY <2>6 DEF t, field
<1>23. /\ parsed.port = PortNumber(buf, g["UF_PORT"])
       /\ PortFits(PortNumber(buf, g["UF_PORT"]))
  BY <1>1 DEF parsed, g, http_parser_parse_url
<1>24. Legal(F, D, connect)
  BY <1>17, <1>21, <1>22, <1>23 DEF Legal
<1>25. QED
  BY <1>14, <1>16, <1>22, <1>23, <1>24

(* The text of the run holds characters.                                     *)
TextOnly == url \in Seq(Character) /\ is_connect \in BOOLEAN

(* So the property of the run holds whatever the pieces are and however many *)
(* of them (http_parser.c:2338-2424).                                        *)
THEOREM UrlAlwaysDivided == Spec => []UrlDivided
<1>1. Init => TextOnly
  BY UrlsAssumption DEF Init, TextOnly
<1>2. TextOnly /\ [GrowUrl \/ GrowPlain]_vars => TextOnly'
  <2> SUFFICES ASSUME TextOnly, [GrowUrl \/ GrowPlain]_vars PROVE TextOnly'
    OBVIOUS
  <2>1. CASE GrowUrl
    <3>1. PICK piece \in Pieces : url' = url \o piece
      BY <2>1 DEF GrowUrl
    <3>2. piece \in Seq(Character)
      BY UrlsAssumption
    <3>3. QED
      BY <2>1, <3>1, <3>2 DEF TextOnly, GrowUrl
  <2>2. CASE GrowPlain \/ UNCHANGED vars
    BY <2>2 DEF TextOnly, GrowPlain, vars
  <2>3. QED
    BY <2>1, <2>2
<1>3. TextOnly => UrlDivided
  BY UrlAnyDivided DEF TextOnly, UrlDivided
<1>4. QED
  BY <1>1, <1>2, <1>3, PTL DEF Spec

-----------------------------------------------------------------------------
(* The other direction. The classes of characters that the automata tell     *)
(* apart, and the moves of the automata on them.                             *)
LEMMA UrlGoes ==
    /\ \A ch \in IS_ALPHA :
           /\ parse_url_char("s_req_spaces_before_url", ch) = "s_req_schema"
           /\ parse_url_char("s_req_schema", ch) = "s_req_schema"
    /\ parse_url_char("s_req_schema", ":") = "s_req_schema_slash"
    /\ parse_url_char("s_req_schema_slash", "/") = "s_req_schema_slash_slash"
    /\ parse_url_char("s_req_schema_slash_slash", "/") = "s_req_server_start"
    /\ \A s \in Server, ch \in IS_USERINFO_CHAR \cup {"[", "]"} :
           parse_url_char(s, ch) = "s_req_server"
    /\ \A s \in {"s_req_server_start", "s_req_server"} :
           parse_url_char(s, "@") = "s_req_server_with_at"
    /\ \A s \in Server \cup {"s_req_spaces_before_url"} :
           parse_url_char(s, "/") = "s_req_path"
    /\ parse_url_char("s_req_spaces_before_url", "*") = "s_req_path"
    /\ \A ch \in IS_URL_CHAR : parse_url_char("s_req_path", ch) = "s_req_path"
    /\ \A s \in Server \cup {"s_req_path"} :
           parse_url_char(s, "?") = "s_req_query_string_start"
    /\ \A s \in Query, ch \in IS_URL_CHAR \cup {"?"} :
           parse_url_char(s, ch) = "s_req_query_string"
    /\ \A s \in Query \cup {"s_req_path", "s_req_fragment_start"} :
           parse_url_char(s, "#") = "s_req_fragment_start"
    /\ \A s \in Fragment, ch \in IS_URL_CHAR \cup {"?"} :
           parse_url_char(s, ch) = "s_req_fragment"
    /\ parse_url_char("s_req_fragment", "#") = "s_req_fragment"
BY NoneBlank, Apart DEF parse_url_char, Server, Query, Fragment

-----------------------------------------------------------------------------
(* The scan goes through the parts one after the other. Sound says that a    *)
(* state of the scan is a record that ScanStep can go on from.               *)
Sound(was) ==
    /\ was = [s |-> was.s, field_data |-> was.field_data,
              old_uf |-> was.old_uf, found_at |-> was.found_at]
    /\ DOMAIN was.field_data = UF

(* Other than in field uf, g is f.                                           *)
Only(g, f, uf) == \A other \in UF \ {uf} : g[other] = f[other]

(* Characters i + 1 to j are delimiters: only the state changes.             *)
Skipped(was, now, i, j, t) ==
    /\ Sound(now)
    /\ now.s = IF i = j THEN was.s ELSE t
    /\ now.field_data = was.field_data
    /\ now.old_uf = was.old_uf /\ (now.found_at <=> was.found_at)

(* Characters i + 1 to j go to field uf, whose run began after a.            *)
Filled(was, now, i, j, t, uf, a) ==
    /\ Sound(now)
    /\ now.s = IF i = j THEN was.s ELSE t
    /\ Run(now.field_data, uf, a, j) /\ Only(now.field_data, was.field_data, uf)
    /\ now.old_uf = uf <=> a < j
    /\ now.old_uf \in {was.old_uf, uf}
    /\ now.found_at <=> was.found_at \/ (i < j /\ t = "s_req_server_with_at")

(* A delimiter leaves the fields as they are (http_parser.c:2346-2352).      *)
LEMMA SkipStep ==
    ASSUME NEW buf, NEW was, NEW k, Sound(was),
           NEW t, t = parse_url_char(was.s, At(buf, k)), FieldOf(t) = "UF_MAX"
    PROVE  /\ Sound(ScanStep(buf, was, k)) /\ ScanStep(buf, was, k).s = t
           /\ ScanStep(buf, was, k).field_data = was.field_data
           /\ ScanStep(buf, was, k).old_uf = was.old_uf
           /\ ScanStep(buf, was, k).found_at <=> was.found_at
<1>1. ScanStep(buf, was, k) = [was EXCEPT !.s = t]
  BY DEF ScanStep
<1>2. [was EXCEPT !.s = t] = [s |-> t, field_data |-> was.field_data,
                              old_uf |-> was.old_uf, found_at |-> was.found_at]
  BY DEF Sound
<1> DEFINE next == [s |-> t, field_data |-> was.field_data,
                    old_uf |-> was.old_uf, found_at |-> was.found_at]
<1>3. /\ next.s = t /\ next.field_data = was.field_data
      /\ next.old_uf = was.old_uf /\ next.found_at = was.found_at
      /\ next = [s |-> next.s, field_data |-> next.field_data,
                 old_uf |-> next.old_uf, found_at |-> next.found_at]
  OBVIOUS
<1>4. ScanStep(buf, was, k) = next
  BY <1>1, <1>2
<1> HIDE DEF next
<1>5. QED
  BY <1>3, <1>4 DEF Sound

(* A character of a field prolongs it if the one before was of it too, and   *)
(* begins it otherwise (http_parser.c:2383-2393).                            *)
LEMMA FillStep ==
    ASSUME NEW buf, NEW was, NEW k \in Nat \ {0}, Sound(was),
           NEW t, t = parse_url_char(was.s, At(buf, k)), NEW uf \in UF,
           FieldOf(t) = uf, NEW a \in Nat, a < k,
           Run(was.field_data, uf, a, k - 1), was.old_uf = uf <=> a < k - 1
    PROVE  Filled(was, ScanStep(buf, was, k), k - 1, k, t, uf, a)
<1> DEFINE g == Extend(was.field_data, uf, k, uf = was.old_uf)
           next == [s |-> t, old_uf |-> uf, field_data |-> g,
                    found_at |-> was.found_at \/ t = "s_req_server_with_at"]
<1>1. "UF_MAX" \notin UF
  BY DEF UF
<1>2. ScanStep(buf, was, k) = next
  BY <1>1 DEF ScanStep
<1>3. /\ next.s = t /\ next.field_data = g /\ next.old_uf = uf
      /\ next.found_at <=> was.found_at \/ t = "s_req_server_with_at"
      /\ next = [s |-> next.s, field_data |-> next.field_data,
                 old_uf |-> next.old_uf, found_at |-> next.found_at]
  OBVIOUS
<1>4. /\ Run(g, uf, a, k) /\ DOMAIN g = UF
      /\ \A other \in UF \ {uf} : g[other] = was.field_data[other]
  <2> DEFINE same == uf = was.old_uf
             f == was.field_data
  <2>1. DOMAIN f = UF /\ (same <=> a < k - 1) /\ Run(f, uf, a, k - 1)
    BY DEF Sound
  <2> HIDE DEF same, f
  <2>2. Grown(Extend(f, uf, k, same), f, uf, a, k)
    BY <2>1, Extended DEF Grown
  <2>3. QED
    BY <2>2 DEF Grown, same, f
<1>5. k - 1 < k /\ k - 1 # k
  OBVIOUS
<1> HIDE DEF next, g
<1>6. QED
  BY <1>2, <1>3, <1>4, <1>5 DEF Filled, Sound, Only

(* Each character of the text is a step.                                     *)
Steps(f, buf, n) == \A k \in 1 .. n : f[k] = ScanStep(buf, f[k - 1], k)

(* From state s, characters i + 1 to j lead to state t and keep it.          *)
Leads(buf, s, i, j, t) ==
    /\ i < j => parse_url_char(s, At(buf, i + 1)) = t
    /\ \A k \in i + 2 .. j : parse_url_char(t, At(buf, k)) = t

(* So a whole delimiter leaves the fields as they are,                       *)
LEMMA SkipRun ==
    ASSUME NEW buf, NEW f, NEW n \in Nat, Steps(f, buf, n),
           NEW i \in Nat, NEW j \in Nat, i <= j, j <= n, Sound(f[i]),
           NEW t, FieldOf(t) = "UF_MAX", Leads(buf, f[i].s, i, j, t)
    PROVE  Skipped(f[i], f[j], i, j, t)
<1> DEFINE S == {m \in Nat : i + m <= j => Skipped(f[i], f[i + m], i, i + m, t)}
<1>1. 0 \in S
  <2>1. i + 0 = i
    OBVIOUS
  <2>2. QED
    BY <2>1 DEF Skipped
<1>2. ASSUME NEW m \in Nat, m \in S PROVE m + 1 \in S
  <2> SUFFICES ASSUME i + (m + 1) <= j
               PROVE  Skipped(f[i], f[i + (m + 1)], i, i + (m + 1), t)
    OBVIOUS
  <2> DEFINE k == i + (m + 1)
  <2>1. /\ k \in 1 .. n /\ k \in i + 1 .. j /\ k - 1 = i + m /\ k # i
        /\ k - 1 = i => k = i + 1
        /\ k - 1 # i => k \in i + 2 .. j
        /\ i < j
    OBVIOUS
  <2>2. Skipped(f[i], f[k - 1], i, k - 1, t)
    BY <1>2, <2>1
  <2> HIDE DEF k
  <2>3. parse_url_char(f[k - 1].s, At(buf, k)) = t
    BY <2>1, <2>2 DEF Skipped, Leads
  <2>4. f[k] = ScanStep(buf, f[k - 1], k)
    BY <2>1 DEF Steps
  <2>5. Sound(f[k - 1])
    BY <2>2 DEF Skipped
  <2>6. /\ Sound(f[k]) /\ f[k].s = t /\ f[k].field_data = f[k - 1].field_data
        /\ f[k].old_uf = f[k - 1].old_uf
        /\ f[k].found_at <=> f[k - 1].found_at
    BY <2>3, <2>4, <2>5, SkipStep
  <2>7. Skipped(f[i], f[k], i, k, t)
    BY <2>1, <2>2, <2>6 DEF Skipped
  <2>8. QED
    BY <2>7 DEF k
<1>3. Nat \subseteq S
  <2> HIDE DEF S
  <2>1. QED
    BY <1>1, <1>2, Induction
<1>4. j - i \in Nat /\ i + (j - i) = j
  OBVIOUS
<1>5. j - i \in S
  BY <1>3, <1>4
<1>6. QED
  BY <1>4, <1>5

(* and a whole part ends up in its field, if it has not begun before.        *)
LEMMA FillRun ==
    ASSUME NEW buf, NEW f, NEW n \in Nat, Steps(f, buf, n),
           NEW i \in Nat, NEW j \in Nat, i <= j, j <= n, Sound(f[i]),
           NEW t, NEW uf \in UF, FieldOf(t) = uf, Leads(buf, f[i].s, i, j, t),
           NEW a \in Nat, a <= i, Run(f[i].field_data, uf, a, i),
           f[i].old_uf = uf <=> a < i
    PROVE  Filled(f[i], f[j], i, j, t, uf, a)
<1> DEFINE S == {m \in Nat : i + m <= j => Filled(f[i], f[i + m], i, i + m, t, uf, a)}
<1>1. 0 \in S
  <2>1. i + 0 = i
    OBVIOUS
  <2>2. QED
    BY <2>1 DEF Filled, Only
<1>2. ASSUME NEW m \in Nat, m \in S PROVE m + 1 \in S
  <2> SUFFICES ASSUME i + (m + 1) <= j
               PROVE  Filled(f[i], f[i + (m + 1)], i, i + (m + 1), t, uf, a)
    OBVIOUS
  <2> DEFINE k == i + (m + 1)
  <2>1. /\ k \in 1 .. n /\ k \in i + 1 .. j /\ k - 1 = i + m /\ k # i
        /\ k - 1 = i => k = i + 1
        /\ k - 1 # i => k \in i + 2 .. j
        /\ i < j /\ i < k /\ a < k /\ k \in Nat \ {0} /\ k - 1 \in Nat
        /\ i <= k - 1 /\ k - 1 # k
    OBVIOUS
  <2>2. Filled(f[i], f[k - 1], i, k - 1, t, uf, a)
    BY <1>2, <2>1
  <2> HIDE DEF k
  <2>3. parse_url_char(f[k - 1].s, At(buf, k)) = t
    BY <2>1, <2>2 DEF Filled, Leads
  <2>4. f[k] = ScanStep(buf, f[k - 1], k)
    BY <2>1 DEF Steps
  <2>5. /\ Sound(f[k - 1]) /\ Run(f[k - 1].field_data, uf, a, k - 1)
        /\ f[k - 1].old_uf = uf <=> a < k - 1
    BY <2>2 DEF Filled
  <2>6. Filled(f[k - 1], f[k], k - 1, k, t, uf, a)
    BY <2>1, <2>3, <2>4, <2>5, FillStep
  <2>7. Filled(f[i], f[k], i, k, t, uf, a)
    BY <2>1, <2>2, <2>6 DEF Filled, Only
  <2>8. QED
    BY <2>7 DEF k
<1>3. Nat \subseteq S
  <2> HIDE DEF S
  <2>1. QED
    BY <1>1, <1>2, Induction
<1>4. j - i \in Nat /\ i + (j - i) = j
  OBVIOUS
<1>5. j - i \in S
  BY <1>3, <1>4
<1>6. QED
  BY <1>4, <1>5

-----------------------------------------------------------------------------
(* The positions of the parts of a URL in buf: the schema ends at u, the ://  *)
(* after it at v, the user at a and the @ at b, the server part at w, the    *)
(* path at x, the ? at y, the query at z and the last # at h.                *)
Parted(buf, connect, at, u, v, a, b, w, x, y, z, h, n) ==
    /\ v <= a /\ a <= b /\ b <= w /\ w <= x
    /\ x <= y /\ y <= z /\ z <= h /\ h <= n
    /\ AfterSchema(buf, u, v)
    /\ \A k \in 1 .. u : buf[k] \in IS_ALPHA
    /\ u > 0 <=> v < w /\ ~connect
    /\ connect => v < w /\ w = x
    /\ v < w => b < w
    /\ IF at THEN v < w /\ b = a + 1 /\ buf[b] = "@" ELSE v = a /\ a = b
    /\ \A k \in v + 1 .. a : buf[k] \in IS_USERINFO_CHAR
    /\ \A k \in b + 1 .. w : buf[k] \in IS_USERINFO_CHAR \cup {"[", "]"}
    /\ w < x => buf[w + 1] \in IF v < w THEN {"/"} ELSE {"/", "*"}
    /\ \A k \in w + 1 .. x : buf[k] \in IS_URL_CHAR
    /\ y = x \/ (y = x + 1 /\ buf[y] = "?" /\ (v < w \/ w < x))
    /\ y = x => z = y
    /\ \A k \in y + 1 .. z : buf[k] \in IS_URL_CHAR \cup {"?"}
    /\ \A k \in z + 1 .. h : buf[k] = "#"
    /\ z < h => x < y \/ w < x
    /\ h = z => n = h
    /\ h < n => buf[h + 1] # "#"
    /\ \A k \in h + 1 .. n : buf[k] \in IS_URL_CHAR \cup {"?", "#"}

(* The fields that Scan finds, each where it has come to.                    *)
Runs(g, u, v, w, p, x, y, z, h, n) ==
    /\ Run(g, "UF_SCHEMA", 0, u) /\ Run(g, "UF_HOST", v, w)
    /\ Run(g, "UF_PATH", p, x) /\ Run(g, "UF_QUERY", y, z)
    /\ Run(g, "UF_FRAGMENT", h, n)
    /\ Missing(g, {"UF_USERINFO", "UF_PORT"})

(* The \0 after the text is not looked at.                                   *)
LEMMA AtIs ==
    ASSUME NEW buf, NEW k, k <= Len(buf)
    PROVE  At(buf, k) = buf[k]
BY DEF At

(* Up to the server part.                                                    *)
LEMMA ReadsSchema ==
    ASSUME NEW buf, Len(buf) \in Nat, NEW connect, NEW at,
           NEW u \in Nat, NEW v \in Nat, NEW a \in Nat, NEW b \in Nat,
           NEW w \in Nat, NEW x \in Nat, NEW y \in Nat, NEW z \in Nat,
           NEW h \in Nat, NEW n \in Nat, n = Len(buf),
           Parted(buf, connect, at, u, v, a, b, w, x, y, z, h, n),
           NEW f, f[0] = ScanStart(connect), Steps(f, buf, n)
    PROVE  /\ Sound(f[v])
           /\ f[v].s = IF v < w THEN "s_req_server_start"
                       ELSE "s_req_spaces_before_url"
           /\ Runs(f[v].field_data, u, 0, 0, 0, 0, 0, 0, 0, 0)
           /\ f[v].old_uf \in {"UF_MAX", "UF_SCHEMA"} /\ ~f[v].found_at
<1>1. /\ Sound(f[0]) /\ f[0].old_uf = "UF_MAX" /\ ~f[0].found_at
      /\ f[0].s = IF connect THEN "s_req_server_start"
                  ELSE "s_req_spaces_before_url"
      /\ \A uf \in UF : f[0].field_data[uf] = NoField
  BY DEF ScanStart, Sound
<1>2. Runs(f[0].field_data, 0, 0, 0, 0, 0, 0, 0, 0, 0)
  BY <1>1 DEF Runs, Run, Missing, UF
<1>3. /\ AfterSchema(buf, u, v) /\ v <= w /\ w <= n
      /\ u > 0 <=> v < w /\ ~connect
      /\ connect => v < w
      /\ \A k \in 1 .. u : buf[k] \in IS_ALPHA
  BY DEF Parted
<1>4. CASE u = 0
  <2>1. v = 0
    BY <1>3, <1>4 DEF AfterSchema
  <2>2. connect <=> v < w
    BY <1>3, <1>4
  <2>3. QED
    BY <1>1, <1>2, <1>4, <2>1, <2>2
<1>5. CASE u > 0
  <2>1. /\ v = u + 3 /\ u <= n /\ u + 1 <= n /\ u + 2 <= n /\ u + 3 <= n
        /\ buf[u + 1] = ":" /\ buf[u + 2] = "/" /\ buf[u + 3] = "/"
        /\ ~connect /\ v < w
    BY <1>3, <1>5 DEF AfterSchema
  <2>2. Leads(buf, "s_req_spaces_before_url", 0, u, "s_req_schema")
    <3>1. \A k \in 1 .. u : At(buf, k) \in IS_ALPHA
      BY <1>3, <2>1, AtIs, SMTT(30)
    <3>2. /\ 0 < u => 0 + 1 \in 1 .. u
          /\ \A k \in 0 + 2 .. u : k \in 1 .. u
      OBVIOUS
    <3>3. QED
      BY <3>1, <3>2, UrlGoes DEF Leads
  <2>3. Filled(f[0], f[u], 0, u, "s_req_schema", "UF_SCHEMA", 0)
    <3>1. /\ "UF_SCHEMA" \in UF /\ FieldOf("s_req_schema") = "UF_SCHEMA"
          /\ Run(f[0].field_data, "UF_SCHEMA", 0, 0)
          /\ f[0].s = "s_req_spaces_before_url"
          /\ f[0].old_uf = "UF_SCHEMA" <=> 0 < 0
      BY <1>1, <1>2, <2>1, FieldsOfStates DEF UF, Runs
    <3>2. Leads(buf, f[0].s, 0, u, "s_req_schema") /\ Sound(f[0])
      BY <1>1, <2>2, <3>1
    <3>3. 0 \in Nat /\ 0 <= u /\ u <= n /\ 0 <= 0
      BY <2>1
    <3> HIDE DEF Leads
    <3>4. QED
      BY <3>1, <3>2, <3>3, FillRun
  <2>4. ASSUME NEW k \in {u, u + 1, u + 2},
               NEW t, FieldOf(t) = "UF_MAX", Sound(f[k]),
               parse_url_char(f[k].s, buf[k + 1]) = t
        PROVE  Skipped(f[k], f[k + 1], k, k + 1, t)
    <3>1. k \in Nat /\ k + 1 \in Nat /\ k <= k + 1 /\ k + 1 <= n
      BY <2>1
    <3>2. Leads(buf, f[k].s, k, k + 1, t)
      <4>1. At(buf, k + 1) = buf[k + 1] /\ k + 2 .. k + 1 = {}
        BY <3>1, AtIs
      <4>2. QED
        BY <2>4, <4>1 DEF Leads
    <3>3. QED
      BY <2>4, <3>1, <3>2, SkipRun
  <2>5. Skipped(f[u], f[u + 1], u, u + 1, "s_req_schema_slash")
    BY <1>5, <2>1, <2>3, <2>4, UrlGoes, FieldsOfStates DEF Filled
  <2>6. Skipped(f[u + 1], f[u + 2], u + 1, u + 2, "s_req_schema_slash_slash")
    <3>1. (u + 1) + 1 = u + 2 /\ u # u + 1
      OBVIOUS
    <3>2. Sound(f[u + 1]) /\ f[u + 1].s = "s_req_schema_slash"
      BY <2>5, <3>1 DEF Skipped
    <3>3. QED
      BY <2>1, <2>4, <3>1, <3>2, UrlGoes, FieldsOfStates
  <2>7. Skipped(f[u + 2], f[u + 3], u + 2, u + 3, "s_req_server_start")
    <3>1. (u + 2) + 1 = u + 3 /\ u + 1 # u + 2
      OBVIOUS
    <3>2. Sound(f[u + 2]) /\ f[u + 2].s = "s_req_schema_slash_slash"
      BY <2>6, <3>1 DEF Skipped
    <3>3. QED
      BY <2>1, <2>4, <3>1, <3>2, UrlGoes, FieldsOfStates
  <2>8. /\ Sound(f[v]) /\ f[v].s = "s_req_server_start"
        /\ f[v].field_data = f[u].field_data
        /\ f[v].old_uf = f[u].old_uf /\ (f[v].found_at <=> f[u].found_at)
    <3>1. u + 2 # u + 3
      OBVIOUS
    <3>2. QED
      BY <2>1, <2>5, <2>6, <2>7, <3>1 DEF Skipped
  <2>9. Runs(f[u].field_data, u, 0, 0, 0, 0, 0, 0, 0, 0)
    BY <1>2, <2>3 DEF Filled, Runs, Run, Only, Missing, UF
  <2>10. f[u].old_uf \in {"UF_MAX", "UF_SCHEMA"} /\ ~f[u].found_at
    BY <1>1, <2>3 DEF Filled
  <2>11. QED
    BY <2>1, <2>8, <2>9, <2>10
<1>6. QED
  BY <1>4, <1>5

(* The scan at the end of the server part.                                   *)
AfterServer(was, at, u, v, w) ==
    /\ Sound(was)
    /\ was.s = IF v < w THEN "s_req_server" ELSE "s_req_spaces_before_url"
    /\ Runs(was.field_data, u, v, w, 0, 0, 0, 0, 0, 0)
    /\ was.old_uf \in {"UF_MAX", "UF_SCHEMA", "UF_HOST"}
    /\ was.found_at <=> at

(* The user, its @ and the server part go to the host, and the @ is noted    *)
(* (http_parser.c:2358-2364).                                                *)
LEMMA ReadsServer ==
    ASSUME NEW buf, Len(buf) \in Nat, NEW connect, NEW at,
           NEW u \in Nat, NEW v \in Nat, NEW a \in Nat, NEW b \in Nat,
           NEW w \in Nat, NEW x \in Nat, NEW y \in Nat, NEW z \in Nat,
           NEW h \in Nat, NEW n \in Nat, n = Len(buf),
           Parted(buf, connect, at, u, v, a, b, w, x, y, z, h, n),
           NEW f, f[0] = ScanStart(connect), Steps(f, buf, n)
    PROVE  AfterServer(f[w], at, u, v, w)
<1>1. /\ Sound(f[v])
      /\ f[v].s = IF v < w THEN "s_req_server_start"
                  ELSE "s_req_spaces_before_url"
      /\ Runs(f[v].field_data, u, 0, 0, 0, 0, 0, 0, 0, 0)
      /\ f[v].old_uf \in {"UF_MAX", "UF_SCHEMA"} /\ ~f[v].found_at
  BY ReadsSchema
<1>2. /\ v <= a /\ a <= b /\ b <= w /\ a <= n /\ b <= n /\ w <= n
      /\ v < w => b < w
      /\ IF at THEN v < w /\ b = a + 1 /\ buf[b] = "@" ELSE v = a /\ a = b
      /\ \A k \in v + 1 .. a : buf[k] \in IS_USERINFO_CHAR
      /\ \A k \in b + 1 .. w : buf[k] \in IS_USERINFO_CHAR \cup {"[", "]"}
  BY DEF Parted
<1>3. /\ "UF_HOST" \in UF /\ FieldOf("s_req_server") = "UF_HOST"
      /\ FieldOf("s_req_server_with_at") = "UF_HOST"
      /\ {"s_req_server_start", "s_req_server", "s_req_server_with_at"}
             \subseteq Server
  BY FieldsOfStates DEF UF, Server
<1>4. Filled(f[v], f[a], v, a, "s_req_server", "UF_HOST", v)
  <2>1. Leads(buf, f[v].s, v, a, "s_req_server")
    <3>1. \A k \in v + 1 .. a : At(buf, k) \in IS_USERINFO_CHAR
      BY <1>2, AtIs
    <3>2. v < a => v < w /\ v + 1 \in v + 1 .. a
      BY <1>2
    <3>3. \A k \in v + 2 .. a : k \in v + 1 .. a
      OBVIOUS
    <3>4. QED
      BY <1>1, <1>3, <3>1, <3>2, <3>3, UrlGoes DEF Leads
  <2>2. Run(f[v].field_data, "UF_HOST", v, v)
        /\ (f[v].old_uf = "UF_HOST" <=> v < v) /\ v <= v
    BY <1>1 DEF Runs, Run
  <2> HIDE DEF Leads
  <2>3. QED
    BY <1>1, <1>2, <1>3, <2>1, <2>2, FillRun
<1>5. Filled(f[a], f[b], a, b, "s_req_server_with_at", "UF_HOST", v)
  <2>1. Leads(buf, f[a].s, a, b, "s_req_server_with_at")
    <3>1. a < b => /\ v < w /\ b = a + 1 /\ At(buf, a + 1) = "@"
                   /\ a + 2 .. b = {}
      BY <1>2, AtIs
    <3>2. v < w => f[a].s \in {"s_req_server_start", "s_req_server"}
      BY <1>1, <1>4 DEF Filled
    <3>3. a = b => a + 2 .. b = {}
      OBVIOUS
    <3>4. QED
      BY <1>2, <3>1, <3>2, <3>3, UrlGoes DEF Leads
  <2>2. Sound(f[a]) /\ Run(f[a].field_data, "UF_HOST", v, a)
        /\ (f[a].old_uf = "UF_HOST" <=> v < a)
    BY <1>4 DEF Filled
  <2>3. QED
    BY <1>2, <1>3, <2>1, <2>2, FillRun
<1>6. Filled(f[b], f[w], b, w, "s_req_server", "UF_HOST", v)
  <2>1. Leads(buf, f[b].s, b, w, "s_req_server")
    <3>1. \A k \in b + 1 .. w : At(buf, k) \in IS_USERINFO_CHAR \cup {"[", "]"}
      BY <1>2, AtIs
    <3>2. b < w => v < w /\ b + 1 \in b + 1 .. w
      BY <1>2
    <3>3. \A k \in b + 2 .. w : k \in b + 1 .. w
      OBVIOUS
    <3>4. v < w => f[b].s \in Server
      BY <1>1, <1>3, <1>4, <1>5 DEF Filled
    <3>5. QED
      BY <1>3, <3>1, <3>2, <3>3, <3>4, UrlGoes DEF Leads
  <2>2. Sound(f[b]) /\ Run(f[b].field_data, "UF_HOST", v, b)
        /\ (f[b].old_uf = "UF_HOST" <=> v < b) /\ v <= b
    BY <1>2, <1>5 DEF Filled
  <2>3. QED
    BY <1>2, <1>3, <2>1, <2>2, FillRun
<1>7. /\ Sound(f[w]) /\ Run(f[w].field_data, "UF_HOST", v, w)
      /\ \A other \in UF \ {"UF_HOST"} :
             f[w].field_data[other] = f[v].field_data[other]
      /\ f[w].old_uf \in {"UF_MAX", "UF_SCHEMA", "UF_HOST"}
  BY <1>1, <1>4, <1>5, <1>6 DEF Filled, Only
<1>8. Runs(f[w].field_data, u, v, w, 0, 0, 0, 0, 0, 0)
  BY <1>1, <1>7 DEF Runs, Run, Missing, UF
<1>9. f[w].s = IF v < w THEN "s_req_server" ELSE "s_req_spaces_before_url"
  <2>1. CASE v < w
    <3>1. b # w
      BY <1>2, <2>1
    <3>2. QED
      BY <1>6, <2>1, <3>1 DEF Filled
  <2>2. CASE ~(v < w)
    <3>1. v = a /\ a = b /\ b = w
      BY <1>2, <2>2
    <3>2. QED
      BY <1>1, <2>2, <3>1
  <2>3. QED
    BY <2>1, <2>2
<1>10. f[w].found_at <=> at
  <2>1. a < b <=> at
    BY <1>2
  <2>2. /\ f[a].found_at <=> f[v].found_at
        /\ f[b].found_at <=> f[a].found_at \/ a < b
        /\ f[w].found_at <=> f[b].found_at
    BY <1>4, <1>5, <1>6 DEF Filled
  <2>3. QED
    BY <1>1, <2>1, <2>2
<1>11. QED
  BY <1>7, <1>8, <1>9, <1>10 DEF AfterServer

(* The scan after the path and the ? that follows it.                        *)
AfterPath(was, at, u, v, w, x, y) ==
    /\ Sound(was)
    /\ was.s = IF x < y THEN "s_req_query_string_start"
               ELSE IF w < x THEN "s_req_path"
               ELSE IF v < w THEN "s_req_server" ELSE "s_req_spaces_before_url"
    /\ Runs(was.field_data, u, v, w, w, x, 0, 0, 0, 0)
    /\ was.old_uf \notin {"UF_QUERY", "UF_FRAGMENT"}
    /\ was.found_at <=> at

(* The path, and the ? after it (http_parser.c:2366-2372).                   *)
LEMMA ReadsPath ==
    ASSUME NEW buf, Len(buf) \in Nat, NEW connect, NEW at,
           NEW u \in Nat, NEW v \in Nat, NEW a \in Nat, NEW b \in Nat,
           NEW w \in Nat, NEW x \in Nat, NEW y \in Nat, NEW z \in Nat,
           NEW h \in Nat, NEW n \in Nat, n = Len(buf),
           Parted(buf, connect, at, u, v, a, b, w, x, y, z, h, n),
           NEW f, f[0] = ScanStart(connect), Steps(f, buf, n)
    PROVE  AfterPath(f[y], at, u, v, w, x, y)
<1>0. AfterServer(f[w], at, u, v, w)
  BY ReadsServer
<1>1. /\ Sound(f[w])
      /\ f[w].s = IF v < w THEN "s_req_server"
                  ELSE "s_req_spaces_before_url"
      /\ Runs(f[w].field_data, u, v, w, 0, 0, 0, 0, 0, 0)
      /\ f[w].old_uf \in {"UF_MAX", "UF_SCHEMA", "UF_HOST"}
      /\ f[w].found_at <=> at
  BY <1>0 DEF AfterServer
<1>2. /\ w <= x /\ x <= y /\ x <= n /\ y <= n
      /\ w < x => buf[w + 1] \in IF v < w THEN {"/"} ELSE {"/", "*"}
      /\ \A k \in w + 1 .. x : buf[k] \in IS_URL_CHAR
      /\ y = x \/ (y = x + 1 /\ buf[y] = "?" /\ (v < w \/ w < x))
  BY DEF Parted
<1>3. /\ "UF_PATH" \in UF /\ FieldOf("s_req_path") = "UF_PATH"
      /\ FieldOf("s_req_query_string_start") = "UF_MAX"
      /\ "s_req_server" \in Server
  BY FieldsOfStates DEF UF, Server
<1>4. Filled(f[w], f[x], w, x, "s_req_path", "UF_PATH", w)
  <2>1. Leads(buf, f[w].s, w, x, "s_req_path")
    <3>1. \A k \in w + 1 .. x : At(buf, k) = buf[k] /\ At(buf, k) \in IS_URL_CHAR
      BY <1>2, AtIs
    <3>2. w < x => w + 1 \in w + 1 .. x
      OBVIOUS
    <3>3. \A k \in w + 2 .. x : k \in w + 1 .. x
      OBVIOUS
    <3>4. w < x => parse_url_char(f[w].s, At(buf, w + 1)) = "s_req_path"
      BY <1>1, <1>2, <1>3, <3>1, <3>2, UrlGoes
    <3>5. QED
      BY <3>1, <3>3, <3>4, UrlGoes DEF Leads
  <2>2. Run(f[w].field_data, "UF_PATH", w, w)
        /\ (f[w].old_uf = "UF_PATH" <=> w < w) /\ w <= w
    BY <1>1 DEF Runs, Run
  <2>3. QED
    BY <1>1, <1>2, <1>3, <2>1, <2>2, FillRun
<1>5. Skipped(f[x], f[y], x, y, "s_req_query_string_start")
  <2>1. Leads(buf, f[x].s, x, y, "s_req_query_string_start")
    <3>1. x < y => /\ v < w \/ w < x
                   /\ y = x + 1 /\ At(buf, x + 1) = "?"
      BY <1>2, AtIs
    <3>2. x + 2 .. y = {}
      BY <1>2
    <3>3. v < w \/ w < x => f[x].s \in Server \cup {"s_req_path"}
      BY <1>1, <1>2, <1>3, <1>4 DEF Filled
    <3>4. QED
      BY <3>1, <3>2, <3>3, UrlGoes DEF Leads
  <2>2. Sound(f[x])
    BY <1>4 DEF Filled
  <2>3. QED
    BY <1>2, <1>3, <2>1, <2>2, SkipRun
<1>6. /\ Sound(f[y]) /\ f[y].field_data = f[x].field_data
      /\ f[y].old_uf = f[x].old_uf /\ (f[y].found_at <=> f[x].found_at)
  BY <1>5 DEF Skipped
<1>7. Runs(f[x].field_data, u, v, w, w, x, 0, 0, 0, 0)
  BY <1>1, <1>4 DEF Filled, Only, Runs, Run, Missing, UF
<1>8. f[x].old_uf \notin {"UF_QUERY", "UF_FRAGMENT"} /\ (f[x].found_at <=> at)
  BY <1>1, <1>4 DEF Filled
<1>9. f[y].s = IF x < y THEN "s_req_query_string_start"
               ELSE IF w < x THEN "s_req_path"
               ELSE IF v < w THEN "s_req_server"
               ELSE "s_req_spaces_before_url"
  <2>1. f[y].s = IF x < y THEN "s_req_query_string_start" ELSE f[x].s
    BY <1>2, <1>5 DEF Skipped
  <2>2. f[x].s = IF w < x THEN "s_req_path" ELSE f[w].s
    BY <1>2, <1>4 DEF Filled
  <2>3. QED
    BY <1>1, <2>1, <2>2
<1>10. QED
  BY <1>6, <1>7, <1>8, <1>9 DEF AfterPath

(* What Scan makes of the whole text.                                        *)
AllRead(scan, at, u, v, w, x, y, z, h, n) ==
    /\ scan.s # "s_dead" /\ DOMAIN scan.field_data = UF
    /\ Runs(scan.field_data, u, v, w, w, x, y, z, h, n)
    /\ scan.found_at <=> at

(* The query, the # and the fragment: the scan of a legal text does not stop *)
(* (http_parser.c:2338-2395).                                                *)
LEMMA ReadsUrl ==
    ASSUME NEW buf, Len(buf) \in Nat, NEW connect, NEW at,
           NEW u \in Nat, NEW v \in Nat, NEW a \in Nat, NEW b \in Nat,
           NEW w \in Nat, NEW x \in Nat, NEW y \in Nat, NEW z \in Nat,
           NEW h \in Nat, NEW n \in Nat, n = Len(buf),
           Parted(buf, connect, at, u, v, a, b, w, x, y, z, h, n)
    PROVE  AllRead(Scan(buf, connect), at, u, v, w, x, y, z, h, n)
<1>1. PICK f : /\ f[0] = ScanStart(connect)
               /\ \A k \in 1 .. Len(buf) : f[k] = ScanStep(buf, f[k - 1], k)
               /\ Scan(buf, connect) = f[Len(buf)]
  BY ScanFacts
<1>2. Steps(f, buf, n)
  BY <1>1 DEF Steps
<1>3. AfterPath(f[y], at, u, v, w, x, y)
  BY <1>1, <1>2, ReadsPath
<1>4. /\ Sound(f[y])
      /\ f[y].s = IF x < y THEN "s_req_query_string_start"
                  ELSE IF w < x THEN "s_req_path"
                  ELSE IF v < w THEN "s_req_server"
                  ELSE "s_req_spaces_before_url"
      /\ Runs(f[y].field_data, u, v, w, w, x, 0, 0, 0, 0)
      /\ f[y].old_uf \notin {"UF_QUERY", "UF_FRAGMENT"}
      /\ f[y].found_at <=> at
  BY <1>3 DEF AfterPath
<1>5. /\ y <= z /\ z <= h /\ h <= n /\ z <= n
      /\ y = x \/ y = x + 1
      /\ y = x => z = y
      /\ \A k \in y + 1 .. z : buf[k] \in IS_URL_CHAR \cup {"?"}
      /\ \A k \in z + 1 .. h : buf[k] = "#"
      /\ z < h => x < y \/ w < x
      /\ h = z => n = h
      /\ h < n => buf[h + 1] # "#"
      /\ \A k \in h + 1 .. n : buf[k] \in IS_URL_CHAR \cup {"?", "#"}
  BY DEF Parted
<1>6. /\ {"UF_QUERY", "UF_FRAGMENT"} \subseteq UF
      /\ FieldOf("s_req_query_string") = "UF_QUERY"
      /\ FieldOf("s_req_fragment") = "UF_FRAGMENT"
      /\ FieldOf("s_req_fragment_start") = "UF_MAX"
      /\ {"s_req_query_string_start", "s_req_query_string"} \subseteq Query
      /\ {"s_req_fragment_start", "s_req_fragment"} \subseteq Fragment
  BY FieldsOfStates DEF UF, Query, Fragment
<1>7. Filled(f[y], f[z], y, z, "s_req_query_string", "UF_QUERY", y)
  <2>1. Leads(buf, f[y].s, y, z, "s_req_query_string")
    <3>1. \A k \in y + 1 .. z : At(buf, k) \in IS_URL_CHAR \cup {"?"}
      BY <1>5, AtIs
    <3>2. y < z => x < y /\ y + 1 \in y + 1 .. z
      BY <1>5
    <3>3. \A k \in y + 2 .. z : k \in y + 1 .. z
      OBVIOUS
    <3>4. QED
      BY <1>4, <1>6, <3>1, <3>2, <3>3, UrlGoes DEF Leads
  <2>2. Run(f[y].field_data, "UF_QUERY", y, y)
        /\ (f[y].old_uf = "UF_QUERY" <=> y < y) /\ y <= y
    BY <1>4 DEF Runs, Run
  <2>3. QED
    BY <1>2, <1>4, <1>5, <1>6, <2>1, <2>2, FillRun
<1>8. Skipped(f[z], f[h], z, h, "s_req_fragment_start")
  <2>1. Leads(buf, f[z].s, z, h, "s_req_fragment_start")
    <3>1. \A k \in z + 1 .. h : At(buf, k) = "#"
      BY <1>5, AtIs
    <3>2. z < h => z + 1 \in z + 1 .. h
      OBVIOUS
    <3>3. \A k \in z + 2 .. h : k \in z + 1 .. h
      OBVIOUS
    <3>4. z < h => f[z].s \in Query \cup {"s_req_path"}
      BY <1>4, <1>5, <1>6, <1>7 DEF Filled
    <3>5. z < h => parse_url_char(f[z].s, At(buf, z + 1)) = "s_req_fragment_start"
      BY <3>1, <3>2, <3>4, UrlGoes
    <3>6. \A k \in z + 2 .. h :
              parse_url_char("s_req_fragment_start", At(buf, k))
                  = "s_req_fragment_start"
      BY <3>1, <3>3, UrlGoes
    <3>7. QED
      BY <3>5, <3>6 DEF Leads
  <2>2. Sound(f[z])
    BY <1>7 DEF Filled
  <2>3. QED
    BY <1>2, <1>5, <1>6, <2>1, <2>2, SkipRun
<1>9. /\ Sound(f[h]) /\ f[h].field_data = f[z].field_data
      /\ f[h].old_uf = f[z].old_uf /\ (f[h].found_at <=> f[z].found_at)
  BY <1>8 DEF Skipped
<1>10. /\ Runs(f[z].field_data, u, v, w, w, x, y, z, 0, 0)
       /\ f[z].old_uf # "UF_FRAGMENT" /\ (f[z].found_at <=> at)
  BY <1>4, <1>7 DEF Filled, Only, Runs, Run, Missing, UF
<1>11. Filled(f[h], f[n], h, n, "s_req_fragment", "UF_FRAGMENT", h)
  <2>1. Leads(buf, f[h].s, h, n, "s_req_fragment")
    <3>1. \A k \in h + 1 .. n : /\ At(buf, k) = buf[k]
                                /\ At(buf, k) \in IS_URL_CHAR \cup {"?", "#"}
      BY <1>5, AtIs
    <3>2. h < n => /\ h + 1 \in h + 1 .. n /\ At(buf, h + 1) # "#"
                   /\ f[h].s \in Fragment
      BY <1>5, <1>6, <1>8, <3>1 DEF Skipped
    <3>3. \A k \in h + 2 .. n : k \in h + 1 .. n
      OBVIOUS
    <3>4. h < n => parse_url_char(f[h].s, At(buf, h + 1)) = "s_req_fragment"
      BY <3>1, <3>2, UrlGoes
    <3>5. \A k \in h + 2 .. n :
              parse_url_char("s_req_fragment", At(buf, k)) = "s_req_fragment"
      BY <1>6, <3>1, <3>3, UrlGoes
    <3>6. QED
      BY <3>4, <3>5 DEF Leads
  <2>2. Run(f[h].field_data, "UF_FRAGMENT", h, h)
        /\ (f[h].old_uf = "UF_FRAGMENT" <=> h < h) /\ h <= h
    BY <1>9, <1>10 DEF Runs, Run
  <2>3. n <= n
    OBVIOUS
  <2>4. QED
    BY <1>2, <1>5, <1>6, <1>9, <2>1, <2>2, <2>3, FillRun
<1>12. Runs(f[n].field_data, u, v, w, w, x, y, z, h, n)
  BY <1>9, <1>10, <1>11, SMTT(30) DEF Filled, Only, Runs, Run, Missing, UF
<1>13. f[n].s # "s_dead"
  <2>1. f[y].s # "s_dead"
    BY <1>4
  <2>2. QED
    BY <1>7, <1>8, <1>11, <2>1 DEF Filled, Skipped
<1>14. /\ DOMAIN f[n].field_data = UF
       /\ f[n].found_at <=> at
  BY <1>9, <1>10, <1>11 DEF Filled, Sound
<1>15. QED
  BY <1>1, <1>12, <1>13, <1>14 DEF AllRead

-----------------------------------------------------------------------------
(* Where http_parse_host_char goes with the characters of each part.         *)
LEMMA HostGoes ==
    /\ \A s \in {"s_http_userinfo", "s_http_userinfo_start"} :
           /\ http_parse_host_char(s, "@") = "s_http_host_start"
           /\ \A ch \in IS_USERINFO_CHAR :
                  http_parse_host_char(s, ch) = "s_http_userinfo"
    /\ http_parse_host_char("s_http_host_start", "[") = "s_http_host_v6_start"
    /\ \A s \in {"s_http_host_start", "s_http_host"}, ch \in IS_HOST_CHAR :
           http_parse_host_char(s, ch) = "s_http_host"
    /\ \A s \in {"s_http_host_v6_start", "s_http_host_v6"},
          ch \in IS_HEX \cup {":", "."} :
              http_parse_host_char(s, ch) = "s_http_host_v6"
    /\ http_parse_host_char("s_http_host_v6", "]") = "s_http_host_v6_end"
    /\ \A s \in {"s_http_host", "s_http_host_v6_end"} :
           http_parse_host_char(s, ":") = "s_http_host_port_start"
    /\ \A s \in {"s_http_host_port_start", "s_http_host_port"}, ch \in IS_NUM :
           http_parse_host_char(s, ch) = "s_http_host_port"
BY Apart DEF http_parse_host_char

(* The positions of the parts of the server part: the user ends at a, the @  *)
(* at b, the host is between c and d, without brackets, and the port after q.*)
ServerParted(buf, at, six, v, a, b, c, d, e, q, w) ==
    /\ v <= a /\ a <= b /\ b <= c /\ c < d /\ d <= e /\ e <= q /\ q <= w
    /\ IF at THEN b = a + 1 /\ buf[b] = "@" ELSE v = a /\ a = b
    /\ \A k \in v + 1 .. a : buf[k] \in IS_USERINFO_CHAR
    /\ IF six THEN c = b + 1 /\ buf[c] = "[" /\ e = d + 1 /\ buf[e] = "]"
              ELSE c = b /\ e = d
    /\ \A k \in c + 1 .. d :
           buf[k] \in IF six THEN IS_HEX \cup {":", "."} ELSE IS_HOST_CHAR
    /\ (q = e /\ w = e) \/ (q = e + 1 /\ buf[q] = ":" /\ q < w)
    /\ \A k \in q + 1 .. w : buf[k] \in IS_NUM

(* Each character of the server part is a step.                              *)
HostSteps(f, buf, v, w) == \A k \in v + 1 .. w : f[k] = HostStep(buf, f[k - 1], k)

(* From state s, characters i + 1 to j lead to state t and keep it.          *)
HostLeads(buf, s, i, j, t) ==
    /\ i < j => http_parse_host_char(s, At(buf, i + 1)) = t
    /\ \A k \in i + 2 .. j : http_parse_host_char(t, At(buf, k)) = t

(* Characters i + 1 to j go to field uf.                                     *)
HostFilled(was, now, i, j, t, uf) ==
    /\ now.s = IF i = j THEN was.s ELSE t
    /\ i = j => now.field_data = was.field_data
    /\ i < j => Run(now.field_data, uf, i, j)
    /\ DOMAIN now.field_data = UF /\ Only(now.field_data, was.field_data, uf)

(* A delimiter within the server part (http_parser.c:2303-2304).             *)
LEMMA HostSkip ==
    ASSUME NEW buf, NEW f, NEW v \in Nat, NEW w \in Nat, HostSteps(f, buf, v, w),
           NEW k \in v + 1 .. w, NEW t, FieldOf(t) = "UF_MAX",
           http_parse_host_char(f[k - 1].s, At(buf, k)) = t
    PROVE  f[k].s = t /\ f[k].field_data = f[k - 1].field_data
<1>1. f[k] = HostStep(buf, f[k - 1], k)
  BY DEF HostSteps
<1>2. f[k] = [s |-> t, field_data |-> f[k - 1].field_data]
  BY <1>1 DEF HostStep
<1>3. QED
  BY <1>2

(* A character of the user, the host or the port (http_parser.c:2270-2301).  *)
LEMMA HostFillStep ==
    ASSUME NEW buf, NEW was, NEW k \in Nat \ {0}, DOMAIN was.field_data = UF,
           NEW t, t = http_parse_host_char(was.s, At(buf, k)), NEW uf \in UF,
           FieldOf(t) = uf, NEW a \in Nat, a < k,
           a < k - 1 => Run(was.field_data, uf, a, k - 1),
           t = was.s <=> a < k - 1
    PROVE  /\ HostStep(buf, was, k).s = t
           /\ Grown(HostStep(buf, was, k).field_data, was.field_data, uf, a, k)
<1> DEFINE same == t = was.s
           f == was.field_data
           g == Extend(f, uf, k, same)
           next == [s |-> t, field_data |-> g]
<1>1. "UF_MAX" \notin UF
  BY DEF UF
<1>2. HostStep(buf, was, k) = next
  BY <1>1 DEF HostStep
<1>3. next.s = t /\ next.field_data = g
  OBVIOUS
<1>4. Grown(g, f, uf, a, k)
  <2>1. DOMAIN f = UF /\ (same <=> a < k - 1)
        /\ (a < k - 1 => Run(f, uf, a, k - 1))
    OBVIOUS
  <2> HIDE DEF same, f
  <2>2. QED
    BY <2>1, Extended DEF Grown
<1> HIDE DEF next, g
<1>5. QED
  BY <1>2, <1>3, <1>4

(* A whole user, host or port.                                               *)
LEMMA HostFillRun ==
    ASSUME NEW buf, NEW f, NEW v \in Nat, NEW w \in Nat, HostSteps(f, buf, v, w),
           NEW i \in Nat, NEW j \in Nat, v <= i, i <= j, j <= w,
           DOMAIN f[i].field_data = UF,
           NEW t, NEW uf \in UF, FieldOf(t) = uf, f[i].s # t,
           HostLeads(buf, f[i].s, i, j, t)
    PROVE  HostFilled(f[i], f[j], i, j, t, uf)
<1> DEFINE S == {m \in Nat : i + m <= j =>
                                 HostFilled(f[i], f[i + m], i, i + m, t, uf)}
<1>1. 0 \in S
  <2>1. i + 0 = i
    OBVIOUS
  <2>2. QED
    BY <2>1 DEF HostFilled, Only
<1>2. ASSUME NEW m \in Nat, m \in S PROVE m + 1 \in S
  <2> SUFFICES ASSUME i + (m + 1) <= j
               PROVE  HostFilled(f[i], f[i + (m + 1)], i, i + (m + 1), t, uf)
    OBVIOUS
  <2> DEFINE k == i + (m + 1)
  <2>1. /\ k \in v + 1 .. w /\ k \in i + 1 .. j /\ k - 1 = i + m /\ k # i
        /\ k - 1 = i => k = i + 1
        /\ k - 1 # i => k \in i + 2 .. j
        /\ i < j /\ i < k /\ k \in Nat \ {0} /\ k - 1 \in Nat
        /\ k - 1 # i <=> i < k - 1
    OBVIOUS
  <2>2. HostFilled(f[i], f[k - 1], i, k - 1, t, uf)
    BY <1>2, <2>1
  <2> HIDE DEF k
  <2>3. http_parse_host_char(f[k - 1].s, At(buf, k)) = t
    BY <2>1, <2>2 DEF HostFilled, HostLeads
  <2>4. f[k] = HostStep(buf, f[k - 1], k)
    BY <2>1 DEF HostSteps
  <2>5. /\ DOMAIN f[k - 1].field_data = UF
        /\ i < k - 1 => Run(f[k - 1].field_data, uf, i, k - 1)
        /\ t = f[k - 1].s <=> i < k - 1
    BY <2>1, <2>2 DEF HostFilled
  <2>6. f[k].s = t /\ Grown(f[k].field_data, f[k - 1].field_data, uf, i, k)
    BY <2>1, <2>3, <2>4, <2>5, HostFillStep
  <2>7. HostFilled(f[i], f[k], i, k, t, uf)
    BY <2>1, <2>2, <2>6 DEF HostFilled, Only, Grown
  <2>8. QED
    BY <2>7 DEF k
<1>3. Nat \subseteq S
  <2> HIDE DEF S
  <2>1. QED
    BY <1>1, <1>2, Induction
<1>4. j - i \in Nat /\ i + (j - i) = j
  OBVIOUS
<1>5. j - i \in S
  BY <1>3, <1>4
<1>6. QED
  BY <1>4, <1>5

(* What http_parse_host makes of the server part.                            *)
ServerRead(host, f, v, a, c, d, q, w) ==
    /\ host.s \in HostEnds /\ DOMAIN host.field_data = UF
    /\ Run(host.field_data, "UF_USERINFO", v, a)
    /\ Run(host.field_data, "UF_HOST", c, d)
    /\ Run(host.field_data, "UF_PORT", q, w)
    /\ \A uf \in NotHost : host.field_data[uf] = f[uf]

(* The states of http_parse_host, by the position they are reached at.       *)
LEMMA HostByPlace ==
    ASSUME NEW buf, Len(buf) \in Nat, NEW f, NEW found_at,
           NEW v \in Nat, NEW w \in Nat, v < w,
           Run(f, "UF_HOST", v, w)
    PROVE  \E p : /\ p[v] = HostStart(f, found_at)
                  /\ p[w] = http_parse_host(buf, f, found_at)
                  /\ HostSteps(p, buf, v, w)
<1>0. PICK host : HostRuns(host, buf, f, found_at, v, w)
  BY HostFacts
<1>1. /\ host[0] = HostStart(f, found_at)
      /\ \A i \in 1 .. w - v : host[i] = HostStep(buf, host[i - 1], v + i)
      /\ http_parse_host(buf, f, found_at) = host[w - v]
  BY <1>0 DEF HostRuns
<1> DEFINE p == [k \in v .. w |-> host[k - v]]
<1>2. p[v] = host[v - v] /\ p[w] = host[w - v] /\ v - v = 0
  OBVIOUS
<1>3. ASSUME NEW k \in v + 1 .. w PROVE p[k] = HostStep(buf, p[k - 1], k)
  <2>1. /\ k - v \in 1 .. w - v /\ v + (k - v) = k /\ k \in v .. w
        /\ k - 1 \in v .. w /\ (k - 1) - v = (k - v) - 1
    OBVIOUS
  <2>2. p[k] = host[k - v] /\ p[k - 1] = host[(k - v) - 1]
    BY <2>1
  <2>3. host[k - v] = HostStep(buf, host[(k - v) - 1], v + (k - v))
    BY <1>1, <2>1
  <2>4. QED
    BY <2>1, <2>2, <2>3
<1> HIDE DEF p
<1>4. HostSteps(p, buf, v, w)
  BY <1>3 DEF HostSteps
<1>5. QED
  BY <1>1, <1>2, <1>4

(* http_parse_host finds the user, the host and the port of a legal server   *)
(* part, and ends in a state that it accepts (http_parser.c:2251-2323).      *)
LEMMA ReadsServerPart ==
    ASSUME NEW buf, Len(buf) \in Nat, NEW f, DOMAIN f = UF, NEW found_at,
           NEW six, NEW v \in Nat, NEW a \in Nat, NEW b \in Nat, NEW c \in Nat,
           NEW d \in Nat, NEW e \in Nat, NEW q \in Nat, NEW w \in Nat,
           w <= Len(buf), Run(f, "UF_HOST", v, w),
           Missing(f, {"UF_USERINFO", "UF_PORT"}),
           ServerParted(buf, found_at, six, v, a, b, c, d, e, q, w)
    PROVE  ServerRead(http_parse_host(buf, f, found_at), f, v, a, c, d, q, w)
<1>1. /\ v <= a /\ a <= b /\ b <= c /\ c < d /\ d <= e /\ e <= q /\ q <= w
      /\ v < w /\ a <= w /\ b <= w /\ c <= w /\ d <= w /\ e <= w
      /\ v <= b /\ v <= c /\ v <= d /\ v <= e /\ v <= q
  BY DEF ServerParted
<1>2. /\ IF found_at THEN b = a + 1 /\ buf[b] = "@" ELSE v = a /\ a = b
      /\ \A k \in v + 1 .. a : buf[k] \in IS_USERINFO_CHAR
      /\ IF six THEN c = b + 1 /\ buf[c] = "[" /\ e = d + 1 /\ buf[e] = "]"
                ELSE c = b /\ e = d
      /\ \A k \in c + 1 .. d :
             buf[k] \in IF six THEN IS_HEX \cup {":", "."} ELSE IS_HOST_CHAR
      /\ (q = e /\ w = e) \/ (q = e + 1 /\ buf[q] = ":" /\ q < w)
      /\ \A k \in q + 1 .. w : buf[k] \in IS_NUM
  BY DEF ServerParted
<1>3. v < w
  BY <1>1
<1>4. PICK p : /\ p[v] = HostStart(f, found_at)
               /\ p[w] = http_parse_host(buf, f, found_at)
               /\ HostSteps(p, buf, v, w)
  BY <1>3, HostByPlace
<1>5. /\ p[v].s = IF found_at THEN "s_http_userinfo_start" ELSE "s_http_host_start"
      /\ DOMAIN p[v].field_data = UF
      /\ \A uf \in UF \ {"UF_HOST"} : p[v].field_data[uf] = f[uf]
  <2> DEFINE start == [f EXCEPT !["UF_HOST"].len = 0]
  <2>1. DOMAIN start = UF /\ \A uf \in UF \ {"UF_HOST"} : start[uf] = f[uf]
    OBVIOUS
  <2> HIDE DEF start
  <2>2. HostStart(f, found_at) =
            [s |-> IF found_at THEN "s_http_userinfo_start"
                   ELSE "s_http_host_start", field_data |-> start]
    BY DEF HostStart, start
  <2>3. QED
    BY <1>4, <2>1, <2>2
<1>6. /\ {"UF_USERINFO", "UF_HOST", "UF_PORT"} \subseteq UF
      /\ FieldOf("s_http_userinfo") = "UF_USERINFO"
      /\ FieldOf("s_http_host") = "UF_HOST" /\ FieldOf("s_http_host_v6") = "UF_HOST"
      /\ FieldOf("s_http_host_port") = "UF_PORT"
      /\ FieldOf("s_http_host_start") = "UF_MAX"
      /\ FieldOf("s_http_host_v6_start") = "UF_MAX"
      /\ FieldOf("s_http_host_v6_end") = "UF_MAX"
      /\ FieldOf("s_http_host_port_start") = "UF_MAX"
  BY FieldsOfHostStates DEF UF
<1>7. \A k \in v + 1 .. w : At(buf, k) = buf[k]
  BY <1>1, AtIs
<1>8. HostFilled(p[v], p[a], v, a, "s_http_userinfo", "UF_USERINFO")
  <2>1. HostLeads(buf, p[v].s, v, a, "s_http_userinfo")
    <3>1. \A k \in v + 1 .. a : At(buf, k) \in IS_USERINFO_CHAR
      BY <1>1, <1>2, <1>7
    <3>2. v < a => p[v].s = "s_http_userinfo_start" /\ v + 1 \in v + 1 .. a
      BY <1>2, <1>5
    <3>3. \A k \in v + 2 .. a : k \in v + 1 .. a
      OBVIOUS
    <3>4. QED
      BY <3>1, <3>2, <3>3, HostGoes DEF HostLeads
  <2>2. p[v].s # "s_http_userinfo" /\ v <= v
    BY <1>5
  <2>3. QED
    BY <1>1, <1>4, <1>5, <1>6, <2>1, <2>2, HostFillRun
<1>9. /\ p[b].s = "s_http_host_start" /\ p[b].field_data = p[a].field_data
  <2>1. CASE found_at
    <3>1. p[a].s \in {"s_http_userinfo_start", "s_http_userinfo"}
      BY <1>5, <1>8, <2>1 DEF HostFilled
    <3>2. b \in v + 1 .. w /\ b - 1 = a /\ At(buf, b) = "@"
      BY <1>1, <1>2, <1>7, <2>1
    <3>3. http_parse_host_char(p[a].s, At(buf, b)) = "s_http_host_start"
      BY <3>1, <3>2, HostGoes
    <3>4. QED
      BY <1>4, <1>6, <3>2, <3>3, HostSkip
  <2>2. CASE ~found_at
    <3>1. a = v /\ b = a
      BY <1>2, <2>2
    <3>2. QED
      BY <1>5, <2>2, <3>1
  <2>3. QED
    BY <2>1, <2>2
<1>10. /\ p[c].field_data = p[b].field_data
       /\ p[c].s = IF six THEN "s_http_host_v6_start" ELSE "s_http_host_start"
  <2>1. CASE six
    <3>1. c \in v + 1 .. w /\ c - 1 = b /\ At(buf, c) = "["
      BY <1>1, <1>2, <1>7, <2>1
    <3>2. http_parse_host_char(p[b].s, At(buf, c)) = "s_http_host_v6_start"
      BY <1>9, <3>1, HostGoes
    <3>3. QED
      BY <1>4, <1>6, <2>1, <3>1, <3>2, HostSkip
  <2>2. CASE ~six
    BY <1>2, <1>9, <2>2
  <2>3. QED
    BY <2>1, <2>2
<1> DEFINE inside == IF six THEN "s_http_host_v6" ELSE "s_http_host"
<1>11. HostFilled(p[c], p[d], c, d, inside, "UF_HOST")
  <2>1. HostLeads(buf, p[c].s, c, d, inside)
    <3>1. \A k \in c + 1 .. d : At(buf, k) \in IF six THEN IS_HEX \cup {":", "."}
                                               ELSE IS_HOST_CHAR
      BY <1>1, <1>2, <1>7
    <3>2. c + 1 \in c + 1 .. d /\ \A k \in c + 2 .. d : k \in c + 1 .. d
      BY <1>1
    <3>3. http_parse_host_char(p[c].s, At(buf, c + 1)) = inside
      BY <1>10, <3>1, <3>2, HostGoes
    <3>4. \A k \in c + 2 .. d : http_parse_host_char(inside, At(buf, k)) = inside
      BY <3>1, <3>2, HostGoes
    <3>5. QED
      BY <3>3, <3>4 DEF HostLeads
  <2>2. p[c].s # inside /\ FieldOf(inside) = "UF_HOST"
    BY <1>6, <1>10
  <2>3. DOMAIN p[c].field_data = UF
    BY <1>8, <1>9, <1>10 DEF HostFilled
  <2> HIDE DEF inside
  <2>4. c <= d
    BY <1>1
  <2>5. QED
    BY <1>1, <1>4, <1>6, <2>1, <2>2, <2>3, <2>4, HostFillRun
<1>12. p[d].s = inside
  BY <1>1, <1>11 DEF HostFilled
<1>13. /\ p[e].field_data = p[d].field_data
       /\ p[e].s = IF six THEN "s_http_host_v6_end" ELSE "s_http_host"
  <2>1. CASE six
    <3>1. e \in v + 1 .. w /\ e - 1 = d /\ At(buf, e) = "]"
      BY <1>1, <1>2, <1>7, <2>1
    <3>2. http_parse_host_char(p[d].s, At(buf, e)) = "s_http_host_v6_end"
      BY <1>12, <2>1, <3>1, HostGoes
    <3>3. QED
      BY <1>4, <1>6, <2>1, <3>1, <3>2, HostSkip
  <2>2. CASE ~six
    BY <1>2, <1>12, <2>2
  <2>3. QED
    BY <2>1, <2>2
<1>14. /\ p[q].field_data = p[e].field_data
       /\ p[q].s = IF e < q THEN "s_http_host_port_start" ELSE p[e].s
  <2>1. CASE e < q
    <3>1. q \in v + 1 .. w /\ q - 1 = e /\ At(buf, q) = ":"
      BY <1>1, <1>2, <1>7, <2>1
    <3>2. http_parse_host_char(p[e].s, At(buf, q)) = "s_http_host_port_start"
      BY <1>13, <3>1, HostGoes
    <3>3. QED
      BY <1>4, <1>6, <2>1, <3>1, <3>2, HostSkip
  <2>2. CASE ~(e < q)
    <3>1. e = q
      BY <1>1, <2>2
    <3>2. QED
      BY <2>2, <3>1
  <2>3. QED
    BY <2>1, <2>2
<1>15. HostFilled(p[q], p[w], q, w, "s_http_host_port", "UF_PORT")
  <2>1. HostLeads(buf, p[q].s, q, w, "s_http_host_port")
    <3>1. \A k \in q + 1 .. w : At(buf, k) \in IS_NUM
      BY <1>1, <1>2, <1>7
    <3>2. q < w => e < q /\ q + 1 \in q + 1 .. w
      BY <1>2
    <3>3. \A k \in q + 2 .. w : k \in q + 1 .. w
      OBVIOUS
    <3>4. QED
      BY <1>14, <3>1, <3>2, <3>3, HostGoes DEF HostLeads
  <2>2. p[q].s # "s_http_host_port"
    BY <1>13, <1>14
  <2>3. DOMAIN p[q].field_data = UF
    BY <1>11, <1>13, <1>14 DEF HostFilled
  <2>4. w <= w
    OBVIOUS
  <2>5. QED
    BY <1>1, <1>4, <1>6, <2>1, <2>2, <2>3, <2>4, HostFillRun
<1>16. p[w].s \in HostEnds
  <2>1. CASE q = w
    <3>1. ~(e < q)
      BY <1>2, <2>1
    <3>2. p[w].s = p[e].s
      BY <1>14, <2>1, <3>1
    <3>3. QED
      BY <1>13, <3>2 DEF HostEnds
  <2>2. CASE q # w
    BY <1>15, <2>2 DEF HostFilled, HostEnds
  <2>3. QED
    BY <2>1, <2>2
<1> DEFINE g == p[w].field_data
<1>17. Run(g, "UF_USERINFO", v, a)
  <2>1. Run(p[a].field_data, "UF_USERINFO", v, a)
    <3>1. CASE v = a
      <4>1. p[a].field_data["UF_USERINFO"] = f["UF_USERINFO"]
        BY <1>5, <3>1 DEF UF
      <4>2. QED
        BY <3>1, <4>1 DEF Missing, Run
    <3>2. CASE v < a
      BY <1>8, <3>2 DEF HostFilled
    <3>3. QED
      BY <1>1, <3>1, <3>2
  <2>2. p[d].field_data["UF_USERINFO"] = p[a].field_data["UF_USERINFO"]
    BY <1>9, <1>10, <1>11 DEF HostFilled, Only, UF
  <2>3. g["UF_USERINFO"] = p[d].field_data["UF_USERINFO"]
    BY <1>13, <1>14, <1>15 DEF HostFilled, Only, UF
  <2>4. QED
    BY <2>1, <2>2, <2>3 DEF Run
<1>18. Run(g, "UF_HOST", c, d)
  <2>1. Run(p[d].field_data, "UF_HOST", c, d)
    BY <1>1, <1>11 DEF HostFilled
  <2>2. g["UF_HOST"] = p[d].field_data["UF_HOST"]
    BY <1>13, <1>14, <1>15 DEF HostFilled, Only, UF
  <2>3. QED
    BY <2>1, <2>2 DEF Run
<1>19. Run(g, "UF_PORT", q, w)
  <2>1. CASE q = w
    <3>1. g["UF_PORT"] = p[d].field_data["UF_PORT"]
      BY <1>13, <1>14, <1>15, <2>1 DEF HostFilled
    <3>2. p[d].field_data["UF_PORT"] = p[v].field_data["UF_PORT"]
      BY <1>8, <1>9, <1>10, <1>11 DEF HostFilled, Only, UF
    <3>3. p[v].field_data["UF_PORT"] = NoField
      BY <1>5 DEF Missing, UF
    <3>4. QED
      BY <2>1, <3>1, <3>2, <3>3 DEF Run
  <2>2. CASE q < w
    BY <1>15, <2>2 DEF HostFilled
  <2>3. QED
    BY <1>1, <2>1, <2>2
<1>20. \A uf \in NotHost : g[uf] = f[uf]
  <2>1. NotHost \subseteq UF \ {"UF_USERINFO", "UF_HOST", "UF_PORT"}
    BY DEF NotHost
  <2>2. QED
    BY <1>5, <1>8, <1>9, <1>10, <1>11, <1>13, <1>14, <1>15, <2>1
    DEF HostFilled, Only
<1>21. DOMAIN g = UF
  BY <1>15 DEF HostFilled
<1>22. QED
  BY <1>4, <1>16, <1>17, <1>18, <1>19, <1>20, <1>21 DEF ServerRead

-----------------------------------------------------------------------------
(* The characters that the fields and the delimiters are made of.            *)
Legible == IS_ALPHA \cup IS_USERINFO_CHAR \cup IS_HEX \cup IS_URL_CHAR
           \cup {":", "/", "@", "[", "]", "?", "#", "."}

(* Where the parts of a text that is put together come to stand.             *)
Begins(buf, p) == Len(p) <= Len(buf) /\ \A k \in 1 .. Len(p) : buf[k] = p[k]
Stands(buf, t, i, j) ==
    /\ j = i + Len(t) /\ j <= Len(buf)
    /\ \A k \in 1 .. Len(t) : buf[i + k] = t[k]

(* Of two parts the second stands where the first ends.                      *)
LEMMA Unglue ==
    ASSUME NEW buf, NEW p \in Seq(Legible), NEW t \in Seq(Legible),
           Len(buf) \in Nat, Begins(buf, p \o t)
    PROVE  Begins(buf, p) /\ Stands(buf, t, Len(p), Len(p \o t))
<1>1. /\ Len(p \o t) = Len(p) + Len(t)
      /\ \A k \in 1 .. Len(p) : (p \o t)[k] = p[k]
      /\ \A k \in 1 .. Len(t) : (p \o t)[Len(p) + k] = t[k]
  OBVIOUS
<1>2. Len(p) \in Nat /\ Len(t) \in Nat
  OBVIOUS
<1>3. \A k \in 1 .. Len(t) : Len(p) + k \in 1 .. Len(p \o t)
  BY <1>1, <1>2
<1>4. \A k \in 1 .. Len(p) : k \in 1 .. Len(p \o t)
  BY <1>1, <1>2
<1>5. /\ Len(p \o t) <= Len(buf)
      /\ \A k \in 1 .. Len(p \o t) : buf[k] = (p \o t)[k]
  BY DEF Begins
<1>6. Begins(buf, p)
  <2>1. Len(p) <= Len(buf)
    BY <1>1, <1>2, <1>5
  <2>2. QED
    BY <1>1, <1>4, <1>5, <2>1 DEF Begins
<1>7. \A k \in 1 .. Len(t) : buf[Len(p) + k] = t[k]
  BY <1>1, <1>3, <1>5
<1>8. QED
  BY <1>1, <1>5, <1>6, <1>7 DEF Stands

(* What is known of a part by what it is made of.                            *)
LEMMA StandsFacts ==
    ASSUME NEW buf \in Seq(Legible), NEW t \in Seq(Legible), NEW i \in Nat,
           NEW j, Stands(buf, t, i, j)
    PROVE  /\ j \in Nat /\ i <= j /\ j <= Len(buf) /\ (i = j <=> t = <<>>)
           /\ \A S : t \in Seq(S) => \A k \in i + 1 .. j : buf[k] \in S
           /\ i < j => buf[i + 1] = t[1]
           /\ Between(buf, i, j) = t
<1>1. /\ Len(t) \in Nat /\ j = i + Len(t) /\ j <= Len(buf)
      /\ \A k \in 1 .. Len(t) : buf[i + k] = t[k]
  BY DEF Stands
<1>2. t = <<>> <=> Len(t) = 0
  OBVIOUS
<1>3. ASSUME NEW S, t \in Seq(S), NEW k \in i + 1 .. j
      PROVE  buf[k] \in S
  <2>1. k - i \in 1 .. Len(t) /\ i + (k - i) = k
    BY <1>1
  <2>2. t[k - i] \in S
    BY <1>3, <2>1
  <2>3. buf[i + (k - i)] = t[k - i]
    BY <1>1, <2>1
  <2>4. QED
    BY <2>1, <2>2, <2>3
<1>4. i < j => buf[i + 1] = t[1]
  <2>1. i < j => 1 \in 1 .. Len(t)
    BY <1>1
  <2>2. QED
    BY <1>1, <2>1
<1>5. Between(buf, i, j) = t
  <2> DEFINE part == SubSeq(buf, i + 1, j)
  <2>1. /\ part \in Seq(Legible) /\ Len(part) = Len(t)
        /\ \A k \in 1 .. Len(t) : part[k] = buf[i + k]
    BY <1>1
  <2> HIDE DEF part
  <2>2. part = t
    BY <1>1, <2>1
  <2>3. QED
    BY <2>2 DEF Between, part
<1>6. QED
  BY <1>1, <1>2, <1>3, <1>4, <1>5

(* A delimiter of one character, if there is one.                            *)
Delimits(t, ch) == t = <<ch>> \/ t = <<>>

(* Where it stands, and what is there.                                       *)
LEMMA OneStands ==
    ASSUME NEW buf, NEW t, NEW ch, Delimits(t, ch), NEW i \in Nat, NEW j,
           Stands(buf, t, i, j)
    PROVE  /\ t = <<>> => j = i
           /\ t = <<ch>> => j = i + 1 /\ buf[j] = ch
<1>1. /\ j = i + Len(t)
      /\ \A k \in 1 .. Len(t) : buf[i + k] = t[k]
  BY DEF Stands
<1>2. CASE t = <<>>
  <2>1. Len(t) = 0 /\ t # <<ch>>
    BY <1>2
  <2>2. QED
    BY <1>1, <1>2, <2>1
<1>3. CASE t = <<ch>>
  <2>1. Len(t) = 1 /\ t[1] = ch /\ t # <<>>
    BY <1>3
  <2>2. QED
    BY <1>1, <1>3, <2>1
<1>4. QED
  BY <1>2, <1>3 DEF Delimits

(* The same of the :// after a schema.                                       *)
LEMMA SchemaStands ==
    ASSUME NEW buf, NEW i \in Nat, NEW j,
           Stands(buf, <<":", "/", "/">>, i, j)
    PROVE  /\ j = i + 3 /\ buf[i + 1] = ":"
           /\ buf[i + 2] = "/" /\ buf[i + 3] = "/"
<1> DEFINE t == <<":", "/", "/">>
<1>1. Len(t) = 3 /\ t[1] = ":" /\ t[2] = "/" /\ t[3] = "/"
  OBVIOUS
<1>2. Stands(buf, t, i, j)
  OBVIOUS
<1> HIDE DEF t
<1>3. QED
  BY <1>1, <1>2 DEF Stands

Laid(buf, F, D, u, v, a, b, c, d, e, q, w, x, y, z, h, n) ==
    /\ Stands(buf, F["UF_SCHEMA"], 0, u)
    /\ Stands(buf, IF F["UF_SCHEMA"] # <<>> THEN <<":", "/", "/">> ELSE <<>>, u, v)
    /\ Stands(buf, F["UF_USERINFO"], v, a)
    /\ Stands(buf, IF D.at THEN <<"@">> ELSE <<>>, a, b)
    /\ Stands(buf, IF D.v6 THEN <<"[">> ELSE <<>>, b, c)
    /\ Stands(buf, F["UF_HOST"], c, d)
    /\ Stands(buf, IF D.v6 THEN <<"]">> ELSE <<>>, d, e)
    /\ Stands(buf, IF F["UF_PORT"] # <<>> THEN <<":">> ELSE <<>>, e, q)
    /\ Stands(buf, F["UF_PORT"], q, w)
    /\ Stands(buf, F["UF_PATH"], w, x)
    /\ Stands(buf, IF D.question THEN <<"?">> ELSE <<>>, x, y)
    /\ Stands(buf, F["UF_QUERY"], y, z)
    /\ Stands(buf, [i \in 1 .. D.hashes |-> "#"], z, h)
    /\ Stands(buf, F["UF_FRAGMENT"], h, n)

(* The fields are legible.                                                   *)
LEMMA LegalLegible ==
    ASSUME NEW F, NEW v6, LegalCharacters(F, v6)
    PROVE  \A uf \in UF : F[uf] \in Seq(Legible)
<1>1. \A S : S \subseteq Legible => \A t \in Seq(S) : t \in Seq(Legible)
  OBVIOUS
<1>2. /\ IS_ALPHA \subseteq Legible /\ IS_USERINFO_CHAR \subseteq Legible
      /\ IS_HEX \cup {":", "."} \subseteq Legible /\ IS_HOST_CHAR \subseteq Legible
      /\ IS_NUM \subseteq Legible /\ IS_URL_CHAR \subseteq Legible
      /\ IS_URL_CHAR \cup {"?"} \subseteq Legible
      /\ IS_URL_CHAR \cup {"?", "#"} \subseteq Legible
  BY Apart DEF Legible
<1>3. /\ F["UF_SCHEMA"] \in Seq(IS_ALPHA)
      /\ F["UF_USERINFO"] \in Seq(IS_USERINFO_CHAR)
      /\ \/ F["UF_HOST"] \in Seq(IS_HEX \cup {":", "."})
         \/ F["UF_HOST"] \in Seq(IS_HOST_CHAR)
      /\ F["UF_PORT"] \in Seq(IS_NUM) /\ F["UF_PATH"] \in Seq(IS_URL_CHAR)
      /\ F["UF_QUERY"] \in Seq(IS_URL_CHAR \cup {"?"})
      /\ F["UF_FRAGMENT"] \in Seq(IS_URL_CHAR \cup {"?", "#"})
  BY DEF LegalCharacters
<1>4. /\ F["UF_SCHEMA"] \in Seq(Legible) /\ F["UF_USERINFO"] \in Seq(Legible)
      /\ F["UF_HOST"] \in Seq(Legible) /\ F["UF_PORT"] \in Seq(Legible)
      /\ F["UF_PATH"] \in Seq(Legible) /\ F["UF_QUERY"] \in Seq(Legible)
      /\ F["UF_FRAGMENT"] \in Seq(Legible)
  BY <1>1, <1>2, <1>3
<1>5. QED
  BY <1>4 DEF UF

(* The parts of UrlOf stand one after the other.                             *)
LEMMA LaidOut ==
    ASSUME NEW F, NEW D \in Delimiters(Nat), LegalCharacters(F, D.v6),
           NEW buf, buf = UrlOf(F, D)
    PROVE  /\ buf \in Seq(Legible)
           /\ \E u, v, a, b, c, d, e, q, w, x, y, z, h \in Nat :
                  Laid(buf, F, D, u, v, a, b, c, d, e, q, w, x, y, z, h, Len(buf))
<1> DEFINE Given(condition, text) == IF condition THEN text ELSE <<>>
           t1 == F["UF_SCHEMA"]
           t2 == IF F["UF_SCHEMA"] # <<>> THEN <<":", "/", "/">> ELSE <<>>
           t3 == F["UF_USERINFO"]
           t4 == IF D.at THEN <<"@">> ELSE <<>>
           t5 == IF D.v6 THEN <<"[">> ELSE <<>>
           t6 == F["UF_HOST"]
           t7 == IF D.v6 THEN <<"]">> ELSE <<>>
           t8 == IF F["UF_PORT"] # <<>> THEN <<":">> ELSE <<>>
           t9 == F["UF_PORT"]
           t10 == F["UF_PATH"]
           t11 == IF D.question THEN <<"?">> ELSE <<>>
           t12 == F["UF_QUERY"]
           t13 == [i \in 1 .. D.hashes |-> "#"]
           t14 == F["UF_FRAGMENT"]
<1>1. /\ t1 \in Seq(Legible) /\ t3 \in Seq(Legible) /\ t6 \in Seq(Legible)
      /\ t9 \in Seq(Legible) /\ t10 \in Seq(Legible)
      /\ t12 \in Seq(Legible) /\ t14 \in Seq(Legible)
  BY LegalLegible DEF UF
<1>2. {":", "/", "@", "[", "]", "?", "#"} \subseteq Legible
  BY DEF Legible
<1>3. /\ t2 \in Seq(Legible) /\ t4 \in Seq(Legible) /\ t5 \in Seq(Legible)
      /\ t7 \in Seq(Legible) /\ t8 \in Seq(Legible) /\ t11 \in Seq(Legible)
  BY <1>2
<1>4. t13 \in Seq(Legible)
  <2>1. D.hashes \in Nat
    BY DEF Delimiters
  <2>2. QED
    BY <1>2, <2>1
<1>5. buf = t1 \o t2 \o t3 \o t4 \o t5 \o t6 \o t7 \o t8 \o t9 \o t10
            \o t11 \o t12 \o t13 \o t14
  BY DEF UrlOf
<1> DEFINE p1 == t1
           p2 == p1 \o t2
           p3 == p2 \o t3
           p4 == p3 \o t4
           p5 == p4 \o t5
           p6 == p5 \o t6
           p7 == p6 \o t7
           p8 == p7 \o t8
           p9 == p8 \o t9
           p10 == p9 \o t10
           p11 == p10 \o t11
           p12 == p11 \o t12
           p13 == p12 \o t13
           p14 == p13 \o t14
<1>6. buf = p14
  BY <1>5
<1> HIDE DEF t1, t2, t3, t4, t5, t6, t7, t8, t9, t10, t11, t12, t13, t14
<1>7. /\ p1 \in Seq(Legible) /\ p2 \in Seq(Legible) /\ p3 \in Seq(Legible)
      /\ p4 \in Seq(Legible) /\ p5 \in Seq(Legible) /\ p6 \in Seq(Legible)
      /\ p7 \in Seq(Legible)
  <2>1. \A s, t \in Seq(Legible) : s \o t \in Seq(Legible)
    OBVIOUS
  <2>2. p1 \in Seq(Legible)
    BY <1>1
  <2> HIDE DEF p1
  <2>3. p2 \in Seq(Legible)
    BY <1>3, <2>1, <2>2
  <2> HIDE DEF p2
  <2>4. p3 \in Seq(Legible)
    BY <1>1, <2>1, <2>3
  <2> HIDE DEF p3
  <2>5. p4 \in Seq(Legible)
    BY <1>3, <2>1, <2>4
  <2> HIDE DEF p4
  <2>6. p5 \in Seq(Legible)
    BY <1>3, <2>1, <2>5
  <2> HIDE DEF p5
  <2>7. p6 \in Seq(Legible)
    BY <1>1, <2>1, <2>6
  <2> HIDE DEF p6
  <2>8. p7 \in Seq(Legible)
    BY <1>3, <2>1, <2>7
  <2>9. QED
    BY <2>2, <2>3, <2>4, <2>5, <2>6, <2>7, <2>8
<1> HIDE DEF p1, p2, p3, p4, p5, p6, p7
<1>8. /\ p8 \in Seq(Legible) /\ p9 \in Seq(Legible) /\ p10 \in Seq(Legible)
      /\ p11 \in Seq(Legible) /\ p12 \in Seq(Legible)
      /\ p13 \in Seq(Legible) /\ p14 \in Seq(Legible)
  <2>1. \A s, t \in Seq(Legible) : s \o t \in Seq(Legible)
    OBVIOUS
  <2>2. p8 \in Seq(Legible)
    BY <1>3, <1>7, <2>1
  <2> HIDE DEF p8
  <2>3. p9 \in Seq(Legible)
    BY <1>1, <2>1, <2>2
  <2> HIDE DEF p9
  <2>4. p10 \in Seq(Legible)
    BY <1>1, <2>1, <2>3
  <2> HIDE DEF p10
  <2>5. p11 \in Seq(Legible)
    BY <1>3, <2>1, <2>4
  <2> HIDE DEF p11
  <2>6. p12 \in Seq(Legible)
    BY <1>1, <2>1, <2>5
  <2> HIDE DEF p12
  <2>7. p13 \in Seq(Legible)
    BY <1>4, <2>1, <2>6
  <2> HIDE DEF p13
  <2>8. p14 \in Seq(Legible)
    BY <1>1, <2>1, <2>7
  <2>9. QED
    BY <2>2, <2>3, <2>4, <2>5, <2>6, <2>7, <2>8
<1>9. buf \in Seq(Legible) /\ Len(buf) \in Nat /\ Begins(buf, p14)
  BY <1>6, <1>8 DEF Begins
<1>10. Begins(buf, p13) /\ Stands(buf, t14, Len(p13), Len(p14))
  <2> HIDE DEF p13
  <2>1. QED
    BY <1>1, <1>8, <1>9, Unglue
<1> HIDE DEF p14
<1>11. Begins(buf, p12) /\ Stands(buf, t13, Len(p12), Len(p13))
  <2> HIDE DEF p12
  <2>1. QED
    BY <1>4, <1>8, <1>9, <1>10, Unglue
<1> HIDE DEF p13
<1>12. Begins(buf, p11) /\ Stands(buf, t12, Len(p11), Len(p12))
  <2> HIDE DEF p11
  <2>1. QED
    BY <1>1, <1>8, <1>9, <1>11, Unglue
<1> HIDE DEF p12
<1>13. Begins(buf, p10) /\ Stands(buf, t11, Len(p10), Len(p11))
  <2> HIDE DEF p10
  <2>1. QED
    BY <1>3, <1>8, <1>9, <1>12, Unglue
<1> HIDE DEF p11
<1>14. Begins(buf, p9) /\ Stands(buf, t10, Len(p9), Len(p10))
  <2> HIDE DEF p9
  <2>1. QED
    BY <1>1, <1>8, <1>9, <1>13, Unglue
<1> HIDE DEF p10
<1>15. Begins(buf, p8) /\ Stands(buf, t9, Len(p8), Len(p9))
  <2> HIDE DEF p8
  <2>1. QED
    BY <1>1, <1>8, <1>9, <1>14, Unglue
<1> HIDE DEF p9
<1>16. Begins(buf, p7) /\ Stands(buf, t8, Len(p7), Len(p8))
  BY <1>3, <1>7, <1>9, <1>15, Unglue
<1> HIDE DEF p8
<1>17. Begins(buf, p6) /\ Stands(buf, t7, Len(p6), Len(p7))
  BY <1>3, <1>7, <1>9, <1>16, Unglue DEF p7
<1>18. Begins(buf, p5) /\ Stands(buf, t6, Len(p5), Len(p6))
  BY <1>1, <1>7, <1>9, <1>17, Unglue DEF p6
<1>19. Begins(buf, p4) /\ Stands(buf, t5, Len(p4), Len(p5))
  BY <1>3, <1>7, <1>9, <1>18, Unglue DEF p5
<1>20. Begins(buf, p3) /\ Stands(buf, t4, Len(p3), Len(p4))
  BY <1>3, <1>7, <1>9, <1>19, Unglue DEF p4
<1>21. Begins(buf, p2) /\ Stands(buf, t3, Len(p2), Len(p3))
  BY <1>1, <1>7, <1>9, <1>20, Unglue DEF p3
<1>22. Begins(buf, p1) /\ Stands(buf, t2, Len(p1), Len(p2))
  BY <1>3, <1>7, <1>9, <1>21, Unglue DEF p2
<1>23. Stands(buf, t1, 0, Len(p1))
  <2>1. Len(t1) \in Nat /\ Len(p1) = 0 + Len(t1) /\ p1 = t1
    BY <1>1 DEF p1
  <2>2. \A k \in 1 .. Len(t1) : 0 + k = k
    BY <2>1
  <2>3. QED
    BY <1>22, <2>1, <2>2 DEF Begins, Stands
<1>24. /\ Len(p1) \in Nat /\ Len(p2) \in Nat /\ Len(p3) \in Nat
       /\ Len(p4) \in Nat /\ Len(p5) \in Nat /\ Len(p6) \in Nat
       /\ Len(p7) \in Nat /\ Len(p8) \in Nat /\ Len(p9) \in Nat
       /\ Len(p10) \in Nat /\ Len(p11) \in Nat /\ Len(p12) \in Nat
       /\ Len(p13) \in Nat
  BY <1>7, <1>8
<1>25. Laid(buf, F, D, Len(p1), Len(p2), Len(p3), Len(p4), Len(p5), Len(p6),
            Len(p7), Len(p8), Len(p9), Len(p10), Len(p11), Len(p12), Len(p13),
            Len(buf))
  BY <1>6, <1>10, <1>11, <1>12, <1>13, <1>14, <1>15, <1>16, <1>17, <1>18,
     <1>19, <1>20, <1>21, <1>22, <1>23
  DEF Laid, t1, t2, t3, t4, t5, t6, t7, t8, t9, t10, t11, t12, t13, t14
<1>26. QED
  BY <1>9, <1>24, <1>25

(* The parts stand as the automata want them.                                *)
WellLaid(buf, F, D, connect, u, v, a, b, c, d, e, q, w, x, y, z, h, n) ==
    /\ Parted(buf, connect, D.at, u, v, a, b, w, x, y, z, h, n)
    /\ F["UF_HOST"] # <<>> =>
           ServerParted(buf, D.at, D.v6, v, a, b, c, d, e, q, w)
    /\ F["UF_HOST"] = <<>> => /\ u = 0 /\ v = 0 /\ a = 0 /\ b = 0 /\ c = 0
                              /\ d = 0 /\ e = 0 /\ q = 0 /\ w = 0

(* The parts of legal fields stand so that the automata go through them.     *)
LEMMA LaidParted ==
    ASSUME NEW F, NEW D \in Delimiters(Nat), NEW connect, Legal(F, D, connect),
           NEW buf \in Seq(Legible), NEW n, n = Len(buf),
           NEW u \in Nat, NEW v \in Nat, NEW a \in Nat, NEW b \in Nat,
           NEW c \in Nat, NEW d \in Nat, NEW e \in Nat, NEW q \in Nat,
           NEW w \in Nat, NEW x \in Nat, NEW y \in Nat, NEW z \in Nat,
           NEW h \in Nat,
           Laid(buf, F, D, u, v, a, b, c, d, e, q, w, x, y, z, h, n)
    PROVE  WellLaid(buf, F, D, connect, u, v, a, b, c, d, e, q, w, x, y, z, h, n)
<1> DEFINE t2 == IF F["UF_SCHEMA"] # <<>> THEN <<":", "/", "/">> ELSE <<>>
           t4 == IF D.at THEN <<"@">> ELSE <<>>
           t5 == IF D.v6 THEN <<"[">> ELSE <<>>
           t7 == IF D.v6 THEN <<"]">> ELSE <<>>
           t8 == IF F["UF_PORT"] # <<>> THEN <<":">> ELSE <<>>
           t11 == IF D.question THEN <<"?">> ELSE <<>>
           t13 == [i \in 1 .. D.hashes |-> "#"]
           Inside(S, i, j) == \A k \in i + 1 .. j : buf[k] \in S
           Host == IF D.v6 THEN IS_HEX \cup {":", "."} ELSE IS_HOST_CHAR
<1>1. D.hashes \in Nat
  BY DEF Delimiters
<1>2. /\ F["UF_SCHEMA"] \in Seq(IS_ALPHA)
      /\ F["UF_USERINFO"] \in Seq(IS_USERINFO_CHAR)
      /\ F["UF_HOST"] \in Seq(Host)
      /\ F["UF_PORT"] \in Seq(IS_NUM)
      /\ F["UF_PATH"] \in Seq(IS_URL_CHAR)
      /\ F["UF_QUERY"] \in Seq(IS_URL_CHAR \cup {"?"})
      /\ F["UF_FRAGMENT"] \in Seq(IS_URL_CHAR \cup {"?", "#"})
  BY DEF Legal, LegalCharacters
<1>3. /\ F["UF_USERINFO"] # <<>> => D.at
      /\ F["UF_QUERY"] # <<>> => D.question
      /\ F["UF_FRAGMENT"] # <<>> => D.hashes # 0 /\ F["UF_FRAGMENT"][1] # "#"
      /\ D.hashes # 0 => D.question \/ F["UF_PATH"] # <<>>
      /\ D.question => F["UF_HOST"] # <<>> \/ F["UF_PATH"] # <<>>
      /\ D.at \/ D.v6 \/ F["UF_PORT"] # <<>> => F["UF_HOST"] # <<>>
      /\ F["UF_SCHEMA"] # <<>> <=> F["UF_HOST"] # <<>> /\ ~connect
      /\ F["UF_PATH"] # <<>> =>
             F["UF_PATH"][1] \in IF F["UF_HOST"] # <<>> THEN {"/"} ELSE {"/", "*"}
      /\ connect => F["UF_HOST"] # <<>> /\ F["UF_PATH"] = <<>>
  <2> DEFINE given == {uf \in UF : F[uf] # <<>>}
  <2>1. \A uf \in UF : uf \in given <=> F[uf] # <<>>
    OBVIOUS
  <2>2. /\ "UF_USERINFO" \in given => D.at
        /\ "UF_QUERY" \in given => D.question
        /\ "UF_FRAGMENT" \in given => D.hashes # 0 /\ F["UF_FRAGMENT"][1] # "#"
        /\ D.hashes # 0 => D.question \/ "UF_PATH" \in given
        /\ D.question => {"UF_HOST", "UF_PATH"} \cap given # {}
        /\ D.at \/ D.v6 \/ "UF_PORT" \in given => "UF_HOST" \in given
        /\ "UF_SCHEMA" \in given <=> "UF_HOST" \in given /\ ~connect
        /\ "UF_PATH" \in given =>
               F["UF_PATH"][1] \in IF "UF_HOST" \in given THEN {"/"}
                                  ELSE {"/", "*"}
        /\ connect => given = {"UF_HOST", "UF_PORT"}
    BY DEF Legal, LegalOrder
  <2> HIDE DEF given
  <2>3. /\ "UF_SCHEMA" \in UF /\ "UF_USERINFO" \in UF /\ "UF_HOST" \in UF
        /\ "UF_PORT" \in UF /\ "UF_PATH" \in UF /\ "UF_QUERY" \in UF
        /\ "UF_FRAGMENT" \in UF
    BY DEF UF
  <2>4. QED
    BY <2>1, <2>2, <2>3
<1>4. /\ Stands(buf, F["UF_SCHEMA"], 0, u) /\ Stands(buf, t2, u, v)
      /\ Stands(buf, F["UF_USERINFO"], v, a) /\ Stands(buf, t4, a, b)
      /\ Stands(buf, t5, b, c) /\ Stands(buf, F["UF_HOST"], c, d)
      /\ Stands(buf, t7, d, e) /\ Stands(buf, t8, e, q)
      /\ Stands(buf, F["UF_PORT"], q, w) /\ Stands(buf, F["UF_PATH"], w, x)
      /\ Stands(buf, t11, x, y) /\ Stands(buf, F["UF_QUERY"], y, z)
      /\ Stands(buf, t13, z, h) /\ Stands(buf, F["UF_FRAGMENT"], h, n)
  BY DEF Laid
<1> DEFINE Is(S, t, i, j) == /\ i <= j /\ (i = j <=> t = <<>>)
                             /\ Inside(S, i, j) /\ (i < j => buf[i + 1] = t[1])
<1>5. ASSUME NEW S, S \subseteq Legible, NEW t \in Seq(S), NEW i \in Nat,
             NEW j, Stands(buf, t, i, j)
      PROVE  Is(S, t, i, j)
  <2>1. t \in Seq(Legible)
    BY <1>5
  <2>2. /\ i <= j /\ (i = j <=> t = <<>>)
        /\ i < j => buf[i + 1] = t[1]
    BY <1>5, <2>1, StandsFacts, SMTT(30)
  <2>3. \A k \in i + 1 .. j : buf[k] \in S
    <3>1. \A T : t \in Seq(T) => \A k \in i + 1 .. j : buf[k] \in T
      BY <1>5, <2>1, StandsFacts
    <3>2. QED
      BY <3>1
  <2>4. QED
    BY <2>2, <2>3
<1>6. /\ IS_ALPHA \subseteq Legible /\ IS_USERINFO_CHAR \subseteq Legible
      /\ Host \subseteq Legible
      /\ IS_NUM \subseteq Legible /\ IS_URL_CHAR \subseteq Legible
      /\ IS_URL_CHAR \cup {"?"} \subseteq Legible
      /\ IS_URL_CHAR \cup {"?", "#"} \subseteq Legible
  BY Apart DEF Legible
<1> HIDE DEF Inside, Host, Is
<1>51. /\ Is(IS_ALPHA, F["UF_SCHEMA"], 0, u)
       /\ Is(IS_USERINFO_CHAR, F["UF_USERINFO"], v, a)
       /\ Is(Host, F["UF_HOST"], c, d) /\ Is(IS_NUM, F["UF_PORT"], q, w)
       /\ Is(IS_URL_CHAR, F["UF_PATH"], w, x)
       /\ Is(IS_URL_CHAR \cup {"?"}, F["UF_QUERY"], y, z)
       /\ Is(IS_URL_CHAR \cup {"?", "#"}, F["UF_FRAGMENT"], h, n)
  BY <1>2, <1>4, <1>5, <1>6
<1>7. /\ 0 <= u /\ (0 = u <=> F["UF_SCHEMA"] = <<>>) /\ Inside(IS_ALPHA, 0, u)
      /\ v <= a /\ (v = a <=> F["UF_USERINFO"] = <<>>)
      /\ Inside(IS_USERINFO_CHAR, v, a)
      /\ c <= d /\ (c = d <=> F["UF_HOST"] = <<>>) /\ Inside(Host, c, d)
      /\ q <= w /\ (q = w <=> F["UF_PORT"] = <<>>) /\ Inside(IS_NUM, q, w)
  BY <1>51 DEF Is
<1>8. /\ w <= x /\ (w = x <=> F["UF_PATH"] = <<>>) /\ Inside(IS_URL_CHAR, w, x)
      /\ w < x => buf[w + 1] = F["UF_PATH"][1]
      /\ y <= z /\ (y = z <=> F["UF_QUERY"] = <<>>)
      /\ Inside(IS_URL_CHAR \cup {"?"}, y, z)
  BY <1>51 DEF Is
<1>9. /\ h <= n /\ (h = n <=> F["UF_FRAGMENT"] = <<>>)
      /\ Inside(IS_URL_CHAR \cup {"?", "#"}, h, n)
      /\ h < n => buf[h + 1] = F["UF_FRAGMENT"][1]
  BY <1>51 DEF Is
<1>10. /\ F["UF_SCHEMA"] = <<>> => v = u
       /\ F["UF_SCHEMA"] # <<>> =>
              /\ v = u + 3 /\ buf[u + 1] = ":" /\ buf[u + 2] = "/"
              /\ buf[u + 3] = "/"
  <2>1. CASE F["UF_SCHEMA"] = <<>>
    <3>1. Stands(buf, <<>>, u, v)
      BY <1>4, <2>1
    <3>2. Delimits(<<>>, ":")
      BY DEF Delimits
    <3>3. QED
      BY <2>1, <3>1, <3>2, OneStands
  <2>2. CASE F["UF_SCHEMA"] # <<>>
    <3>1. Stands(buf, <<":", "/", "/">>, u, v)
      BY <1>4, <2>2
    <3>2. QED
      BY <2>2, <3>1, SchemaStands, ZenonT(30)
  <2>3. QED
    BY <2>1, <2>2
<1>11. /\ IF D.at THEN b = a + 1 /\ buf[b] = "@" ELSE a = b
       /\ IF D.v6 THEN c = b + 1 /\ buf[c] = "[" ELSE b = c
       /\ IF D.v6 THEN e = d + 1 /\ buf[e] = "]" ELSE d = e
       /\ IF F["UF_PORT"] # <<>> THEN q = e + 1 /\ buf[q] = ":" ELSE q = e
       /\ IF D.question THEN y = x + 1 /\ buf[y] = "?" ELSE y = x
  <2>1. /\ Delimits(t4, "@") /\ Delimits(t5, "[") /\ Delimits(t7, "]")
        /\ Delimits(t8, ":") /\ Delimits(t11, "?")
    BY DEF Delimits
  <2>2. /\ IF D.at THEN t4 = <<"@">> ELSE t4 = <<>>
        /\ IF D.v6 THEN t5 = <<"[">> /\ t7 = <<"]">> ELSE t5 = <<>> /\ t7 = <<>>
        /\ IF F["UF_PORT"] # <<>> THEN t8 = <<":">> ELSE t8 = <<>>
        /\ IF D.question THEN t11 = <<"?">> ELSE t11 = <<>>
    OBVIOUS
  <2> HIDE DEF t4, t5, t7, t8, t11
  <2>3. /\ t4 = <<>> => b = a
        /\ t4 = <<"@">> => b = a + 1 /\ buf[b] = "@"
    BY <1>4, <2>1, OneStands, SMTT(30)
  <2>4. /\ t5 = <<>> => c = b
        /\ t5 = <<"[">> => c = b + 1 /\ buf[c] = "["
    BY <1>4, <2>1, OneStands, SMTT(30)
  <2>5. /\ t7 = <<>> => e = d
        /\ t7 = <<"]">> => e = d + 1 /\ buf[e] = "]"
    BY <1>4, <2>1, OneStands, SMTT(30)
  <2>6. /\ t8 = <<>> => q = e
        /\ t8 = <<":">> => q = e + 1 /\ buf[q] = ":"
    BY <1>4, <2>1, OneStands, SMTT(30)
  <2>7. /\ t11 = <<>> => y = x
        /\ t11 = <<"?">> => y = x + 1 /\ buf[y] = "?"
    BY <1>4, <2>1, OneStands, SMTT(30)
  <2>8. QED
    BY <2>2, <2>3, <2>4, <2>5, <2>6, <2>7
<1>12. z <= h /\ h - z = D.hashes /\ Inside({"#"}, z, h)
  <2>1. Len(t13) = D.hashes /\ \A k \in 1 .. D.hashes : t13[k] = "#"
    BY <1>1
  <2>2. t13 \in Seq({"#"})
    BY <1>1, SMTT(30)
  <2>3. {"#"} \subseteq Legible
    BY DEF Legible
  <2> HIDE DEF t13
  <2>4. Is({"#"}, t13, z, h)
    BY <1>4, <1>5, <2>2, <2>3
  <2>5. Stands(buf, t13, z, h)
    BY <1>4
  <2>6. h = z + D.hashes
    BY <2>1, <2>5 DEF Stands
  <2>7. z <= h /\ Inside({"#"}, z, h)
    BY <2>4 DEF Is
  <2>8. h - z = D.hashes
    BY <1>1, <2>6, SMTT(30)
  <2>9. QED
    BY <2>7, <2>8
<1>13. h <= n /\ n \in Nat
  BY <1>9
<1>14. /\ v <= a /\ a <= b /\ b <= c /\ c <= d /\ d <= e /\ e <= q /\ q <= w
       /\ w <= x /\ x <= y /\ y <= z /\ z <= h /\ h <= n
       /\ c < d <=> F["UF_HOST"] # <<>>
  BY <1>7, <1>8, <1>11, <1>12, <1>13
<1>15. F["UF_HOST"] = <<>> => /\ u = 0 /\ v = 0 /\ a = 0 /\ b = 0 /\ c = 0
                              /\ d = 0 /\ e = 0 /\ q = 0 /\ w = 0
  BY <1>3, <1>7, <1>10, <1>11
<1>16. v < w <=> F["UF_HOST"] # <<>>
  BY <1>14, <1>15
<1>17. AfterSchema(buf, u, v)
  BY <1>7, <1>10, <1>3 DEF AfterSchema
<1>18. /\ u > 0 <=> v < w /\ ~connect
       /\ connect => v < w /\ w = x
       /\ v < w => b < w
  BY <1>3, <1>7, <1>8, <1>14, <1>16
<1>19. IF D.at THEN v < w /\ b = a + 1 /\ buf[b] = "@" ELSE v = a /\ a = b
  BY <1>3, <1>7, <1>11, <1>16
<1>20. /\ \A k \in 1 .. u : buf[k] \in IS_ALPHA
       /\ \A k \in v + 1 .. a : buf[k] \in IS_USERINFO_CHAR
       /\ \A k \in w + 1 .. x : buf[k] \in IS_URL_CHAR
       /\ \A k \in y + 1 .. z : buf[k] \in IS_URL_CHAR \cup {"?"}
       /\ \A k \in z + 1 .. h : buf[k] = "#"
       /\ \A k \in h + 1 .. n : buf[k] \in IS_URL_CHAR \cup {"?", "#"}
       /\ \A k \in c + 1 .. d : buf[k] \in Host
       /\ \A k \in q + 1 .. w : buf[k] \in IS_NUM
  BY <1>7, <1>8, <1>9, <1>12 DEF Inside
<1>21. \A k \in b + 1 .. w : buf[k] \in IS_USERINFO_CHAR \cup {"[", "]"}
  <2> SUFFICES ASSUME NEW k \in b + 1 .. w
               PROVE  buf[k] \in IS_USERINFO_CHAR \cup {"[", "]"}
    OBVIOUS
  <2>1. CASE k \in b + 1 .. c
    <3>1. D.v6 /\ k = c
      BY <1>11, <2>1
    <3>2. QED
      BY <1>11, <3>1
  <2>2. CASE k \in c + 1 .. d
    <3>1. Host \subseteq IS_USERINFO_CHAR
      BY Apart DEF Host
    <3>2. QED
      BY <1>20, <2>2, <3>1
  <2>3. CASE k \in d + 1 .. e
    <3>1. D.v6 /\ k = e
      BY <1>11, <2>3
    <3>2. QED
      BY <1>11, <3>1
  <2>4. CASE k \in e + 1 .. q
    <3>1. buf[k] = ":"
      BY <1>11, <2>4, SMTT(30)
    <3>2. QED
      BY <3>1, Apart
  <2>5. CASE k \in q + 1 .. w
    BY <1>20, <2>5, Apart
  <2>6. \/ k \in b + 1 .. c \/ k \in c + 1 .. d \/ k \in d + 1 .. e
        \/ k \in e + 1 .. q \/ k \in q + 1 .. w
    BY <1>14
  <2>7. QED
    BY <2>1, <2>2, <2>3, <2>4, <2>5, <2>6
<1>22. /\ w < x => buf[w + 1] \in IF v < w THEN {"/"} ELSE {"/", "*"}
       /\ y = x \/ (y = x + 1 /\ buf[y] = "?" /\ (v < w \/ w < x))
       /\ y = x => z = y
       /\ z < h => x < y \/ w < x
       /\ h = z => n = h
       /\ h < n => buf[h + 1] # "#"
  <2>1. w < x <=> F["UF_PATH"] # <<>>
    BY <1>8
  <2>2. h < n <=> F["UF_FRAGMENT"] # <<>>
    BY <1>9
  <2>3. z < h <=> D.hashes # 0
    BY <1>12, <1>1, SMTT(30)
  <2>4. w < x => buf[w + 1] \in IF v < w THEN {"/"} ELSE {"/", "*"}
    BY <1>3, <1>8, <1>16, <2>1
  <2>5. y = x \/ (y = x + 1 /\ buf[y] = "?" /\ (v < w \/ w < x))
    BY <1>3, <1>11, <1>16, <2>1
  <2>6. y = x => z = y
    BY <1>3, <1>8, <1>11
  <2>7. z < h => x < y \/ w < x
    BY <1>3, <1>11, <2>1, <2>3
  <2>8. h = z => n = h
    BY <1>3, <1>9, <1>1, <1>12
  <2>9. h < n => buf[h + 1] # "#"
    BY <1>3, <1>9, <2>2
  <2>10. QED
    BY <2>4, <2>5, <2>6, <2>7, <2>8, <2>9
<1>23. v <= a /\ a <= b /\ b <= w /\ w <= x
  BY <1>14
<1>24. Parted(buf, connect, D.at, u, v, a, b, w, x, y, z, h, n)
  BY <1>14, <1>17, <1>18, <1>19, <1>20, <1>21, <1>22, <1>23 DEF Parted
<1>25. F["UF_HOST"] # <<>> =>
           ServerParted(buf, D.at, D.v6, v, a, b, c, d, e, q, w)
  <2>1. (q = e /\ w = e) \/ (q = e + 1 /\ buf[q] = ":" /\ q < w)
    BY <1>7, <1>11
  <2>2. IF D.v6 THEN c = b + 1 /\ buf[c] = "[" /\ e = d + 1 /\ buf[e] = "]"
                ELSE c = b /\ e = d
    BY <1>11
  <2>3. \A k \in c + 1 .. d :
           buf[k] \in IF D.v6 THEN IS_HEX \cup {":", "."} ELSE IS_HOST_CHAR
    BY <1>20 DEF Host
  <2>4. IF D.at THEN b = a + 1 /\ buf[b] = "@" ELSE v = a /\ a = b
    BY <1>19
  <2>5. QED
    BY <1>14, <1>20, <2>1, <2>2, <2>3, <2>4 DEF ServerParted
<1>26. QED
  BY <1>15, <1>24, <1>25 DEF WellLaid

(* Field uf of parsed is t.                                                  *)
Reads(buf, parsed, uf, t) ==
    /\ Part(buf, parsed, uf) = t
    /\ parsed.field_data[uf].len = Len(t)
    /\ \A k \in 1 .. Len(t) :
           At(buf, parsed.field_data[uf].off + k - 1) = t[k]

(* A field that stands between i and j is found there.                       *)
LEMMA StandsRead ==
    ASSUME NEW buf \in Seq(Legible), NEW t \in Seq(Legible), NEW i \in Nat,
           NEW j, Stands(buf, t, i, j), NEW parsed, NEW uf,
           Run(parsed.field_data, uf, i, j)
    PROVE  Reads(buf, parsed, uf, t)
<1> DEFINE field == parsed.field_data[uf]
<1>1. Part(buf, parsed, uf) = SubSeq(buf, field.off, field.off + field.len - 1)
  BY DEF Part
<1>2. /\ j \in Nat /\ i <= j /\ j <= Len(buf) /\ (i = j <=> t = <<>>)
      /\ Between(buf, i, j) = t
  BY StandsFacts
<1>3. /\ Len(t) \in Nat /\ j = i + Len(t)
      /\ \A k \in 1 .. Len(t) : buf[i + k] = t[k]
  BY DEF Stands
<1>4. CASE i = j
  <2>1. field.off = 0 /\ field.len = 0
    BY <1>4 DEF Run, NoField
  <2>2. SubSeq(buf, 0, 0 + 0 - 1) = <<>> /\ t = <<>> /\ Len(t) = 0
    BY <1>2, <1>4
  <2>3. QED
    BY <1>1, <2>1, <2>2 DEF Reads
<1>5. CASE i # j
  <2>1. field.off = i + 1 /\ field.len = j - i
    BY <1>5 DEF Run
  <2>2. (i + 1) + (j - i) - 1 = j /\ j - i = Len(t)
    BY <1>2, <1>3
  <2>3. Part(buf, parsed, uf) = t
    BY <1>1, <1>2, <2>1, <2>2 DEF Between
  <2>4. ASSUME NEW k \in 1 .. Len(t)
        PROVE  At(buf, field.off + k - 1) = t[k]
    <3>1. (i + 1) + k - 1 = i + k /\ i + k <= Len(buf)
      BY <1>2, <1>3
    <3>2. At(buf, i + k) = buf[i + k]
      BY <3>1, AtIs
    <3>3. QED
      BY <1>3, <2>1, <3>1, <3>2
  <2>5. QED
    BY <2>1, <2>2, <2>3, <2>4 DEF Reads
<1>6. QED
  BY <1>4, <1>5

(* Legal fields and delimiters, of any length and any number, make a text    *)
(* that http_parser_parse_url accepts (http_parser.c:2338-2424), and it      *)
(* divides it into just these fields.                                        *)
THEOREM UrlAnyAccepted ==
    ASSUME NEW F \in [UF -> Seq(Character)], NEW D \in Delimiters(Nat),
           NEW connect \in BOOLEAN
    PROVE  Accepted(F, D, connect)
<1> DEFINE buf == UrlOf(F, D)
           parsed == http_parser_parse_url(buf, connect)
           scan == Scan(buf, connect)
           f == scan.field_data
           host == http_parse_host(buf, f, scan.found_at)
           n == Len(buf)
<1>1. SUFFICES ASSUME Legal(F, D, connect)
               PROVE  /\ parsed.ok /\ FieldsOf(buf, parsed) = F
                      /\ parsed.port = NumberOf(F["UF_PORT"])
  BY DEF Accepted
<1>2. LegalCharacters(F, D.v6)
  BY <1>1 DEF Legal
<1>3. /\ buf \in Seq(Legible)
      /\ \E u, v, a, b, c, d, e, q, w, x, y, z, h \in Nat :
             Laid(buf, F, D, u, v, a, b, c, d, e, q, w, x, y, z, h, n)
  BY <1>2, LaidOut
<1>4. n \in Nat /\ n = Len(buf)
  BY <1>3
<1> HIDE DEF buf, n
<1>5. PICK u, v, a, b, c, d, e, q, w, x, y, z, h \in Nat :
          Laid(buf, F, D, u, v, a, b, c, d, e, q, w, x, y, z, h, n)
  BY <1>3
<1>51. WellLaid(buf, F, D, connect, u, v, a, b, c, d, e, q, w, x, y, z, h, n)
  BY <1>1, <1>3, <1>4, <1>5, LaidParted
<1>6. /\ Parted(buf, connect, D.at, u, v, a, b, w, x, y, z, h, n)
      /\ F["UF_HOST"] # <<>> =>
             ServerParted(buf, D.at, D.v6, v, a, b, c, d, e, q, w)
      /\ F["UF_HOST"] = <<>> => /\ u = 0 /\ v = 0 /\ a = 0 /\ b = 0 /\ c = 0
                                /\ d = 0 /\ e = 0 /\ q = 0 /\ w = 0
  BY <1>51 DEF WellLaid
<1>7. AllRead(scan, D.at, u, v, w, x, y, z, h, n)
  BY <1>4, <1>6, ReadsUrl
<1>8. /\ scan.s # "s_dead" /\ DOMAIN f = UF
      /\ Run(f, "UF_SCHEMA", 0, u) /\ Run(f, "UF_HOST", v, w)
      /\ Run(f, "UF_PATH", w, x) /\ Run(f, "UF_QUERY", y, z)
      /\ Run(f, "UF_FRAGMENT", h, n)
      /\ Missing(f, {"UF_USERINFO", "UF_PORT"})
      /\ scan.found_at <=> D.at
  BY <1>7 DEF AllRead, Runs
<1> DEFINE has_host == "UF_HOST" \in field_set(f)
           data == IF has_host THEN host.field_data ELSE f
<1>9. has_host <=> v < w
  <2>1. f["UF_HOST"] = IF v = w THEN NoField ELSE [off |-> v + 1, len |-> w - v]
    BY <1>8 DEF Run
  <2>2. v <= w
    BY <1>6 DEF Parted
  <2>3. f["UF_HOST"].len > 0 <=> v < w
    BY <2>1, <2>2 DEF NoField
  <2>4. QED
    BY <2>3 DEF field_set, UF
<1>10. v < w <=> F["UF_HOST"] # <<>>
  BY <1>6 DEF ServerParted
<1>11. /\ Run(data, "UF_USERINFO", v, a) /\ Run(data, "UF_HOST", c, d)
       /\ Run(data, "UF_PORT", q, w)
       /\ \A uf \in NotHost : data[uf] = f[uf]
       /\ has_host => host.s \in HostEnds
  <2>1. CASE v < w
    <3>1. ServerRead(host, f, v, a, c, d, q, w)
      <4>1. w <= n
        BY <1>4, <1>6 DEF Parted
      <4>2. ServerParted(buf, scan.found_at, D.v6, v, a, b, c, d, e, q, w)
        BY <1>6, <1>8, <1>10, <2>1 DEF ServerParted
      <4> HIDE DEF scan, f
      <4>3. QED
        BY <1>4, <1>8, <4>1, <4>2, ReadsServerPart DEF n
    <3>2. QED
      BY <1>9, <2>1, <3>1 DEF ServerRead
  <2>2. CASE ~(v < w)
    <3>1. /\ v = 0 /\ a = 0 /\ c = 0 /\ d = 0 /\ q = 0 /\ w = 0
          /\ data = f /\ ~has_host
      BY <1>6, <1>9, <1>10, <2>2
    <3>2. f["UF_HOST"] = NoField
      BY <1>8, <3>1 DEF Run
    <3>3. QED
      BY <1>8, <3>1, <3>2 DEF Run, Missing
  <2>3. QED
    BY <2>1, <2>2
<1> HIDE DEF scan, host, f
<1>12. /\ Run(data, "UF_SCHEMA", 0, u) /\ Run(data, "UF_PATH", w, x)
       /\ Run(data, "UF_QUERY", y, z) /\ Run(data, "UF_FRAGMENT", h, n)
  BY <1>8, <1>11 DEF Run, NotHost, UF
<1>13. /\ parsed.field_data = data
       /\ parsed.port = PortNumber(buf, data["UF_PORT"])
       /\ parsed.ok <=>
              /\ scan.s # "s_dead"
              /\ "UF_SCHEMA" \in field_set(f) => has_host
              /\ has_host => host.s \in HostEnds
              /\ connect => field_set(data) = {"UF_HOST", "UF_PORT"}
              /\ PortFits(PortNumber(buf, data["UF_PORT"]))
  BY DEF http_parser_parse_url, scan, host, f
<1> HIDE DEF has_host, data, parsed
<1>14. /\ Stands(buf, F["UF_SCHEMA"], 0, u) /\ Stands(buf, F["UF_USERINFO"], v, a)
       /\ Stands(buf, F["UF_HOST"], c, d) /\ Stands(buf, F["UF_PORT"], q, w)
       /\ Stands(buf, F["UF_PATH"], w, x) /\ Stands(buf, F["UF_QUERY"], y, z)
       /\ Stands(buf, F["UF_FRAGMENT"], h, n)
  BY <1>5 DEF Laid
<1>15. \A uf \in UF : F[uf] \in Seq(Legible)
  BY <1>2, LegalLegible
<1> DEFINE Is(uf) == Reads(buf, parsed, uf, F[uf])
<1>16. ASSUME NEW uf \in UF, NEW i \in Nat, NEW j, Stands(buf, F[uf], i, j),
              Run(data, uf, i, j)
       PROVE  Is(uf)
  BY <1>3, <1>13, <1>15, <1>16, StandsRead
<1>17. \A uf \in UF : Is(uf)
  <2>1. 0 \in Nat
    OBVIOUS
  <2>2. /\ "UF_SCHEMA" \in UF /\ "UF_USERINFO" \in UF /\ "UF_HOST" \in UF
        /\ "UF_PORT" \in UF /\ "UF_PATH" \in UF /\ "UF_QUERY" \in UF
        /\ "UF_FRAGMENT" \in UF
    BY DEF UF
  <2>3. /\ Is("UF_SCHEMA") /\ Is("UF_USERINFO") /\ Is("UF_HOST")
        /\ Is("UF_PORT") /\ Is("UF_PATH") /\ Is("UF_QUERY")
        /\ Is("UF_FRAGMENT")
    BY <1>11, <1>12, <1>14, <1>16, <2>1, <2>2
  <2>4. QED
    BY <2>3 DEF UF
<1>18. FieldsOf(buf, parsed) = F
  <2>1. \A uf \in UF : Part(buf, parsed, uf) = F[uf]
    BY <1>17 DEF Reads
  <2>2. QED
    BY <2>1 DEF FieldsOf
<1>19. PortNumber(buf, data["UF_PORT"]) = NumberOf(F["UF_PORT"])
  <2>1. /\ data["UF_PORT"].len = Len(F["UF_PORT"])
        /\ \A k \in 1 .. Len(F["UF_PORT"]) :
               At(buf, data["UF_PORT"].off + k - 1) = F["UF_PORT"][k]
    BY <1>13, <1>17 DEF Reads, UF
  <2>2. Len(F["UF_PORT"]) \in Nat
    BY <1>15 DEF UF
  <2>3. QED
    BY <2>1, <2>2, PortSpelled
<1>20. "UF_SCHEMA" \in field_set(f) => has_host
  <2>1. f["UF_SCHEMA"].len > 0 => u > 0
    BY <1>8 DEF Run, NoField
  <2>2. u > 0 => v < w
    BY <1>6 DEF Parted
  <2>3. QED
    BY <1>9, <2>1, <2>2 DEF field_set
<1>21. connect => field_set(data) = {"UF_HOST", "UF_PORT"}
  <2>1. \A uf \in UF : uf \in field_set(data) <=> F[uf] # <<>>
    <3> SUFFICES ASSUME NEW uf \in UF
                 PROVE  uf \in field_set(data) <=> F[uf] # <<>>
      OBVIOUS
    <3>1. data[uf].len = Len(F[uf]) /\ F[uf] \in Seq(Legible)
      BY <1>13, <1>15, <1>17 DEF Reads
    <3>2. Len(F[uf]) > 0 <=> F[uf] # <<>>
      BY <3>1
    <3>3. QED
      BY <3>1, <3>2 DEF field_set
  <2>2. connect => {uf \in UF : F[uf] # <<>>} = {"UF_HOST", "UF_PORT"}
    BY <1>1 DEF Legal, LegalOrder
  <2>3. field_set(data) \subseteq UF
    BY DEF field_set
  <2>4. QED
    BY <2>1, <2>2, <2>3
<1>22. PortFits(NumberOf(F["UF_PORT"]))
  BY <1>1 DEF Legal
<1>23. QED
  BY <1>8, <1>11, <1>13, <1>18, <1>19, <1>20, <1>21, <1>22

(* So the property of the run holds, whatever fields and delimiters the URLs *)
(* are made of (http_parser.c:2338-2424).                                    *)
THEOREM UrlAlwaysAccepted == Spec => []UrlAccepted
<1>1. Init => is_connect \in BOOLEAN
  BY DEF Init
<1>2. is_connect \in BOOLEAN /\ [GrowUrl \/ GrowPlain]_vars
          => (is_connect \in BOOLEAN)'
  BY DEF GrowUrl, GrowPlain, vars
<1>3. is_connect \in BOOLEAN => UrlAccepted
  <2> SUFFICES ASSUME is_connect \in BOOLEAN, NEW made \in Urls, made.text = url
               PROVE  Accepted(made.fields, made.delimiters, is_connect)
    BY DEF UrlAccepted
  <2>1. PICK k \in Fields \X Delimiters(Counts) :
            made = [fields |-> k[1], delimiters |-> k[2], text |-> UrlOf(k[1], k[2])]
    BY DEF Urls
  <2>2. made.fields = k[1] /\ made.delimiters = k[2]
    BY <2>1
  <2>3. k[1] \in Fields /\ k[2] \in Delimiters(Counts)
    OBVIOUS
  <2>4. k[1] \in [UF -> Seq(Character)]
    BY <2>3, FieldsAssumption
  <2>5. k[2] \in Delimiters(Nat)
    BY <2>3, FieldsAssumption DEF Delimiters
  <2>6. QED
    BY <2>2, <2>4, <2>5, UrlAnyAccepted
<1>4. QED
  BY <1>1, <1>2, <1>3, PTL DEF Spec
=============================================================================
