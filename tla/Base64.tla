------------------------------- MODULE Base64 -------------------------------
(* Base64.cpp. A byte is a number of 0 .. 255 and a character its ASCII     *)
(* code; the shifts and masks of the code are divisions and remainders by   *)
(* powers of two, with the results cut to an unsigned char where the code   *)
(* stores one. A buffer is the sequence of what was stored in it.            *)
EXTENDS Integers, Sequences

Byte == 0 .. 255
Pad == 61                                                          \* '='

(* b64_alphabet: the capital letters, the small ones, the digits, + and /.   *)
b64_alphabet(n) ==
    CASE n < 26 -> n + 65
      [] n >= 26 /\ n < 52 -> n + 71
      [] n >= 52 /\ n < 62 -> n - 4
      [] n = 62 -> 43
      [] n = 63 -> 47

(* Mutant: the digits counted from the first one instead of the 53rd place.  *)
b64_lookup_Digits(c) ==
    CASE c >= 65 /\ c <= 90 -> c - 65
      [] c >= 97 /\ c <= 122 -> c - 71
      [] c >= 48 /\ c <= 57 -> c - 48
      [] c = 43 -> 62
      [] c = 47 -> 63
      [] OTHER -> 255

(* The index of a character, (unsigned char) -1 for one that is not there.   *)
b64_lookup(c) ==
    CASE c >= 65 /\ c <= 90 -> c - 65
      [] c >= 97 /\ c <= 122 -> c - 71
      [] c >= 48 /\ c <= 57 -> c + 4
      [] c = 43 -> 62
      [] c = 47 -> 63
      [] OTHER -> 255

a3_to_a4(a3) == << a3[1] \div 4,
                   (a3[1] % 4) * 16 + a3[2] \div 16,
                   (a3[2] % 16) * 4 + a3[3] \div 64,
                   a3[3] % 64 >>

a4_to_a3(a4) == << ((a4[1] * 4) + ((a4[2] \div 16) % 4)) % 256,
                   ((a4[2] % 16) * 16) + ((a4[3] \div 4) % 16),
                   (((a4[3] % 4) * 64) + a4[4]) % 256 >>

base64_enc_len(n) == ((n + 2 - ((n + 2) % 3)) \div 3) * 4

(* The g-th group of three bytes (counted from 0), zeroes after the end.     *)
Group3(input, g) ==
    [j \in 1 .. 3 |-> IF 3 * g + j <= Len(input) THEN input[3 * g + j] ELSE 0]

(* Four characters a group; a last group of i bytes has i + 1 of its own,    *)
(* and = for the others.                                                     *)
base64_encode(input) ==
    [k \in 1 .. base64_enc_len(Len(input)) |->
        LET g == (k - 1) \div 4
            j == (k - 1) % 4
        IN  IF 3 * g + j <= Len(input)
            THEN b64_alphabet(a3_to_a4(Group3(input, g))[j + 1])
            ELSE Pad]

(* What base64_decode looks at: the characters before the first =.           *)
Digits(input) ==
    CHOOSE n \in 0 .. Len(input) :
        /\ \A k \in 1 .. n : input[k] # Pad
        /\ n < Len(input) => input[n + 1] = Pad

(* The g-th group of four of the first n characters, looked up; the places   *)
(* of a last group that is not full are looked up as \0.                     *)
Group4(input, n, g) ==
    [j \in 1 .. 4 |-> IF 4 * g + j <= n THEN b64_lookup(input[4 * g + j])
                                        ELSE b64_lookup(0)]

(* Three bytes a group; a last group of i characters has i - 1.              *)
base64_decode(input) ==
    LET n == Digits(input)
        rest == n % 4
        decLen == 3 * (n \div 4) + (IF rest = 0 THEN 0 ELSE rest - 1)
    IN  [k \in 1 .. decLen |->
            a4_to_a3(Group4(input, n, (k - 1) \div 3))[((k - 1) % 3) + 1]]

(* The = at the end of input, which must have another character before them. *)
numEq(input) ==
    CHOOSE n \in 0 .. Len(input) :
        /\ \A k \in Len(input) - n + 1 .. Len(input) : input[k] = Pad
        /\ n < Len(input) => input[Len(input) - n] # Pad

base64_dec_len(input) == (6 * Len(input)) \div 8 - numEq(input)

(* Decoding gives back what was encoded, with and without its padding, and   *)
(* the two functions that announce lengths announce the right ones.          *)
RoundTrip(plain) ==
    LET coded == base64_encode(plain)
    IN  /\ base64_decode(coded) = plain
        /\ base64_decode(SubSeq(coded, 1, Digits(coded))) = plain
        /\ base64_enc_len(Len(plain)) = Len(coded)
        /\ plain # <<>> => base64_dec_len(coded) = Len(plain)
=============================================================================
