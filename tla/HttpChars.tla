------------------------------ MODULE HttpChars ------------------------------
(* The character classes of http_parser.c in its strict build, which is     *)
(* the build of this repository. A character of ASCII is a string of length  *)
(* one, or its name where a string of TLA+ cannot hold it: the backquote and *)
(* the control characters without an escape. Of that, only that it is not    *)
(* empty is ever used, as "" is what follows the last character. Bytes above *)
(* 127 belong to no class of the code and are left out.                      *)
EXTENDS Integers, Sequences

Character == STRING \ {""}

(* A text is a sequence of characters; Spell makes one of a literal.         *)
Spell(word) == [i \in 1 .. Len(word) |-> SubSeq(word, i, i)]

(* The i-th character; "" stands for the \0 after the last one.               *)
At(text, i) == IF i <= Len(text) THEN text[i] ELSE ""

CR == "\r"
LF == "\n"
TAB == "\t"

BACKQUOTE == "backquote"

(* The characters without the bit 0x20, and those they become with it.       *)
Upper == <<"nul", "soh", "stx", "etx", "eot", "enq", "ack", "bel", "bs", TAB, LF,
           "vt", "\f", CR, "so", "si", "dle", "dc1", "dc2", "dc3", "dc4", "nak",
           "syn", "etb", "can", "em", "sub", "esc", "fs", "gs", "rs", "us">>
         \o Spell("@ABCDEFGHIJKLMNOPQRSTUVWXYZ[\\]^_")
Lower == Spell(" !\"#$%&'()*+,-./0123456789:;<=>?")
         \o <<BACKQUOTE>> \o Spell("abcdefghijklmnopqrstuvwxyz{|}~") \o <<"del">>

(* c | 0x20: it lowers letters, and makes other characters of some that are  *)
(* none: a parenthesis of a tabulator, a token of @, and none of _.          *)
Lowered == [c \in {Upper[i] : i \in DOMAIN Upper} |->
                Lower[CHOOSE i \in DOMAIN Upper : Upper[i] = c]]
LOWER(c) == IF c \in DOMAIN Lowered THEN Lowered[c] ELSE c

IS_NUM == {"0", "1", "2", "3", "4", "5", "6", "7", "8", "9"}
IS_ALPHA == {"a", "b", "c", "d", "e", "f", "g", "h", "i", "j", "k", "l", "m",
             "n", "o", "p", "q", "r", "s", "t", "u", "v", "w", "x", "y", "z",
             "A", "B", "C", "D", "E", "F", "G", "H", "I", "J", "K", "L", "M",
             "N", "O", "P", "Q", "R", "S", "T", "U", "V", "W", "X", "Y", "Z"}
IS_ALPHANUM == IS_ALPHA \cup IS_NUM
IS_HEX == IS_NUM \cup {"a", "b", "c", "d", "e", "f", "A", "B", "C", "D", "E", "F"}
IS_MARK == {"-", "_", ".", "!", "~", "*", "'", "(", ")"}
IS_USERINFO_CHAR ==
    IS_ALPHANUM \cup IS_MARK \cup {"%", ";", ":", "&", "=", "+", "$", ","}
IS_HOST_CHAR == IS_ALPHANUM \cup {".", "-"}

(* What TOKEN and STRICT_TOKEN look up in tokens[].                          *)
TOKEN == IS_ALPHANUM \cup {"!", "#", "$", "%", "&", "'", "*", "+", "-", ".",
                             "^", "_", BACKQUOTE, "|", "~"}

(* normal_url_char: printable, and neither a space nor # nor ?.              *)
IS_URL_CHAR == (TOKEN \ {"#"})
               \cup {"\"", "(", ")", ",", "/", ":", ";", "<", "=", ">", "@",
                     "[", "\\", "]", "{", "}"}

(* unhex, for the characters of IS_HEX; it is also c - '0' for digits.       *)
unhex(c) ==
    CASE c = "0" -> 0 [] c = "1" -> 1 [] c = "2" -> 2 [] c = "3" -> 3
      [] c = "4" -> 4 [] c = "5" -> 5 [] c = "6" -> 6 [] c = "7" -> 7
      [] c = "8" -> 8 [] c = "9" -> 9
      [] c \in {"a", "A"} -> 10 [] c \in {"b", "B"} -> 11
      [] c \in {"c", "C"} -> 12 [] c \in {"d", "D"} -> 13
      [] c \in {"e", "E"} -> 14 [] c \in {"f", "F"} -> 15
=============================================================================
