-------------------------- MODULE MC_TextFunctions --------------------------
(* The pure functions of the program on every small input: a URL grows      *)
(* piece by piece as long as parse_url_char accepts it, from nothing and     *)
(* from a complete server part, and a buffer for Base64 byte by byte.        *)
EXTENDS HttpUrl, Base64

CONSTANTS Beginnings, Pieces, MaxPieces, Fields, Counts, Bytes, MaxBytes

ASSUME UrlsAssumption == Beginnings \cup Pieces \subseteq Seq(Character)
ASSUME FieldsAssumption ==
    Fields \subseteq [UF -> Seq(Character)] /\ Counts \subseteq Nat
ASSUME BytesAssumption == Bytes \subseteq Byte

VARIABLES url, pieces, is_connect, plain
vars == <<url, pieces, is_connect, plain>>

UrlBeginnings == {Spell(text) : text \in {"", "*", "h://h@h:65535"}}
UrlPieces == {Spell(text) : text \in {"h", "h://", "h@", "/", "?", "#", "@",
                                       "[:f]", ":65535", ":65536"}}
SomeFields ==
    LET Texts(words) == {Spell(word) : word \in words}
    IN  [UF_SCHEMA : Texts({"", "h"}), UF_USERINFO : Texts({"", "h"}),
         UF_HOST : Texts({"", "h", "hh", ":f"}), UF_PORT : Texts({"", "65535"}),
         UF_PATH : Texts({"", "/", "/h"}), UF_QUERY : Texts({"", "h"}),
         UF_FRAGMENT : Texts({"", "?#"})]
SomeCounts == 0 .. 2
SomeBytes == {0, 1, 62, 127, 128, 255}

Init ==
    /\ url \in Beginnings /\ pieces = 0
    /\ is_connect \in BOOLEAN
    /\ plain = <<>>

GrowUrl ==
    /\ plain = <<>> /\ pieces < MaxPieces
    /\ Scan(url, is_connect).s # "s_dead"
    /\ \E piece \in Pieces : url' = url \o piece
    /\ pieces' = pieces + 1
    /\ UNCHANGED <<is_connect, plain>>

GrowPlain ==
    /\ url = <<>> /\ ~is_connect /\ Len(plain) < MaxBytes
    /\ \E byte \in Bytes : plain' = Append(plain, byte)
    /\ UNCHANGED <<url, pieces, is_connect>>

Spec == Init /\ [][GrowUrl \/ GrowPlain]_vars

-----------------------------------------------------------------------------
(* An accepted URL is legal fields in order with nothing but delimiters in   *)
(* between: no character is lost, counted twice or given to two fields, and  *)
(* the port is the number its digits spell and fits into 16 bits             *)
(* (http_parser.c:2338-2424).                                                *)
UrlDivided == Divided(url, is_connect)

(* The URLs these fields make, with any delimiters that are legal.           *)
Urls == {[fields |-> l[1], delimiters |-> l[2], text |-> UrlOf(l[1], l[2])] :
             l \in {k \in Fields \X Delimiters(Counts) :
                       \E connect \in BOOLEAN : Legal(k[1], k[2], connect)}}

(* Every URL made of legal fields and delimiters is accepted and divided     *)
(* into these fields, with the port its digits spell: absolute, a path, or   *)
(* the host:port of a CONNECT request (http_parser.c:2398-2424).             *)
UrlAccepted ==
    \A made \in Urls :
        made.text = url => Accepted(made.fields, made.delimiters, is_connect)

(* Base64.cpp gives back what it was given, whatever the length leaves for   *)
(* the last group, and base64_enc_len and base64_dec_len announce the        *)
(* lengths that come out (Base64.h:180-208).                                 *)
Base64RoundTrip == RoundTrip(plain)
=============================================================================
