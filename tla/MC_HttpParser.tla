---------------------------- MODULE MC_HttpParser ----------------------------
(* The streams for HttpParser: well-formed ones are put together from parts  *)
(* that have a text and a meaning, the others are given with the error that  *)
(* ends them and the callbacks before it.                                    *)
EXTENDS HttpParser

NL == "\r\n"
Piece(text, evs) == [text |-> text, evs |-> evs]
Cat(a, b) == Piece(a.text \o b.text, a.evs \o b.evs)

Ev(cb, data) == [cb |-> cb, data |-> data]
Begin == Ev("message_begin", "")
Complete(keep) == [cb |-> "message_complete", data |-> "", keep |-> keep]
HeadersEnd(method, major, minor, status, upgrade) ==
    [cb |-> "headers_complete", data |-> "",
     shown |-> [method |-> method, version |-> <<major, minor>>,
                status_code |-> status, upgrade |-> upgrade]]

(* Header lines: the text of a line, its name and its value.                 *)
Line(text, name, value) ==
    Piece(text, <<Ev("header_field", name), Ev("header_value", value)>>)
Field(name, value) == Line(name \o ": " \o value \o NL, name, value)
Closing == Field("Connection", "close")
Length(digits) == Field("Content-Length", digits)
Chunked == Field("Transfer-Encoding", "chunked")

RECURSIVE All(_)
All(parts) == IF parts = <<>> THEN Piece("", <<>>)
              ELSE Cat(Head(parts), All(Tail(parts)))

Empty(evs) == Piece(NL, evs)
Request(method, url, lines, upgrade) ==
    All(<<Piece(method \o " " \o url \o " HTTP/1.1" \o NL,
                <<Begin, Ev("url", url)>>)>> \o lines
        \o <<Empty(<<HeadersEnd(method, 1, 1, 0, upgrade)>>)>>)
Get(lines) == Request("GET", "/", lines, FALSE)
Post(lines) == Request("POST", "/a?b", lines, FALSE)
Response(status, reason, code, lines) ==
    All(<<Piece("HTTP/1.1 " \o status \o reason \o NL,
                IF reason \in {"", " "} THEN <<Begin>>
                ELSE <<Begin, Ev("status", SubSeq(reason, 2, Len(reason)))>>)>>
        \o lines \o <<Empty(<<HeadersEnd("", 1, 1, code, FALSE)>>)>>)

NoBodyThen(keep) == Piece("", <<Complete(keep)>>)
Body(text) == Piece(text, <<Ev("body", text), Complete(TRUE)>>)
Announced(n) == [cb |-> "chunk_header", data |-> "", length |-> n]
Chunk(size, n, text) ==
    Piece(size \o NL \o text \o NL,
          <<Announced(n), Ev("body", text), Ev("chunk_complete", "")>>)
LastChunk(lines, keep) ==
    All(<<Piece("0" \o NL, <<Announced(0)>>)>> \o lines
        \o <<Empty(<<Ev("chunk_complete", ""), Complete(keep)>>)>>)

(* Bound: a stream is cut in one place, a shorter one in two or three.       *)
Cuts(length) == CASE length <= 26 -> 3 [] length \in 27 .. 80 -> 2
                  [] OTHER -> 1

Means(type, skip, part, errno) ==
    [type |-> type, skip |-> skip, bytes |-> Spell(part.text),
     events |-> [i \in DOMAIN part.evs |->
                    [part.evs[i] EXCEPT !.data = Spell(@)]],
     errno |-> errno, cuts |-> Cuts(Len(part.text))]
Req(parts) == Means("HTTP_REQUEST", FALSE, All(parts), "OK")
Res(parts) == Means("HTTP_RESPONSE", FALSE, All(parts), "OK")
BadReq(parts, text, errno) ==
    Means("HTTP_REQUEST", FALSE, All(parts \o <<Piece(text, <<>>)>>), errno)
BadRes(parts, text, errno) ==
    Means("HTTP_RESPONSE", FALSE, All(parts \o <<Piece(text, <<>>)>>), errno)
Either(part) == Means("HTTP_BOTH", FALSE, part, "OK")

-----------------------------------------------------------------------------
Seventeen == "abcdefghijklmnop0"
Forty == Seventeen \o Seventeen \o "abcdef"

(* What the session and the test client exchange, and longer dialogues.      *)
Dialogues == {
    Req(<<Post(<<Length("5")>>), Body("{\"a\"}"), Get(<<Closing>>),
          NoBodyThen(FALSE)>>),
    Req(<<Piece(NL, <<>>), Get(<<>>), NoBodyThen(TRUE),
          Post(<<Field("A", Seventeen), Length("0")>>), NoBodyThen(TRUE),
          Get(<<>>), NoBodyThen(TRUE)>>),
    Req(<<Post(<<Chunked>>), Chunk("A", 10, "abcdefghij"),
          Chunk("02;x=y", 2, "\r\n"), LastChunk(<<Field("T", "v")>>, TRUE),
          Get(<<>>), NoBodyThen(TRUE)>>),
    Req(<<Post(<<Chunked, Length("7")>>), Chunk("11 ", 17, Seventeen),
          LastChunk(<<Length("9"), Closing>>, FALSE), Piece(NL, <<>>)>>),
    BadReq(<<Get(<<Closing>>), NoBodyThen(FALSE)>>, "GET", "CLOSED_CONNECTION"),
    Res(<<Response("200", " OK", 200, <<Length("2")>>), Body("ab"),
          Response("204", "", 204, <<>>), NoBodyThen(TRUE),
          Response("304", " ", 304, <<>>), NoBodyThen(TRUE)>>),
    Res(<<Response("200", " OK", 200, <<Chunked>>), Chunk("1", 1, "a"),
          LastChunk(<<>>, TRUE)>>),
    Res(<<Response("200", " OK", 200, <<>>),
          Piece("a\r\nb", <<Ev("body", "a\r\nb"), Complete(FALSE)>>)>>),
    Res(<<Piece(NL, <<Begin, Begin>>), Response("100", " C", 100, <<>>),
          NoBodyThen(TRUE)>>),
    Means("HTTP_RESPONSE", TRUE,
          All(<<Response("200", " OK", 200, <<Length("9")>>), NoBodyThen(TRUE),
                Response("200", " OK", 200, <<Chunked>>), NoBodyThen(TRUE)>>),
          "OK")
}

(* Every method; CONNECT and an upgrade end the HTTP on the connection.      *)
Every == {Req(<<Request(m, "*", <<>>, FALSE), NoBodyThen(TRUE)>>) :
             m \in Methods \ {"CONNECT"}}
Upgrading == <<Field("Connection", "Upgrade"), Field("Upgrade", "w")>>
Leaving == {
    Req(<<Request("CONNECT", "h:1", <<>>, TRUE), NoBodyThen(TRUE),
          Piece("GET", <<>>)>>),
    Req(<<Request("GET", "/", Upgrading, TRUE), NoBodyThen(TRUE),
          Piece("\f", <<>>)>>),
    Req(<<Request("PUT", "/", Upgrading \o <<Length("1")>>, TRUE), Body("b"),
          Piece("/", <<>>)>>),
    Either(All(<<Response("204", " N", 204, <<>>), NoBodyThen(TRUE)>>)),
    Either(All(<<Request("HEAD", "/", <<>>, FALSE), NoBodyThen(TRUE)>>)),
    Either(All(<<Piece(NL, <<>>), Get(<<>>), NoBodyThen(TRUE)>>)),
    Means("HTTP_BOTH", FALSE, Piece("HX", <<Begin>>), "INVALID_CONSTANT")
}

(* A GET with one header line, and whether the connection is kept after it.  *)
With(lines, keep) == Req(<<Get(lines), NoBodyThen(keep)>>)
HeaderLines == {
    With(<<Field("Connection", "keep-alive, Close , x")>>, FALSE),
    With(<<Field("Connection", "upgrade,u, keep-alivex,closed")>>, TRUE),
    With(<<Field("CONNECTION", "xclose")>>, TRUE),
    With(<<Field("Connection", "a,(close")>>, TRUE),
    With(<<Field("Connection", "a,_x, close")>>, TRUE),    \* see ValueTokenStart
    With(<<Field("Connection", "a,@x, close")>>, FALSE),
    With(<<Field("Proxy-Connection", "CLOSE")>>, FALSE),
    With(<<Field("Connections", "close"), Field("Conx", "c")>>, TRUE),
    With(<<Field("Content-Lengt", "5"), Field("cox", ""), Field("cx", "")>>, TRUE),
    With(<<Field("Transfer-Encoding", "chunked , x")>>, TRUE),
    With(<<Field("Transfer-Encoding", "identity"), Field("Upgrade", "h")>>, TRUE),
    With(<<Line("A: b\r\n\t c\r\n", "A", "b\t c")>>, TRUE),
    With(<<Line("A:\r\n b\n", "A", "b")>>, TRUE),
    With(<<Line("Connection:\n\n", "Connection", "")>>, TRUE),
    With(<<Line("Connection: close\r\n x\r\n", "Connection", "close x")>>, TRUE),
    With(<<Line("Connection: a,\r\n close\r\n", "Connection", "a, close")>>, FALSE),
    Req(<<Post(<<Length("1"), Length("3 ")>>), Body("abc")>>),
    Req(<<Post(<<Length("1 2")>>), Body("abcdefghijkl")>>)
}

(* First lines that are legal but not like the others.                       *)
Line0(text, url, major, minor, keep) ==
    Req(<<Piece(text, <<Begin, Ev("url", url)>>),
          Piece(NL, <<HeadersEnd("GET", major, minor, 0, FALSE)>>),
          NoBodyThen(keep)>>)
FirstLines == {
    Line0("GET  http://u@h:1/p?q#f  HTTP/10.12\n", "http://u@h:1/p?q#f", 10, 12, TRUE),
    Line0("GET /##?#a\r\n", "/##?#a", 0, 9, FALSE),
    Line0("GET h://[::1]?\n", "h://[::1]?", 0, 9, FALSE),
    Line0("GET / HTTP/1.0\r\n", "/", 1, 0, FALSE),
    Req(<<Piece("GET / HTTP/1.0\r\n", <<Begin, Ev("url", "/")>>),
          Field("Connection", "keep-alive"),
          Empty(<<HeadersEnd("GET", 1, 0, 0, FALSE)>>), NoBodyThen(TRUE)>>)
}

Started == Piece("", <<Begin>>)
Located == Piece("GET / ", <<Begin, Ev("url", "/")>>)
Headed == Piece("GET / HTTP/1.1\r\n", <<Begin, Ev("url", "/")>>)
Named(name) == Piece(name \o ": ", <<Ev("header_field", name)>>)
ChunkedPost == Post(<<Chunked>>)
Malformed == {
    BadReq(<<>>, "xyz", "INVALID_METHOD"),
    BadReq(<<>>, "(", "INVALID_METHOD"),
    BadReq(<<Started>>, "POX", "INVALID_METHOD"),
    BadReq(<<Started>>, "GET  ^", "INVALID_URL"),
    BadReq(<<Started>>, "GET h /", "INVALID_URL"),
    BadReq(<<Started>>, "GET h:x", "INVALID_URL"),
    BadReq(<<Started>>, "GET /\t", "INVALID_URL"),
    BadReq(<<Located>>, "X", "INVALID_CONSTANT"),
    BadReq(<<Located>>, "HTX", "STRICT"),
    BadReq(<<Located>>, "HTTP/0", "INVALID_VERSION"),
    BadReq(<<Located>>, "HTTP/1x", "INVALID_VERSION"),
    BadReq(<<Located>>, "HTTP/1.x", "INVALID_VERSION"),
    BadReq(<<Located>>, "HTTP/1.1 ", "INVALID_VERSION"),
    BadReq(<<Located>>, "HTTP/1000", "INVALID_VERSION"),
    BadReq(<<Located>>, "HTTP/1.1\r\r", "LF_EXPECTED"),
    BadReq(<<Headed>>, "(", "INVALID_HEADER_TOKEN"),
    BadReq(<<Headed>>, "Ab c: d", "INVALID_HEADER_TOKEN"),
    BadReq(<<Headed, Field("A", "b")>>, "\r\r", "STRICT"),
    BadReq(<<Headed, Piece("A: b", <<Ev("header_field", "A"),
                                     Ev("header_value", "b")>>)>>, "\r\r", "STRICT"),
    BadReq(<<Headed, Named("Content-Length")>>, "x", "INVALID_CONTENT_LENGTH"),
    BadReq(<<Headed, Named("Content-Length")>>, "1x", "INVALID_CONTENT_LENGTH"),
    BadReq(<<Headed, Named("Content-Length")>>, "100", "INVALID_CONTENT_LENGTH"),
    BadReq(<<Headed, Named("Content-Length")>>, "60", "INVALID_CONTENT_LENGTH"),
    BadReq(<<Headed, Length("1")>>, " 2", "INVALID_CONTENT_LENGTH"),
    BadReq(<<Post(<<Length("59")>>)>>, "", "INVALID_EOF_STATE"),
    BadReq(<<Headed>>, "", "INVALID_EOF_STATE"),
    BadReq(<<Headed, Piece("A", <<>>)>>, Forty \o Forty, "HEADER_OVERFLOW"),
    BadReq(<<Headed, Named("A")>>, Forty \o Forty, "HEADER_OVERFLOW"),
    BadReq(<<Headed, Named("A")>>, Forty \o Seventeen \o "\r\n", "HEADER_OVERFLOW"),
    BadReq(<<Headed, Named("A")>>, Forty \o Seventeen \o "\n", "HEADER_OVERFLOW"),
    BadReq(<<Started>>, "GET /" \o Forty \o Forty, "HEADER_OVERFLOW"),
    BadReq(<<ChunkedPost>>, "x", "INVALID_CHUNK_SIZE"),
    BadReq(<<ChunkedPost>>, "1x", "INVALID_CHUNK_SIZE"),
    BadReq(<<ChunkedPost>>, "100", "INVALID_CONTENT_LENGTH"),
    BadReq(<<ChunkedPost>>, "2F;\rx", "STRICT"),
    BadReq(<<ChunkedPost, Piece("1\r\na", <<Announced(1), Ev("body", "a")>>)>>,
           "\rx", "STRICT"),
    BadReq(<<ChunkedPost, Piece("1\r\n", <<Announced(1)>>)>>, "ab", "STRICT"),
    BadReq(<<ChunkedPost, Piece("0\r\n", <<Announced(0)>>), Named("A")>>,
           Forty \o Forty, "HEADER_OVERFLOW"),
    BadRes(<<>>, "X", "INVALID_CONSTANT"),
    BadRes(<<Started>>, "HTTP/x", "INVALID_VERSION"),
    BadRes(<<Started>>, "HTTP/1.1 x", "INVALID_STATUS"),
    BadRes(<<Started>>, "HTTP/1.1  2x", "INVALID_STATUS"),
    BadRes(<<Started>>, "HTTP/1.1 2000", "INVALID_STATUS")
}

(* As the comment "Skip lws" has it, this one is closed.                     *)
TabStreams == {With(<<Field("Connection", "a,\tclose")>>, FALSE)}

AllStreams == Dialogues \cup Every \cup Leaving \cup HeaderLines
              \cup FirstLines \cup Malformed
=============================================================================
