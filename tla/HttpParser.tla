------------------------------ MODULE HttpParser ------------------------------
(* http_parser_execute of http_parser.c, byte by byte, in the strict build   *)
(* of this repository. A stream reaches the parser in buffers that end at    *)
(* any byte, as the reads of a session do, and then the connection ends. An  *)
(* action is one run through the switch of the loop (of an inner loop where  *)
(* there is one), named after its state. The callbacks return 0, except that *)
(* on_headers_complete may ask to skip the body; nobody pauses the parser.   *)
EXTENDS HttpUrl

CONSTANTS Streams,              \* the byte streams, what each of them means and
                                \* a bound: in how many places it may be cut
          ULLONG_MAX,           \* the largest uint64_t
          HTTP_MAX_HEADER_SIZE

ASSUME LimitsAssumption == /\ ULLONG_MAX \in Nat /\ ULLONG_MAX > 31
                           /\ HTTP_MAX_HEADER_SIZE \in Nat \ {0}
ASSUME StreamsAssumption ==
    \A s \in Streams : s.bytes \in Seq(Character) /\ s.cuts \in Nat

VARIABLES stream,   \* the stream that is being read
          parser,   \* struct http_parser
          call,     \* outside http_parser_execute, at its loop, in its switch
          p, end,   \* the next byte, and the last one of the buffer
          start,    \* the local of the inner loops, 0 before they start
          mark,     \* the five marks of the call, 0 for NULL
          events,   \* the callbacks so far, consecutive pieces put together
          cuts,     \* history: the buffers that ended before the stream did
          closed    \* the caller is through with the parser

env == <<stream, end, cuts, closed>>
vars == <<stream, parser, call, p, end, start, mark, events, cuts, closed>>

bytes == stream.bytes
c == At(bytes, p)
(* What LOWER makes of it; for a letter also what TOKEN gives.               *)
lc == LOWER(c)

Methods == {"DELETE", "GET", "HEAD", "POST", "PUT", "CONNECT", "OPTIONS",
            "TRACE", "COPY", "LOCK", "MKCOL", "MOVE", "PROPFIND", "PROPPATCH",
            "SEARCH", "UNLOCK", "REPORT", "MKACTIVITY", "CHECKOUT", "MERGE",
            "M-SEARCH", "NOTIFY", "SUBSCRIBE", "UNSUBSCRIBE", "PATCH",
            "PURGE", "MKCALENDAR"}
Spelled == [m \in Methods |-> Spell(m)]

Flags == {"F_CHUNKED", "F_CONNECTION_KEEP_ALIVE", "F_CONNECTION_CLOSE",
          "F_CONNECTION_UPGRADE", "F_TRAILING", "F_UPGRADE", "F_SKIPBODY"}

Marks == {"header_field", "header_value", "url", "body", "status"}
NoMarks == [m \in Marks |-> 0]

BodyStates == {"s_chunk_data", "s_chunk_data_almost_done", "s_chunk_data_done",
               "s_body_identity", "s_body_identity_eof", "s_message_done"}
PARSING_HEADER(state) == state \notin BodyStates

UrlStart == {"s_req_schema", "s_req_schema_slash", "s_req_schema_slash_slash",
             "s_req_server_start"}
UrlStates == {"s_req_server", "s_req_server_with_at", "s_req_path"}
             \cup Query \cup Fragment

(* Whether the end of the message is only known when the connection ends.    *)
http_message_needs_eof(q) ==
    /\ q.type # "HTTP_REQUEST"
    /\ q.status_code \div 100 # 1 /\ q.status_code \notin {204, 304}
    /\ "F_SKIPBODY" \notin q.flags
    /\ "F_CHUNKED" \notin q.flags /\ q.content_length = ULLONG_MAX

http_should_keep_alive(q) ==
    /\ IF q.http_major > 0 /\ q.http_minor > 0
       THEN "F_CONNECTION_CLOSE" \notin q.flags
       ELSE "F_CONNECTION_KEEP_ALIVE" \in q.flags
    /\ ~http_message_needs_eof(q)

start_state(type) ==
    IF type = "HTTP_REQUEST" THEN "s_start_req" ELSE "s_start_res"
NEW_MESSAGE(q) ==
    IF http_should_keep_alive(q) THEN start_state(q.type) ELSE "s_dead"

http_parser_init(type) ==
    [type |-> type, header_state |-> "h_general",
     state |-> IF type = "HTTP_BOTH" THEN "s_start_req_or_res"
                                     ELSE start_state(type),
     index |-> 0, nread |-> 0, content_length |-> 0, flags |-> {},
     http_major |-> 0, http_minor |-> 0, status_code |-> 0,
     method |-> "DELETE", http_errno |-> "OK", upgrade |-> FALSE]

Init ==
    /\ stream \in Streams
    /\ parser = http_parser_init(stream.type)
    /\ call = "outside" /\ p = 1 /\ end = 0 /\ start = 0
    /\ mark = NoMarks /\ events = <<>>
    /\ cuts = 0 /\ closed = FALSE

-----------------------------------------------------------------------------
(* What the application gets: consecutive calls of a data callback are one   *)
(* event, for callers put the pieces together. A notification carries what   *)
(* the parser then shows.                                                    *)
Shown(q) == [method |-> IF q.type = "HTTP_REQUEST" THEN q.method ELSE "",
             version |-> <<q.http_major, q.http_minor>>,
             status_code |-> q.status_code, upgrade |-> q.upgrade]

Event(cb, q) ==
    CASE cb = "headers_complete" -> [cb |-> cb, data |-> <<>>, shown |-> Shown(q)]
      [] cb = "chunk_header" ->
            [cb |-> cb, data |-> <<>>, length |-> q.content_length]
      [] cb = "message_complete" ->
            [cb |-> cb, data |-> <<>>, keep |-> http_should_keep_alive(q)]
      [] OTHER -> [cb |-> cb, data |-> <<>>]

Last == IF events = <<>> THEN "none" ELSE events[Len(events)].cb

Join(cb, text) ==
    IF Last = cb
    THEN [events EXCEPT ![Len(events)].data = @ \o text]
    ELSE Append(events, [cb |-> cb, data |-> text])

Silent == UNCHANGED <<events, mark>>
CALLBACK_NOTIFY(cb, q) ==
    events' = Append(events, Event(cb, q)) /\ UNCHANGED mark
From(m) == IF mark[m] = 0 THEN p ELSE mark[m]
MARK(m) == mark' = [mark EXCEPT ![m] = From(m)] /\ UNCHANGED events
(* The data from the mark m to byte q - 1, if m is set.                      *)
CALLBACK_DATA(m, q) ==
    /\ events' = IF mark[m] = 0 THEN events
                 ELSE Join(m, SubSeq(bytes, mark[m], q - 1))
    /\ mark' = [mark EXCEPT ![m] = 0]

(* How a run through the switch ends: on to the byte after q, the switch     *)
(* again for the same byte, or out of the function.                          *)
In(state) == call = "switch" /\ parser.state = state
Goto(state) == [parser EXCEPT !.state = state]
Go(new, q, where) ==
    /\ parser' = new /\ p' = q /\ call' = where
    /\ start' = 0
    /\ UNCHANGED env
Break(new) == Go(new, p + 1, "loop")
REEXECUTE(new) == Go(new, p, "switch")
(* What a run that fails has assigned before (a number over its limit, the   *)
(* fields of a message that does not begin) is left out: after an error      *)
(* nothing reads it.                                                         *)
Error(errno) == Go([parser EXCEPT !.http_errno = errno], end + 1, "outside")
(* The return after an upgrade: what follows is for the caller, who is asked *)
(* to look at upgrade (http_parser.h:224) and leaves the parser alone.       *)
Leave(new) ==
    /\ parser' = new /\ p' = end + 1 /\ call' = "outside" /\ closed' = TRUE
    /\ start' = 0
    /\ UNCHANGED <<stream, end, cuts>>

COUNT_HEADER_SIZE(n) == [parser EXCEPT !.nread = @ + n]
Overflows(n) == parser.nread + n > HTTP_MAX_HEADER_SIZE

-----------------------------------------------------------------------------
(* The call: entry, the head of the loop and the end of the buffer.          *)

(* Mutant: the fragment is forgotten among the states that resume url.       *)
Resumed_NoFragment(m, state) ==
    \/ m = "header_field" /\ state = "s_header_field"
    \/ m = "header_value" /\ state = "s_header_value"
    \/ m = "url" /\ state \in (UrlStart \cup UrlStates) \ Fragment
    \/ m = "status" /\ state = "s_res_status"

(* The marks a state resumes when a new buffer begins at byte q.             *)
Resumed(m, state) ==
    \/ m = "header_field" /\ state = "s_header_field"
    \/ m = "header_value" /\ state = "s_header_value"
    \/ m = "url" /\ state \in UrlStart \cup UrlStates
    \/ m = "status" /\ state = "s_res_status"

Receive(last) ==
    /\ call = "outside" /\ ~closed
    /\ last \in end + 1 .. Len(bytes)
    /\ last < Len(bytes) => cuts < stream.cuts
    /\ end' = last
    /\ cuts' = IF last < Len(bytes) THEN cuts + 1 ELSE cuts
    /\ UNCHANGED <<stream, parser, start, events, closed>>

Execute == \E last \in end + 1 .. Len(bytes) :
    /\ Receive(last)
    /\ parser.http_errno = "OK"
    /\ p' = end + 1 /\ call' = "loop"
    /\ mark' = [m \in Marks |->
                    IF Resumed(m, parser.state) THEN end + 1 ELSE 0]

(* After an error nothing is read.                                           *)
ExecuteAfterError == \E last \in end + 1 .. Len(bytes) :
    /\ Receive(last)
    /\ parser.http_errno # "OK"
    /\ p' = last + 1
    /\ UNCHANGED <<call, mark>>

(* The call with no bytes that tells the parser the connection has ended.    *)
ExecuteEof ==
    /\ call = "outside" /\ ~closed /\ end = Len(bytes)
    /\ closed' = TRUE
    /\ LET resting == {"s_dead", "s_start_req_or_res", "s_start_res",
                       "s_start_req"}
           early == /\ parser.http_errno = "OK"
                    /\ parser.state \notin resting \cup {"s_body_identity_eof"}
       IN  parser' = IF early
                     THEN [parser EXCEPT !.http_errno = "INVALID_EOF_STATE"]
                     ELSE parser
    /\ IF parser.http_errno = "OK" /\ parser.state = "s_body_identity_eof"
       THEN CALLBACK_NOTIFY("message_complete", parser)
       ELSE Silent
    /\ UNCHANGED <<stream, call, p, end, start, cuts>>

LoopHead ==
    /\ call = "loop" /\ p <= end
    /\ Silent
    /\ LET n == IF PARSING_HEADER(parser.state) THEN 1 ELSE 0
       IN  IF n = 1 /\ Overflows(n)
           THEN Error("HEADER_OVERFLOW")
           ELSE REEXECUTE(COUNT_HEADER_SIZE(n))

(* The data of the mark that is still set is delivered.                      *)
Leftover ==
    /\ call = "loop" /\ p > end
    /\ IF mark = NoMarks THEN Silent
       ELSE CALLBACK_DATA(CHOOSE m \in Marks : mark[m] # 0, p)
    /\ Go(parser, p, "outside")

-----------------------------------------------------------------------------
(* Between messages, and the first line of a response.                       *)

Fresh == [parser EXCEPT !.flags = {}, !.content_length = ULLONG_MAX]

s_dead ==
    /\ In("s_dead")
    /\ Silent
    /\ IF c \in {CR, LF} THEN Break(parser) ELSE Error("CLOSED_CONNECTION")

s_start_req_or_res ==
    /\ In("s_start_req_or_res")
    /\ \/ c \in {CR, LF} /\ Silent /\ Break(parser)
       \/ /\ c = "H"
          /\ CALLBACK_NOTIFY("message_begin", parser)
          /\ Break([Fresh EXCEPT !.state = "s_res_or_resp_H"])
       \/ /\ c \notin {CR, LF, "H"}
          /\ Silent
          /\ REEXECUTE([Fresh EXCEPT !.type = "HTTP_REQUEST",
                                     !.state = "s_start_req"])

s_res_or_resp_H ==
    /\ In("s_res_or_resp_H")
    /\ Silent
    /\ \/ /\ c = "T"
          /\ Break([parser EXCEPT !.type = "HTTP_RESPONSE",
                                  !.state = "s_res_HT"])
       \/ /\ c = "E"
          /\ Break([parser EXCEPT !.type = "HTTP_REQUEST", !.method = "HEAD",
                                  !.index = 2, !.state = "s_req_method"])
       \/ c \notin {"T", "E"} /\ Error("INVALID_CONSTANT")

(* A line end before a response begins a message too.                        *)
s_start_res ==
    /\ In("s_start_res")
    /\ \/ /\ c \in {"H", CR, LF}
          /\ CALLBACK_NOTIFY("message_begin", parser)
          /\ Break(IF c = "H" THEN [Fresh EXCEPT !.state = "s_res_H"]
                              ELSE Fresh)
       \/ c \notin {"H", CR, LF} /\ Silent /\ Error("INVALID_CONSTANT")

(* The states in which STRICT_CHECK wants one character, and the next state. *)
Literal ==
    [s_res_H |-> <<"T", "s_res_HT">>,
     s_res_HT |-> <<"T", "s_res_HTT">>,
     s_res_HTT |-> <<"P", "s_res_HTTP">>,
     s_res_HTTP |-> <<"/", "s_res_first_http_major">>,
     s_res_line_almost_done |-> <<LF, "s_header_field_start">>,
     s_req_http_H |-> <<"T", "s_req_http_HT">>,
     s_req_http_HT |-> <<"T", "s_req_http_HTT">>,
     s_req_http_HTT |-> <<"P", "s_req_http_HTTP">>,
     s_req_http_HTTP |-> <<"/", "s_req_first_http_major">>,
     s_header_almost_done |-> <<LF, "s_header_value_lws">>,
     s_header_value_discard_ws_almost_done |->
         <<LF, "s_header_value_discard_lws">>]

StrictLiteral ==
    /\ call = "switch" /\ parser.state \in DOMAIN Literal
    /\ Silent
    /\ IF c = Literal[parser.state][1]
       THEN Break(Goto(Literal[parser.state][2]))
       ELSE Error("STRICT")

(* The states that read the first digit of a number: the digits, the number, *)
(* and the state for the rest of it.                                         *)
FirstDigit ==
    [s_res_first_http_major |-> <<IS_NUM, "http_major", "s_res_http_major">>,
     s_res_first_http_minor |-> <<IS_NUM, "http_minor", "s_res_http_minor">>,
     s_req_first_http_major |->
         <<IS_NUM \ {"0"}, "http_major", "s_req_http_major">>,
     s_req_first_http_minor |-> <<IS_NUM, "http_minor", "s_req_http_minor">>]

FirstDigitState ==
    /\ call = "switch" /\ parser.state \in DOMAIN FirstDigit
    /\ Silent
    /\ LET row == FirstDigit[parser.state]
       IN  IF c \in row[1]
           THEN Break([parser EXCEPT ![row[2]] = unhex(c), !.state = row[3]])
           ELSE Error("INVALID_VERSION")

(* The states that read the other digits: the number, what may follow it and *)
(* where that leads, and the error.                                          *)
MoreDigits ==
    [s_res_http_major |->
        <<"http_major", {<<".", "s_res_first_http_minor">>}, "INVALID_VERSION">>,
     s_res_http_minor |->
        <<"http_minor", {<<" ", "s_res_first_status_code">>}, "INVALID_VERSION">>,
     s_res_status_code |->
        <<"status_code", {<<" ", "s_res_status_start">>,
                          <<CR, "s_res_line_almost_done">>,
                          <<LF, "s_header_field_start">>}, "INVALID_STATUS">>,
     s_req_http_major |->
        <<"http_major", {<<".", "s_req_first_http_minor">>}, "INVALID_VERSION">>,
     s_req_http_minor |->
        <<"http_minor", {<<CR, "s_req_line_almost_done">>,
                         <<LF, "s_header_field_start">>}, "INVALID_VERSION">>]

MoreDigitsState ==
    /\ call = "switch" /\ parser.state \in DOMAIN MoreDigits
    /\ Silent
    /\ LET row == MoreDigits[parser.state]
           number == 10 * parser[row[1]] + unhex(c)
       IN  \/ \E after \in row[2] : c = after[1] /\ Break(Goto(after[2]))
           \/ /\ c \in IS_NUM
              /\ IF number > 999 THEN Error(row[3])
                 ELSE Break([parser EXCEPT ![row[1]] = number])
           \/ /\ c \notin IS_NUM /\ \A after \in row[2] : c # after[1]
              /\ Error(row[3])

s_res_first_status_code ==
    /\ In("s_res_first_status_code")
    /\ Silent
    /\ \/ c = " " /\ Break(parser)
       \/ c \in IS_NUM /\ Break([parser EXCEPT !.status_code = unhex(c),
                                               !.state = "s_res_status_code"])
       \/ c \notin IS_NUM \cup {" "} /\ Error("INVALID_STATUS")

LineEnd == IF c = CR THEN "s_res_line_almost_done" ELSE "s_header_field_start"

s_res_status_start ==
    /\ In("s_res_status_start")
    /\ IF c \in {CR, LF}
       THEN Silent /\ Break(Goto(LineEnd))
       ELSE MARK("status") /\ Break([parser EXCEPT !.state = "s_res_status",
                                                   !.index = 0])

s_res_status ==
    /\ In("s_res_status")
    /\ IF c \in {CR, LF}
       THEN CALLBACK_DATA("status", p) /\ Break(Goto(LineEnd))
       ELSE Silent /\ Break(parser)

-----------------------------------------------------------------------------
(* The first line of a request.                                              *)

(* The method that a first letter is taken for.                              *)
FirstGuess ==
    [C |-> "CONNECT", D |-> "DELETE", G |-> "GET", H |-> "HEAD", L |-> "LOCK",
     M |-> "MKCOL", N |-> "NOTIFY", O |-> "OPTIONS", P |-> "POST",
     R |-> "REPORT", S |-> "SUBSCRIBE", T |-> "TRACE", U |-> "UNLOCK"]

(* What a character at an index that does not fit the guess corrects it to.  *)
Corrections ==
    {<<"CONNECT", 1, "H", "CHECKOUT">>, <<"CONNECT", 2, "P", "COPY">>,
     <<"MKCOL", 1, "O", "MOVE">>, <<"MKCOL", 1, "E", "MERGE">>,
     <<"MKCOL", 1, "-", "M-SEARCH">>, <<"MKCOL", 2, "A", "MKACTIVITY">>,
     <<"MKCOL", 3, "A", "MKCALENDAR">>, <<"SUBSCRIBE", 1, "E", "SEARCH">>,
     <<"POST", 1, "R", "PROPFIND">>, <<"POST", 1, "U", "PUT">>,
     <<"POST", 1, "A", "PATCH">>, <<"PUT", 2, "R", "PURGE">>,
     <<"UNLOCK", 2, "S", "UNSUBSCRIBE">>, <<"PROPFIND", 4, "P", "PROPPATCH">>}

s_start_req ==
    /\ In("s_start_req")
    /\ \/ c \in {CR, LF} /\ Silent /\ Break(parser)
       \/ /\ c \in DOMAIN FirstGuess
          /\ CALLBACK_NOTIFY("message_begin", parser)
          /\ Break([Fresh EXCEPT !.method = FirstGuess[c], !.index = 1,
                                 !.state = "s_req_method"])
       \/ /\ c \notin {CR, LF} \cup DOMAIN FirstGuess
          /\ Silent
          /\ Error("INVALID_METHOD")

s_req_method ==
    /\ In("s_req_method")
    /\ Silent
    /\ LET matcher == At(Spelled[parser.method], parser.index + 1)
           corrected == {row \in Corrections :
                            /\ row[1] = parser.method
                            /\ row[2] = parser.index /\ row[3] = c}
           next == [parser EXCEPT !.index = @ + 1]
       IN  \/ /\ c = " " /\ matcher = ""
              /\ Break([next EXCEPT !.state = "s_req_spaces_before_url"])
           \/ c = matcher /\ Break(next)
           \/ /\ c # matcher
              /\ \E row \in corrected : Break([next EXCEPT !.method = row[4]])
           \/ /\ c # matcher /\ ~(c = " " /\ matcher = "") /\ corrected = {}
              /\ Error("INVALID_METHOD")

(* A byte of the URL takes the parser from state to the next one.            *)
UrlByte(state) ==
    LET next == parse_url_char(state, c)
    IN  IF next = "s_dead" THEN Error("INVALID_URL") ELSE Break(Goto(next))

s_req_spaces_before_url ==
    /\ In("s_req_spaces_before_url")
    /\ IF c = " "
       THEN Silent /\ Break(parser)
       ELSE /\ MARK("url")
            /\ UrlByte(IF parser.method = "CONNECT" THEN "s_req_server_start"
                                                    ELSE parser.state)

s_req_url_start ==
    /\ call = "switch" /\ parser.state \in UrlStart
    /\ Silent
    /\ IF c \in {" ", CR, LF} THEN Error("INVALID_URL")
                              ELSE UrlByte(parser.state)

(* The URL may end here; without a version the request is one of HTTP/0.9.   *)
s_req_url ==
    /\ call = "switch" /\ parser.state \in UrlStates
    /\ \/ /\ c = " "
          /\ CALLBACK_DATA("url", p)
          /\ Break(Goto("s_req_http_start"))
       \/ /\ c \in {CR, LF}
          /\ CALLBACK_DATA("url", p)
          /\ Break([parser EXCEPT !.http_major = 0, !.http_minor = 9,
                                  !.state = IF c = CR
                                            THEN "s_req_line_almost_done"
                                            ELSE "s_header_field_start"])
       \/ c \notin {" ", CR, LF} /\ Silent /\ UrlByte(parser.state)

s_req_http_start ==
    /\ In("s_req_http_start")
    /\ Silent
    /\ \/ c = "H" /\ Break(Goto("s_req_http_H"))
       \/ c = " " /\ Break(parser)
       \/ c \notin {"H", " "} /\ Error("INVALID_CONSTANT")

s_req_line_almost_done ==
    /\ In("s_req_line_almost_done")
    /\ Silent
    /\ IF c = LF THEN Break(Goto("s_header_field_start"))
                 ELSE Error("LF_EXPECTED")

-----------------------------------------------------------------------------
(* Header fields. header_state tells how far the name has been recognised,   *)
(* and then how far the value has.                                           *)

FirstLetter == [c |-> "h_C", p |-> "h_matching_proxy_connection",
                t |-> "h_matching_transfer_encoding",
                u |-> "h_matching_upgrade"]

s_header_field_start ==
    /\ In("s_header_field_start")
    /\ \/ c = CR /\ Silent /\ Break(Goto("s_headers_almost_done"))
       \/ c = LF /\ Silent /\ REEXECUTE(Goto("s_headers_almost_done"))
       \/ /\ c \in TOKEN
          /\ MARK("header_field")
          /\ Break([parser EXCEPT !.index = 0, !.state = "s_header_field",
                      !.header_state = IF lc \in DOMAIN FirstLetter
                                       THEN FirstLetter[lc] ELSE "h_general"])
       \/ /\ c \notin TOKEN \cup {CR, LF}
          /\ Silent
          /\ Error("INVALID_HEADER_TOKEN")

(* One more letter of a name that shares its beginning with others.          *)
SharedLetters == {<<"h_C", "o", "h_CO">>, <<"h_CO", "n", "h_CON">>,
                  <<"h_CON", "n", "h_matching_connection">>,
                  <<"h_CON", "t", "h_matching_content_length">>}

(* The words that are compared letter by letter: the word, the state once    *)
(* all of it is there and the state after a letter that differs.             *)
Words ==
    [h_matching_connection |->
        <<Spell("connection"), "h_connection", "h_general">>,
     h_matching_proxy_connection |->
        <<Spell("proxy-connection"), "h_connection", "h_general">>,
     h_matching_content_length |->
        <<Spell("content-length"), "h_content_length", "h_general">>,
     h_matching_transfer_encoding |->
        <<Spell("transfer-encoding"), "h_transfer_encoding", "h_general">>,
     h_matching_upgrade |-> <<Spell("upgrade"), "h_upgrade", "h_general">>,
     h_matching_transfer_encoding_chunked |->
        <<Spell("chunked"), "h_transfer_encoding_chunked", "h_general">>,
     h_matching_connection_keep_alive |->
        <<Spell("keep-alive"), "h_connection_keep_alive",
          "h_matching_connection_token">>,
     h_matching_connection_close |->
        <<Spell("close"), "h_connection_close", "h_matching_connection_token">>,
     h_matching_connection_upgrade |->
        <<Spell("upgrade"), "h_connection_upgrade",
          "h_matching_connection_token">>]

(* The lengths of the literals: index starts at 1 or 2 in a method and at 0  *)
(* in a word, and has eight bits; what a character corrects a method to goes *)
(* on after that character.                                                  *)
ASSUME SpellingAssumption ==
    /\ \A m \in Methods : Len(Spelled[m]) \in 2 .. 254
    /\ \A hs \in DOMAIN Words : Len(Words[hs][1]) \in 5 .. 255
    /\ \A row \in Corrections : row[2] < Len(Spelled[row[4]])

Match(row) ==
    LET index == parser.index + 1
    IN  [parser EXCEPT !.index = index,
            !.header_state = IF lc # At(row[1], index + 1) THEN row[3]
                             ELSE IF index = Len(row[1]) - 1 THEN row[2]
                             ELSE @]

InnerLoop(state) == In(state) /\ p <= end
(* One round of an inner loop, which goes on at byte q.                      *)
Inner(new, q) ==
    /\ parser' = new /\ p' = q
    /\ start' = IF start = 0 THEN p ELSE start
    /\ UNCHANGED <<call, events, mark>> /\ UNCHANGED env
(* Mutant: the bytes of an inner loop are not counted.                       *)
InnerRead_None == 0

(* The bytes an inner loop has run over.                                     *)
InnerRead == IF start = 0 THEN 0 ELSE p - start

FieldByte ==
    /\ InnerLoop("s_header_field") /\ c \in TOKEN
    /\ LET hs == parser.header_state
           shared == {row \in SharedLetters : row[1] = hs /\ row[2] = lc}
       IN  \/ hs \in DOMAIN Words /\ Inner(Match(Words[hs]), p + 1)
           \/ /\ hs \in {"h_C", "h_CO", "h_CON"}
              /\ Inner([parser EXCEPT !.index = @ + 1,
                          !.header_state =
                             IF shared = {} THEN "h_general"
                             ELSE (CHOOSE row \in shared : TRUE)[3]], p + 1)
           \/ /\ hs \in {"h_general", "h_connection", "h_content_length",
                         "h_transfer_encoding", "h_upgrade"}
              /\ Inner([parser EXCEPT !.header_state = "h_general"], p + 1)

(* The name stops at the end of the buffer, at its colon, or at a byte that  *)
(* may not be there.                                                         *)
FieldEnds ==
    /\ In("s_header_field") /\ (p > end \/ c \notin TOKEN)
    /\ LET counted == COUNT_HEADER_SIZE(InnerRead)
       IN  \/ Overflows(InnerRead) /\ Silent /\ Error("HEADER_OVERFLOW")
           \/ ~Overflows(InnerRead) /\ p > end /\ Silent /\ Go(counted, p, "loop")
           \/ /\ ~Overflows(InnerRead) /\ p <= end /\ c = ":"
              /\ CALLBACK_DATA("header_field", p)
              /\ Break([counted EXCEPT !.state = "s_header_value_discard_ws"])
           \/ /\ ~Overflows(InnerRead) /\ p <= end /\ c # ":"
              /\ Silent
              /\ Error("INVALID_HEADER_TOKEN")

s_header_value_discard_ws ==
    /\ In("s_header_value_discard_ws")
    /\ Silent
    /\ \/ c \in {" ", TAB} /\ Break(parser)
       \/ c = CR /\ Break(Goto("s_header_value_discard_ws_almost_done"))
       \/ c = LF /\ Break(Goto("s_header_value_discard_lws"))

(* The first letter of a value of Connection.                                *)
ConnectionWord(letter) ==
    CASE letter = "k" -> "h_matching_connection_keep_alive"
      [] letter = "c" -> "h_matching_connection_close"
      [] letter = "u" -> "h_matching_connection_upgrade"
      [] OTHER -> "h_matching_connection_token"

(* The first byte of a value, and of each of its further lines; the first    *)
(* case falls through from s_header_value_discard_ws.                        *)
s_header_value_start ==
    /\ \/ In("s_header_value_discard_ws") /\ c \notin {" ", TAB, CR, LF}
       \/ In("s_header_value_start")
    /\ MARK("header_value")
    /\ LET hs == parser.header_state
           value == [parser EXCEPT !.state = "s_header_value", !.index = 0]
           Becomes(state) == Break([value EXCEPT !.header_state = state])
       IN  \/ hs = "h_upgrade"
              /\ Break([value EXCEPT !.flags = @ \cup {"F_UPGRADE"},
                                     !.header_state = "h_general"])
           \/ hs = "h_transfer_encoding"
              /\ Becomes(IF lc = "c" THEN "h_matching_transfer_encoding_chunked"
                                     ELSE "h_general")
           \/ hs = "h_content_length"
              /\ IF c \in IS_NUM
                 THEN Break([value EXCEPT !.content_length = unhex(c)])
                 ELSE Error("INVALID_CONTENT_LENGTH")
           \/ hs = "h_connection" /\ Becomes(ConnectionWord(lc))
           \/ hs = "h_matching_connection_token_start" /\ Break(value)
           \/ /\ hs \notin {"h_upgrade", "h_transfer_encoding", "h_connection",
                            "h_content_length",
                            "h_matching_connection_token_start"}
              /\ Becomes("h_general")

(* The inner loop of s_header_value. The code keeps header_state in a local  *)
(* meanwhile and stores it before anybody can look at it.                    *)
ValueByte(header_state) ==
    /\ InnerLoop("s_header_value") /\ c \notin {CR, LF}
    /\ parser.header_state = header_state
Recognised(state) == [parser EXCEPT !.header_state = state]

(* Mutant: the search does not stop at the end of the buffer.                *)
NextLineEnd_Past ==
    LET found == {q \in p .. p + HTTP_MAX_HEADER_SIZE - 1 :
                     At(bytes, q) \in {CR, LF}}
    IN  IF found = {} THEN {p + HTTP_MAX_HEADER_SIZE}
        ELSE {q \in found : \A other \in found : q <= other}

(* memchr, over at most HTTP_MAX_HEADER_SIZE bytes: where the next line end  *)
(* is, or the end of the buffer.                                             *)
NextLineEnd ==
    LET far == p + HTTP_MAX_HEADER_SIZE - 1
        found == {q \in p .. (IF far < end THEN far ELSE end) :
                     At(bytes, q) \in {CR, LF}}
    IN  IF found = {} THEN {end + 1}
        ELSE {q \in found : \A other \in found : q <= other}

ValueGeneral ==
    ValueByte("h_general") /\ \E q \in NextLineEnd : Inner(parser, q)

(* Mutant: the test allows one digit too many.                               *)
TooLong_Late(base) == ULLONG_MAX - base < parser.content_length

(* The conservative test before a number takes in a digit in its base.       *)
TooLong(base) == (ULLONG_MAX - base) \div base < parser.content_length

(* The number with the digit, in 64 bits.                                    *)
WithDigit(base) ==
    (base * parser.content_length + unhex(c)) % (ULLONG_MAX + 1)

ValueLength ==
    /\ ValueByte("h_content_length")
    /\ \/ c = " " /\ Inner(parser, p + 1)
       \/ /\ c \in IS_NUM /\ ~TooLong(10)
          /\ Inner([parser EXCEPT !.content_length = WithDigit(10)], p + 1)
       \/ /\ IF c \in IS_NUM THEN TooLong(10) ELSE c # " "
          /\ Silent
          /\ Error("INVALID_CONTENT_LENGTH")

ValueWord == \E hs \in DOMAIN Words :
    ValueByte(hs) /\ Inner(Match(Words[hs]), p + 1)

(* The first byte of a word after a comma. It is looked up after LOWER: a    *)
(* tabulator has then become a parenthesis and _ is no token any more, so    *)
(* both end the search; @ has become a backquote, which is a token.          *)
ValueTokenStart ==
    /\ ValueByte("h_matching_connection_token_start")
    /\ Inner(CASE lc \in {"k", "c", "u"} \cup TOKEN ->
                    Recognised(ConnectionWord(lc))
               [] lc \in {" ", TAB} -> parser
               [] OTHER -> Recognised("h_general"), p + 1)

ValueToken ==
    /\ ValueByte("h_matching_connection_token")
    /\ Inner(IF c = ","
             THEN [parser EXCEPT !.index = 0,
                     !.header_state = "h_matching_connection_token_start"]
             ELSE parser, p + 1)

ValueAfterChunked ==
    /\ ValueByte("h_transfer_encoding_chunked")
    /\ Inner(IF c = " " THEN parser ELSE Recognised("h_general"), p + 1)

(* The flag that a recognised value sets.                                    *)
FlagOf == [h_connection_keep_alive |-> {"F_CONNECTION_KEEP_ALIVE"},
           h_connection_close |-> {"F_CONNECTION_CLOSE"},
           h_connection_upgrade |-> {"F_CONNECTION_UPGRADE"},
           h_transfer_encoding_chunked |-> {"F_CHUNKED"}]

ValueAfterWord == \E hs \in DOMAIN FlagOf \ {"h_transfer_encoding_chunked"} :
    /\ ValueByte(hs)
    /\ Inner(CASE c = "," ->
                    [parser EXCEPT !.flags = @ \cup FlagOf[hs], !.index = 0,
                       !.header_state = "h_matching_connection_token_start"]
               [] c = " " -> parser
               [] OTHER -> Recognised("h_matching_connection_token"), p + 1)

(* The value is cut by the end of the buffer, or its line is over: the code  *)
(* counts after the callback at a CR and before it at an LF.                 *)
ValueEnds ==
    /\ In("s_header_value") /\ (p > end \/ c \in {CR, LF})
    /\ LET counted == COUNT_HEADER_SIZE(InnerRead)
           done == [counted EXCEPT !.state = "s_header_almost_done"]
       IN  \/ p > end /\ Silent
              /\ IF Overflows(InnerRead) THEN Error("HEADER_OVERFLOW")
                                         ELSE Go(counted, p, "loop")
           \/ p <= end /\ c = CR /\ CALLBACK_DATA("header_value", p)
              /\ IF Overflows(InnerRead) THEN Error("HEADER_OVERFLOW")
                                         ELSE Break(done)
           \/ p <= end /\ c = LF
              /\ IF Overflows(InnerRead)
                 THEN Silent /\ Error("HEADER_OVERFLOW")
                 ELSE CALLBACK_DATA("header_value", p) /\ REEXECUTE(done)

(* Mutant: the state is not changed before the byte is looked at again.      *)
Finished_Stays(state) ==
    [parser EXCEPT !.flags = @ \cup (IF parser.header_state \in DOMAIN FlagOf
                                     THEN FlagOf[parser.header_state] ELSE {})]

(* The value is complete: the flag it sets, if any.                          *)
Finished(state) ==
    [parser EXCEPT !.state = state,
        !.flags = @ \cup (IF parser.header_state \in DOMAIN FlagOf
                          THEN FlagOf[parser.header_state] ELSE {})]

(* A line that begins with a blank continues the value.                      *)
s_header_value_lws ==
    /\ In("s_header_value_lws")
    /\ Silent
    /\ IF c \in {" ", TAB} THEN REEXECUTE(Goto("s_header_value_start"))
                           ELSE REEXECUTE(Finished("s_header_field_start"))

(* Mutant: an empty value is not given to the application.                   *)
s_header_value_discard_lws_Silent ==
    /\ In("s_header_value_discard_lws")
    /\ Silent
    /\ IF c \in {" ", TAB}
       THEN Break(Goto("s_header_value_discard_ws"))
       ELSE REEXECUTE(Finished("s_header_field_start"))

(* No value on the line of the name: on the next line, or there is none.     *)
s_header_value_discard_lws ==
    /\ In("s_header_value_discard_lws")
    /\ IF c \in {" ", TAB}
       THEN Silent /\ Break(Goto("s_header_value_discard_ws"))
       ELSE /\ events' = Join("header_value", <<>>) /\ UNCHANGED mark
            /\ REEXECUTE(Finished("s_header_field_start"))

-----------------------------------------------------------------------------
(* The end of the headers, and the bodies.                                   *)

(* The blank line: after the headers the application is asked whether there  *)
(* is a body to skip, after the trailers of a chunked body the message ends. *)
s_headers_almost_done ==
    /\ In("s_headers_almost_done")
    /\ LET upgrade == \/ {"F_UPGRADE", "F_CONNECTION_UPGRADE"}
                         \subseteq parser.flags
                      \/ parser.method = "CONNECT"
           done == [parser EXCEPT !.state = "s_headers_done",
                                  !.upgrade = upgrade]
       IN  \/ c # LF /\ Silent /\ Error("STRICT")
           \/ /\ c = LF /\ "F_TRAILING" \in parser.flags
              /\ CALLBACK_NOTIFY("chunk_complete", parser)
              /\ REEXECUTE(Goto("s_message_done"))
           \/ /\ c = LF /\ "F_TRAILING" \notin parser.flags
              /\ CALLBACK_NOTIFY("headers_complete", done)
              /\ REEXECUTE(IF stream.skip
                           THEN [done EXCEPT !.flags = @ \cup {"F_SKIPBODY"}]
                           ELSE done)

(* Mutant: the bytes of the headers are not forgotten.                       *)
Restarted_Forgotten(q) == q
(* The count of header bytes starts again.                                   *)
Restarted(q) == [q EXCEPT !.nread = 0]

HasBody(q) ==
    \/ "F_CHUNKED" \in q.flags
    \/ q.content_length > 0 /\ q.content_length # ULLONG_MAX

NoBody(q) ==
    \/ "F_SKIPBODY" \in q.flags
    \/ /\ "F_CHUNKED" \notin q.flags
       /\ \/ q.content_length = 0
          \/ q.content_length = ULLONG_MAX /\ ~http_message_needs_eof(q)

s_headers_done ==
    /\ In("s_headers_done")
    /\ LET q == Restarted(parser)
           ended == [q EXCEPT !.state = NEW_MESSAGE(q)]
           leaves == q.upgrade /\ (\/ q.method = "CONNECT"
                                   \/ "F_SKIPBODY" \in q.flags
                                   \/ ~HasBody(q))
       IN  \/ /\ leaves
              /\ CALLBACK_NOTIFY("message_complete", ended)
              /\ Leave(ended)
           \/ /\ ~leaves /\ NoBody(q)
              /\ CALLBACK_NOTIFY("message_complete", ended)
              /\ Break(ended)
           \/ /\ ~leaves /\ ~NoBody(q)
              /\ Silent
              /\ Break([q EXCEPT !.state =
                           IF "F_CHUNKED" \in q.flags THEN "s_chunk_size_start"
                           ELSE IF HasBody(q) THEN "s_body_identity"
                           ELSE "s_body_identity_eof"])

(* How many bytes of a body the buffer holds.                                *)
to_read == IF parser.content_length < end - p + 1 THEN parser.content_length
                                                  ELSE end - p + 1
Taken == [parser EXCEPT !.content_length = @ - to_read]

(* Mutant: the last byte of a body is left to the next callback.             *)
BodyEnd_NoExtraByte(last) == last

(* The body is delivered together with its last byte, which is then seen     *)
(* again for the end of the message.                                         *)
BodyEnd(last) == last + 1

s_body_identity ==
    /\ In("s_body_identity")
    /\ LET last == p + to_read - 1
       IN  IF Taken.content_length = 0
           THEN /\ events' = Join("body",
                                  SubSeq(bytes, From("body"), BodyEnd(last) - 1))
                /\ mark' = [mark EXCEPT !["body"] = 0]
                /\ Go([Taken EXCEPT !.state = "s_message_done"], last, "switch")
           ELSE MARK("body") /\ Go(Taken, last + 1, "loop")

s_body_identity_eof ==
    /\ In("s_body_identity_eof")
    /\ MARK("body")
    /\ Go(parser, end + 1, "loop")

s_message_done ==
    /\ In("s_message_done")
    /\ LET ended == Goto(NEW_MESSAGE(parser))
       IN  /\ CALLBACK_NOTIFY("message_complete", ended)
           /\ IF parser.upgrade THEN Leave(ended) ELSE Break(ended)

s_chunk_size_start ==
    /\ In("s_chunk_size_start")
    /\ Silent
    /\ IF c \in IS_HEX
       THEN Break([parser EXCEPT !.content_length = unhex(c),
                                 !.state = "s_chunk_size"])
       ELSE Error("INVALID_CHUNK_SIZE")

s_chunk_size ==
    /\ In("s_chunk_size")
    /\ Silent
    /\ \/ c = CR /\ Break(Goto("s_chunk_size_almost_done"))
       \/ c \in {";", " "} /\ Break(Goto("s_chunk_parameters"))
       \/ /\ c \in IS_HEX
          /\ IF TooLong(16) THEN Error("INVALID_CONTENT_LENGTH")
             ELSE Break([parser EXCEPT !.content_length = WithDigit(16)])
       \/ c \notin IS_HEX \cup {CR, ";", " "} /\ Error("INVALID_CHUNK_SIZE")

s_chunk_parameters ==
    /\ In("s_chunk_parameters")
    /\ Silent
    /\ Break(IF c = CR THEN Goto("s_chunk_size_almost_done") ELSE parser)

s_chunk_size_almost_done ==
    /\ In("s_chunk_size_almost_done")
    /\ \/ c # LF /\ Silent /\ Error("STRICT")
       \/ /\ c = LF
          /\ LET q == Restarted(parser)
                 next == IF q.content_length = 0
                         THEN [q EXCEPT !.flags = @ \cup {"F_TRAILING"},
                                        !.state = "s_header_field_start"]
                         ELSE [q EXCEPT !.state = "s_chunk_data"]
             IN  CALLBACK_NOTIFY("chunk_header", next) /\ Break(next)

s_chunk_data ==
    /\ In("s_chunk_data")
    /\ MARK("body")
    /\ Go(IF Taken.content_length = 0
          THEN [Taken EXCEPT !.state = "s_chunk_data_almost_done"] ELSE Taken,
          p + to_read, "loop")

s_chunk_data_almost_done ==
    /\ In("s_chunk_data_almost_done")
    /\ IF c = CR
       THEN /\ CALLBACK_DATA("body", p)
            /\ Break(Goto("s_chunk_data_done"))
       ELSE Silent /\ Error("STRICT")

s_chunk_data_done ==
    /\ In("s_chunk_data_done")
    /\ \/ c # LF /\ Silent /\ Error("STRICT")
       \/ /\ c = LF
          /\ CALLBACK_NOTIFY("chunk_complete", parser)
          /\ Break([Restarted(parser) EXCEPT !.state = "s_chunk_size_start"])

-----------------------------------------------------------------------------
FirstLine ==
    \/ s_dead \/ s_start_req_or_res \/ s_res_or_resp_H \/ s_start_res
    \/ StrictLiteral \/ FirstDigitState \/ MoreDigitsState
    \/ s_res_first_status_code \/ s_res_status_start \/ s_res_status
    \/ s_start_req \/ s_req_method \/ s_req_spaces_before_url
    \/ s_req_url_start \/ s_req_url \/ s_req_http_start
    \/ s_req_line_almost_done

Headers ==
    \/ s_header_field_start \/ FieldByte \/ FieldEnds
    \/ s_header_value_discard_ws \/ s_header_value_start
    \/ ValueGeneral \/ ValueLength \/ ValueWord \/ ValueTokenStart
    \/ ValueToken \/ ValueAfterChunked \/ ValueAfterWord \/ ValueEnds
    \/ s_header_value_lws \/ s_header_value_discard_lws

Bodies ==
    \/ s_headers_almost_done \/ s_headers_done
    \/ s_body_identity \/ s_body_identity_eof \/ s_message_done
    \/ s_chunk_size_start \/ s_chunk_size \/ s_chunk_parameters
    \/ s_chunk_size_almost_done \/ s_chunk_data \/ s_chunk_data_almost_done
    \/ s_chunk_data_done

Parse == LoopHead \/ Leftover \/ FirstLine \/ Headers \/ Bodies

Next == Execute \/ ExecuteAfterError \/ ExecuteEof \/ Parse

(* A call goes on until it returns; whether there is another one is up to    *)
(* the caller.                                                               *)
Spec == Init /\ [][Next]_vars /\ WF_vars(Parse)

-----------------------------------------------------------------------------
ValueStates == {"h_general", "h_content_length",
                "h_matching_transfer_encoding_chunked",
                "h_matching_connection_token_start",
                "h_matching_connection_token"} \cup DOMAIN FlagOf
               \cup {"h_matching_connection_keep_alive",
                    "h_matching_connection_close",
                    "h_matching_connection_upgrade"}

(* No byte outside the buffer is looked at, and no mark points outside it.   *)
InBuffer ==
    /\ stream \in Streams
    /\ call \in {"outside", "loop", "switch"}
    /\ p \in 1 .. end + 1 /\ end \in 0 .. Len(bytes) /\ start \in 0 .. end
    /\ mark \in [Marks -> 0 .. end + 1]
    /\ cuts \in 0 .. stream.cuts /\ closed \in BOOLEAN
    /\ call = "switch" => p <= end \/ start > 0

(* The parser's fields keep to the ranges their bit fields and comments give *)
(* them (http_parser.h:206-229).                                             *)
FieldsFit ==
    /\ parser.nread \in Nat /\ parser.content_length \in 0 .. ULLONG_MAX
    /\ parser.flags \subseteq Flags /\ parser.method \in Methods
    /\ parser.http_major \in 0 .. 999 /\ parser.http_minor \in 0 .. 999
    /\ parser.status_code \in 0 .. 999

(* The two, and the eight bits of index (http_parser.h:212): a word or a     *)
(* method never matches further than its own length.                         *)
TypeOK == InBuffer /\ FieldsFit /\ parser.index \in 0 .. 255

(* The assertions of the code: whenever the switch is entered for a state    *)
(* that asserts something, it is so (http_parser.c:1588, 1898, 1947, 1948,   *)
(* 1965, 2000, 2011, 2031-2033, 2050, 2051, 2058), and at most one mark is   *)
(* left at the end of a buffer (2082-2086).                                  *)
AssertionsHold ==
    /\ call = "switch" => parser.http_errno = "OK"
    /\ In("s_header_value") => parser.header_state \in ValueStates
    /\ In("s_body_identity") \/ In("s_chunk_data") =>
           parser.content_length \notin {0, ULLONG_MAX}
    /\ In("s_chunk_size_start") => parser.nread = 1
    /\ In("s_chunk_data_almost_done") => parser.content_length = 0
    /\ call = "switch"
       /\ parser.state \in {"s_chunk_size_start", "s_chunk_size",
                            "s_chunk_parameters", "s_chunk_size_almost_done",
                            "s_chunk_data", "s_chunk_data_almost_done",
                            "s_chunk_data_done"}
       => "F_CHUNKED" \in parser.flags
    /\ call = "loop" /\ p > end =>
           \A m, n \in Marks : mark[m] # 0 /\ mark[n] # 0 => m = n

(* Wherever the stream is cut into buffers, the application gets the         *)
(* callbacks that the stream means, and the parser ends with the error it    *)
(* means; before an error it may have got the beginning of one more piece    *)
(* of data (http_parser.h:79-82, http_parser.c:2072-2080).                   *)
ParsesWhatWasSent ==
    LET n == Len(stream.events)
    IN  closed =>
        /\ parser.http_errno = stream.errno
        /\ \/ events = stream.events
           \/ /\ stream.errno # "OK"
              /\ Len(events) = n + 1 /\ SubSeq(events, 1, n) = stream.events
              /\ Last \in Marks

(* The comment "Skip lws" at http_parser.c:1641: a blank or a tabulator      *)
(* after a comma of a Connection header is skipped, and the next word is     *)
(* still looked at.                                                          *)
SkipsLws ==
    [][ValueTokenStart /\ c \in {" ", TAB} =>
           parser'.header_state = "h_matching_connection_token_start"]_vars

(* Reading a length never wraps around its 64 bits: a digit that is taken in *)
(* makes it the number that is written (http_parser.c:1607-1614, 1988-1994). *)
LengthsNeverWrap ==
    [][LET longer(base) ==
              parser'.content_length = base * parser.content_length + unhex(c)
       IN  /\ ValueByte("h_content_length")
              /\ parser'.header_state = "h_content_length"
              /\ parser'.http_errno = "OK" /\ c \in IS_NUM
              => longer(10)
           /\ In("s_chunk_size") /\ parser'.http_errno = "OK" /\ c \in IS_HEX
              => longer(16)]_vars

(* The header data among the events, since the count last started.           *)
HeaderBytesIn(evs) ==
    LET given[i \in 0 .. Len(evs)] ==
            IF i = 0 THEN 0
            ELSE IF evs[i].cb \in Marks \ {"body"}
            THEN given[i - 1] + Len(evs[i].data)
            ELSE IF evs[i].cb \in {"message_begin", "headers_complete",
                                   "chunk_header"} THEN 0
            ELSE given[i - 1]
    IN  given[Len(evs)]
HeaderBytes == HeaderBytesIn(events)

(* A caller never has to keep more header than the limit, in how many pieces *)
(* ever it comes and for the trailers of a chunked body too: that is what    *)
(* the limit is for (http_parser.c:147-152).                                 *)
HeaderBounded ==
    call = "outside" /\ parser.http_errno = "OK"
    /\ PARSING_HEADER(parser.state)
    => HeaderBytes <= HTTP_MAX_HEADER_SIZE

Callbacks == INSTANCE ParserCallbacks WITH
    last <- Last, trailing <- "F_TRAILING" \in parser.flags

(* The callbacks come in the order a user of the parser relies on            *)
(* (http_parser.h:236-250).                                                  *)
ImplementsCallbacks == Callbacks!Spec

(* A call returns: no byte sends the automaton round its switch for ever by  *)
(* REEXECUTE, and no inner loop stays where it is (http_parser.c:74, 700).   *)
CallsReturn == call # "outside" ~> call = "outside"
=============================================================================
