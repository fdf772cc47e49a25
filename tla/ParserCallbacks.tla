--------------------------- MODULE ParserCallbacks ---------------------------
(* What a user of http_parser may rely on: the order in which the callbacks *)
(* of http_parser_settings are made, however the bytes arrive. Consecutive   *)
(* calls of one data callback count as one.                                  *)
VARIABLES last,      \* the callback made last
          trailing   \* the last chunk of a chunked body has been announced

AfterHeaders == {"body", "chunk_header", "message_complete"}

(* Between the headers and their end; trailers end with their chunk.         *)
AfterLine(end) == {"header_field", end}

Follows ==
    CASE last = "none" -> {"message_begin"}
      [] last = "message_begin" ->
            {"url", "status", "message_begin"} \cup AfterLine("headers_complete")
      [] last \in {"url", "status"} -> AfterLine("headers_complete")
      [] last = "header_field" -> {"header_value"}
      [] last = "header_value" ->
            AfterLine(IF trailing THEN "chunk_complete" ELSE "headers_complete")
      [] last = "headers_complete" -> AfterHeaders
      [] last = "chunk_header" ->
            IF trailing THEN AfterLine("chunk_complete") ELSE {"body"}
      [] last = "body" -> {"chunk_complete", "message_complete"}
      [] last = "chunk_complete" ->
            IF trailing THEN {"message_complete"} ELSE {"chunk_header"}
      [] last = "message_complete" -> {"message_begin"}

Init == last = "none" /\ trailing = FALSE

Callback(cb) ==
    /\ cb \in Follows
    /\ last' = cb
    /\ trailing' \in IF cb = "chunk_header" THEN BOOLEAN
                     ELSE IF cb = "message_begin" THEN {FALSE} ELSE {trailing}

Next == \E cb \in Follows : Callback(cb)

Spec == Init /\ [][Next]_<<last, trailing>>
=============================================================================
