------------------------------- MODULE HttpUrl -------------------------------
(* http_parser_parse_url of http_parser.c as operators: the automaton        *)
(* parse_url_char, which http_parser_execute uses too, the division of a     *)
(* URL into fields, and the division of the server part into user, host      *)
(* and port. A field is [off, len] with off counted from 1; the 16 bits of   *)
(* off and len are not modelled: the URLs here are far shorter, and so is    *)
(* the buffer of a session.                                                  *)
EXTENDS HttpChars

Server == {"s_req_server_start", "s_req_server", "s_req_server_with_at"}
Query == {"s_req_query_string_start", "s_req_query_string"}
Fragment == {"s_req_fragment_start", "s_req_fragment"}

Blank == {" ", "\r", "\n", "\t", "\f"}

(* One character of a URL: the state after s, s_dead if ch may not follow.   *)
parse_url_char(s, ch) ==
    CASE ch \in Blank -> "s_dead"
      [] s = "s_req_spaces_before_url" /\ ch \in {"/", "*"} -> "s_req_path"
      [] s \in {"s_req_spaces_before_url", "s_req_schema"} /\ ch \in IS_ALPHA
            -> "s_req_schema"
      [] s = "s_req_schema" /\ ch = ":" -> "s_req_schema_slash"
      [] s = "s_req_schema_slash" /\ ch = "/" -> "s_req_schema_slash_slash"
      [] s = "s_req_schema_slash_slash" /\ ch = "/" -> "s_req_server_start"
      [] s \in Server /\ ch = "/" -> "s_req_path"
      [] s \in Server \cup {"s_req_path"} /\ ch = "?"
            -> "s_req_query_string_start"
      [] s \in {"s_req_server_start", "s_req_server"} /\ ch = "@"
            -> "s_req_server_with_at"
      [] s \in Server /\ ch \in IS_USERINFO_CHAR \cup {"[", "]"}
            -> "s_req_server"
      [] s = "s_req_path" /\ ch \in IS_URL_CHAR -> s
      [] s \in Query /\ ch \in IS_URL_CHAR \cup {"?"} -> "s_req_query_string"
      [] s \in Query \cup {"s_req_path"} /\ ch = "#" -> "s_req_fragment_start"
      [] s \in Fragment /\ ch \in IS_URL_CHAR \cup {"?"} -> "s_req_fragment"
      [] s \in Fragment /\ ch = "#" -> s
      [] OTHER -> "s_dead"

(* One character of the server part.                                         *)
http_parse_host_char(s, ch) ==
    CASE s \in {"s_http_userinfo", "s_http_userinfo_start"} /\ ch = "@"
            -> "s_http_host_start"
      [] s \in {"s_http_userinfo", "s_http_userinfo_start"}
         /\ ch \in IS_USERINFO_CHAR -> "s_http_userinfo"
      [] s = "s_http_host_start" /\ ch = "[" -> "s_http_host_v6_start"
      [] s \in {"s_http_host_start", "s_http_host"} /\ ch \in IS_HOST_CHAR
            -> "s_http_host"
      [] s \in {"s_http_host", "s_http_host_v6_end"} /\ ch = ":"
            -> "s_http_host_port_start"
      [] s = "s_http_host_v6" /\ ch = "]" -> "s_http_host_v6_end"
      [] s \in {"s_http_host_v6", "s_http_host_v6_start"}
         /\ ch \in IS_HEX \cup {":", "."} -> "s_http_host_v6"
      [] s \in {"s_http_host_port", "s_http_host_port_start"} /\ ch \in IS_NUM
            -> "s_http_host_port"
      [] OTHER -> "s_http_host_dead"

UF == {"UF_SCHEMA", "UF_HOST", "UF_PORT", "UF_PATH", "UF_QUERY",
       "UF_FRAGMENT", "UF_USERINFO"}
NoField == [off |-> 0, len |-> 0]

(* The field a state belongs to; the states not listed are delimiters.       *)
FieldOf(s) ==
    CASE s = "s_req_schema" -> "UF_SCHEMA"
      [] s \in {"s_req_server", "s_req_server_with_at"} -> "UF_HOST"
      [] s = "s_req_path" -> "UF_PATH"
      [] s = "s_req_query_string" -> "UF_QUERY"
      [] s = "s_req_fragment" -> "UF_FRAGMENT"
      [] s = "s_http_userinfo" -> "UF_USERINFO"
      [] s \in {"s_http_host", "s_http_host_v6"} -> "UF_HOST"
      [] s = "s_http_host_port" -> "UF_PORT"
      [] OTHER -> "UF_MAX"

(* Mutant: the character that begins a run is not counted.                   *)
Extend_NotCounted(field_data, uf, p, same) ==
    [field_data EXCEPT ![uf] = [off |-> IF same THEN @.off ELSE p,
                                len |-> IF same THEN @.len + 1 ELSE 0]]

(* Character p goes to field uf: into the run in progress or into a new one. *)
Extend(field_data, uf, p, same) ==
    [field_data EXCEPT ![uf] = [off |-> IF same THEN @.off ELSE p,
                                len |-> IF same THEN @.len + 1 ELSE 1]]

(* The automaton over the whole of buf: its state, the fields so far, the    *)
(* field it is in, and whether an @ was met.                                 *)
Scan(buf, is_connect) ==
    LET scan[p \in 0 .. Len(buf)] ==
            IF p = 0
            THEN [s |-> IF is_connect THEN "s_req_server_start"
                                      ELSE "s_req_spaces_before_url",
                  field_data |-> [uf \in UF |-> NoField],
                  old_uf |-> "UF_MAX", found_at |-> FALSE]
            ELSE LET was == scan[p - 1]
                     s == parse_url_char(was.s, At(buf, p))
                     uf == FieldOf(s)
                 IN  IF uf = "UF_MAX" THEN [was EXCEPT !.s = s]
                     ELSE [s |-> s, old_uf |-> uf,
                           field_data |-> Extend(was.field_data, uf, p,
                                                 uf = was.old_uf),
                           found_at |-> \/ was.found_at
                                        \/ s = "s_req_server_with_at"]
    IN  scan[Len(buf)]

(* The server part, whose place Scan left in UF_HOST, divided in its turn.   *)
http_parse_host(buf, field_data, found_at) ==
    LET off == field_data["UF_HOST"].off
        len == field_data["UF_HOST"].len
        host[n \in 0 .. len] ==
            IF n = 0
            THEN [s |-> IF found_at THEN "s_http_userinfo_start"
                                    ELSE "s_http_host_start",
                  field_data |-> [field_data EXCEPT !["UF_HOST"].len = 0]]
            ELSE LET was == host[n - 1]
                     p == off + n - 1
                     new_s == http_parse_host_char(was.s, At(buf, p))
                     uf == FieldOf(new_s)
                 IN  [s |-> new_s,
                      field_data |->
                          IF uf = "UF_MAX" THEN was.field_data
                          ELSE Extend(was.field_data, uf, p, new_s = was.s)]
    IN  host[len]

(* Mutant: an IPv6 address must be followed by a port.                       *)
HostEnds_NoV6 == {"s_http_host", "s_http_host_port"}

HostEnds == {"s_http_host", "s_http_host_v6_end", "s_http_host_port"}

(* strtoul on the digits of UF_PORT.                                         *)
PortNumber(buf, field) ==
    LET value[n \in 0 .. field.len] ==
            IF n = 0 THEN 0
            ELSE 10 * value[n - 1] + unhex(At(buf, field.off + n - 1))
    IN  value[field.len]

field_set(field_data) == {uf \in UF : field_data[uf].len > 0}

PortFits(port) == port <= 65535

(* Whether buf is accepted, and the fields and the port it is divided into.  *)
http_parser_parse_url(buf, is_connect) ==
    LET scan == Scan(buf, is_connect)
        has_host == "UF_HOST" \in field_set(scan.field_data)
        host == http_parse_host(buf, scan.field_data, scan.found_at)
        data == IF has_host THEN host.field_data ELSE scan.field_data
        port == PortNumber(buf, data["UF_PORT"])
    IN  [ok |-> /\ scan.s # "s_dead"
                /\ "UF_SCHEMA" \in field_set(scan.field_data) => has_host
                /\ has_host => host.s \in HostEnds
                /\ is_connect => field_set(data) = {"UF_HOST", "UF_PORT"}
                /\ PortFits(port),
         field_data |-> data, port |-> port]

(* url_obj of request_respons.h.                                             *)
Part(buf, url, uf) ==
    SubSeq(buf, url.field_data[uf].off,
           url.field_data[uf].off + url.field_data[uf].len - 1)

FieldsOf(buf, url) == [uf \in UF |-> Part(buf, url, uf)]

(* The number that a text of digits spells.                                  *)
NumberOf(digits) == PortNumber(digits, [off |-> 1, len |-> Len(digits)])

(* What stands between the fields, where the code leaves a choice: an @ and  *)
(* a ? may be there though the user or the query is empty, and so may any    *)
(* number of # before the fragment; a host may be in brackets.               *)
Delimiters(Counts) ==
    [at : BOOLEAN, v6 : BOOLEAN, question : BOOLEAN, hashes : Counts]

(* The text that the fields F make with the delimiters d.                    *)
UrlOf(F, d) ==
    LET Given(condition, text) == IF condition THEN text ELSE <<>>
    IN  F["UF_SCHEMA"] \o Given(F["UF_SCHEMA"] # <<>>, <<":", "/", "/">>)
        \o F["UF_USERINFO"] \o Given(d.at, <<"@">>)
        \o Given(d.v6, <<"[">>) \o F["UF_HOST"] \o Given(d.v6, <<"]">>)
        \o Given(F["UF_PORT"] # <<>>, <<":">>) \o F["UF_PORT"]
        \o F["UF_PATH"] \o Given(d.question, <<"?">>) \o F["UF_QUERY"]
        \o [i \in 1 .. d.hashes |-> "#"] \o F["UF_FRAGMENT"]

(* The characters each field may have.                                       *)
LegalCharacters(F, v6) ==
    /\ F["UF_SCHEMA"] \in Seq(IS_ALPHA)
    /\ F["UF_USERINFO"] \in Seq(IS_USERINFO_CHAR)
    /\ F["UF_HOST"] \in IF v6 THEN Seq(IS_HEX \cup {":", "."})
                        ELSE Seq(IS_HOST_CHAR)
    /\ F["UF_PORT"] \in Seq(IS_NUM)
    /\ F["UF_PATH"] \in Seq(IS_URL_CHAR)
    /\ F["UF_QUERY"] \in Seq(IS_URL_CHAR \cup {"?"})
    /\ F["UF_FRAGMENT"] \in Seq(IS_URL_CHAR \cup {"?", "#"})

(* Which fields and delimiters may stand together.                           *)
LegalOrder(F, d, connect) ==
    LET given == {uf \in UF : F[uf] # <<>>}
    IN  /\ "UF_USERINFO" \in given => d.at
        /\ "UF_QUERY" \in given => d.question
        /\ "UF_FRAGMENT" \in given => d.hashes # 0 /\ F["UF_FRAGMENT"][1] # "#"
        /\ d.hashes # 0 => d.question \/ "UF_PATH" \in given
        /\ d.question => {"UF_HOST", "UF_PATH"} \cap given # {}
        /\ d.at \/ d.v6 \/ "UF_PORT" \in given => "UF_HOST" \in given
        /\ "UF_SCHEMA" \in given <=> "UF_HOST" \in given /\ ~connect
        /\ "UF_PATH" \in given =>
               F["UF_PATH"][1] \in IF "UF_HOST" \in given THEN {"/"}
                                  ELSE {"/", "*"}
        /\ connect => given = {"UF_HOST", "UF_PORT"}

(* The fields and delimiters of a URL: absolute, a path, or the host and     *)
(* port of a CONNECT request, the port fitting into 16 bits.                 *)
Legal(F, d, connect) ==
    /\ LegalCharacters(F, d.v6) /\ LegalOrder(F, d, connect)
    /\ PortFits(NumberOf(F["UF_PORT"]))

(* A text that is accepted is legal fields and delimiters one after the      *)
(* other, and these are the fields and the port it is divided into.          *)
Divided(buf, connect) ==
    LET parsed == http_parser_parse_url(buf, connect)
        F == FieldsOf(buf, parsed)
    IN  parsed.ok =>
            /\ parsed.port = NumberOf(F["UF_PORT"])
            /\ \E d \in Delimiters(0 .. Len(buf)) :
                   Legal(F, d, connect) /\ buf = UrlOf(F, d)

(* Legal fields and delimiters are accepted, and divided into these fields.  *)
Accepted(F, d, connect) ==
    LET parsed == http_parser_parse_url(UrlOf(F, d), connect)
    IN  Legal(F, d, connect) =>
            /\ parsed.ok
            /\ FieldsOf(UrlOf(F, d), parsed) = F
            /\ parsed.port = NumberOf(F["UF_PORT"])
=============================================================================
