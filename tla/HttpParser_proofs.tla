-------------------------- MODULE HttpParser_proofs --------------------------
(* Theorems about HttpParser, for every set of streams, every value of the   *)
(* largest uint64_t above 31 and every limit on the header: the parser stays *)
(* in its buffer, its assertions hold, no length wraps, and its callbacks    *)
(* come in order.                                                            *)
EXTENDS HttpParser, TLAPS

-----------------------------------------------------------------------------
(* The inductive invariant, in named parts.                                  *)

Fields == {"type", "header_state", "state", "index", "nread",
           "content_length", "flags", "http_major", "http_minor",
           "status_code", "method", "http_errno", "upgrade"}

(* The parser is a record, and every event has the callback it stands for.   *)
HasFields == DOMAIN parser = Fields
EventsNamed == \E S : events \in Seq(S) /\ \A e \in S : "cb" \in DOMAIN e

(* A run through the switch begins within the buffer; only the inner loops   *)
(* leave start set, and only they may find the buffer at its end.            *)
InnerStates == {"s_header_field", "s_header_value"}
InnerOnly ==
    /\ start > 0 => call = "switch" /\ parser.state \in InnerStates
    /\ start <= p

(* The parser works on only while nothing has gone wrong, and nobody calls   *)
(* it after the end.                                                         *)
NoErrorInside == call # "outside" => parser.http_errno = "OK" /\ ~closed

(* A mark is set only in the states that mark its data.                      *)
BodyMarked == {"s_body_identity", "s_body_identity_eof", "s_chunk_data",
               "s_chunk_data_almost_done"}
MarkedStates == {"s_header_field", "s_header_value", "s_res_status"}
                \cup UrlStart \cup UrlStates \cup BodyMarked
MarksBelong ==
    call # "outside" =>
        /\ mark["header_field"] # 0 => parser.state = "s_header_field"
        /\ mark["header_value"] # 0 => parser.state = "s_header_value"
        /\ mark["url"] # 0 => parser.state \in UrlStart \cup UrlStates
        /\ mark["status"] # 0 => parser.state = "s_res_status"
        /\ mark["body"] # 0 => parser.state \in BodyMarked

(* The lengths of bodies and chunks, and the count of a chunk's header.      *)
ChunkSize == {"s_chunk_size", "s_chunk_parameters", "s_chunk_size_almost_done"}
ChunkData == {"s_chunk_data", "s_chunk_data_almost_done", "s_chunk_data_done"}
ChunkStates == {"s_chunk_size_start"} \cup ChunkSize \cup ChunkData
LengthStates == ChunkStates \cup {"s_body_identity", "s_header_value"}
Lengths ==
    parser.http_errno = "OK" =>
        /\ parser.state \in ChunkSize => parser.content_length < ULLONG_MAX
        /\ parser.state \in {"s_body_identity", "s_chunk_data"} =>
               parser.content_length \notin {0, ULLONG_MAX}
        /\ parser.state = "s_chunk_data_almost_done" =>
               parser.content_length = 0
        /\ parser.state \in ChunkStates => "F_CHUNKED" \in parser.flags
        /\ parser.state = "s_chunk_size_start" =>
               parser.nread = IF call = "switch" THEN 1 ELSE 0
        /\ parser.state = "s_header_value" =>
               parser.header_state \in ValueStates

Trailing == "F_TRAILING" \in parser.flags

(* The callbacks made last in a state; the names of the groups are those of  *)
(* the lines the states belong to.                                           *)
RequestLine == {"s_req_http_start", "s_req_http_H", "s_req_http_HT",
                "s_req_http_HTT", "s_req_http_HTTP", "s_req_first_http_major",
                "s_req_http_major", "s_req_first_http_minor",
                "s_req_http_minor", "s_req_line_almost_done"}
StatusLine == {"s_res_or_resp_H", "s_res_H", "s_res_HT", "s_res_HTT",
               "s_res_HTTP", "s_res_first_http_major", "s_res_http_major",
               "s_res_first_http_minor", "s_res_http_minor",
               "s_res_first_status_code", "s_res_status_code",
               "s_res_status_start"}
LineStart(trailing) ==
    IF trailing THEN {"chunk_header", "header_value"}
    ELSE {"message_begin", "url", "status", "header_value"}

(* From the last chunk to the next message.                                  *)
TrailingStates == {"s_header_field_start", "s_header_field",
    "s_header_value_discard_ws", "s_header_value_discard_ws_almost_done",
    "s_header_value_discard_lws", "s_header_value_start", "s_header_value",
    "s_header_value_lws", "s_header_almost_done", "s_headers_almost_done",
    "s_message_done", "s_dead", "s_start_req", "s_start_res"}

(* In a state, with the callback made last and the last chunk read or not.   *)
BeforeMessage(state, last) ==
    /\ state = "s_start_req_or_res" => last = "none"
    /\ state \in {"s_dead", "s_start_req"} =>
           last \in {"none", "message_complete"}
    /\ state = "s_start_res" =>
           last \in {"none", "message_complete", "message_begin"}
InFirstLine(state, last) ==
    /\ state \in StatusLine \cup {"s_req_method", "s_req_spaces_before_url"} =>
           last = "message_begin"
    /\ state \in {"s_res_status", "s_res_line_almost_done"} =>
           last \in {"message_begin", "status"}
    /\ state \in UrlStart \cup UrlStates \cup RequestLine =>
           last \in {"message_begin", "url"}
InHeaders(state, last, trailing) ==
    /\ state \in {"s_header_field_start", "s_headers_almost_done"} =>
           last \in LineStart(trailing)
    /\ state = "s_header_field" =>
           last \in LineStart(trailing) \cup {"header_field"}
    /\ state \in {"s_header_value_discard_ws", "s_header_value_discard_lws",
                  "s_header_value_discard_ws_almost_done"} =>
           last = "header_field"
    /\ state = "s_header_value" => last \in {"header_field", "header_value"}
    /\ state \in {"s_header_value_start", "s_header_almost_done",
                  "s_header_value_lws"} => last = "header_value"
InBody(state, last, trailing) ==
    /\ state = "s_headers_done" => last = "headers_complete"
    /\ state \in {"s_body_identity", "s_body_identity_eof"} =>
           last \in {"headers_complete", "body"}
    /\ state \in {"s_chunk_size_start"} \cup ChunkSize =>
           last \in {"headers_complete", "chunk_complete"}
    /\ state \in {"s_chunk_data", "s_chunk_data_almost_done"} =>
           last \in {"chunk_header", "body"}
    /\ state = "s_chunk_data_done" => last = "body"
    /\ state = "s_message_done" =>
           last = IF trailing THEN "chunk_complete" ELSE "body"
Order(state, last, trailing) ==
    /\ BeforeMessage(state, last) /\ InFirstLine(state, last)
    /\ InHeaders(state, last, trailing) /\ InBody(state, last, trailing)
    /\ trailing => state \in TrailingStates

(* Data that has begun has been given to the application or is marked.       *)
Begun(m) == Last = m \/ (call # "outside" /\ mark[m] # 0)
DataBegun ==
    /\ parser.state = "s_header_field" => Begun("header_field")
    /\ parser.state = "s_header_value" => Begun("header_value")
    /\ parser.state = "s_chunk_data_almost_done" => Begun("body")

InOrder ==
    parser.http_errno = "OK" /\ ~closed =>
        Order(parser.state, Last, Trailing) /\ DataBegun

IInv == /\ InBuffer /\ FieldsFit /\ HasFields /\ EventsNamed /\ InnerOnly
        /\ NoErrorInside /\ MarksBelong /\ Lengths /\ InOrder

-----------------------------------------------------------------------------
(* Lemmas about events, marks and the ways a run through the switch ends.    *)

(* A notification is the last callback then.                                 *)
LEMMA Notified ==
    ASSUME EventsNamed, NEW q,
           NEW cb \in {"message_begin", "headers_complete", "message_complete",
                       "chunk_header", "chunk_complete"},
           CALLBACK_NOTIFY(cb, q)
    PROVE  EventsNamed' /\ Last' = cb /\ mark' = mark
<1> DEFINE e == Event(cb, q)
<1>1. "cb" \in DOMAIN e /\ e.cb = cb
  BY DEF Event
<1>2. PICK S : events \in Seq(S) /\ \A x \in S : "cb" \in DOMAIN x
  BY DEF EventsNamed
<1>3. events' = Append(events, e) /\ mark' = mark
  BY DEF CALLBACK_NOTIFY
<1> HIDE DEF e
<1>4. /\ events' \in Seq(S \cup {e}) /\ \A x \in S \cup {e} : "cb" \in DOMAIN x
      /\ Len(events') = Len(events) + 1 /\ events'[Len(events')] = e
      /\ events' # <<>>
  BY <1>1, <1>2, <1>3
<1>5. EventsNamed'
  BY <1>4 DEF EventsNamed
<1>6. Last' = cb
  BY <1>1, <1>4 DEF Last
<1>7. QED
  BY <1>3, <1>5, <1>6

(* A piece of data is the last callback then, whether it begins an event or  *)
(* continues one.                                                            *)
LEMMA Joined ==
    ASSUME EventsNamed, NEW cb, NEW text, events' = Join(cb, text), cb # "none"
    PROVE  EventsNamed' /\ Last' = cb
<1>1. PICK S : events \in Seq(S) /\ \A x \in S : "cb" \in DOMAIN x
  BY DEF EventsNamed
<1>2. CASE Last = cb
  <2>1. events # <<>> /\ Len(events) \in Nat \ {0} /\ events[Len(events)] \in S
    BY <1>1, <1>2 DEF Last
  <2> DEFINE old == events[Len(events)]
             new == [old EXCEPT !.data = @ \o text]
  <2>2. "cb" \in DOMAIN new /\ new.cb = cb
    BY <1>1, <1>2, <2>1 DEF Last
  <2>3. events' = [events EXCEPT ![Len(events)] = new]
    BY <1>2 DEF Join
  <2> HIDE DEF new
  <2>4. /\ events' \in Seq(S \cup {new})
        /\ \A x \in S \cup {new} : "cb" \in DOMAIN x
        /\ Len(events') = Len(events) /\ events'[Len(events')] = new
        /\ events' # <<>>
    BY <1>1, <2>1, <2>2, <2>3
  <2>5. QED
    BY <2>2, <2>4 DEF EventsNamed, Last
<1>3. CASE Last # cb
  <2> DEFINE new == [cb |-> cb, data |-> text]
  <2>1. "cb" \in DOMAIN new /\ new.cb = cb
    OBVIOUS
  <2>2. events' = Append(events, new)
    BY <1>3 DEF Join
  <2> HIDE DEF new
  <2>3. /\ events' \in Seq(S \cup {new})
        /\ \A x \in S \cup {new} : "cb" \in DOMAIN x
        /\ Len(events') = Len(events) + 1 /\ events'[Len(events')] = new
        /\ events' # <<>>
    BY <1>1, <2>1, <2>2
  <2>4. QED
    BY <2>1, <2>3 DEF EventsNamed, Last
<1>4. QED
  BY <1>2, <1>3

(* The data of a mark is delivered and the mark taken back.                  *)
LEMMA Delivered ==
    ASSUME EventsNamed, NEW m \in Marks, NEW q, CALLBACK_DATA(m, q)
    PROVE  /\ EventsNamed' /\ mark' = [mark EXCEPT ![m] = 0]
           /\ Last' = IF mark[m] = 0 THEN Last ELSE m
<1>1. mark' = [mark EXCEPT ![m] = 0] /\ m # "none"
  BY DEF CALLBACK_DATA, Marks
<1>2. CASE mark[m] = 0
  BY <1>1, <1>2 DEF CALLBACK_DATA, EventsNamed, Last
<1>3. CASE mark[m] # 0
  BY <1>1, <1>3, Joined DEF CALLBACK_DATA
<1>4. QED
  BY <1>2, <1>3

(* Nothing is delivered.                                                     *)
LEMMA Unheard ==
    ASSUME EventsNamed, UNCHANGED events
    PROVE  EventsNamed' /\ Last' = Last
BY DEF EventsNamed, Last

(* Outside the inner loops, a byte of the buffer is looked at.               *)
LEMMA Within ==
    ASSUME IInv, call = "switch", parser.state \notin InnerStates
    PROVE  p <= end
BY DEF IInv, InBuffer, InnerOnly

Places == <<stream, end, cuts, closed>>
MarksInside == mark \in [Marks -> 0 .. end + 1]

(* Where a run goes on, as far as the buffer is concerned.                   *)
LEMMA Placed ==
    ASSUME IInv, UNCHANGED <<stream, end, cuts>>, start' = 0, MarksInside',
           p' \in 1 .. end + 1, closed' \in BOOLEAN,
           call' \in {"outside", "loop", "switch"}, call' = "switch" => p' <= end
    PROVE  InBuffer' /\ InnerOnly'
<1>1. InBuffer'
  BY DEF IInv, InBuffer, MarksInside, bytes
<1>2. InnerOnly'
  BY DEF InnerOnly
<1>3. QED
  BY <1>1, <1>2

(* After an error little is promised.                                        *)
LEMMA Failing ==
    ASSUME IInv, NEW errno, errno # "OK", Error(errno), EventsNamed',
           MarksInside'
    PROVE  IInv'
<1>1. /\ parser' = [parser EXCEPT !.http_errno = errno]
      /\ p' = end + 1 /\ call' = "outside" /\ start' = 0
      /\ UNCHANGED <<stream, end, cuts, closed>>
  BY DEF Error, Go, env
<1>2. InBuffer' /\ InnerOnly'
  <2>1. end + 1 \in 1 .. end + 1 /\ closed \in BOOLEAN
    BY DEF IInv, InBuffer
  <2>2. QED
    BY <1>1, <2>1, Placed
<1>3. HasFields' /\ FieldsFit' /\ parser'.http_errno # "OK"
  BY <1>1 DEF IInv, HasFields, FieldsFit, Fields
<1>4. QED
  BY <1>1, <1>2, <1>3
     DEF IInv, NoErrorInside, MarksBelong, Lengths, InOrder

(* A run that goes on, where that is in the buffer.                          *)
GoesOn ==
    /\ start' = 0 /\ UNCHANGED Places
    /\ p' \in 1 .. end + 1 /\ call' \in {"loop", "switch"}
    /\ call' = "switch" => p' <= end
(* A run that does not end the call leads to a place in the buffer.          *)
LEMMA Onward ==
    ASSUME IInv, call = "switch", p <= end, NEW new, Break(new) \/ REEXECUTE(new)
    PROVE  parser' = new /\ GoesOn
BY DEF Break, REEXECUTE, Go, GoesOn, env, Places, IInv, InBuffer

(* While the parser works on.                                                *)
LEMMA AtWork ==
    ASSUME IInv, call # "outside"
    PROVE  /\ parser.http_errno = "OK" /\ DataBegun
           /\ Order(parser.state, Last, Trailing)
BY DEF IInv, NoErrorInside, InOrder

(* It goes on in a state for which all is well.                              *)
LEMMA Continuing ==
    ASSUME IInv, GoesOn, call # "outside", MarksInside', EventsNamed',
           HasFields', FieldsFit', parser'.http_errno = "OK",
           MarksBelong', Lengths',
           Order(parser'.state, Last', Trailing'), DataBegun'
    PROVE  IInv'
<1>1. InBuffer' /\ InnerOnly'
  <2>1. closed' \in BOOLEAN
    BY DEF IInv, InBuffer, GoesOn, Places
  <2>2. QED
    BY <2>1, Placed DEF GoesOn, Places
<1>2. NoErrorInside'
  BY DEF IInv, NoErrorInside, GoesOn, Places
<1>3. QED
  BY <1>1, <1>2 DEF IInv, InOrder

(* Nothing is delivered and no mark is set.                                  *)
LEMMA Staying ==
    ASSUME IInv, call = "switch", GoesOn, Silent,
           HasFields', FieldsFit', parser'.http_errno = "OK",
           MarksBelong', Lengths', DataBegun => DataBegun',
           Order(parser.state, Last, Trailing) =>
               Order(parser'.state, Last, Trailing')
    PROVE  IInv'
<1>1. EventsNamed' /\ Last' = Last /\ mark' = mark
  BY Unheard DEF IInv, Silent
<1>2. MarksInside'
  BY <1>1 DEF IInv, InBuffer, MarksInside, GoesOn, Places
<1>3. QED
  BY <1>1, <1>2, AtWork, Continuing

(* The state leaves no mark behind and needs no length.                      *)
Plain == parser.state \notin MarkedStates \cup LengthStates
(* Where no data is read, no mark is set.                                    *)
LEMMA NothingMarked ==
    ASSUME IInv, call # "outside", parser.state \notin MarkedStates
    PROVE  \A m \in Marks : mark[m] = 0
BY DEF IInv, MarksBelong, MarkedStates, Marks

(* The usual step: no callback, no mark, and on to a plain state in which    *)
(* the last callback may be the one it was.                                  *)
LEMMA Quietly ==
    ASSUME IInv, call = "switch", GoesOn, Silent,
           parser.state \notin MarkedStates,
           HasFields', FieldsFit', parser'.http_errno = "OK", Plain',
           Order(parser.state, Last, Trailing) =>
               Order(parser'.state, Last, Trailing')
    PROVE  IInv'
<1>1. MarksBelong'
  BY NothingMarked DEF MarksBelong, Marks, Silent
<1>2. Lengths' /\ DataBegun'
  BY DEF Plain, Lengths, LengthStates, ChunkStates, ChunkData, DataBegun,
         MarkedStates, BodyMarked
<1>3. QED
  BY <1>1, <1>2, Staying

(* A callback is made, and no data has begun in the state after it.          *)
LEMMA Notifying ==
    ASSUME IInv, call = "switch", GoesOn,
           NEW q, NEW cb, CALLBACK_NOTIFY(cb, q),
           cb \in {"message_begin", "headers_complete", "message_complete",
                  "chunk_header", "chunk_complete"},
           parser.state \notin MarkedStates,
           HasFields', FieldsFit', parser'.http_errno = "OK",
           parser'.state \notin MarkedStates \/ parser'.state = "s_chunk_data",
           Lengths',
           Order(parser'.state, cb, Trailing')
    PROVE  IInv'
<1>1. EventsNamed' /\ Last' = cb /\ mark' = mark
  BY Notified DEF IInv
<1>2. MarksInside'
  BY <1>1 DEF IInv, InBuffer, MarksInside, GoesOn, Places
<1>3. MarksBelong'
  BY <1>1, NothingMarked DEF MarksBelong, Marks
<1>4. DataBegun'
  BY DEF DataBegun, MarkedStates, BodyMarked
<1>5. QED
  BY <1>1, <1>2, <1>3, <1>4, Continuing

(* The data of the only mark is delivered, and the state after it has none.  *)
LEMMA Delivering ==
    ASSUME IInv, call = "switch", GoesOn,
           NEW m \in Marks, NEW q, CALLBACK_DATA(m, q),
           \A n \in Marks \ {m} : mark[n] = 0,
           HasFields', FieldsFit', parser'.http_errno = "OK",
           parser'.state \notin MarkedStates, Lengths',
           mark[m] # 0 => Order(parser'.state, m, Trailing'),
           mark[m] = 0 => Order(parser'.state, Last, Trailing')
    PROVE  IInv'
<1>1. /\ EventsNamed' /\ mark' = [mark EXCEPT ![m] = 0]
      /\ Last' = IF mark[m] = 0 THEN Last ELSE m
  BY Delivered DEF IInv
<1>2. MarksInside' /\ \A n \in Marks : mark'[n] = 0
  BY <1>1 DEF IInv, InBuffer, MarksInside, GoesOn, Places
<1>3. MarksBelong'
  BY <1>2 DEF MarksBelong, Marks
<1>4. DataBegun'
  BY DEF DataBegun, MarkedStates, BodyMarked
<1>5. Order(parser'.state, Last', Trailing')
  BY <1>1
<1>6. QED
  BY <1>1, <1>2, <1>3, <1>4, <1>5, Continuing

(* A mark is set, and nothing else is marked.                                *)
LEMMA Marked ==
    ASSUME IInv, p <= end, NEW m \in Marks, MARK(m), UNCHANGED end
    PROVE  /\ EventsNamed' /\ Last' = Last /\ MarksInside' /\ mark'[m] # 0
           /\ \A n \in Marks \ {m} : mark'[n] = mark[n]
<1>1. mark' = [mark EXCEPT ![m] = From(m)] /\ From(m) \in 1 .. end + 1
  BY DEF MARK, From, IInv, InBuffer
<1>2. QED
  BY <1>1, Unheard DEF MARK, IInv, InBuffer, MarksInside

Belongs(m, state) ==
    /\ m = "header_field" <=> state = "s_header_field"
    /\ m = "header_value" <=> state = "s_header_value"
    /\ m = "url" => state \in UrlStart \cup UrlStates
    /\ m = "status" => state = "s_res_status"
    /\ m = "body" <=> state \in BodyMarked
(* A mark is set for data that the next state goes on with.                  *)
LEMMA Marking ==
    ASSUME IInv, call = "switch", p <= end, GoesOn, NEW m \in Marks, MARK(m),
           \A n \in Marks \ {m} : mark[n] = 0, Belongs(m, parser'.state),
           HasFields', FieldsFit', parser'.http_errno = "OK", Lengths',
           Order(parser'.state, Last, Trailing')
    PROVE  IInv'
<1>1. /\ EventsNamed' /\ Last' = Last /\ MarksInside' /\ mark'[m] # 0
      /\ \A n \in Marks \ {m} : mark'[n] = 0
  BY Marked DEF GoesOn, Places
<1>2. MarksBelong'
  BY <1>1 DEF MarksBelong, Belongs, Marks
<1>3. DataBegun'
  BY <1>1 DEF DataBegun, Begun, Belongs, BodyMarked, GoesOn
<1>4. QED
  BY <1>1, <1>2, <1>3, Continuing

(* An error in a run that sets a mark.                                       *)
LEMMA MarkedError ==
    ASSUME IInv, p <= end, NEW m \in Marks, MARK(m), NEW errno, errno # "OK",
           Error(errno)
    PROVE  IInv'
<1>1. EventsNamed' /\ MarksInside'
  BY Marked DEF Error, Go, env
<1>2. QED
  BY <1>1, Failing

(* Only the state changes.                                                   *)
LEMMA Going ==
    ASSUME IInv, NEW s, parser' = Goto(s)
    PROVE  /\ HasFields' /\ FieldsFit' /\ parser'.state = s
           /\ Trailing' = Trailing
           /\ \A f \in Fields \ {"state"} : parser'[f] = parser[f]
BY DEF IInv, HasFields, FieldsFit, Fields, Goto, Trailing

(* Only the state changes, to one without data or a length.                  *)
LEMMA QuietGoto ==
    ASSUME IInv, call = "switch", Silent, NEW s,
           Break(Goto(s)) \/ REEXECUTE(Goto(s)),
           parser.state \notin MarkedStates, s \notin MarkedStates \cup LengthStates,
           Order(parser.state, Last, Trailing) => Order(s, Last, Trailing)
    PROVE  IInv'
<1>1. p <= end
  BY Within DEF InnerStates, MarkedStates
<1>2. parser' = Goto(s) /\ GoesOn
  BY <1>1, Onward
<1>3. /\ HasFields' /\ FieldsFit' /\ parser'.state = s /\ Trailing' = Trailing
      /\ parser'.http_errno = "OK"
  BY <1>2, Going, AtWork DEF Fields
<1>4. QED
  BY <1>2, <1>3, Quietly DEF Plain

(* Nothing changes but the byte.                                             *)
LEMMA QuietStay ==
    ASSUME IInv, call = "switch", Silent, Break(parser),
           parser.state \notin InnerStates, parser.state # "s_chunk_size_start"
    PROVE  IInv'
<1>1. parser' = parser /\ GoesOn
  BY Within, Onward
<1>2. HasFields' /\ FieldsFit' /\ Trailing' = Trailing /\ parser'.http_errno = "OK"
  BY <1>1, AtWork DEF IInv, HasFields, FieldsFit, Trailing
<1>3. MarksBelong' /\ Lengths'
  BY <1>1 DEF IInv, MarksBelong, Lengths, Silent, GoesOn
<1>4. DataBegun => DataBegun'
  BY <1>1, Unheard DEF IInv, DataBegun, Begun, Silent, GoesOn
<1>5. QED
  BY <1>1, <1>2, <1>3, <1>4, Staying

(* An error without a callback.                                              *)
LEMMA QuietError ==
    ASSUME IInv, Silent, NEW errno, errno # "OK", Error(errno)
    PROVE  IInv'
<1>1. EventsNamed' /\ mark' = mark /\ end' = end
  BY Unheard DEF IInv, Silent, Error, Go, env
<1>2. MarksInside'
  BY <1>1 DEF IInv, InBuffer, MarksInside
<1>3. QED
  BY <1>1, <1>2, Failing

(* States that are read without a mark and without a length.                 *)
PlainStates ==
    (TrailingStates \ {"s_header_field", "s_header_value"})
    \cup StatusLine \cup RequestLine
    \cup {"s_start_req_or_res", "s_req_method", "s_req_spaces_before_url",
          "s_res_line_almost_done", "s_headers_done"}
(* The states without data, without a length and without an inner loop.      *)
LEMMA PlainOnes ==
    \A s \in PlainStates : s \notin MarkedStates \cup LengthStates \cup InnerStates
BY DEF PlainStates, StatusLine, RequestLine, TrailingStates, MarkedStates,
   LengthStates, InnerStates, UrlStart, UrlStates, Query, Fragment, BodyMarked,
   ChunkStates, ChunkSize, ChunkData

-----------------------------------------------------------------------------
(* The first line.                                                           *)

(* After the last message: line ends are skipped, the rest is an error.      *)
LEMMA DeadStep == IInv /\ s_dead => IInv'
<1> SUFFICES ASSUME IInv, s_dead PROVE IInv'
  OBVIOUS
<1>1. CASE c \in {CR, LF}
  BY <1>1, QuietStay DEF s_dead, In, InnerStates
<1>2. CASE c \notin {CR, LF}
  BY <1>2, QuietError DEF s_dead
<1>3. QED
  BY <1>1, <1>2

(* In the states of the first line that are read one literal character, and  *)
(* in those after a value, the next state keeps to the order.                *)
LEMMA Literals ==
    ASSUME NEW s \in DOMAIN Literal, NEW last, NEW t, Order(s, last, t)
    PROVE  /\ s \notin MarkedStates
           /\ Literal[s][2] \notin MarkedStates \cup LengthStates
           /\ Order(Literal[s][2], last, t)
<1>1. QED
  BY DEF Literal, MarkedStates, LengthStates, UrlStart,
     UrlStates, Query, Fragment, BodyMarked, ChunkStates, ChunkSize, ChunkData,
     Order, BeforeMessage, InFirstLine, InHeaders, InBody, LineStart,
     TrailingStates, StatusLine, RequestLine

(* One character of a fixed word: no data, and the same last callback.       *)
LEMMA LiteralStep == IInv /\ StrictLiteral => IInv'
<1> SUFFICES ASSUME IInv, StrictLiteral PROVE IInv'
  OBVIOUS
<1> DEFINE next == Literal[parser.state][2]
<1>1. Order(parser.state, Last, Trailing)
  BY DEF StrictLiteral, IInv, InOrder, NoErrorInside
<1>2. CASE c = Literal[parser.state][1]
  <2>1. /\ parser.state \notin MarkedStates
        /\ next \notin MarkedStates \cup LengthStates
        /\ Order(next, Last, Trailing)
    BY <1>1, Literals DEF StrictLiteral
  <2>2. Silent /\ Break(Goto(next)) /\ call = "switch"
    BY <1>2 DEF StrictLiteral
  <2> HIDE DEF next
  <2>3. QED
    BY <2>1, <2>2, QuietGoto
<1>3. CASE c # Literal[parser.state][1]
  BY <1>3, QuietError DEF StrictLiteral
<1>4. QED
  BY <1>2, <1>3

-----------------------------------------------------------------------------
(* The call: entry, the head of the loop and the end of the buffer.          *)

(* A call enters: the marks of the state it resumes are set again.           *)
LEMMA Entered == IInv /\ Execute => IInv'
<1> SUFFICES ASSUME IInv, Execute PROVE IInv'
  OBVIOUS
<1>1. PICK last \in end + 1 .. Len(bytes) :
        /\ Receive(last) /\ parser.http_errno = "OK"
        /\ p' = end + 1 /\ call' = "loop"
        /\ mark' = [m \in Marks |->
                       IF Resumed(m, parser.state) THEN end + 1 ELSE 0]
  BY DEF Execute
<1>2. /\ call = "outside" /\ ~closed /\ closed' = closed
      /\ end' = last /\ start' = start
      /\ stream' = stream /\ parser' = parser /\ events' = events
      /\ last < Len(bytes) => cuts < stream.cuts
      /\ cuts' = IF last < Len(bytes) THEN cuts + 1 ELSE cuts
  BY <1>1 DEF Receive
<1>3. /\ end \in Nat /\ last \in Nat /\ end < last /\ start = 0
      /\ stream.cuts \in Nat /\ cuts' \in 0 .. stream.cuts
  BY <1>1, <1>2, StreamsAssumption DEF IInv, InBuffer, InnerOnly
<1>4. InBuffer'
  <2>1. stream' \in Streams /\ call' = "loop" /\ closed' \in BOOLEAN
        /\ cuts' \in 0 .. stream'.cuts
    BY <1>1, <1>2, <1>3 DEF IInv, InBuffer
  <2>4. p' \in 1 .. end' + 1 /\ start' \in 0 .. end'
    BY <1>1, <1>2, <1>3
  <2>2. mark' \in [Marks -> 0 .. end' + 1]
    BY <1>1, <1>2, <1>3
  <2>3. end' \in 0 .. Len(bytes')
    BY <1>1, <1>2, <1>3 DEF bytes
  <2>5. QED
    BY <2>1, <2>2, <2>3, <2>4 DEF InBuffer
<1>5. InnerOnly' /\ NoErrorInside' /\ FieldsFit' /\ HasFields'
  BY <1>1, <1>2, <1>3
     DEF IInv, InnerOnly, NoErrorInside, FieldsFit, HasFields
<1>6. MarksBelong'
  <2>1. \A m \in Marks : mark'[m] # 0 => Resumed(m, parser.state)
    BY <1>1
  <2>2. QED
    BY <2>1, <1>2 DEF MarksBelong, Resumed, Marks
<1>7. Lengths'
  BY <1>1, <1>2 DEF IInv, Lengths
<1>8. EventsNamed' /\ Last' = Last
  BY <1>2, Unheard DEF IInv
<1>9. DataBegun'
  <2>1. parser.state \in InnerStates => mark'[IF parser.state = "s_header_field"
                                              THEN "header_field"
                                              ELSE "header_value"] # 0
    BY <1>1, <1>3 DEF InnerStates, Marks, Resumed
  <2>2. parser.state = "s_chunk_data_almost_done" => Last = "body"
    BY <1>1, <1>2 DEF IInv, InOrder, DataBegun, Begun
  <2>3. QED
    BY <2>1, <2>2, <1>1, <1>2, <1>8 DEF DataBegun, Begun, InnerStates
<1>10. InOrder'
  BY <1>1, <1>2, <1>8, <1>9 DEF IInv, InOrder, Trailing
<1>11. QED
  BY <1>4, <1>5, <1>6, <1>7, <1>8, <1>10 DEF IInv

(* A call after an error reads nothing.                                      *)
LEMMA EnteredAfterError == IInv /\ ExecuteAfterError => IInv'
<1> SUFFICES ASSUME IInv, ExecuteAfterError PROVE IInv'
  OBVIOUS
<1>1. PICK last \in end + 1 .. Len(bytes) :
        /\ Receive(last) /\ parser.http_errno # "OK"
        /\ p' = last + 1 /\ call' = call /\ mark' = mark
  BY DEF ExecuteAfterError
<1>2. /\ call = "outside" /\ end' = last /\ start' = start
      /\ stream' = stream /\ parser' = parser /\ events' = events
      /\ closed' = closed
      /\ last < Len(bytes) => cuts < stream.cuts
      /\ cuts' = IF last < Len(bytes) THEN cuts + 1 ELSE cuts
  BY <1>1 DEF Receive
<1>3. /\ end \in Nat /\ last \in Nat /\ end < last /\ start = 0
      /\ stream.cuts \in Nat /\ cuts' \in 0 .. stream.cuts
  BY <1>1, <1>2, StreamsAssumption DEF IInv, InBuffer, InnerOnly
<1>4. InBuffer'
  BY <1>1, <1>2, <1>3 DEF IInv, InBuffer, bytes
<1>5. InnerOnly' /\ NoErrorInside' /\ FieldsFit' /\ HasFields' /\ EventsNamed'
  BY <1>1, <1>2, <1>3
     DEF IInv, InnerOnly, NoErrorInside, FieldsFit, HasFields, EventsNamed
<1>6. QED
  BY <1>1, <1>2, <1>4, <1>5 DEF IInv, MarksBelong, Lengths, InOrder

(* The call that ends the connection changes an error at most.               *)
LEMMA Ended == IInv /\ ExecuteEof => IInv'
<1> SUFFICES ASSUME IInv, ExecuteEof PROVE IInv'
  OBVIOUS
<1>1. /\ call = "outside" /\ closed' = TRUE
      /\ UNCHANGED <<stream, call, p, end, start, cuts>>
      /\ \/ parser' = parser
         \/ parser' = [parser EXCEPT !.http_errno = "INVALID_EOF_STATE"]
      /\ CALLBACK_NOTIFY("message_complete", parser) \/ Silent
  BY DEF ExecuteEof
<1>2. EventsNamed' /\ mark' = mark
  <2>1. CASE CALLBACK_NOTIFY("message_complete", parser)
    BY <2>1, Notified DEF IInv
  <2>2. CASE Silent
    BY <2>2, Unheard DEF IInv, Silent
  <2>3. QED
    BY <1>1, <2>1, <2>2
<1>3. InBuffer' /\ InnerOnly'
  BY <1>1, <1>2 DEF IInv, InBuffer, InnerOnly, bytes
<1>4. HasFields' /\ FieldsFit' /\ Lengths'
  BY <1>1 DEF IInv, HasFields, Fields, FieldsFit, Lengths
<1>5. QED
  BY <1>1, <1>2, <1>3, <1>4 DEF IInv, NoErrorInside, MarksBelong, InOrder

(* The head of the loop counts one byte, or finds one too many.              *)
LEMMA LoopHeadStep == IInv /\ LoopHead => IInv'
<1> SUFFICES ASSUME IInv, LoopHead PROVE IInv'
  OBVIOUS
<1> DEFINE n == IF PARSING_HEADER(parser.state) THEN 1 ELSE 0
<1>1. CASE n = 1 /\ Overflows(n)
  BY <1>1, QuietError DEF LoopHead
<1>2. CASE ~(n = 1 /\ Overflows(n))
  <2>1. /\ parser' = [parser EXCEPT !.nread = @ + n] /\ call = "loop" /\ p <= end
        /\ p' = p /\ call' = "switch" /\ start' = 0
        /\ UNCHANGED Places /\ UNCHANGED <<events, mark>>
    BY <1>2 DEF LoopHead, REEXECUTE, Go, env, Places, COUNT_HEADER_SIZE, Silent
  <2>2. n \in {0, 1} /\ (parser.state = "s_chunk_size_start" => n = 1)
    BY DEF PARSING_HEADER, BodyStates
  <2> HIDE DEF n
  <2>3. /\ parser.nread \in Nat /\ parser'.nread = parser.nread + n
        /\ DOMAIN parser' = Fields
        /\ \A f \in Fields \ {"nread"} : parser'[f] = parser[f]
    BY <2>1 DEF IInv, HasFields, FieldsFit, Fields
  <2>4. HasFields' /\ FieldsFit' /\ parser'.state = parser.state
        /\ parser'.http_errno = parser.http_errno /\ Trailing' = Trailing
        /\ parser'.header_state = parser.header_state
    BY <2>2, <2>3 DEF IInv, HasFields, FieldsFit, Fields, Trailing
  <2>5. InBuffer' /\ InnerOnly'
    <3>1. MarksInside' /\ p' \in 1 .. end + 1 /\ closed' \in BOOLEAN
      BY <2>1 DEF IInv, InBuffer, MarksInside, Places
    <3>2. QED
      BY <2>1, <3>1, Placed DEF Places
  <2>6. NoErrorInside' /\ MarksBelong'
    BY <2>1, <2>4 DEF IInv, NoErrorInside, MarksBelong, Places
  <2>7. Lengths'
    <3>1. parser'.content_length = parser.content_length
          /\ parser'.flags = parser.flags
      BY <2>3 DEF Fields
    <3>2. (parser'.state = "s_chunk_size_start" /\ parser'.http_errno = "OK")
             => parser'.nread = 1
      BY <2>1, <2>2, <2>3, <2>4 DEF IInv, Lengths
    <3>3. QED
      BY <2>1, <2>4, <3>1, <3>2 DEF IInv, Lengths
  <2>8. EventsNamed' /\ Last' = Last
    BY <2>1, Unheard DEF IInv
  <2>9. InOrder'
    BY <2>1, <2>4, <2>8 DEF IInv, InOrder, DataBegun, Begun, Places
  <2>10. QED
    BY <2>4, <2>5, <2>6, <2>7, <2>8, <2>9 DEF IInv
<1>3. QED
  BY <1>1, <1>2

(* The end of the buffer: the only mark left is delivered.                   *)
LEMMA LeftoverStep == IInv /\ Leftover => IInv'
<1> SUFFICES ASSUME IInv, Leftover PROVE IInv'
  OBVIOUS
<1>1. /\ call = "loop" /\ call' = "outside" /\ p > end /\ p' = p /\ start' = 0
      /\ parser' = parser /\ UNCHANGED Places
      /\ parser.http_errno = "OK" /\ ~closed
  BY DEF Leftover, Go, env, Places, IInv, NoErrorInside
<1>2. /\ EventsNamed' /\ MarksInside'
      /\ \/ mark = NoMarks /\ Last' = Last
         \/ \E m \in Marks : mark[m] # 0 /\ Last' = m
  <2>1. CASE mark = NoMarks
    BY <2>1, <1>1, Unheard
       DEF Leftover, Silent, IInv, InBuffer, MarksInside, Places
  <2>2. CASE mark # NoMarks
    <3> DEFINE m == CHOOSE x \in Marks : mark[x] # 0
    <3>1. m \in Marks /\ mark[m] # 0
      <4>1. \E x \in Marks : mark[x] # 0
        BY <2>2 DEF IInv, InBuffer, NoMarks
      <4>2. QED
        BY <4>1
    <3>2. CALLBACK_DATA(m, p)
      BY <2>2 DEF Leftover
    <3> HIDE DEF m
    <3>3. EventsNamed' /\ mark' = [mark EXCEPT ![m] = 0] /\ Last' = m
      BY <3>1, <3>2, Delivered DEF IInv
    <3>4. MarksInside'
      BY <1>1, <3>1, <3>3 DEF IInv, InBuffer, MarksInside, Places
    <3>5. QED
      BY <3>1, <3>3, <3>4
  <2>3. QED
    BY <2>1, <2>2
<1>3. InBuffer' /\ InnerOnly'
  <2>1. p' \in 1 .. end + 1 /\ closed' \in BOOLEAN
    BY <1>1 DEF IInv, InBuffer, Places
  <2>2. QED
    BY <1>1, <1>2, <2>1, Placed DEF Places
<1>4. HasFields' /\ FieldsFit' /\ Trailing' = Trailing /\ Lengths'
  BY <1>1 DEF IInv, HasFields, FieldsFit, Trailing, Lengths
<1>5. Order(parser.state, Last, Trailing) /\ DataBegun
  BY <1>1 DEF IInv, InOrder
<1>6. Order(parser.state, Last', Trailing)
  <2>1. CASE mark = NoMarks
    <3>1. Last' = Last
      BY <1>2, <2>1 DEF NoMarks
    <3>2. QED
      BY <1>5, <3>1
  <2>2. ASSUME NEW m \in Marks, mark[m] # 0, Last' = m
        PROVE  Order(parser.state, Last', Trailing)
    <3> DEFINE s == parser.state
    <3>1. /\ m = "header_field" => s = "s_header_field"
          /\ m = "header_value" => s = "s_header_value"
          /\ m = "url" => s \in UrlStart \cup UrlStates
          /\ m = "status" => s = "s_res_status"
          /\ m = "body" => s \in BodyMarked
      BY <1>1, <2>2 DEF IInv, MarksBelong
    <3>2. Trailing => s \in TrailingStates
      BY <1>5 DEF Order
    <3> HIDE DEF s
    <3>3. Order(s, m, Trailing)
      BY <3>1, <3>2 DEF Marks, Order, BeforeMessage, InFirstLine, InHeaders,
         InBody, LineStart, TrailingStates, StatusLine, RequestLine, UrlStart,
         UrlStates, Query, Fragment, BodyMarked, ChunkSize
    <3>4. QED
      BY <2>2, <3>3 DEF s
  <2>3. QED
    BY <1>2, <2>1, <2>2
<1>7. DataBegun'
  <2>1. \A m \in {"header_field", "header_value", "body"} :
           (/\ m = "header_field" => parser.state = "s_header_field"
            /\ m = "header_value" => parser.state = "s_header_value"
            /\ m = "body" => parser.state = "s_chunk_data_almost_done")
           => Last' = m
    <3> SUFFICES ASSUME NEW m \in {"header_field", "header_value", "body"},
                        m = "header_field" => parser.state = "s_header_field",
                        m = "header_value" => parser.state = "s_header_value",
                        m = "body" => parser.state = "s_chunk_data_almost_done"
                 PROVE  Last' = m
      OBVIOUS
    <3>1. Last = m \/ mark[m] # 0
      BY <1>5 DEF DataBegun, Begun
    <3>2. \A x \in Marks : mark[x] # 0 => x = m
      BY <1>1 DEF IInv, MarksBelong, Marks, UrlStart, UrlStates, Query,
         Fragment, BodyMarked
    <3>3. QED
      BY <1>2, <3>1, <3>2 DEF NoMarks, Marks
  <2>2. QED
    BY <1>1, <2>1 DEF DataBegun, Begun
<1>8. QED
  BY <1>1, <1>2, <1>3, <1>4, <1>6, <1>7
     DEF IInv, NoErrorInside, MarksBelong, InOrder

-----------------------------------------------------------------------------
(* The first line.                                                           *)

(* What digits stand for.                                                    *)
LEMMA Digits ==
    /\ \A ch \in IS_NUM : unhex(ch) \in 0 .. 9
    /\ \A ch \in IS_HEX : unhex(ch) \in 0 .. 15
<1>1. \A ch \in IS_NUM : unhex(ch) \in 0 .. 9
  BY DEF IS_NUM, unhex
<1>2. \A ch \in IS_HEX : unhex(ch) \in 0 .. 15
  BY DEF IS_HEX, IS_NUM, unhex
<1>3. QED
  BY <1>1, <1>2

(* A message begins.                                                         *)
LEMMA FreshFits ==
    ASSUME IInv, NEW s, NEW t, NEW mt \in Methods, NEW i,
           \/ parser' = [Fresh EXCEPT !.state = s]
           \/ parser' = [Fresh EXCEPT !.type = t, !.state = s]
           \/ parser' = [Fresh EXCEPT !.method = mt, !.index = i, !.state = s]
    PROVE  /\ HasFields' /\ FieldsFit' /\ parser'.state = s
           /\ parser'.http_errno = parser.http_errno /\ Trailing' = FALSE
<1>1. /\ DOMAIN parser' = Fields /\ parser'.state = s
      /\ parser'.flags = {} /\ parser'.content_length = ULLONG_MAX
      /\ parser'.method \in {mt, parser.method}
      /\ \A f \in Fields \ {"type", "method", "index", "state", "flags",
                            "content_length"} : parser'[f] = parser[f]
  BY DEF IInv, HasFields, Fields, Fresh
<1>2. ULLONG_MAX \in 0 .. ULLONG_MAX
  BY LimitsAssumption
<1>3. QED
  BY <1>1, <1>2 DEF IInv, HasFields, FieldsFit, Fields, Trailing

(* The first byte tells a response from a request.                           *)
LEMMA FirstByteStep == IInv /\ s_start_req_or_res => IInv'
<1> SUFFICES ASSUME IInv, s_start_req_or_res PROVE IInv'
  OBVIOUS
<1>1. /\ call = "switch" /\ parser.state = "s_start_req_or_res"
      /\ parser.state \in PlainStates /\ "s_res_or_resp_H" \in PlainStates
      /\ "s_start_req" \in PlainStates
  BY DEF s_start_req_or_res, In, PlainStates, StatusLine, TrailingStates
<1>2. p <= end /\ parser.http_errno = "OK"
  BY <1>1, PlainOnes, Within, AtWork
<1>3. CASE c \in {CR, LF} /\ Silent /\ Break(parser)
  BY <1>1, <1>3, QuietStay DEF InnerStates
<1>4. CASE CALLBACK_NOTIFY("message_begin", parser)
           /\ Break([Fresh EXCEPT !.state = "s_res_or_resp_H"])
  <2>1. parser' = [Fresh EXCEPT !.state = "s_res_or_resp_H"] /\ GoesOn
    BY <1>1, <1>2, <1>4, Onward
  <2>2. "DELETE" \in Methods
    BY DEF Methods
  <2>3. /\ HasFields' /\ FieldsFit' /\ parser'.state = "s_res_or_resp_H"
        /\ parser'.http_errno = "OK" /\ Trailing' = FALSE
    BY <1>2, <2>1, <2>2, FreshFits
  <2>4. Order(parser'.state, "message_begin", Trailing')
    BY <2>3 DEF Order, BeforeMessage, InFirstLine, InHeaders, InBody,
       LineStart, TrailingStates, StatusLine, RequestLine, UrlStart,
       UrlStates, Query, Fragment, ChunkSize
  <2>5. Lengths'
    BY <1>1, <2>3, PlainOnes
       DEF Lengths, LengthStates, ChunkStates, ChunkData
  <2>6. QED
    BY <1>1, <1>4, <2>1, <2>3, <2>4, <2>5, PlainOnes, Notifying
<1>5. CASE Silent /\ REEXECUTE([Fresh EXCEPT !.type = "HTTP_REQUEST",
                                             !.state = "s_start_req"])
  <2>1. parser' = [Fresh EXCEPT !.type = "HTTP_REQUEST",
                                !.state = "s_start_req"] /\ GoesOn
    BY <1>1, <1>2, <1>5, Onward
  <2>2. "DELETE" \in Methods
    BY DEF Methods
  <2>3. /\ HasFields' /\ FieldsFit' /\ parser'.state = "s_start_req"
        /\ parser'.http_errno = "OK" /\ Trailing' = FALSE
    BY <1>2, <2>1, <2>2, FreshFits
  <2>4. Order("s_start_req_or_res", Last, Trailing)
            => Order("s_start_req", Last, FALSE)
    BY DEF Order, BeforeMessage, InFirstLine, InHeaders, InBody, LineStart,
       TrailingStates, StatusLine, RequestLine, UrlStart, UrlStates, Query,
       Fragment, ChunkSize
  <2>5. QED
    BY <1>1, <1>5, <2>1, <2>3, <2>4, PlainOnes, Quietly DEF Plain
<1>6. QED
  BY <1>3, <1>4, <1>5 DEF s_start_req_or_res

(* A response begins.                                                        *)
LEMMA StartResStep == IInv /\ s_start_res => IInv'
<1> SUFFICES ASSUME IInv, s_start_res PROVE IInv'
  OBVIOUS
<1>1. /\ call = "switch" /\ parser.state = "s_start_res"
      /\ parser.state \in PlainStates /\ "s_res_H" \in PlainStates
  BY DEF s_start_res, In, PlainStates, StatusLine, TrailingStates
<1>2. p <= end /\ parser.http_errno = "OK"
  BY <1>1, PlainOnes, Within, AtWork
<1>3. CASE c \in {"H", CR, LF}
  <2> DEFINE s == IF c = "H" THEN "s_res_H" ELSE "s_start_res"
  <2>1. CALLBACK_NOTIFY("message_begin", parser)
        /\ Break(IF c = "H" THEN [Fresh EXCEPT !.state = "s_res_H"] ELSE Fresh)
    BY <1>3 DEF s_start_res
  <2>2. Fresh = [Fresh EXCEPT !.state = "s_start_res"]
    BY <1>1 DEF IInv, HasFields, Fields, Fresh
  <2>3. parser' = [Fresh EXCEPT !.state = s] /\ GoesOn
    BY <1>1, <1>2, <2>1, <2>2, Onward
  <2>4. "DELETE" \in Methods /\ s \in PlainStates
    BY <1>1 DEF Methods
  <2>5. /\ HasFields' /\ FieldsFit' /\ parser'.state = s
        /\ parser'.http_errno = "OK" /\ Trailing' = FALSE
    BY <1>2, <2>3, <2>4, FreshFits
  <2>6. Order(s, "message_begin", FALSE)
    BY DEF Order, BeforeMessage, InFirstLine, InHeaders, InBody, LineStart,
       TrailingStates, StatusLine, RequestLine, UrlStart, UrlStates, Query,
       Fragment, ChunkSize
  <2> HIDE DEF s
  <2>7. Lengths'
    BY <2>4, <2>5, PlainOnes DEF Lengths, LengthStates, ChunkStates, ChunkData
  <2>8. QED
    BY <1>1, <2>1, <2>3, <2>4, <2>5, <2>6, <2>7, PlainOnes, Notifying
<1>4. CASE c \notin {"H", CR, LF}
  BY <1>4, QuietError DEF s_start_res
<1>5. QED
  BY <1>3, <1>4

(* The second byte tells HTTP from HEAD.                                     *)
LEMMA HeadOrHttpStep == IInv /\ s_res_or_resp_H => IInv'
<1> SUFFICES ASSUME IInv, s_res_or_resp_H PROVE IInv'
  OBVIOUS
<1>1. /\ call = "switch" /\ parser.state = "s_res_or_resp_H" /\ Silent
      /\ parser.state \in PlainStates
      /\ "s_res_HT" \in PlainStates /\ "s_req_method" \in PlainStates
  BY DEF s_res_or_resp_H, In, PlainStates, StatusLine
<1>2. p <= end /\ parser.http_errno = "OK"
  BY <1>1, PlainOnes, Within, AtWork
<1>3. ASSUME NEW s \in {"s_res_HT", "s_req_method"}, GoesOn,
             HasFields', FieldsFit', parser'.state = s,
             parser'.http_errno = "OK", Trailing' = Trailing
      PROVE  IInv'
  <2>1. Order("s_res_or_resp_H", Last, Trailing) => Order(s, Last, Trailing)
    BY DEF Order, BeforeMessage, InFirstLine, InHeaders, InBody, LineStart,
       TrailingStates, StatusLine, RequestLine, UrlStart, UrlStates, Query,
       Fragment, ChunkSize
  <2>2. QED
    BY <1>1, <1>3, <2>1, PlainOnes, Quietly DEF Plain
<1>4. CASE Break([parser EXCEPT !.type = "HTTP_RESPONSE", !.state = "s_res_HT"])
  <2>1. GoesOn /\ parser' = [parser EXCEPT !.type = "HTTP_RESPONSE",
                                           !.state = "s_res_HT"]
    BY <1>1, <1>2, <1>4, Onward
  <2>2. /\ HasFields' /\ FieldsFit' /\ parser'.state = "s_res_HT"
        /\ parser'.http_errno = "OK" /\ Trailing' = Trailing
    BY <1>2, <2>1 DEF IInv, HasFields, Fields, FieldsFit, Trailing
  <2>3. QED
    BY <1>3, <2>1, <2>2
<1>5. CASE Break([parser EXCEPT !.type = "HTTP_REQUEST", !.method = "HEAD",
                                !.index = 2, !.state = "s_req_method"])
  <2>1. GoesOn /\ parser' =
            [parser EXCEPT !.type = "HTTP_REQUEST", !.method = "HEAD",
                           !.index = 2, !.state = "s_req_method"]
    BY <1>1, <1>2, <1>5, Onward
  <2>2. "HEAD" \in Methods
    BY DEF Methods
  <2>3. /\ HasFields' /\ FieldsFit' /\ parser'.state = "s_req_method"
        /\ parser'.http_errno = "OK" /\ Trailing' = Trailing
    BY <1>2, <2>1, <2>2 DEF IInv, HasFields, Fields, FieldsFit, Trailing
  <2>4. QED
    BY <1>3, <2>1, <2>3
<1>6. QED
  BY <1>1, <1>4, <1>5, QuietError DEF s_res_or_resp_H

(* The steps that read a number of up to three digits.                       *)
ThreeDigits == 0 .. 999
Number(f, n, s) == [parser EXCEPT ![f] = n, !.state = s]
(* A number of at most three digits is stored, and the state may change.     *)
LEMMA NumberStep ==
    ASSUME IInv, call = "switch", Silent,
           NEW f \in {"http_major", "http_minor", "status_code"},
           NEW n \in ThreeDigits, NEW s \in PlainStates,
           parser.state \in PlainStates, Break(Number(f, n, s)),
           Order(parser.state, Last, Trailing) => Order(s, Last, Trailing)
    PROVE  IInv'
<1>1. p <= end /\ parser.http_errno = "OK"
  BY PlainOnes, Within, AtWork
<1>2. GoesOn /\ parser' = Number(f, n, s)
  BY <1>1, Onward
<1>3. /\ DOMAIN parser' = Fields /\ parser'.state = s /\ parser'[f] = n
      /\ \A g \in Fields \ {f, "state"} : parser'[g] = parser[g]
  BY <1>2 DEF IInv, HasFields, Fields, Number
<1>4. \A g \in {"http_major", "http_minor", "status_code"} :
          parser'[g] \in 0 .. 999
  <2> SUFFICES ASSUME NEW g \in {"http_major", "http_minor", "status_code"}
               PROVE  parser'[g] \in 0 .. 999
    OBVIOUS
  <2>1. parser[g] \in 0 .. 999 /\ g \in Fields \ {"state"}
    BY DEF IInv, FieldsFit, Fields
  <2>2. QED
    BY <1>3, <2>1 DEF ThreeDigits
<1>5. \A g \in {"nread", "content_length", "flags", "method", "http_errno"} :
          parser'[g] = parser[g]
  BY <1>3 DEF Fields
<1>6. /\ HasFields' /\ FieldsFit' /\ Trailing' = Trailing
      /\ parser'.http_errno = "OK"
  BY <1>1, <1>3, <1>4, <1>5 DEF IInv, HasFields, FieldsFit, Trailing
<1>7. QED
  BY <1>2, <1>3, <1>6, PlainOnes, Quietly DEF Plain

(* Each row of FirstDigit leads on in the same line.                         *)
LEMMA FirstDigitRows ==
    ASSUME NEW s \in DOMAIN FirstDigit, NEW last, NEW t, Order(s, last, t)
    PROVE  /\ s \in PlainStates /\ FirstDigit[s][3] \in PlainStates
           /\ FirstDigit[s][1] \subseteq IS_NUM
           /\ FirstDigit[s][2] \in {"http_major", "http_minor"}
           /\ Order(FirstDigit[s][3], last, t)
BY DEF FirstDigit, PlainStates, UrlStart, UrlStates, Query, Fragment,
   ChunkSize, Order, BeforeMessage, InFirstLine, InHeaders, InBody, LineStart,
   TrailingStates, StatusLine, RequestLine

(* The first digit of a version.                                             *)
LEMMA FirstDigitStep == IInv /\ FirstDigitState => IInv'
<1> SUFFICES ASSUME IInv, FirstDigitState PROVE IInv'
  OBVIOUS
<1> DEFINE row == FirstDigit[parser.state]
           f == row[2]
           s == row[3]
<1>1. /\ call = "switch" /\ parser.state \in DOMAIN FirstDigit /\ Silent
      /\ IF c \in row[1] THEN Break(Number(f, unhex(c), s))
                         ELSE Error("INVALID_VERSION")
  BY DEF FirstDigitState, Number
<1>2. /\ row[1] \subseteq IS_NUM
      /\ f \in {"http_major", "http_minor", "status_code"}
      /\ parser.state \in PlainStates /\ s \in PlainStates
      /\ Order(s, Last, Trailing)
  BY <1>1, AtWork, FirstDigitRows
<1> HIDE DEF row, f, s
<1>3. CASE c \in row[1]
  <2>1. PICK n \in ThreeDigits : n = unhex(c)
    BY <1>2, <1>3, Digits DEF ThreeDigits
  <2>2. Break(Number(f, n, s)) /\ call = "switch" /\ Silent
    BY <1>1, <1>3, <2>1
  <2>3. QED
    BY <1>2, <2>1, <2>2, NumberStep
<1>4. CASE c \notin row[1]
  BY <1>1, <1>4, QuietError
<1>5. QED
  BY <1>3, <1>4

(* The second of a pair.                                                     *)
LEMMA Second ==
    ASSUME NEW x, NEW a, NEW b, x = <<a, b>>
    PROVE  x[2] = b
OBVIOUS

(* Each row of MoreDigits leads on in the same line.                         *)
LEMMA MoreDigitsRows ==
    ASSUME NEW s \in DOMAIN MoreDigits, NEW last, NEW t, Order(s, last, t)
    PROVE  /\ s \in PlainStates
           /\ MoreDigits[s][1] \in {"http_major", "http_minor", "status_code"}
           /\ MoreDigits[s][3] # "OK"
           /\ \A after \in MoreDigits[s][2] :
                  /\ after[2] \in PlainStates /\ Order(after[2], last, t)
                  /\ after[2] # "s_req_method"
<1> DEFINE row == MoreDigits[s]
<1>0. s \in {"s_res_http_major", "s_res_http_minor", "s_res_status_code",
             "s_req_http_major", "s_req_http_minor"}
  BY DEF MoreDigits
<1>1. /\ s \in PlainStates
      /\ MoreDigits[s][1] \in {"http_major", "http_minor", "status_code"}
      /\ MoreDigits[s][3] # "OK"
  <2>1. s = "s_res_http_major" => row[1] = "http_major" /\ row[3] # "OK"
    BY DEF MoreDigits
  <2>2. s = "s_res_http_minor" => row[1] = "http_minor" /\ row[3] # "OK"
    BY DEF MoreDigits
  <2>3. s = "s_res_status_code" => row[1] = "status_code" /\ row[3] # "OK"
    BY DEF MoreDigits
  <2>4. s = "s_req_http_major" => row[1] = "http_major" /\ row[3] # "OK"
    BY DEF MoreDigits
  <2>5. s = "s_req_http_minor" => row[1] = "http_minor" /\ row[3] # "OK"
    BY DEF MoreDigits
  <2>6. QED
    BY <1>0, <2>1, <2>2, <2>3, <2>4, <2>5 DEF PlainStates, StatusLine,
       RequestLine
<1>2. ASSUME NEW after \in MoreDigits[s][2]
      PROVE  /\ after[2] \in PlainStates /\ Order(after[2], last, t)
             /\ after[2] # "s_req_method"
  <2>1. \/ s = "s_res_http_major" /\ after[2] = "s_res_first_http_minor"
        \/ s = "s_res_http_minor" /\ after[2] = "s_res_first_status_code"
        \/ /\ s = "s_res_status_code"
           /\ after[2] \in {"s_res_status_start", "s_res_line_almost_done",
                            "s_header_field_start"}
        \/ s = "s_req_http_major" /\ after[2] = "s_req_first_http_minor"
        \/ /\ s = "s_req_http_minor"
           /\ after[2] \in {"s_req_line_almost_done", "s_header_field_start"}
    <3>1. s = "s_res_http_major" => after[2] = "s_res_first_http_minor"
      BY DEF MoreDigits
    <3>2. ASSUME s = "s_res_http_minor"
          PROVE  after[2] = "s_res_first_status_code"
      <4>1. row[2] = {<<" ", "s_res_first_status_code">>}
        BY <3>2 DEF MoreDigits
      <4>2. after \in row[2]
        OBVIOUS
      <4> HIDE DEF row
      <4>3. QED
        BY <4>1, <4>2, Second
    <3>3. ASSUME s = "s_res_status_code"
          PROVE  after[2] \in {"s_res_status_start", "s_res_line_almost_done",
                              "s_header_field_start"}
      <4>1. row[2] = {<<" ", "s_res_status_start">>,
                      <<CR, "s_res_line_almost_done">>,
                      <<LF, "s_header_field_start">>}
        BY <3>3 DEF MoreDigits
      <4>2. after \in row[2]
        OBVIOUS
      <4> HIDE DEF row
      <4>3. \/ after = <<" ", "s_res_status_start">>
            \/ after = <<CR, "s_res_line_almost_done">>
            \/ after = <<LF, "s_header_field_start">>
        BY <4>1, <4>2
      <4>4. QED
        BY <4>3, Second
    <3>4. s = "s_req_http_major" => after[2] = "s_req_first_http_minor"
      BY DEF MoreDigits
    <3>5. s = "s_req_http_minor" =>
              after[2] \in {"s_req_line_almost_done", "s_header_field_start"}
      BY DEF MoreDigits
    <3>6. QED
      BY <1>0, <3>1, <3>2, <3>3, <3>4, <3>5
  <2>2. QED
    BY <2>1 DEF PlainStates, UrlStart, UrlStates, Query, Fragment, ChunkSize,
       Order, BeforeMessage, InFirstLine, InHeaders, InBody, LineStart,
       TrailingStates, StatusLine, RequestLine
<1>3. QED
  BY <1>1, <1>2

(* A further digit: 999 is the largest number that is stored.                *)
LEMMA MoreDigitsStep == IInv /\ MoreDigitsState => IInv'
<1> SUFFICES ASSUME IInv, MoreDigitsState PROVE IInv'
  OBVIOUS
<1> DEFINE row == MoreDigits[parser.state]
           f == row[1]
           number == 10 * parser[f] + unhex(c)
<1>1. /\ call = "switch" /\ parser.state \in DOMAIN MoreDigits /\ Silent
      /\ \/ \E after \in row[2] : Break(Goto(after[2]))
         \/ Error(row[3])
         \/ /\ c \in IS_NUM /\ ~(number > 999)
            /\ Break([parser EXCEPT ![f] = number])
  BY DEF MoreDigitsState
<1>2. /\ f \in {"http_major", "http_minor", "status_code"}
      /\ row[3] # "OK" /\ parser.state \in PlainStates
      /\ \A after \in row[2] :
             after[2] \in PlainStates /\ Order(after[2], Last, Trailing)
  BY <1>1, AtWork, MoreDigitsRows
<1>3. number = 10 * parser[f] + unhex(c)
  OBVIOUS
<1> HIDE DEF row, f, number
<1>4. ASSUME NEW after \in row[2], Break(Goto(after[2])) PROVE IInv'
  <2> DEFINE s == after[2]
  <2>1. s \in PlainStates /\ Order(s, Last, Trailing) /\ Break(Goto(s))
    BY <1>2, <1>4
  <2> HIDE DEF s
  <2>2. QED
    BY <1>1, <1>2, <2>1, PlainOnes, QuietGoto
<1>5. CASE Error(row[3])
  BY <1>1, <1>2, <1>5, QuietError
<1>6. CASE c \in IS_NUM /\ ~(number > 999)
           /\ Break([parser EXCEPT ![f] = number])
  <2>1. PICK old \in 0 .. 999 : old = parser[f]
    BY <1>2 DEF IInv, FieldsFit
  <2>2. PICK d \in 0 .. 9 : d = unhex(c)
    BY <1>6, Digits
  <2>3. PICK n \in ThreeDigits : n = number
    <3>1. number = 10 * old + d
      BY <1>3, <2>1, <2>2
    <3>2. 10 * old + d \in 0 .. 999
      BY <1>6, <3>1
    <3>3. QED
      BY <3>1, <3>2 DEF ThreeDigits
  <2>4. Break(Number(f, n, parser.state))
    BY <1>2, <1>6, <2>3 DEF IInv, HasFields, Fields, Number
  <2>5. QED
    BY <1>1, <1>2, <2>4, NumberStep
<1>7. QED
  BY <1>1, <1>4, <1>5, <1>6

(* The first digit of the status code.                                       *)
LEMMA FirstStatusStep == IInv /\ s_res_first_status_code => IInv'
<1> SUFFICES ASSUME IInv, s_res_first_status_code PROVE IInv'
  OBVIOUS
<1>1. /\ call = "switch" /\ parser.state = "s_res_first_status_code" /\ Silent
      /\ parser.state \in PlainStates /\ "s_res_status_code" \in PlainStates
  BY DEF s_res_first_status_code, In, PlainStates, StatusLine
<1>2. CASE c \in IS_NUM /\ Break([parser EXCEPT !.status_code = unhex(c),
                                                !.state = "s_res_status_code"])
  <2>1. unhex(c) \in ThreeDigits
    BY <1>2, Digits DEF ThreeDigits
  <2>2. Order("s_res_first_status_code", Last, Trailing)
            => Order("s_res_status_code", Last, Trailing)
    BY DEF UrlStart, UrlStates, Query, Fragment, ChunkSize, Order,
       BeforeMessage, InFirstLine, InHeaders, InBody, LineStart,
       TrailingStates, StatusLine, RequestLine
  <2>3. Break(Number("status_code", unhex(c), "s_res_status_code"))
    BY <1>2 DEF Number
  <2>4. QED
    BY <1>1, <2>1, <2>2, <2>3, NumberStep
<1>3. CASE Break(parser)
  BY <1>1, <1>3, QuietStay DEF InnerStates
<1>4. QED
  BY <1>1, <1>2, <1>3, QuietError DEF s_res_first_status_code

(* The reason phrase begins, or there is none.                               *)
LEMMA StatusStartStep == IInv /\ s_res_status_start => IInv'
<1> SUFFICES ASSUME IInv, s_res_status_start PROVE IInv'
  OBVIOUS
<1>1. /\ call = "switch" /\ parser.state = "s_res_status_start"
      /\ parser.state \in PlainStates /\ LineEnd \in PlainStates
  BY DEF s_res_status_start, In, PlainStates, StatusLine, LineEnd,
     TrailingStates
<1>2. Order("s_res_status_start", Last, Trailing)
          => /\ Order("s_res_status", Last, Trailing)
             /\ Order(LineEnd, Last, Trailing)
  BY DEF LineEnd, UrlStart, UrlStates, Query, Fragment, ChunkSize, Order,
     BeforeMessage, InFirstLine, InHeaders, InBody, LineStart, TrailingStates,
     StatusLine, RequestLine
<1>3. CASE c \in {CR, LF}
  BY <1>1, <1>2, <1>3, PlainOnes, QuietGoto DEF s_res_status_start
<1>4. CASE c \notin {CR, LF}
  <2>1. p <= end /\ parser.http_errno = "OK" /\ \A m \in Marks : mark[m] = 0
    BY <1>1, PlainOnes, Within, AtWork, NothingMarked
  <2>2. /\ MARK("status") /\ GoesOn
        /\ parser' = [parser EXCEPT !.state = "s_res_status", !.index = 0]
    BY <1>1, <1>4, <2>1, Onward DEF s_res_status_start
  <2>3. /\ HasFields' /\ FieldsFit' /\ parser'.state = "s_res_status"
        /\ parser'.http_errno = "OK" /\ Trailing' = Trailing
    BY <2>1, <2>2 DEF IInv, HasFields, FieldsFit, Fields, Trailing
  <2>4. Lengths' /\ Belongs("status", parser'.state) /\ "status" \in Marks
    BY <2>3 DEF Lengths, Belongs, Marks, BodyMarked, ChunkStates, ChunkSize,
       ChunkData
  <2>5. QED
    BY <1>1, <1>2, <2>1, <2>2, <2>3, <2>4, AtWork, Marking
<1>5. QED
  BY <1>3, <1>4

(* The reason phrase goes on, or is delivered.                               *)
LEMMA StatusStep == IInv /\ s_res_status => IInv'
<1> SUFFICES ASSUME IInv, s_res_status PROVE IInv'
  OBVIOUS
<1>1. /\ call = "switch" /\ parser.state = "s_res_status"
      /\ parser.state \notin InnerStates /\ LineEnd \in PlainStates
  BY DEF s_res_status, In, InnerStates, PlainStates, LineEnd, TrailingStates
<1>2. CASE c \in {CR, LF}
  <2>1. p <= end /\ parser.http_errno = "OK"
    BY <1>1, Within, AtWork
  <2>2. CALLBACK_DATA("status", p) /\ GoesOn /\ parser' = Goto(LineEnd)
    BY <1>1, <1>2, <2>1, Onward DEF s_res_status
  <2>3. /\ HasFields' /\ FieldsFit' /\ parser'.state = LineEnd
        /\ Trailing' = Trailing /\ parser'.http_errno = "OK"
    BY <2>1, <2>2, Going DEF Fields
  <2>4. Order("s_res_status", Last, Trailing)
            => /\ Order(LineEnd, "status", Trailing)
               /\ Order(LineEnd, Last, Trailing)
    BY DEF LineEnd, UrlStart, UrlStates, Query, Fragment, ChunkSize, Order,
       BeforeMessage, InFirstLine, InHeaders, InBody, LineStart,
       TrailingStates, StatusLine, RequestLine
  <2>5. \A n \in Marks \ {"status"} : mark[n] = 0
    BY <1>1 DEF IInv, MarksBelong, Marks, UrlStart, UrlStates, Query,
       Fragment, BodyMarked
  <2>6. Lengths' /\ parser'.state \notin MarkedStates /\ "status" \in Marks
    BY <1>1, <2>3, PlainOnes DEF Lengths, LengthStates, ChunkStates,
       ChunkData, Marks
  <2>7. QED
    BY <1>1, <2>2, <2>3, <2>4, <2>5, <2>6, AtWork, Delivering
<1>3. CASE c \notin {CR, LF}
  BY <1>1, <1>3, QuietStay DEF s_res_status
<1>4. QED
  BY <1>2, <1>3

-----------------------------------------------------------------------------
(* The first line of a request.                                              *)

(* Fields that no state tells apart are assigned.                            *)
LEMMA Assigning ==
    ASSUME IInv, call = "switch", Silent, NEW new,
           Break(new) \/ REEXECUTE(new), parser.state \in PlainStates,
           DOMAIN new = Fields, new.state \in PlainStates,
           new.method \in Methods, new.flags = parser.flags,
           \A f \in {"nread", "content_length", "http_major", "http_minor",
                     "status_code", "http_errno"} : new[f] = parser[f],
           Order(parser.state, Last, Trailing)
               => Order(new.state, Last, Trailing)
    PROVE  IInv'
<1>1. p <= end /\ parser.http_errno = "OK"
  BY PlainOnes, Within, AtWork
<1>2. GoesOn /\ parser' = new
  BY <1>1, Onward
<1>3. /\ HasFields' /\ FieldsFit' /\ Trailing' = Trailing
      /\ parser'.http_errno = "OK"
  BY <1>1, <1>2 DEF IInv, HasFields, FieldsFit, Trailing
<1>4. QED
  BY <1>2, <1>3, PlainOnes, Quietly DEF Plain

(* Guesses and corrections are methods.                                      *)
LEMMA KnownMethods ==
    /\ \A ch \in DOMAIN FirstGuess : FirstGuess[ch] \in Methods
    /\ \A row \in Corrections : row[4] \in Methods
<1>1. \A ch \in DOMAIN FirstGuess : FirstGuess[ch] \in Methods
  BY DEF FirstGuess, Methods
<1>2. \A row \in Corrections : row[4] \in Methods
  BY DEF Corrections, Methods
<1>3. QED
  BY <1>1, <1>2

(* A request begins.                                                         *)
LEMMA StartReqStep == IInv /\ s_start_req => IInv'
<1> SUFFICES ASSUME IInv, s_start_req PROVE IInv'
  OBVIOUS
<1>1. /\ call = "switch" /\ parser.state = "s_start_req"
      /\ parser.state \in PlainStates /\ "s_req_method" \in PlainStates
  BY DEF s_start_req, In, PlainStates, TrailingStates
<1>2. CASE c \in {CR, LF} /\ Silent /\ Break(parser)
  BY <1>1, <1>2, QuietStay DEF InnerStates
<1>3. CASE c \in DOMAIN FirstGuess
           /\ CALLBACK_NOTIFY("message_begin", parser)
           /\ Break([Fresh EXCEPT !.method = FirstGuess[c], !.index = 1,
                                  !.state = "s_req_method"])
  <2>1. p <= end /\ parser.http_errno = "OK"
    BY <1>1, PlainOnes, Within, AtWork
  <2>2. PICK mt \in Methods : mt = FirstGuess[c]
    BY <1>3, KnownMethods
  <2>3. GoesOn /\ parser' = [Fresh EXCEPT !.method = mt, !.index = 1,
                                          !.state = "s_req_method"]
    BY <1>1, <1>3, <2>1, <2>2, Onward
  <2>4. /\ HasFields' /\ FieldsFit' /\ parser'.state = "s_req_method"
        /\ parser'.http_errno = "OK" /\ Trailing' = FALSE
    BY <2>1, <2>3, FreshFits
  <2>5. Order("s_req_method", "message_begin", FALSE)
    BY DEF Order, BeforeMessage, InFirstLine, InHeaders, InBody, LineStart,
       TrailingStates, StatusLine, RequestLine, UrlStart, UrlStates, Query,
       Fragment, ChunkSize
  <2>6. Lengths'
    BY <1>1, <2>4, PlainOnes DEF Lengths, LengthStates, ChunkStates, ChunkData
  <2>7. QED
    BY <1>1, <1>3, <2>3, <2>4, <2>5, <2>6, PlainOnes, Notifying
<1>4. QED
  BY <1>2, <1>3, QuietError DEF s_start_req

(* One more letter of a method.                                              *)
LEMMA MethodStep == IInv /\ s_req_method => IInv'
<1> SUFFICES ASSUME IInv, s_req_method PROVE IInv'
  OBVIOUS
<1> DEFINE next == [parser EXCEPT !.index = @ + 1]
<1>1. /\ call = "switch" /\ parser.state = "s_req_method" /\ Silent
      /\ parser.state \in PlainStates
      /\ "s_req_spaces_before_url" \in PlainStates
  BY DEF s_req_method, In, PlainStates
<1>2. \/ Break([next EXCEPT !.state = "s_req_spaces_before_url"])
      \/ Break(next)
      \/ \E row \in Corrections : Break([next EXCEPT !.method = row[4]])
      \/ Error("INVALID_METHOD")
  BY DEF s_req_method
<1>3. Order("s_req_method", Last, Trailing)
          => Order("s_req_spaces_before_url", Last, Trailing)
  BY DEF Order, BeforeMessage, InFirstLine, InHeaders, InBody, LineStart,
     TrailingStates, StatusLine, RequestLine, UrlStart, UrlStates, Query,
     Fragment, ChunkSize
<1>4. /\ DOMAIN next = Fields /\ next.state = "s_req_method"
      /\ next.method \in Methods /\ next.flags = parser.flags
      /\ \A f \in {"nread", "content_length", "http_major", "http_minor",
                   "status_code", "http_errno"} : next[f] = parser[f]
  BY <1>1 DEF IInv, HasFields, FieldsFit, Fields
<1> HIDE DEF next
<1>5. CASE Break([next EXCEPT !.state = "s_req_spaces_before_url"])
  <2> DEFINE new == [next EXCEPT !.state = "s_req_spaces_before_url"]
  <2>1. /\ DOMAIN new = Fields /\ new.state = "s_req_spaces_before_url"
        /\ new.method \in Methods /\ new.flags = parser.flags
        /\ \A f \in {"nread", "content_length", "http_major", "http_minor",
                     "status_code", "http_errno"} : new[f] = parser[f]
    BY <1>4 DEF Fields
  <2>2. Break(new)
    BY <1>5
  <2> HIDE DEF new
  <2>3. QED
    BY <1>1, <1>3, <2>1, <2>2, Assigning
<1>6. CASE Break(next)
  BY <1>1, <1>4, <1>6, Assigning
<1>7. ASSUME NEW row \in Corrections, Break([next EXCEPT !.method = row[4]])
      PROVE  IInv'
  <2> DEFINE new == [next EXCEPT !.method = row[4]]
  <2>1. /\ DOMAIN new = Fields /\ new.state = "s_req_method"
        /\ new.method \in Methods /\ new.flags = parser.flags
        /\ \A f \in {"nread", "content_length", "http_major", "http_minor",
                     "status_code", "http_errno"} : new[f] = parser[f]
    BY <1>4, <1>7, KnownMethods DEF Fields
  <2>2. Break(new)
    BY <1>7
  <2> HIDE DEF new
  <2>3. QED
    BY <1>1, <2>1, <2>2, Assigning
<1>8. QED
  BY <1>1, <1>2, <1>5, <1>6, <1>7, QuietError

(* A byte of a URL leads to a state of URLs.                                 *)
LEMMA UrlMoves ==
    ASSUME NEW s, NEW ch
    PROVE  parse_url_char(s, ch) \in UrlStart \cup UrlStates \cup {"s_dead"}
BY DEF parse_url_char, UrlStart, UrlStates, Query, Fragment

(* A byte of a URL is refused or leads to a state of URLs.                   *)
LEMMA UrlBytes ==
    ASSUME NEW s, UrlByte(s)
    PROVE  \/ Error("INVALID_URL")
           \/ \E next \in UrlStart \cup UrlStates : Break(Goto(next))
BY UrlMoves DEF UrlByte

(* The states of URLs have the same callbacks behind them.                   *)
LEMMA UrlOrder ==
    ASSUME NEW s \in UrlStart \cup UrlStates, NEW last, NEW t
    PROVE  /\ Order(s, last, t) <=> last \in {"message_begin", "url"} /\ ~t
           /\ s \notin LengthStates \cup InnerStates
           /\ s \notin {"s_chunk_data_almost_done", "s_res_status"}
           /\ Belongs("url", s)
BY DEF Order, BeforeMessage, InFirstLine, InHeaders, InBody, LineStart,
   TrailingStates, StatusLine, RequestLine, UrlStart, UrlStates, Query,
   Fragment, ChunkSize, LengthStates, InnerStates, ChunkStates, ChunkData,
   Belongs, BodyMarked

(* A URL that goes on keeps its mark.                                        *)
LEMMA UrlGoesOn ==
    ASSUME IInv, Silent, call = "switch", parser.state \in UrlStart \cup UrlStates,
           NEW next \in UrlStart \cup UrlStates, Break(Goto(next))
    PROVE  IInv'
<1>1. p <= end /\ parser.http_errno = "OK"
  BY UrlOrder, Within, AtWork
<1>2. parser' = Goto(next) /\ GoesOn
  BY <1>1, Onward
<1>3. /\ HasFields' /\ FieldsFit' /\ parser'.state = next
      /\ Trailing' = Trailing /\ parser'.http_errno = "OK"
  BY <1>1, <1>2, Going DEF Fields
<1>4. MarksBelong'
  <2>1. \A m \in Marks \ {"url"} : mark'[m] = 0
    BY UrlOrder DEF IInv, MarksBelong, Belongs, Marks, Silent
  <2>2. QED
    BY <1>3, <2>1 DEF MarksBelong, Marks
<1>5. Lengths' /\ DataBegun'
  BY <1>3, UrlOrder
     DEF Lengths, LengthStates, ChunkStates, ChunkData, DataBegun, InnerStates
<1>6. QED
  BY <1>2, <1>3, <1>4, <1>5, UrlOrder, Staying

(* The URL begins with its mark.                                             *)
LEMMA BeforeUrlStep == IInv /\ s_req_spaces_before_url => IInv'
<1> SUFFICES ASSUME IInv, s_req_spaces_before_url PROVE IInv'
  OBVIOUS
<1>1. /\ call = "switch" /\ parser.state = "s_req_spaces_before_url"
      /\ parser.state \in PlainStates
  BY DEF s_req_spaces_before_url, In, PlainStates
<1>2. /\ p <= end /\ parser.http_errno = "OK" /\ \A m \in Marks : mark[m] = 0
      /\ "url" \in Marks
  BY <1>1, PlainOnes, Within, AtWork, NothingMarked DEF Marks
<1>3. \/ Silent /\ Break(parser)
      \/ MARK("url") /\ Error("INVALID_URL")
      \/ /\ MARK("url")
         /\ \E next \in UrlStart \cup UrlStates : Break(Goto(next))
  BY UrlBytes DEF s_req_spaces_before_url
<1>4. CASE Silent /\ Break(parser)
  BY <1>1, <1>4, QuietStay DEF InnerStates
<1>5. CASE MARK("url") /\ Error("INVALID_URL")
  BY <1>2, <1>5, MarkedError
<1>6. ASSUME MARK("url"), NEW next \in UrlStart \cup UrlStates,
             Break(Goto(next))
      PROVE  IInv'
  <2>1. parser' = Goto(next) /\ GoesOn
    BY <1>1, <1>2, <1>6, Onward
  <2>2. /\ HasFields' /\ FieldsFit' /\ parser'.state = next
        /\ Trailing' = Trailing /\ parser'.http_errno = "OK"
    BY <1>2, <2>1, Going DEF Fields
  <2>3. Last = "message_begin" /\ ~Trailing
    <3>1. Order("s_req_spaces_before_url", Last, Trailing)
      BY <1>1, AtWork
    <3>2. QED
      BY <3>1 DEF Order, InFirstLine, TrailingStates
  <2>4. Lengths' /\ Belongs("url", next) /\ Order(next, Last, Trailing)
    BY <2>2, <2>3, UrlOrder DEF Lengths, LengthStates, ChunkStates, ChunkData
  <2>5. QED
    BY <1>1, <1>2, <1>6, <2>1, <2>2, <2>4, Marking
<1>7. QED
  BY <1>3, <1>4, <1>5, <1>6

(* A byte where the URL must not end.                                        *)
LEMMA UrlStartStep == IInv /\ s_req_url_start => IInv'
<1> SUFFICES ASSUME IInv, s_req_url_start PROVE IInv'
  OBVIOUS
<1>1. /\ call = "switch" /\ parser.state \in UrlStart /\ Silent
      /\ \/ Error("INVALID_URL")
         \/ \E next \in UrlStart \cup UrlStates : Break(Goto(next))
  BY UrlBytes DEF s_req_url_start
<1>2. QED
  BY <1>1, UrlGoesOn, QuietError

(* The URL is delivered, and its line goes on.                               *)
LEMMA UrlEnds ==
    ASSUME IInv, call = "switch", parser.state \in UrlStates,
           CALLBACK_DATA("url", p), NEW new, Break(new),
           DOMAIN new = Fields,
           new.state \in {"s_req_http_start", "s_req_line_almost_done",
                          "s_header_field_start"},
           new.http_major \in 0 .. 999, new.http_minor \in 0 .. 999,
           \A f \in {"nread", "content_length", "flags", "method",
                     "status_code", "http_errno"} : new[f] = parser[f]
    PROVE  IInv'
<1> DEFINE s == new.state
<1>1. p <= end /\ parser.http_errno = "OK"
  BY UrlOrder, Within, AtWork
<1>2. parser' = new /\ GoesOn
  BY <1>1, Onward
<1>3. /\ HasFields' /\ FieldsFit' /\ parser'.state = s
      /\ Trailing' = Trailing /\ parser'.http_errno = "OK"
  BY <1>1, <1>2 DEF IInv, HasFields, FieldsFit, Trailing
<1>4. Last \in {"message_begin", "url"} /\ ~Trailing
  BY AtWork, UrlOrder
<1>5. s \in PlainStates
  BY DEF PlainStates, RequestLine, TrailingStates
<1>6. Order(s, "url", Trailing') /\ Order(s, Last, Trailing')
  BY <1>3, <1>4 DEF Order, BeforeMessage, InFirstLine, InHeaders, InBody,
     LineStart, TrailingStates, StatusLine, RequestLine, UrlStart, UrlStates,
     Query, Fragment, ChunkSize
<1> HIDE DEF s
<1>7. Lengths' /\ parser'.state \notin MarkedStates /\ "url" \in Marks
  BY <1>3, <1>5, PlainOnes DEF Lengths, LengthStates, ChunkStates, ChunkData,
     Marks
<1>8. \A n \in Marks \ {"url"} : mark[n] = 0
  BY UrlOrder DEF IInv, MarksBelong, Belongs, Marks
<1>9. QED
  BY <1>2, <1>3, <1>6, <1>7, <1>8, Delivering

(* A byte where it may end.                                                  *)
LEMMA UrlStep == IInv /\ s_req_url => IInv'
<1> SUFFICES ASSUME IInv, s_req_url PROVE IInv'
  OBVIOUS
<1> DEFINE old(s) == [parser EXCEPT !.http_major = 0, !.http_minor = 9,
                                    !.state = s]
<1>1. /\ call = "switch" /\ parser.state \in UrlStates
      /\ \/ CALLBACK_DATA("url", p) /\ Break(Goto("s_req_http_start"))
         \/ /\ CALLBACK_DATA("url", p)
            /\ \E s \in {"s_req_line_almost_done", "s_header_field_start"} :
                   Break(old(s))
         \/ Silent /\ Error("INVALID_URL")
         \/ /\ Silent
            /\ \E next \in UrlStart \cup UrlStates : Break(Goto(next))
  BY UrlBytes DEF s_req_url
<1>2. CASE CALLBACK_DATA("url", p) /\ Break(Goto("s_req_http_start"))
  <2> DEFINE new == Goto("s_req_http_start")
  <2>1. /\ DOMAIN new = Fields /\ new.state = "s_req_http_start"
        /\ new.http_major \in 0 .. 999 /\ new.http_minor \in 0 .. 999
        /\ \A f \in {"nread", "content_length", "flags", "method",
                     "status_code", "http_errno"} : new[f] = parser[f]
    BY DEF IInv, HasFields, FieldsFit, Fields, Goto
  <2>2. Break(new)
    BY <1>2
  <2> HIDE DEF new
  <2>3. QED
    BY <1>1, <1>2, <2>1, <2>2, UrlEnds
<1>3. ASSUME NEW s \in {"s_req_line_almost_done", "s_header_field_start"},
             CALLBACK_DATA("url", p), Break(old(s))
      PROVE  IInv'
  <2> DEFINE new == old(s)
  <2>1. /\ DOMAIN new = Fields /\ new.state = s
        /\ new.http_major \in 0 .. 999 /\ new.http_minor \in 0 .. 999
        /\ \A f \in {"nread", "content_length", "flags", "method",
                     "status_code", "http_errno"} : new[f] = parser[f]
    BY DEF IInv, HasFields, Fields
  <2>2. Break(new)
    BY <1>3
  <2> HIDE DEF new
  <2>3. QED
    BY <1>1, <1>3, <2>1, <2>2, UrlEnds
<1>4. QED
  BY <1>1, <1>2, <1>3, UrlGoesOn, QuietError

(* The version begins.                                                       *)
LEMMA HttpStartStep == IInv /\ s_req_http_start => IInv'
<1> SUFFICES ASSUME IInv, s_req_http_start PROVE IInv'
  OBVIOUS
<1>1. /\ call = "switch" /\ parser.state = "s_req_http_start" /\ Silent
      /\ parser.state \in PlainStates /\ "s_req_http_H" \in PlainStates
  BY DEF s_req_http_start, In, PlainStates, RequestLine
<1>2. Order("s_req_http_start", Last, Trailing)
          => Order("s_req_http_H", Last, Trailing)
  BY DEF Order, BeforeMessage, InFirstLine, InHeaders, InBody, LineStart,
     TrailingStates, StatusLine, RequestLine, UrlStart, UrlStates, Query,
     Fragment, ChunkSize
<1>3. CASE Break(Goto("s_req_http_H"))
  BY <1>1, <1>2, <1>3, PlainOnes, QuietGoto
<1>4. CASE Break(parser)
  BY <1>1, <1>4, QuietStay DEF InnerStates
<1>5. QED
  BY <1>1, <1>3, <1>4, QuietError DEF s_req_http_start

(* The end of the first line.                                                *)
LEMMA LineDoneStep == IInv /\ s_req_line_almost_done => IInv'
<1> SUFFICES ASSUME IInv, s_req_line_almost_done PROVE IInv'
  OBVIOUS
<1>1. /\ call = "switch" /\ parser.state = "s_req_line_almost_done" /\ Silent
      /\ parser.state \in PlainStates /\ "s_header_field_start" \in PlainStates
  BY DEF s_req_line_almost_done, In, PlainStates, RequestLine, TrailingStates
<1>2. Order("s_req_line_almost_done", Last, Trailing)
          => Order("s_header_field_start", Last, Trailing)
  BY DEF Order, BeforeMessage, InFirstLine, InHeaders, InBody, LineStart,
     TrailingStates, StatusLine, RequestLine, UrlStart, UrlStates, Query,
     Fragment, ChunkSize
<1>3. QED
  BY <1>1, <1>2, PlainOnes, QuietGoto, QuietError DEF s_req_line_almost_done

-----------------------------------------------------------------------------
(* Header fields.                                                            *)

Kept == {"nread", "content_length", "flags", "method", "http_major",
         "http_minor", "status_code", "http_errno"}

(* A header begins with its mark, or the headers end.                        *)
LEMMA FieldStartStep == IInv /\ s_header_field_start => IInv'
<1> SUFFICES ASSUME IInv, s_header_field_start PROVE IInv'
  OBVIOUS
<1>1. /\ call = "switch" /\ parser.state = "s_header_field_start"
      /\ parser.state \in PlainStates /\ "s_headers_almost_done" \in PlainStates
  BY DEF s_header_field_start, In, PlainStates, TrailingStates
<1>2. Order("s_header_field_start", Last, Trailing)
          => /\ Order("s_headers_almost_done", Last, Trailing)
             /\ Order("s_header_field", Last, Trailing)
  BY DEF Order, BeforeMessage, InFirstLine, InHeaders, InBody, LineStart,
     TrailingStates, StatusLine, RequestLine, UrlStart, UrlStates, Query,
     Fragment, ChunkSize
<1>3. CASE Silent /\ \/ Break(Goto("s_headers_almost_done"))
                     \/ REEXECUTE(Goto("s_headers_almost_done"))
  BY <1>1, <1>2, <1>3, PlainOnes, QuietGoto
<1>4. ASSUME MARK("header_field"), NEW hs,
             Break([parser EXCEPT !.index = 0, !.state = "s_header_field",
                                  !.header_state = hs])
      PROVE  IInv'
  <2>1. /\ p <= end /\ parser.http_errno = "OK" /\ \A m \in Marks : mark[m] = 0
        /\ "header_field" \in Marks
    BY <1>1, PlainOnes, Within, AtWork, NothingMarked DEF Marks
  <2>2. GoesOn /\ parser' = [parser EXCEPT !.index = 0,
                                 !.state = "s_header_field", !.header_state = hs]
    BY <1>1, <1>4, <2>1, Onward
  <2>3. /\ HasFields' /\ FieldsFit' /\ parser'.state = "s_header_field"
        /\ parser'.http_errno = "OK" /\ Trailing' = Trailing
    BY <2>1, <2>2 DEF IInv, HasFields, FieldsFit, Fields, Trailing
  <2>4. Lengths' /\ Belongs("header_field", parser'.state)
    BY <2>3 DEF Lengths, Belongs, BodyMarked, ChunkStates, ChunkSize, ChunkData
  <2>5. QED
    BY <1>1, <1>2, <1>4, <2>1, <2>2, <2>3, <2>4, AtWork, Marking
<1>5. QED
  BY <1>3, <1>4, QuietError DEF s_header_field_start

(* One round of an inner loop.                                               *)
LEMMA InnerStep ==
    ASSUME IInv, call = "switch", parser.state \in InnerStates, p <= end,
           NEW new, NEW q \in p .. end + 1, Inner(new, q),
           DOMAIN new = Fields, new.state = parser.state,
           new.content_length \in 0 .. ULLONG_MAX,
           \E add \in SUBSET (Flags \ {"F_TRAILING"}) :
               new.flags = parser.flags \cup add,
           \A f \in Kept \ {"content_length", "flags"} : new[f] = parser[f],
           parser.state = "s_header_value" => new.header_state \in ValueStates
    PROVE  IInv'
<1>1. /\ parser' = new /\ p' = q /\ call' = call /\ mark' = mark
      /\ start' = IF start = 0 THEN p ELSE start
      /\ events' = events /\ UNCHANGED Places
  BY DEF Inner, env, Places
<1>2. /\ p \in Nat \ {0} /\ end \in Nat /\ start \in Nat /\ start <= p
  BY DEF IInv, InBuffer, InnerOnly
<1>3. start' \in 1 .. end /\ start' <= p' /\ p' \in 1 .. end' + 1
  BY <1>1, <1>2 DEF IInv, InBuffer, Places
<1>4. InBuffer'
  <2>1. mark' \in [Marks -> 0 .. end' + 1] /\ cuts' \in 0 .. stream'.cuts
        /\ closed' \in BOOLEAN /\ stream' \in Streams /\ call' = "switch"
    BY <1>1 DEF IInv, InBuffer, Places
  <2>2. end' \in 0 .. Len(bytes')
    BY <1>1 DEF IInv, InBuffer, Places, bytes
  <2>3. start' \in 0 .. end' /\ start' > 0
    BY <1>1, <1>2, <1>3 DEF Places
  <2>4. QED
    BY <1>3, <2>1, <2>2, <2>3 DEF InBuffer
<1>5. InnerOnly' /\ NoErrorInside' /\ MarksBelong'
  <2>1. parser'.http_errno = parser.http_errno /\ parser'.state = parser.state
    BY <1>1 DEF Kept
  <2>2. QED
    BY <1>1, <1>3, <2>1
       DEF InnerOnly, NoErrorInside, MarksBelong, IInv, Places
<1>6. HasFields' /\ FieldsFit'
  BY <1>1 DEF IInv, HasFields, FieldsFit, Kept
<1>7. Lengths'
  BY <1>1 DEF Lengths, InnerStates, ChunkStates, ChunkSize, ChunkData
<1>8. EventsNamed' /\ Last' = Last
  BY <1>1, Unheard DEF IInv
<1>9. Trailing' = Trailing
  BY <1>1 DEF Trailing
<1>10. InOrder'
  BY <1>1, <1>8, <1>9, AtWork DEF IInv, InOrder, DataBegun, Begun, Places
<1>11. QED
  BY <1>4, <1>5, <1>6, <1>7, <1>8, <1>10 DEF IInv

(* Most rounds change nothing but the word that is recognised.               *)
LEMMA Recognising ==
    ASSUME IInv, call = "switch", parser.state \in InnerStates, p <= end,
           NEW new, NEW q \in p .. end + 1, Inner(new, q),
           DOMAIN new = Fields,
           \A f \in Kept \cup {"state"} : new[f] = parser[f],
           parser.state = "s_header_value" => new.header_state \in ValueStates
    PROVE  IInv'
<1>1. /\ new.state = parser.state /\ new.content_length = parser.content_length
      /\ new.flags = parser.flags
      /\ \A f \in Kept \ {"content_length", "flags"} : new[f] = parser[f]
  BY DEF Kept
<1>2. new.content_length \in 0 .. ULLONG_MAX
  BY <1>1 DEF IInv, FieldsFit
<1>3. \E add \in SUBSET (Flags \ {"F_TRAILING"}) :
          new.flags = parser.flags \cup add
  <2>1. {} \in SUBSET (Flags \ {"F_TRAILING"})
        /\ new.flags = parser.flags \cup {}
    BY <1>1
  <2>2. QED
    BY <2>1
<1>4. QED
  BY <1>1, <1>2, <1>3, InnerStep

(* The byte after one in the buffer.                                         *)
LEMMA NextByte ==
    ASSUME IInv, p <= end
    PROVE  p + 1 \in p .. end + 1
BY DEF IInv, InBuffer

(* A byte of a name: the inner loop stays in the buffer.                     *)
LEMMA FieldByteStep == IInv /\ FieldByte => IInv'
<1> SUFFICES ASSUME IInv, FieldByte PROVE IInv'
  OBVIOUS
<1>1. /\ call = "switch" /\ parser.state = "s_header_field" /\ p <= end
      /\ parser.state \in InnerStates
  BY DEF FieldByte, InnerLoop, In, InnerStates
<1>2. PICK new : Inner(new, p + 1) /\ \E i, hs :
          \/ new = [parser EXCEPT !.index = i, !.header_state = hs]
          \/ new = [parser EXCEPT !.header_state = hs]
  <2>1. CASE \E row : Inner(Match(row), p + 1)
    BY <2>1 DEF Match
  <2>2. CASE \E hs : Inner([parser EXCEPT !.index = @ + 1,
                                          !.header_state = hs], p + 1)
    BY <2>2
  <2>3. CASE \E hs : Inner([parser EXCEPT !.header_state = hs], p + 1)
    BY <2>3
  <2>4. QED
    BY <2>1, <2>2, <2>3 DEF FieldByte
<1>3. DOMAIN new = Fields /\ \A f \in Kept \cup {"state"} : new[f] = parser[f]
  BY <1>2 DEF IInv, HasFields, Fields, Kept
<1>4. QED
  BY <1>1, <1>2, <1>3, NextByte, Recognising

(* An inner loop stops and its bytes are counted.                            *)
LEMMA Counted ==
    ASSUME IInv
    PROVE  /\ InnerRead \in Nat
           /\ DOMAIN COUNT_HEADER_SIZE(InnerRead) = Fields
           /\ COUNT_HEADER_SIZE(InnerRead).nread \in Nat
           /\ \A f \in Fields \ {"nread"} :
                  COUNT_HEADER_SIZE(InnerRead)[f] = parser[f]
<1>1. InnerRead \in Nat
  BY DEF IInv, InBuffer, InnerOnly, InnerRead
<1>2. QED
  BY <1>1 DEF IInv, HasFields, FieldsFit, Fields, COUNT_HEADER_SIZE

(* It stops at the end of the buffer.                                        *)
LEMMA InnerCut ==
    ASSUME IInv, call = "switch", parser.state \in InnerStates, p > end, Silent,
           Go(COUNT_HEADER_SIZE(InnerRead), p, "loop")
    PROVE  IInv'
<1>1. GoesOn /\ parser' = COUNT_HEADER_SIZE(InnerRead)
  BY DEF Go, GoesOn, Places, env, IInv, InBuffer
<1>2. /\ DOMAIN parser' = Fields /\ parser'.nread \in Nat
      /\ \A f \in Fields \ {"nread"} : parser'[f] = parser[f]
  BY <1>1, Counted
<1>3. /\ HasFields' /\ FieldsFit' /\ parser'.state = parser.state
      /\ parser'.http_errno = "OK" /\ Trailing' = Trailing
      /\ parser'.header_state = parser.header_state
  BY <1>2, AtWork DEF IInv, HasFields, FieldsFit, Fields, Trailing
<1>4. MarksBelong' /\ Lengths'
  BY <1>1, <1>3, AtWork DEF IInv, MarksBelong, Lengths, Silent,
     InnerStates, ChunkStates, ChunkSize, ChunkData
<1>5. DataBegun => DataBegun'
  BY <1>1, <1>3, Unheard DEF IInv, DataBegun, Begun, Silent, GoesOn
<1>6. QED
  BY <1>1, <1>3, <1>4, <1>5, Staying

(* It stops at the end of the name or the value.                             *)
LEMMA InnerDone ==
    ASSUME IInv, call = "switch", parser.state \in InnerStates, p <= end,
           NEW m \in Marks, CALLBACK_DATA(m, p), NEW s,
           Break([COUNT_HEADER_SIZE(InnerRead) EXCEPT !.state = s])
           \/ REEXECUTE([COUNT_HEADER_SIZE(InnerRead) EXCEPT !.state = s]),
           \/ /\ parser.state = "s_header_field" /\ m = "header_field"
              /\ s = "s_header_value_discard_ws"
           \/ /\ parser.state = "s_header_value" /\ m = "header_value"
              /\ s = "s_header_almost_done"
    PROVE  IInv'
<1>1. GoesOn /\ parser' = [COUNT_HEADER_SIZE(InnerRead) EXCEPT !.state = s]
  BY Onward
<1>2. /\ DOMAIN parser' = Fields /\ parser'.nread \in Nat /\ parser'.state = s
      /\ \A f \in Fields \ {"nread", "state"} : parser'[f] = parser[f]
  BY <1>1, Counted DEF Fields
<1>3. /\ HasFields' /\ FieldsFit' /\ parser'.http_errno = "OK"
      /\ Trailing' = Trailing
  BY <1>2, AtWork DEF IInv, HasFields, FieldsFit, Fields, Trailing
<1>4. s \in PlainStates
  BY DEF PlainStates, TrailingStates
<1>5. Lengths' /\ parser'.state \notin MarkedStates
  BY <1>2, <1>4, PlainOnes DEF Lengths, LengthStates, ChunkStates, ChunkData
<1>6. \A n \in Marks \ {m} : mark[n] = 0
  BY DEF IInv, MarksBelong, Marks, InnerStates, UrlStart, UrlStates, Query,
     Fragment, BodyMarked
<1>7. mark[m] = 0 => Last = m
  BY AtWork DEF DataBegun, Begun
<1>8. Order(parser.state, Last, Trailing) => Order(s, m, Trailing)
  BY DEF Order, BeforeMessage, InFirstLine, InHeaders, InBody, LineStart,
     TrailingStates, StatusLine, RequestLine, UrlStart, UrlStates, Query,
     Fragment, ChunkSize
<1>9. QED
  BY <1>1, <1>2, <1>3, <1>5, <1>6, <1>7, <1>8, AtWork, Delivering

(* A name ends, or the buffer does.                                          *)
LEMMA FieldEndsStep == IInv /\ FieldEnds => IInv'
<1> SUFFICES ASSUME IInv, FieldEnds PROVE IInv'
  OBVIOUS
<1>1. /\ call = "switch" /\ parser.state = "s_header_field"
      /\ parser.state \in InnerStates /\ "header_field" \in Marks
  BY DEF FieldEnds, In, InnerStates, Marks
<1>2. CASE p > end /\ Silent /\ Go(COUNT_HEADER_SIZE(InnerRead), p, "loop")
  BY <1>1, <1>2, InnerCut
<1>3. CASE p <= end /\ CALLBACK_DATA("header_field", p)
           /\ Break([COUNT_HEADER_SIZE(InnerRead) EXCEPT
                        !.state = "s_header_value_discard_ws"])
  BY <1>1, <1>3, InnerDone
<1>4. QED
  BY <1>2, <1>3, QuietError DEF FieldEnds

(* Blanks before a value.                                                    *)
LEMMA DiscardStep == IInv /\ s_header_value_discard_ws => IInv'
<1> SUFFICES ASSUME IInv, s_header_value_discard_ws PROVE IInv'
  OBVIOUS
<1>1. /\ call = "switch" /\ parser.state = "s_header_value_discard_ws" /\ Silent
      /\ parser.state \in PlainStates
      /\ \A s \in {"s_header_value_discard_ws_almost_done",
                   "s_header_value_discard_lws"} : s \in PlainStates
  BY DEF s_header_value_discard_ws, In, PlainStates, TrailingStates
<1>2. ASSUME NEW s \in {"s_header_value_discard_ws_almost_done",
                        "s_header_value_discard_lws"}, Break(Goto(s))
      PROVE  IInv'
  <2>1. Order("s_header_value_discard_ws", Last, Trailing)
            => Order(s, Last, Trailing)
    BY DEF Order, BeforeMessage, InFirstLine, InHeaders, InBody, LineStart,
       TrailingStates, StatusLine, RequestLine, UrlStart, UrlStates, Query,
       Fragment, ChunkSize
  <2>2. QED
    BY <1>1, <1>2, <2>1, PlainOnes, QuietGoto
<1>3. CASE Break(parser)
  BY <1>1, <1>3, QuietStay DEF InnerStates
<1>4. QED
  BY <1>2, <1>3 DEF s_header_value_discard_ws

(* The first byte of a value or of one of its further lines.                 *)
LEMMA ValueBegins ==
    ASSUME IInv, call = "switch",
           parser.state \in {"s_header_value_discard_ws", "s_header_value_start"},
           MARK("header_value"), NEW new, Break(new), DOMAIN new = Fields,
           new.state = "s_header_value", new.header_state \in ValueStates,
           new.content_length \in 0 .. ULLONG_MAX,
           new.flags \in {parser.flags, parser.flags \cup {"F_UPGRADE"}},
           \A f \in Kept \ {"content_length", "flags"} : new[f] = parser[f]
    PROVE  IInv'
<1>1. parser.state \in PlainStates /\ "header_value" \in Marks
  BY DEF PlainStates, TrailingStates, Marks
<1>2. p <= end /\ parser.http_errno = "OK" /\ \A m \in Marks : mark[m] = 0
  BY <1>1, PlainOnes, Within, AtWork, NothingMarked
<1>3. GoesOn /\ parser' = new
  BY <1>2, Onward
<1>4. /\ HasFields' /\ FieldsFit' /\ parser'.state = "s_header_value"
      /\ parser'.http_errno = "OK" /\ Trailing' = Trailing
  BY <1>2, <1>3 DEF IInv, HasFields, FieldsFit, Kept, Trailing, Flags
<1>5. Lengths' /\ Belongs("header_value", parser'.state)
  BY <1>3, <1>4 DEF Lengths, Belongs, BodyMarked, ChunkStates, ChunkSize,
     ChunkData
<1>6. Order(parser.state, Last, Trailing)
          => Order("s_header_value", Last, Trailing)
  BY DEF Order, BeforeMessage, InFirstLine, InHeaders, InBody, LineStart,
     TrailingStates, StatusLine, RequestLine, UrlStart, UrlStates, Query,
     Fragment, ChunkSize
<1>7. QED
  BY <1>1, <1>2, <1>3, <1>4, <1>5, <1>6, AtWork, Marking

(* The words of values lead to the states of values.                         *)
LEMMA ValueWords ==
    /\ \A letter : ConnectionWord(letter) \in ValueStates
    /\ \A s \in {"h_general", "h_matching_transfer_encoding_chunked",
                 "h_content_length", "h_matching_connection_token_start",
                 "h_matching_connection_token"} : s \in ValueStates
    /\ \A s \in ValueStates \cap DOMAIN Words :
           Words[s][2] \in ValueStates /\ Words[s][3] \in ValueStates
<1>1. \A letter : ConnectionWord(letter) \in ValueStates
  BY DEF ConnectionWord, ValueStates
<1>2. \A s \in {"h_general", "h_matching_transfer_encoding_chunked",
                "h_content_length", "h_matching_connection_token_start",
                "h_matching_connection_token"} : s \in ValueStates
  BY DEF ValueStates
<1>3. ASSUME NEW s \in ValueStates \cap DOMAIN Words
      PROVE  Words[s][2] \in ValueStates /\ Words[s][3] \in ValueStates
  <2>1. s \in {"h_matching_transfer_encoding_chunked",
               "h_matching_connection_keep_alive",
               "h_matching_connection_close", "h_matching_connection_upgrade"}
    BY DEF ValueStates, Words, FlagOf
  <2>2. QED
    BY <2>1 DEF ValueStates, Words, FlagOf
<1>4. QED
  BY <1>1, <1>2, <1>3

(* A value begins with its mark.                                             *)
LEMMA ValueStartStep == IInv /\ s_header_value_start => IInv'
<1> SUFFICES ASSUME IInv, s_header_value_start PROVE IInv'
  OBVIOUS
<1> DEFINE value == [parser EXCEPT !.state = "s_header_value", !.index = 0]
           Becomes(state) == [value EXCEPT !.header_state = state]
<1>1. /\ call = "switch" /\ MARK("header_value")
      /\ parser.state \in {"s_header_value_discard_ws", "s_header_value_start"}
      /\ parser.state \in PlainStates /\ "header_value" \in Marks
  BY DEF s_header_value_start, In, PlainStates, TrailingStates, Marks
<1>2. \/ Break([value EXCEPT !.flags = @ \cup {"F_UPGRADE"},
                             !.header_state = "h_general"])
      \/ \E state \in ValueStates : Break(Becomes(state))
      \/ Break(value) /\ parser.header_state \in ValueStates
      \/ c \in IS_NUM /\ parser.header_state = "h_content_length"
            /\ Break([value EXCEPT !.content_length = unhex(c)])
      \/ Error("INVALID_CONTENT_LENGTH")
  <2>1. "h_matching_transfer_encoding_chunked" \in ValueStates
        /\ "h_general" \in ValueStates /\ ConnectionWord(lc) \in ValueStates
        /\ "h_matching_connection_token_start" \in ValueStates
    BY ValueWords
  <2>2. QED
    BY <2>1 DEF s_header_value_start
<1>3. CASE Break([value EXCEPT !.flags = @ \cup {"F_UPGRADE"},
                               !.header_state = "h_general"])
  <2> DEFINE new == [value EXCEPT !.flags = @ \cup {"F_UPGRADE"},
                                  !.header_state = "h_general"]
  <2>1. /\ DOMAIN new = Fields /\ new.state = "s_header_value"
        /\ new.header_state = "h_general"
        /\ new.content_length = parser.content_length
        /\ new.flags = parser.flags \cup {"F_UPGRADE"}
        /\ \A f \in Kept \ {"content_length", "flags"} : new[f] = parser[f]
    BY DEF IInv, HasFields, Fields, Kept
  <2>2. Break(new)
    BY <1>3
  <2> HIDE DEF new
  <2>3. new.content_length \in 0 .. ULLONG_MAX /\ new.header_state \in ValueStates
    BY <2>1, ValueWords DEF IInv, FieldsFit
  <2>4. QED
    BY <1>1, <2>1, <2>2, <2>3, ValueBegins
<1>4. ASSUME NEW state \in ValueStates, Break(Becomes(state)) PROVE IInv'
  <2> DEFINE new == Becomes(state)
  <2>1. /\ DOMAIN new = Fields /\ new.state = "s_header_value"
        /\ new.header_state = state /\ new.flags = parser.flags
        /\ new.content_length = parser.content_length
        /\ \A f \in Kept \ {"content_length", "flags"} : new[f] = parser[f]
    BY DEF IInv, HasFields, Fields, Kept
  <2>2. Break(new)
    BY <1>4
  <2> HIDE DEF new
  <2>3. new.content_length \in 0 .. ULLONG_MAX
    BY <2>1 DEF IInv, FieldsFit
  <2>4. QED
    BY <1>1, <2>1, <2>2, <2>3, ValueBegins
<1>5. CASE Break(value) /\ parser.header_state \in ValueStates
  <2>1. /\ DOMAIN value = Fields /\ value.state = "s_header_value"
        /\ value.header_state = parser.header_state
        /\ value.flags = parser.flags
        /\ value.content_length = parser.content_length
        /\ \A f \in Kept \ {"content_length", "flags"} : value[f] = parser[f]
    BY DEF IInv, HasFields, Fields, Kept
  <2> HIDE DEF value
  <2>2. value.content_length \in 0 .. ULLONG_MAX
    BY <2>1 DEF IInv, FieldsFit
  <2>3. QED
    BY <1>1, <1>5, <2>1, <2>2, ValueBegins
<1>6. CASE c \in IS_NUM /\ parser.header_state = "h_content_length"
           /\ Break([value EXCEPT !.content_length = unhex(c)])
  <2>1. PICK n \in 0 .. ULLONG_MAX : n = unhex(c)
    <3>1. PICK n \in 0 .. 9 : n = unhex(c)
      BY <1>6, Digits
    <3>2. n \in 0 .. ULLONG_MAX
      BY <3>1, LimitsAssumption
    <3>3. QED
      BY <3>1, <3>2
  <2> DEFINE new == [value EXCEPT !.content_length = n]
  <2>2. /\ DOMAIN new = Fields /\ new.state = "s_header_value"
        /\ new.header_state = "h_content_length" /\ new.flags = parser.flags
        /\ new.content_length = n
        /\ \A f \in Kept \ {"content_length", "flags"} : new[f] = parser[f]
    BY <1>6 DEF IInv, HasFields, Fields, Kept
  <2>3. Break(new)
    BY <1>6, <2>1
  <2> HIDE DEF new
  <2>4. new.header_state \in ValueStates /\ new.content_length \in 0 .. ULLONG_MAX
    BY <2>2, ValueWords
  <2>5. QED
    BY <1>1, <2>2, <2>3, <2>4, ValueBegins
<1>7. CASE Error("INVALID_CONTENT_LENGTH")
  <2>1. p <= end
    BY <1>1, PlainOnes, Within
  <2>2. QED
    BY <1>1, <1>7, <2>1, MarkedError
<1>8. QED
  BY <1>2, <1>3, <1>4, <1>5, <1>6, <1>7

(* What every round of the loop over a value begins with.                    *)
LEMMA InValue ==
    ASSUME IInv, NEW hs, ValueByte(hs)
    PROVE  /\ call = "switch" /\ parser.state = "s_header_value" /\ p <= end
           /\ parser.state \in InnerStates /\ parser.header_state = hs
           /\ hs \in ValueStates /\ p + 1 \in p .. end + 1
<1>1. /\ call = "switch" /\ parser.state = "s_header_value" /\ p <= end
      /\ parser.state \in InnerStates /\ parser.header_state = hs
  BY DEF ValueByte, InnerLoop, In, InnerStates
<1>2. hs \in ValueStates
  BY <1>1, AtWork DEF IInv, Lengths
<1>3. QED
  BY <1>1, <1>2, NextByte

(* Rounds that only recognise something.                                     *)
LEMMA ValueRecognised ==
    ASSUME IInv, NEW hs, ValueByte(hs), NEW q \in p .. end + 1, NEW i,
           NEW s \in ValueStates,
           \/ Inner(parser, q)
           \/ Inner([parser EXCEPT !.header_state = s], q)
           \/ Inner([parser EXCEPT !.index = i], q)
           \/ Inner([parser EXCEPT !.index = i, !.header_state = s], q)
    PROVE  IInv'
<1>1. PICK new : Inner(new, q) /\
          new \in {parser, [parser EXCEPT !.header_state = s],
                   [parser EXCEPT !.index = i],
                   [parser EXCEPT !.index = i, !.header_state = s]}
  OBVIOUS
<1>2. /\ DOMAIN new = Fields /\ new.header_state \in {s, parser.header_state}
      /\ \A f \in Kept \cup {"state"} : new[f] = parser[f]
  BY <1>1 DEF IInv, HasFields, Fields, Kept
<1>3. QED
  BY <1>1, <1>2, InValue, Recognising

(* The search for a line end does not leave the buffer.                      *)
LEMMA LineEndInBuffer ==
    ASSUME IInv, p <= end, NEW q \in NextLineEnd
    PROVE  q \in p .. end + 1
<1>1. p \in Nat /\ end \in Nat
  BY DEF IInv, InBuffer
<1>2. q = end + 1 \/ (q \in Int /\ p <= q /\ q <= end)
  <2> DEFINE far == p + HTTP_MAX_HEADER_SIZE - 1
             upto == IF far < end THEN far ELSE end
  <2>1. upto \in Int /\ upto <= end
    BY <1>1, LimitsAssumption
  <2>2. q = end + 1 \/ q \in p .. upto
    BY DEF NextLineEnd
  <2> HIDE DEF upto
  <2>3. QED
    BY <1>1, <2>1, <2>2
<1>3. QED
  BY <1>1, <1>2

(* A value that is not looked at.                                            *)
LEMMA ValueGeneralStep == IInv /\ ValueGeneral => IInv'
<1> SUFFICES ASSUME IInv, ValueGeneral PROVE IInv'
  OBVIOUS
<1>1. PICK q \in NextLineEnd : ValueByte("h_general") /\ Inner(parser, q)
  BY DEF ValueGeneral
<1>2. p <= end /\ "h_general" \in ValueStates
  BY <1>1, InValue
<1>3. QED
  BY <1>1, <1>2, LineEndInBuffer, ValueRecognised

(* A number that passes the test takes in a digit without wrapping around,   *)
(* and stays below the largest uint64_t.                                     *)
LEMMA DigitFits ==
    ASSUME NEW base \in {10, 16}, NEW n \in 0 .. ULLONG_MAX,
           NEW d \in 0 .. base - 1, ~((ULLONG_MAX - base) \div base < n)
    PROVE  /\ base * n + d \in 0 .. ULLONG_MAX - 1
           /\ (base * n + d) % (ULLONG_MAX + 1) = base * n + d
<1>1. ULLONG_MAX \in Nat /\ ULLONG_MAX > 31
  BY LimitsAssumption
<1>2. CASE base = 10
  <2>1. 10 * ((ULLONG_MAX - 10) \div 10) <= ULLONG_MAX - 10
    BY <1>1
  <2>2. QED
    BY <1>1, <1>2, <2>1
<1>3. CASE base = 16
  <2>1. 16 * ((ULLONG_MAX - 16) \div 16) <= ULLONG_MAX - 16
    BY <1>1
  <2>2. QED
    BY <1>1, <1>3, <2>1
<1>4. QED
  BY <1>2, <1>3

(* A digit that is taken in leaves the number below the largest one.         *)
LEMMA NumberFits ==
    ASSUME IInv, NEW base \in {10, 16}, ~TooLong(base),
           unhex(c) \in 0 .. base - 1
    PROVE  /\ WithDigit(base) = base * parser.content_length + unhex(c)
           /\ WithDigit(base) \in 0 .. ULLONG_MAX - 1
<1>1. PICK n \in 0 .. ULLONG_MAX : n = parser.content_length
  BY DEF IInv, FieldsFit
<1>2. PICK d \in 0 .. base - 1 : d = unhex(c)
  OBVIOUS
<1>3. ~((ULLONG_MAX - base) \div base < n)
  BY <1>1 DEF TooLong
<1>4. WithDigit(base) = (base * n + d) % (ULLONG_MAX + 1)
  BY <1>1, <1>2 DEF WithDigit
<1>5. QED
  BY <1>1, <1>2, <1>3, <1>4, DigitFits

(* A digit of Content-Length.                                                *)
LEMMA ValueLengthStep == IInv /\ ValueLength => IInv'
<1> SUFFICES ASSUME IInv, ValueLength PROVE IInv'
  OBVIOUS
<1>1. /\ ValueByte("h_content_length")
      /\ \/ Inner(parser, p + 1)
         \/ /\ c \in IS_NUM /\ ~TooLong(10)
            /\ Inner([parser EXCEPT !.content_length = WithDigit(10)], p + 1)
         \/ Silent /\ Error("INVALID_CONTENT_LENGTH")
  BY DEF ValueLength
<1>2. CASE Inner(parser, p + 1)
  BY <1>1, <1>2, InValue, ValueRecognised
<1>3. CASE c \in IS_NUM /\ ~TooLong(10)
           /\ Inner([parser EXCEPT !.content_length = WithDigit(10)], p + 1)
  <2>1. unhex(c) \in 0 .. 10 - 1
    BY <1>3, Digits
  <2>2. PICK n \in 0 .. ULLONG_MAX : n = WithDigit(10)
    <3>1. PICK n \in 0 .. ULLONG_MAX - 1 : n = WithDigit(10)
      BY <1>3, <2>1, NumberFits
    <3>2. n \in 0 .. ULLONG_MAX
      BY <3>1, LimitsAssumption
    <3>3. QED
      BY <3>1, <3>2
  <2> DEFINE new == [parser EXCEPT !.content_length = n]
  <2>3. /\ DOMAIN new = Fields /\ new.state = parser.state
        /\ new.content_length = n /\ new.flags = parser.flags
        /\ new.header_state = parser.header_state
        /\ \A f \in Kept \ {"content_length", "flags"} : new[f] = parser[f]
    BY DEF IInv, HasFields, Fields, Kept
  <2>4. Inner(new, p + 1)
    BY <1>3, <2>2
  <2> HIDE DEF new
  <2>5. \E add \in SUBSET (Flags \ {"F_TRAILING"}) :
            new.flags = parser.flags \cup add
    <3>1. {} \in SUBSET (Flags \ {"F_TRAILING"})
          /\ new.flags = parser.flags \cup {}
      BY <2>3
    <3>2. QED
      BY <3>1
  <2>6. QED
    BY <1>1, <2>2, <2>3, <2>4, <2>5, InValue, InnerStep
<1>4. QED
  BY <1>1, <1>2, <1>3, QuietError

(* A letter of a word.                                                       *)
LEMMA ValueWordStep == IInv /\ ValueWord => IInv'
<1> SUFFICES ASSUME IInv, ValueWord PROVE IInv'
  OBVIOUS
<1>1. PICK hs \in DOMAIN Words : ValueByte(hs) /\ Inner(Match(Words[hs]), p + 1)
  BY DEF ValueWord
<1>2. hs \in ValueStates /\ parser.header_state = hs /\ p + 1 \in p .. end + 1
  BY <1>1, InValue
<1>3. Words[hs][2] \in ValueStates /\ Words[hs][3] \in ValueStates
  BY <1>1, <1>2, ValueWords
<1>4. PICK s \in ValueStates : \E i :
          Match(Words[hs]) = [parser EXCEPT !.index = i, !.header_state = s]
  BY <1>2, <1>3 DEF Match
<1>5. PICK i : Inner([parser EXCEPT !.index = i, !.header_state = s], p + 1)
  BY <1>1, <1>4
<1>6. QED
  BY <1>1, <1>2, <1>5, ValueRecognised

(* The first letter of a further word.                                       *)
LEMMA ValueTokenStartStep == IInv /\ ValueTokenStart => IInv'
<1> SUFFICES ASSUME IInv, ValueTokenStart PROVE IInv'
  OBVIOUS
<1>1. /\ ValueByte("h_matching_connection_token_start")
      /\ \E s \in ValueStates :
             \/ Inner([parser EXCEPT !.header_state = s], p + 1)
             \/ Inner(parser, p + 1)
  <2>1. "h_general" \in ValueStates /\ ConnectionWord(lc) \in ValueStates
    BY ValueWords
  <2>2. QED
    BY <2>1 DEF ValueTokenStart, Recognised
<1>2. QED
  BY <1>1, InValue, ValueRecognised

(* A letter of a word that is not known.                                     *)
LEMMA ValueTokenStep == IInv /\ ValueToken => IInv'
<1> SUFFICES ASSUME IInv, ValueToken PROVE IInv'
  OBVIOUS
<1>1. /\ ValueByte("h_matching_connection_token")
      /\ \E s \in ValueStates :
            \/ Inner([parser EXCEPT !.index = 0, !.header_state = s], p + 1)
            \/ Inner(parser, p + 1)
  <2>1. "h_matching_connection_token_start" \in ValueStates
    BY ValueWords
  <2>2. QED
    BY <2>1 DEF ValueToken
<1>2. QED
  BY <1>1, InValue, ValueRecognised

(* What comes after "chunked".                                               *)
LEMMA ValueAfterChunkedStep == IInv /\ ValueAfterChunked => IInv'
<1> SUFFICES ASSUME IInv, ValueAfterChunked PROVE IInv'
  OBVIOUS
<1>1. /\ ValueByte("h_transfer_encoding_chunked")
      /\ \E s \in ValueStates :
            \/ Inner([parser EXCEPT !.header_state = s], p + 1)
            \/ Inner(parser, p + 1)
  <2>1. "h_general" \in ValueStates
    BY ValueWords
  <2>2. QED
    BY <2>1 DEF ValueAfterChunked, Recognised
<1>2. QED
  BY <1>1, InValue, ValueRecognised

(* The flags of values.                                                      *)
LEMMA ValueFlags ==
    \A s \in DOMAIN FlagOf : FlagOf[s] \in SUBSET (Flags \ {"F_TRAILING"})
BY DEF FlagOf, Flags

(* What comes after a word of Connection.                                    *)
LEMMA ValueAfterWordStep == IInv /\ ValueAfterWord => IInv'
<1> SUFFICES ASSUME IInv, ValueAfterWord PROVE IInv'
  OBVIOUS
<1>1. PICK hs \in DOMAIN FlagOf :
        /\ ValueByte(hs)
        /\ \/ Inner([parser EXCEPT !.flags = @ \cup FlagOf[hs], !.index = 0,
                    !.header_state = "h_matching_connection_token_start"], p + 1)
           \/ Inner(parser, p + 1)
           \/ Inner([parser EXCEPT
                        !.header_state = "h_matching_connection_token"], p + 1)
  BY DEF ValueAfterWord, Recognised
<1>2. CASE Inner([parser EXCEPT !.flags = @ \cup FlagOf[hs], !.index = 0,
                    !.header_state = "h_matching_connection_token_start"], p + 1)
  <2> DEFINE new == [parser EXCEPT !.flags = @ \cup FlagOf[hs], !.index = 0,
                        !.header_state = "h_matching_connection_token_start"]
  <2>1. /\ DOMAIN new = Fields /\ new.state = parser.state
        /\ new.content_length = parser.content_length
        /\ new.flags = parser.flags \cup FlagOf[hs]
        /\ new.header_state = "h_matching_connection_token_start"
        /\ \A f \in Kept \ {"content_length", "flags"} : new[f] = parser[f]
    BY DEF IInv, HasFields, Fields, Kept
  <2>2. Inner(new, p + 1)
    BY <1>2
  <2> HIDE DEF new
  <2>3. /\ new.content_length \in 0 .. ULLONG_MAX
        /\ new.header_state \in ValueStates
        /\ \E add \in SUBSET (Flags \ {"F_TRAILING"}) :
               new.flags = parser.flags \cup add
    BY <2>1, ValueWords, ValueFlags DEF IInv, FieldsFit
  <2>4. QED
    BY <1>1, <2>1, <2>2, <2>3, InValue, InnerStep
<1>3. CASE \/ Inner(parser, p + 1)
           \/ Inner([parser EXCEPT
                        !.header_state = "h_matching_connection_token"], p + 1)
  BY <1>1, <1>3, InValue, ValueWords, ValueRecognised
<1>4. QED
  BY <1>1, <1>2, <1>3

(* A value ends, or the buffer does.                                         *)
LEMMA ValueEndsStep == IInv /\ ValueEnds => IInv'
<1> SUFFICES ASSUME IInv, ValueEnds PROVE IInv'
  OBVIOUS
<1> DEFINE done == [COUNT_HEADER_SIZE(InnerRead) EXCEPT
                        !.state = "s_header_almost_done"]
<1>1. /\ call = "switch" /\ parser.state = "s_header_value"
      /\ parser.state \in InnerStates /\ "header_value" \in Marks
  BY DEF ValueEnds, In, InnerStates, Marks
<1>2. CASE p > end /\ Silent /\ Go(COUNT_HEADER_SIZE(InnerRead), p, "loop")
  BY <1>1, <1>2, InnerCut
<1>3. CASE p <= end /\ CALLBACK_DATA("header_value", p)
           /\ (Break(done) \/ REEXECUTE(done))
  BY <1>1, <1>3, InnerDone
<1>4. CASE p <= end /\ CALLBACK_DATA("header_value", p)
           /\ Error("HEADER_OVERFLOW")
  <2>1. EventsNamed' /\ mark' = [mark EXCEPT !["header_value"] = 0]
    BY <1>1, <1>4, Delivered DEF IInv
  <2>2. end' = end /\ end \in Nat /\ mark \in [Marks -> 0 .. end + 1]
    BY <1>4 DEF IInv, InBuffer, Error, Go, env
  <2>3. 0 \in 0 .. end + 1
    BY <2>2
  <2>4. mark' \in [Marks -> 0 .. end + 1]
    BY <1>1, <2>1, <2>2, <2>3
  <2>5. MarksInside'
    BY <2>2, <2>4 DEF MarksInside
  <2>6. QED
    BY <1>4, <2>1, <2>5, Failing
<1>5. CASE Silent /\ Error("HEADER_OVERFLOW")
  BY <1>5, QuietError
<1>6. QED
  BY <1>2, <1>3, <1>4, <1>5 DEF ValueEnds

(* A value is complete.                                                      *)
LEMMA Completed ==
    ASSUME IInv, call # "outside", parser' = Finished("s_header_field_start")
    PROVE  /\ HasFields' /\ FieldsFit' /\ parser'.state = "s_header_field_start"
           /\ parser'.http_errno = "OK" /\ Trailing' = Trailing
<1>1. PICK add \in SUBSET (Flags \ {"F_TRAILING"}) :
          parser' = [parser EXCEPT !.state = "s_header_field_start",
                                   !.flags = @ \cup add]
  BY ValueFlags DEF Finished
<1>2. /\ DOMAIN parser' = Fields /\ parser'.state = "s_header_field_start"
      /\ parser'.flags = parser.flags \cup add
      /\ add \subseteq Flags /\ "F_TRAILING" \notin add
      /\ \A f \in Fields \ {"state", "flags"} : parser'[f] = parser[f]
  BY <1>1 DEF IInv, HasFields, Fields
<1>3. QED
  BY <1>2, AtWork DEF IInv, HasFields, FieldsFit, Fields, Trailing

(* The next line continues a value or does not.                              *)
LEMMA LwsStep == IInv /\ s_header_value_lws => IInv'
<1> SUFFICES ASSUME IInv, s_header_value_lws PROVE IInv'
  OBVIOUS
<1>1. /\ call = "switch" /\ parser.state = "s_header_value_lws" /\ Silent
      /\ parser.state \in PlainStates /\ "s_header_value_start" \in PlainStates
      /\ "s_header_field_start" \in PlainStates
  BY DEF s_header_value_lws, In, PlainStates, TrailingStates
<1>2. Order("s_header_value_lws", Last, Trailing)
          => /\ Order("s_header_value_start", Last, Trailing)
             /\ Order("s_header_field_start", Last, Trailing)
  BY DEF Order, BeforeMessage, InFirstLine, InHeaders, InBody, LineStart,
     TrailingStates, StatusLine, RequestLine, UrlStart, UrlStates, Query,
     Fragment, ChunkSize
<1>3. CASE REEXECUTE(Goto("s_header_value_start"))
  BY <1>1, <1>2, <1>3, PlainOnes, QuietGoto
<1>4. CASE REEXECUTE(Finished("s_header_field_start"))
  <2>1. GoesOn /\ parser' = Finished("s_header_field_start")
    BY <1>1, <1>4, PlainOnes, Within, Onward
  <2>2. QED
    BY <1>1, <1>2, <2>1, Completed, PlainOnes, Quietly DEF Plain
<1>5. QED
  BY <1>3, <1>4 DEF s_header_value_lws

(* An empty value is delivered all the same.                                 *)
LEMMA DiscardLwsStep == IInv /\ s_header_value_discard_lws => IInv'
<1> SUFFICES ASSUME IInv, s_header_value_discard_lws PROVE IInv'
  OBVIOUS
<1>1. /\ call = "switch" /\ parser.state = "s_header_value_discard_lws"
      /\ parser.state \in PlainStates
      /\ "s_header_value_discard_ws" \in PlainStates
      /\ "s_header_field_start" \in PlainStates
  BY DEF s_header_value_discard_lws, In, PlainStates, TrailingStates
<1>2. CASE Silent /\ Break(Goto("s_header_value_discard_ws"))
  <2>1. Order("s_header_value_discard_lws", Last, Trailing)
            => Order("s_header_value_discard_ws", Last, Trailing)
    BY DEF Order, BeforeMessage, InFirstLine, InHeaders, InBody, LineStart,
       TrailingStates, StatusLine, RequestLine, UrlStart, UrlStates, Query,
       Fragment, ChunkSize
  <2>2. QED
    BY <1>1, <1>2, <2>1, PlainOnes, QuietGoto
<1>3. CASE /\ events' = Join("header_value", <<>>) /\ mark' = mark
           /\ REEXECUTE(Finished("s_header_field_start"))
  <2>1. GoesOn /\ parser' = Finished("s_header_field_start")
    BY <1>1, <1>3, PlainOnes, Within, Onward
  <2>2. EventsNamed' /\ Last' = "header_value"
    BY <1>3, Joined DEF IInv
  <2>3. MarksInside' /\ \A m \in Marks : mark'[m] = 0
    BY <1>1, <1>3, <2>1, PlainOnes, NothingMarked
       DEF IInv, InBuffer, MarksInside, GoesOn, Places
  <2>4. MarksBelong'
    BY <2>3 DEF MarksBelong, Marks
  <2>5. /\ HasFields' /\ FieldsFit' /\ parser'.state = "s_header_field_start"
        /\ parser'.http_errno = "OK" /\ Trailing' = Trailing
    BY <1>1, <2>1, Completed
  <2>6. Lengths' /\ DataBegun'
    BY <2>5 DEF Lengths, ChunkStates, ChunkSize, ChunkData, DataBegun
  <2>7. Trailing \in BOOLEAN
    BY DEF Trailing
  <2>8. Order("s_header_field_start", "header_value", Trailing)
    BY DEF Order, BeforeMessage, InFirstLine, InHeaders, InBody, LineStart,
       TrailingStates, StatusLine, RequestLine, UrlStart, UrlStates, Query,
       Fragment, ChunkSize
  <2>9. QED
    BY <1>1, <2>1, <2>2, <2>3, <2>4, <2>5, <2>6, <2>8, Continuing
<1>4. QED
  BY <1>2, <1>3 DEF s_header_value_discard_lws

-----------------------------------------------------------------------------
(* The end of the headers, and the bodies.                                   *)

(* The blank line ends the headers or the trailers.                          *)
LEMMA HeadersAlmostDoneStep == IInv /\ s_headers_almost_done => IInv'
<1> SUFFICES ASSUME IInv, s_headers_almost_done PROVE IInv'
  OBVIOUS
<1>1. /\ call = "switch" /\ parser.state = "s_headers_almost_done"
      /\ parser.state \in PlainStates /\ "s_message_done" \in PlainStates
      /\ "s_headers_done" \in PlainStates
  BY DEF s_headers_almost_done, In, PlainStates, TrailingStates
<1>2. p <= end /\ parser.http_errno = "OK"
  BY <1>1, PlainOnes, Within, AtWork
<1>3. CASE /\ Trailing /\ CALLBACK_NOTIFY("chunk_complete", parser)
           /\ REEXECUTE(Goto("s_message_done"))
  <2>1. GoesOn /\ parser' = Goto("s_message_done")
    BY <1>1, <1>2, <1>3, Onward
  <2>2. /\ HasFields' /\ FieldsFit' /\ parser'.state = "s_message_done"
        /\ Trailing' = Trailing /\ parser'.http_errno = "OK"
    BY <1>2, <2>1, Going DEF Fields
  <2>3. Lengths'
    BY <2>2 DEF Lengths, ChunkStates, ChunkSize, ChunkData
  <2>4. Trailing => Order("s_message_done", "chunk_complete", Trailing)
    BY DEF Order, BeforeMessage, InFirstLine, InHeaders, InBody, LineStart,
       TrailingStates, StatusLine, RequestLine, UrlStart, UrlStates, Query,
       Fragment, ChunkSize
  <2>5. QED
    BY <1>1, <1>3, <2>1, <2>2, <2>3, <2>4, PlainOnes, Notifying
<1>4. ASSUME ~Trailing, NEW up, NEW add \in {{}, {"F_SKIPBODY"}},
             NEW q, CALLBACK_NOTIFY("headers_complete", q),
             REEXECUTE([parser EXCEPT !.state = "s_headers_done",
                            !.upgrade = up, !.flags = @ \cup add])
      PROVE  IInv'
  <2>1. GoesOn /\ parser' = [parser EXCEPT !.state = "s_headers_done",
                                 !.upgrade = up, !.flags = @ \cup add]
    BY <1>1, <1>2, <1>4, Onward
  <2>2. /\ HasFields' /\ FieldsFit' /\ parser'.state = "s_headers_done"
        /\ ~Trailing' /\ parser'.http_errno = "OK"
    BY <1>2, <1>4, <2>1 DEF IInv, HasFields, FieldsFit, Fields, Trailing, Flags
  <2>3. Lengths'
    BY <2>2 DEF Lengths, ChunkStates, ChunkSize, ChunkData
  <2>4. Order("s_headers_done", "headers_complete", Trailing')
    BY <2>2 DEF Order, BeforeMessage, InFirstLine, InHeaders, InBody,
       LineStart, TrailingStates, StatusLine, RequestLine, UrlStart,
       UrlStates, Query, Fragment, ChunkSize
  <2>5. QED
    BY <1>1, <1>4, <2>1, <2>2, <2>3, <2>4, PlainOnes, Notifying
<1>5. \/ Silent /\ Error("STRICT")
      \/ /\ Trailing /\ CALLBACK_NOTIFY("chunk_complete", parser)
         /\ REEXECUTE(Goto("s_message_done"))
      \/ /\ ~Trailing
         /\ \E up, q : \E add \in {{}, {"F_SKIPBODY"}} :
               /\ CALLBACK_NOTIFY("headers_complete", q)
               /\ REEXECUTE([parser EXCEPT !.state = "s_headers_done",
                                 !.upgrade = up, !.flags = @ \cup add])
  <2> DEFINE upgrade == \/ {"F_UPGRADE", "F_CONNECTION_UPGRADE"}
                           \subseteq parser.flags
                        \/ parser.method = "CONNECT"
             done == [parser EXCEPT !.state = "s_headers_done",
                                    !.upgrade = upgrade]
  <2>1. \E up : \E add \in {{}, {"F_SKIPBODY"}} :
            (IF stream.skip THEN [done EXCEPT !.flags = @ \cup {"F_SKIPBODY"}]
                            ELSE done)
            = [parser EXCEPT !.state = "s_headers_done",
                             !.upgrade = up, !.flags = @ \cup add]
    <3>1. CASE stream.skip
      <4>1. [done EXCEPT !.flags = @ \cup {"F_SKIPBODY"}]
            = [parser EXCEPT !.state = "s_headers_done", !.upgrade = upgrade,
                             !.flags = @ \cup {"F_SKIPBODY"}]
        BY DEF IInv, HasFields, Fields
      <4>2. QED
        BY <3>1, <4>1
    <3>2. CASE ~stream.skip
      <4>1. done = [parser EXCEPT !.state = "s_headers_done",
                        !.upgrade = upgrade, !.flags = @ \cup {}]
        BY DEF IInv, HasFields, Fields
      <4>2. QED
        BY <3>2, <4>1
    <3>3. QED
      BY <3>1, <3>2
  <2>2. QED
    BY <2>1 DEF s_headers_almost_done, Trailing
<1>6. QED
  BY <1>3, <1>4, <1>5, QuietError

(* The caller is through with the parser after an upgrade.                   *)
LEMMA Leaving ==
    ASSUME IInv, NEW new, Leave(new), EventsNamed', MarksInside',
           HasFields', FieldsFit', Lengths'
    PROVE  IInv'
<1>1. /\ parser' = new /\ p' = end + 1 /\ call' = "outside"
      /\ closed' = TRUE /\ start' = 0 /\ UNCHANGED <<stream, end, cuts>>
  BY DEF Leave
<1>2. InBuffer' /\ InnerOnly'
  <2>1. end + 1 \in 1 .. end + 1
    BY DEF IInv, InBuffer
  <2>2. QED
    BY <1>1, <2>1, Placed
<1>3. QED
  BY <1>1, <1>2 DEF IInv, NoErrorInside, MarksBelong, InOrder

(* A message ends, and the parser is ready for the next one or dead.         *)
LEMMA MessageEnds ==
    ASSUME IInv, call = "switch", parser.state \in PlainStates, NEW new,
           NEW q, CALLBACK_NOTIFY("message_complete", q),
           Leave(new) \/ Break(new), DOMAIN new = Fields,
           new.state \in {"s_dead", "s_start_req", "s_start_res"},
           new.nread \in Nat,
           \A f \in Fields \ {"state", "nread"} : new[f] = parser[f]
    PROVE  IInv'
<1>1. p <= end /\ parser.http_errno = "OK"
  BY PlainOnes, Within, AtWork
<1>2. /\ parser' = new /\ end' = end
  BY DEF Leave, Break, Go, env
<1>3. /\ HasFields' /\ FieldsFit' /\ parser'.http_errno = "OK"
      /\ parser'.state = new.state
  BY <1>1, <1>2 DEF IInv, HasFields, FieldsFit, Fields
<1>4. new.state \in PlainStates
  BY DEF PlainStates, TrailingStates
<1>5. Lengths'
  BY <1>3, <1>4, PlainOnes DEF Lengths, LengthStates, ChunkStates, ChunkData
<1>6. CASE Leave(new)
  <2>1. EventsNamed' /\ mark' = mark
    BY Notified DEF IInv
  <2>2. MarksInside'
    BY <1>2, <2>1 DEF IInv, InBuffer, MarksInside
  <2>3. QED
    BY <1>3, <1>5, <1>6, <2>1, <2>2, Leaving
<1>7. CASE Break(new)
  <2>1. GoesOn
    BY <1>1, <1>7, Onward
  <2>2. Order(new.state, "message_complete", Trailing')
    BY DEF Order, BeforeMessage, InFirstLine, InHeaders, InBody, LineStart,
       TrailingStates, StatusLine, RequestLine, UrlStart, UrlStates, Query,
       Fragment, ChunkSize
  <2>3. QED
    BY <1>3, <1>4, <1>5, <2>1, <2>2, PlainOnes, Notifying
<1>8. QED
  BY <1>6, <1>7

(* Where a parser goes after a message.                                      *)
LEMMA NextMessage ==
    ASSUME NEW q
    PROVE  NEW_MESSAGE(q) \in {"s_dead", "s_start_req", "s_start_res"}
BY DEF NEW_MESSAGE, start_state

(* The headers are over: the message is, or its body begins.                 *)
LEMMA HeadersDoneStep == IInv /\ s_headers_done => IInv'
<1> SUFFICES ASSUME IInv, s_headers_done PROVE IInv'
  OBVIOUS
<1> DEFINE q == Restarted(parser)
           ended == [q EXCEPT !.state = NEW_MESSAGE(q)]
<1>1. /\ call = "switch" /\ parser.state = "s_headers_done"
      /\ parser.state \in PlainStates
  BY DEF s_headers_done, In, PlainStates
<1>2. /\ p <= end /\ parser.http_errno = "OK"
      /\ Last = "headers_complete" /\ ~Trailing
  <2>1. Order("s_headers_done", Last, Trailing)
    BY <1>1, AtWork
  <2>2. QED
    BY <1>1, <2>1, PlainOnes, Within, AtWork DEF Order, InBody, TrailingStates
<1>3. /\ DOMAIN q = Fields /\ q.nread = 0
      /\ \A f \in Fields \ {"nread"} : q[f] = parser[f]
  BY DEF IInv, HasFields, Fields, Restarted
<1> HIDE DEF q
<1>4. CASE /\ CALLBACK_NOTIFY("message_complete", ended)
           /\ Leave(ended) \/ Break(ended)
  <2>1. /\ DOMAIN ended = Fields /\ ended.nread \in Nat
        /\ ended.state \in {"s_dead", "s_start_req", "s_start_res"}
        /\ \A f \in Fields \ {"state", "nread"} : ended[f] = parser[f]
    BY <1>3, NextMessage DEF Fields
  <2> HIDE DEF ended
  <2>2. QED
    BY <1>1, <1>4, <2>1, MessageEnds
<1>5. ASSUME Silent, NEW s, Break([q EXCEPT !.state = s]),
             \/ s = "s_chunk_size_start" /\ "F_CHUNKED" \in q.flags
             \/ s = "s_body_identity" /\ q.content_length \notin {0, ULLONG_MAX}
             \/ s = "s_body_identity_eof"
      PROVE  IInv'
  <2>1. GoesOn /\ parser' = [q EXCEPT !.state = s]
    BY <1>1, <1>2, <1>5, Onward
  <2>2. /\ DOMAIN parser' = Fields /\ parser'.state = s /\ parser'.nread = 0
        /\ \A f \in Fields \ {"state", "nread"} : parser'[f] = parser[f]
    BY <1>3, <2>1 DEF Fields
  <2>3. /\ HasFields' /\ FieldsFit' /\ parser'.http_errno = "OK"
        /\ Trailing' = Trailing
    BY <1>2, <2>2 DEF IInv, HasFields, FieldsFit, Fields, Trailing
  <2>4. MarksBelong'
    BY <1>1, <1>5, PlainOnes, NothingMarked DEF MarksBelong, Marks, Silent
  <2>5. call' = "loop"
    BY <1>5 DEF Break, Go
  <2>6. parser'.flags = q.flags /\ parser'.content_length = q.content_length
    BY <1>3, <2>2 DEF Fields
  <2>7. Lengths' /\ DataBegun'
    BY <1>5, <2>2, <2>5, <2>6
       DEF Lengths, DataBegun, ChunkStates, ChunkSize, ChunkData
  <2>8. Order(s, "headers_complete", FALSE)
    BY <1>5 DEF Order, BeforeMessage, InFirstLine, InHeaders, InBody,
       LineStart, TrailingStates, StatusLine, RequestLine, UrlStart,
       UrlStates, Query, Fragment, ChunkSize
  <2>9. Order(parser'.state, Last, Trailing')
    <3>1. Trailing' = FALSE
      BY <1>2, <2>3 DEF Trailing
    <3>2. QED
      BY <1>2, <2>2, <2>8, <3>1
  <2>10. QED
    BY <1>1, <1>5, <2>1, <2>3, <2>4, <2>7, <2>9, Staying
<1>6. \/ /\ CALLBACK_NOTIFY("message_complete", ended)
         /\ Leave(ended) \/ Break(ended)
      \/ /\ Silent
         /\ \E s :
               /\ Break([q EXCEPT !.state = s])
               /\ \/ s = "s_chunk_size_start" /\ "F_CHUNKED" \in q.flags
                  \/ /\ s = "s_body_identity"
                     /\ q.content_length \notin {0, ULLONG_MAX}
                  \/ s = "s_body_identity_eof"
  <2>1. "F_CHUNKED" \notin q.flags /\ HasBody(q) =>
            q.content_length \notin {0, ULLONG_MAX}
    BY <1>3 DEF HasBody, IInv, FieldsFit, Fields
  <2>2. QED
    BY <2>1 DEF s_headers_done, q
<1>7. QED
  BY <1>4, <1>5, <1>6

(* A message is over.                                                        *)
LEMMA MessageDoneStep == IInv /\ s_message_done => IInv'
<1> SUFFICES ASSUME IInv, s_message_done PROVE IInv'
  OBVIOUS
<1> DEFINE new == Goto(NEW_MESSAGE(parser))
<1>1. /\ call = "switch" /\ parser.state \in PlainStates
      /\ CALLBACK_NOTIFY("message_complete", new)
      /\ Leave(new) \/ Break(new)
  BY DEF s_message_done, In, PlainStates, TrailingStates
<1>2. /\ DOMAIN new = Fields /\ new.nread \in Nat
      /\ new.state \in {"s_dead", "s_start_req", "s_start_res"}
      /\ \A f \in Fields \ {"state", "nread"} : new[f] = parser[f]
  BY NextMessage DEF IInv, HasFields, FieldsFit, Fields, Goto
<1> HIDE DEF new
<1>3. QED
  BY <1>1, <1>2, MessageEnds

(* Some bytes of a body are read, and no more than there are.                *)
LEMMA Reading ==
    ASSUME IInv, call = "switch", parser.state \in {"s_body_identity", "s_chunk_data"}
    PROVE  /\ p <= end /\ p + to_read \in p + 1 .. end + 1
           /\ DOMAIN Taken = Fields
           /\ Taken.content_length \in 0 .. ULLONG_MAX
           /\ Taken.content_length # ULLONG_MAX
           /\ \A f \in Fields \ {"content_length"} : Taken[f] = parser[f]
<1>1. p <= end /\ p \in Nat /\ end \in Nat
  BY Within DEF InnerStates, IInv, InBuffer
<1>2. PICK n \in 0 .. ULLONG_MAX : n = parser.content_length
  BY DEF IInv, FieldsFit
<1>3. n # 0 /\ n # ULLONG_MAX
  BY <1>2, AtWork DEF IInv, Lengths
<1>4. ULLONG_MAX \in Nat
  BY LimitsAssumption
<1>5. PICK r \in 1 .. n : r = to_read /\ r <= end - p + 1
  <2>1. to_read = IF n < end - p + 1 THEN n ELSE end - p + 1
    BY <1>2 DEF to_read
  <2>2. CASE n < end - p + 1
    BY <1>1, <1>3, <1>4, <2>1, <2>2
  <2>3. CASE ~(n < end - p + 1)
    BY <1>1, <1>3, <1>4, <2>1, <2>3
  <2>4. QED
    BY <2>2, <2>3
<1>6. /\ DOMAIN Taken = Fields /\ Taken.content_length = n - r
      /\ \A f \in Fields \ {"content_length"} : Taken[f] = parser[f]
  BY <1>2, <1>5 DEF Taken, IInv, HasFields, Fields
<1>7. p + r \in p + 1 .. end + 1 /\ n - r \in 0 .. ULLONG_MAX /\ n - r # ULLONG_MAX
  BY <1>1, <1>3, <1>4, <1>5
<1>8. QED
  BY <1>1, <1>5, <1>6, <1>7

(* A run that goes on at another byte.                                       *)
LEMMA Jumping ==
    ASSUME IInv, NEW new, NEW q \in 1 .. end + 1, NEW where,
           where = "loop" \/ (where = "switch" /\ q <= end), Go(new, q, where)
    PROVE  parser' = new /\ GoesOn /\ call' = where
BY DEF Go, GoesOn, Places, env

(* In a body there are no trailers and no mark but its own.                  *)
LEMMA BodyNotTrailing ==
    ASSUME IInv, call # "outside",
           parser.state \in {"s_body_identity", "s_body_identity_eof",
                             "s_chunk_size_start"} \cup ChunkSize \cup ChunkData
    PROVE  /\ Trailing = FALSE /\ "body" \in Marks
           /\ \A m \in Marks \ {"body"} : mark[m] = 0
<1>1. ~Trailing
  BY AtWork DEF Order, TrailingStates, ChunkSize, ChunkData
<1>2. \A m \in Marks \ {"body"} : mark[m] = 0
  BY DEF IInv, MarksBelong, Marks, UrlStart, UrlStates, Query, Fragment,
     ChunkSize, ChunkData
<1>3. QED
  BY <1>1, <1>2 DEF Trailing, Marks

(* A body of known length, as far as the buffer holds it.                    *)
LEMMA IdentityStep == IInv /\ s_body_identity => IInv'
<1> SUFFICES ASSUME IInv, s_body_identity PROVE IInv'
  OBVIOUS
<1>1. call = "switch" /\ parser.state = "s_body_identity"
  BY DEF s_body_identity, In
<1>2. /\ p <= end /\ p + to_read \in p + 1 .. end + 1
      /\ DOMAIN Taken = Fields
      /\ Taken.content_length \in 0 .. ULLONG_MAX
      /\ Taken.content_length # ULLONG_MAX
      /\ \A f \in Fields \ {"content_length"} : Taken[f] = parser[f]
  BY <1>1, Reading
<1>3. /\ Trailing = FALSE /\ "body" \in Marks
      /\ \A m \in Marks \ {"body"} : mark[m] = 0
  BY <1>1, BodyNotTrailing
<1>4. p \in Nat \ {0} /\ end \in Nat /\ to_read \in Int
      /\ p + to_read - 1 \in 1 .. end /\ (p + to_read - 1) + 1 \in 1 .. end + 1
  <2>1. p \in Nat \ {0} /\ end \in Nat
    BY DEF IInv, InBuffer
  <2>2. PICK n \in 0 .. ULLONG_MAX : n = parser.content_length
    BY DEF IInv, FieldsFit
  <2>3. to_read \in Int
    BY <2>1, <2>2, LimitsAssumption DEF to_read
  <2>4. QED
    BY <1>2, <2>1, <2>3
<1>5. CASE Taken.content_length = 0
  <2> DEFINE last == p + to_read - 1
             new == [Taken EXCEPT !.state = "s_message_done"]
  <2>1. /\ events' = Join("body", SubSeq(bytes, From("body"), BodyEnd(last) - 1))
        /\ mark' = [mark EXCEPT !["body"] = 0]
        /\ Go(new, last, "switch")
    BY <1>5 DEF s_body_identity
  <2>2. last \in 1 .. end + 1 /\ last <= end
    BY <1>4
  <2> HIDE DEF last
  <2>3. GoesOn /\ parser' = new
    BY <2>1, <2>2, Jumping
  <2>4. EventsNamed' /\ Last' = "body"
    BY <2>1, Joined DEF IInv
  <2>5. /\ DOMAIN parser' = Fields /\ parser'.state = "s_message_done"
        /\ parser'.content_length \in 0 .. ULLONG_MAX
        /\ \A f \in Fields \ {"content_length", "state"} : parser'[f] = parser[f]
    BY <1>2, <2>3 DEF Fields
  <2>6. /\ HasFields' /\ FieldsFit' /\ parser'.http_errno = "OK"
        /\ Trailing' = FALSE
    BY <1>1, <1>3, <2>5, AtWork
       DEF IInv, HasFields, FieldsFit, Fields, Trailing
  <2>7. MarksInside' /\ \A m \in Marks : mark'[m] = 0
    <3>1. end' = end /\ 0 \in 0 .. end + 1 /\ mark \in [Marks -> 0 .. end + 1]
      BY <1>4, <2>3 DEF GoesOn, Places, IInv, InBuffer
    <3>2. mark' \in [Marks -> 0 .. end + 1]
      BY <1>3, <2>1, <3>1
    <3>3. QED
      BY <1>3, <2>1, <3>1, <3>2 DEF MarksInside
  <2>8. MarksBelong'
    BY <2>7 DEF MarksBelong, Marks
  <2>9. Lengths' /\ DataBegun'
    BY <2>5 DEF Lengths, DataBegun, ChunkStates, ChunkSize, ChunkData
  <2>10. Order("s_message_done", "body", FALSE)
    BY DEF Order, BeforeMessage, InFirstLine, InHeaders, InBody, LineStart,
       TrailingStates, StatusLine, RequestLine, UrlStart, UrlStates, Query,
       Fragment, ChunkSize
  <2>11. QED
    BY <1>1, <2>3, <2>4, <2>5, <2>6, <2>7, <2>8, <2>9, <2>10, Continuing
<1>6. CASE Taken.content_length # 0
  <2>1. MARK("body") /\ Go(Taken, (p + to_read - 1) + 1, "loop")
    BY <1>6 DEF s_body_identity
  <2>2. GoesOn /\ parser' = Taken
    BY <1>4, <2>1, Jumping
  <2>3. /\ HasFields' /\ FieldsFit' /\ parser'.http_errno = "OK"
        /\ Trailing' = Trailing /\ parser'.state = "s_body_identity"
    BY <1>1, <1>2, <2>2, AtWork DEF IInv, HasFields, FieldsFit, Fields,
       Trailing
  <2>4. Lengths' /\ Belongs("body", parser'.state)
    BY <1>2, <1>6, <2>2, <2>3
       DEF Lengths, Belongs, BodyMarked, ChunkStates, ChunkSize, ChunkData
  <2>5. QED
    BY <1>1, <1>2, <1>3, <2>1, <2>2, <2>3, <2>4, AtWork, Marking
<1>7. QED
  BY <1>5, <1>6

(* A body that lasts until the connection ends.                              *)
LEMMA IdentityEofStep == IInv /\ s_body_identity_eof => IInv'
<1> SUFFICES ASSUME IInv, s_body_identity_eof PROVE IInv'
  OBVIOUS
<1>1. /\ call = "switch" /\ parser.state = "s_body_identity_eof"
      /\ MARK("body") /\ Go(parser, end + 1, "loop")
  BY DEF s_body_identity_eof, In
<1>2. p <= end /\ end + 1 \in 1 .. end + 1
  BY <1>1, Within DEF InnerStates, IInv, InBuffer
<1>3. GoesOn /\ parser' = parser
  BY <1>1, <1>2, Jumping
<1>4. /\ HasFields' /\ FieldsFit' /\ parser'.http_errno = "OK"
      /\ Trailing' = Trailing
  BY <1>1, <1>3, AtWork DEF IInv, HasFields, FieldsFit, Trailing
<1>5. Lengths' /\ Belongs("body", parser'.state)
  BY <1>1, <1>3 DEF Lengths, Belongs, BodyMarked, ChunkStates, ChunkSize,
     ChunkData
<1>6. QED
  BY <1>1, <1>2, <1>3, <1>4, <1>5, BodyNotTrailing, AtWork, Marking

-----------------------------------------------------------------------------
(* Chunks.                                                                   *)

(* The length of a chunk is read.                                            *)
LEMMA ChunkSizeStep ==
    ASSUME IInv, call = "switch", Silent,
           parser.state \in {"s_chunk_size_start"} \cup ChunkSize,
           NEW new, Break(new), DOMAIN new = Fields, new.state \in ChunkSize,
           new.content_length \in 0 .. ULLONG_MAX - 1,
           \A f \in Fields \ {"state", "content_length"} : new[f] = parser[f]
    PROVE  IInv'
<1>1. /\ parser.state \notin MarkedStates \cup InnerStates
      /\ new.state \notin MarkedStates \cup InnerStates
  BY DEF MarkedStates, LengthStates, UrlStart, UrlStates, Query, Fragment,
     BodyMarked, ChunkStates, ChunkSize, ChunkData, InnerStates
<1>2. GoesOn /\ parser' = new
  BY <1>1, Within, Onward
<1>3. ULLONG_MAX \in Nat
  BY LimitsAssumption
<1>4. /\ new.content_length \in 0 .. ULLONG_MAX
      /\ new.content_length < ULLONG_MAX
  <2>1. PICK n \in 0 .. ULLONG_MAX - 1 : n = new.content_length
    OBVIOUS
  <2>2. n \in 0 .. ULLONG_MAX /\ n < ULLONG_MAX
    BY <1>3, <2>1
  <2>3. QED
    BY <2>1, <2>2
<1>5. /\ HasFields' /\ FieldsFit' /\ parser'.http_errno = "OK"
      /\ Trailing' = Trailing
  BY <1>2, <1>4, AtWork DEF IInv, HasFields, FieldsFit, Fields, Trailing
<1>6. MarksBelong'
  BY <1>1, NothingMarked DEF MarksBelong, Marks, Silent
<1>7. "F_CHUNKED" \in new.flags
  BY AtWork DEF IInv, Lengths, ChunkStates, Fields
<1>8. Lengths' /\ DataBegun'
  BY <1>2, <1>4, <1>7
     DEF Lengths, DataBegun, ChunkStates, ChunkSize, ChunkData
<1>9. Order(parser.state, Last, Trailing) => Order(new.state, Last, Trailing)
  BY DEF Order, BeforeMessage, InFirstLine, InHeaders, InBody, LineStart,
     TrailingStates, StatusLine, RequestLine, UrlStart, UrlStates, Query,
     Fragment, ChunkSize
<1>10. QED
  BY <1>2, <1>5, <1>6, <1>8, <1>9, Staying

(* The first digit of the size of a chunk.                                   *)
LEMMA ChunkSizeStartStep == IInv /\ s_chunk_size_start => IInv'
<1> SUFFICES ASSUME IInv, s_chunk_size_start PROVE IInv'
  OBVIOUS
<1>1. /\ call = "switch" /\ parser.state = "s_chunk_size_start" /\ Silent
      /\ \/ /\ c \in IS_HEX
            /\ Break([parser EXCEPT !.content_length = unhex(c),
                                    !.state = "s_chunk_size"])
         \/ Error("INVALID_CHUNK_SIZE")
  BY DEF s_chunk_size_start, In
<1>2. CASE c \in IS_HEX /\ Break([parser EXCEPT !.content_length = unhex(c),
                                                !.state = "s_chunk_size"])
  <2>1. PICK n \in 0 .. ULLONG_MAX - 1 : n = unhex(c)
    <3>1. PICK n \in 0 .. 15 : n = unhex(c)
      BY <1>2, Digits
    <3>2. n \in 0 .. ULLONG_MAX - 1
      BY <3>1, LimitsAssumption
    <3>3. QED
      BY <3>1, <3>2
  <2> DEFINE new == [parser EXCEPT !.content_length = n, !.state = "s_chunk_size"]
  <2>2. /\ DOMAIN new = Fields /\ new.state \in ChunkSize
        /\ new.content_length = n
        /\ \A f \in Fields \ {"state", "content_length"} : new[f] = parser[f]
    BY DEF IInv, HasFields, Fields, ChunkSize
  <2>3. Break(new)
    BY <1>2, <2>1
  <2> HIDE DEF new
  <2>4. QED
    BY <1>1, <2>1, <2>2, <2>3, ChunkSizeStep
<1>3. QED
  BY <1>1, <1>2, QuietError

(* The line with the size goes on.                                           *)
LEMMA ChunkGoto ==
    ASSUME IInv, call = "switch", Silent, parser.state \in ChunkSize,
           NEW s \in ChunkSize, Break(Goto(s))
    PROVE  IInv'
<1> DEFINE new == Goto(s)
<1>1. /\ DOMAIN new = Fields /\ new.state = s
      /\ new.content_length = parser.content_length
      /\ \A f \in Fields \ {"state", "content_length"} : new[f] = parser[f]
  BY DEF IInv, HasFields, Fields, Goto
<1>2. new.content_length \in 0 .. ULLONG_MAX - 1
  <2>1. PICK n \in 0 .. ULLONG_MAX : n = parser.content_length
    BY DEF IInv, FieldsFit
  <2>2. n < ULLONG_MAX
    BY <2>1, AtWork DEF IInv, Lengths
  <2>3. n \in 0 .. ULLONG_MAX - 1
    BY <2>1, <2>2, LimitsAssumption
  <2>4. QED
    BY <1>1, <2>1, <2>3
<1>3. Break(new)
  OBVIOUS
<1> HIDE DEF new
<1>4. QED
  BY <1>1, <1>2, <1>3, ChunkSizeStep

(* A further digit of the size.                                              *)
LEMMA ChunkSizeDigitStep == IInv /\ s_chunk_size => IInv'
<1> SUFFICES ASSUME IInv, s_chunk_size PROVE IInv'
  OBVIOUS
<1>1. /\ call = "switch" /\ parser.state = "s_chunk_size" /\ Silent
      /\ \/ Break(Goto("s_chunk_size_almost_done"))
         \/ Break(Goto("s_chunk_parameters"))
         \/ /\ c \in IS_HEX /\ ~TooLong(16)
            /\ Break([parser EXCEPT !.content_length = WithDigit(16)])
         \/ Error("INVALID_CONTENT_LENGTH")
         \/ Error("INVALID_CHUNK_SIZE")
  BY DEF s_chunk_size, In
<1>2. CASE \/ Break(Goto("s_chunk_size_almost_done"))
           \/ Break(Goto("s_chunk_parameters"))
  BY <1>1, <1>2, ChunkGoto DEF ChunkSize
<1>3. CASE c \in IS_HEX /\ ~TooLong(16)
           /\ Break([parser EXCEPT !.content_length = WithDigit(16)])
  <2>1. unhex(c) \in 0 .. 16 - 1
    BY <1>3, Digits
  <2>2. PICK n \in 0 .. ULLONG_MAX - 1 : n = WithDigit(16)
    BY <1>3, <2>1, NumberFits
  <2> DEFINE new == [parser EXCEPT !.content_length = n]
  <2>3. /\ DOMAIN new = Fields /\ new.state \in ChunkSize
        /\ parser.state \in ChunkSize /\ new.content_length = n
        /\ \A f \in Fields \ {"state", "content_length"} : new[f] = parser[f]
    BY <1>1 DEF IInv, HasFields, Fields, ChunkSize
  <2>4. Break(new)
    BY <1>3, <2>2
  <2> HIDE DEF new
  <2>5. QED
    BY <1>1, <2>2, <2>3, <2>4, ChunkSizeStep
<1>4. QED
  BY <1>1, <1>2, <1>3, QuietError

(* Parameters of a chunk are skipped.                                        *)
LEMMA ChunkParametersStep == IInv /\ s_chunk_parameters => IInv'
<1> SUFFICES ASSUME IInv, s_chunk_parameters PROVE IInv'
  OBVIOUS
<1>1. /\ call = "switch" /\ parser.state = "s_chunk_parameters" /\ Silent
      /\ Break(Goto("s_chunk_size_almost_done")) \/ Break(parser)
  BY DEF s_chunk_parameters, In
<1>2. QED
  BY <1>1, ChunkGoto, QuietStay DEF ChunkSize, InnerStates

(* A chunk begins, or the trailers do after the last one.                    *)
LEMMA ChunkSizeDoneStep == IInv /\ s_chunk_size_almost_done => IInv'
<1> SUFFICES ASSUME IInv, s_chunk_size_almost_done PROVE IInv'
  OBVIOUS
<1> DEFINE q == Restarted(parser)
           end_ == [q EXCEPT !.flags = @ \cup {"F_TRAILING"},
                             !.state = "s_header_field_start"]
           data == [q EXCEPT !.state = "s_chunk_data"]
           next == IF q.content_length = 0 THEN end_ ELSE data
<1>1. /\ call = "switch" /\ parser.state = "s_chunk_size_almost_done"
      /\ \/ Silent /\ Error("STRICT")
         \/ CALLBACK_NOTIFY("chunk_header", next) /\ Break(next)
  BY DEF s_chunk_size_almost_done, In
<1>2. /\ parser.state \notin MarkedStates \cup InnerStates
      /\ parser.state \in ChunkSize \cap ChunkStates
  BY <1>1 DEF MarkedStates, LengthStates, UrlStart, UrlStates, Query,
     Fragment, BodyMarked, ChunkStates, ChunkSize, ChunkData, InnerStates
<1>3. /\ p <= end /\ parser.http_errno = "OK" /\ Trailing = FALSE
      /\ "F_CHUNKED" \in parser.flags /\ parser.content_length < ULLONG_MAX
  BY <1>1, <1>2, Within, AtWork, BodyNotTrailing DEF IInv, Lengths
<1>4. /\ DOMAIN q = Fields /\ q.nread = 0
      /\ \A f \in Fields \ {"nread"} : q[f] = parser[f]
  BY DEF IInv, HasFields, Fields, Restarted
<1> HIDE DEF q
<1>5. ASSUME CALLBACK_NOTIFY("chunk_header", next), Break(next) PROVE IInv'
  <2>1. GoesOn /\ parser' = next
    BY <1>1, <1>3, <1>5, Onward
  <2>2. CASE q.content_length = 0
    <3>1. /\ DOMAIN parser' = Fields /\ parser'.state = "s_header_field_start"
          /\ parser'.nread = 0 /\ parser'.flags = parser.flags \cup {"F_TRAILING"}
          /\ \A f \in Fields \ {"state", "nread", "flags"} : parser'[f] = parser[f]
      BY <1>4, <2>1, <2>2 DEF Fields
    <3>2. /\ HasFields' /\ FieldsFit' /\ parser'.http_errno = "OK"
          /\ Trailing' = TRUE
      BY <1>3, <3>1 DEF IInv, HasFields, FieldsFit, Fields, Trailing, Flags
    <3>3. "s_header_field_start" \in PlainStates
      BY DEF PlainStates, TrailingStates
    <3>4. Lengths'
      BY <3>1, <3>3, PlainOnes DEF Lengths, LengthStates, ChunkStates,
         ChunkData
    <3>5. Order("s_header_field_start", "chunk_header", TRUE)
      BY DEF Order, BeforeMessage, InFirstLine, InHeaders, InBody, LineStart,
         TrailingStates, StatusLine, RequestLine, UrlStart, UrlStates, Query,
         Fragment, ChunkSize
    <3>6. QED
      BY <1>1, <1>2, <1>5, <2>1, <3>1, <3>2, <3>3, <3>4, <3>5, PlainOnes,
         Notifying
  <2>3. CASE q.content_length # 0
    <3>1. /\ DOMAIN parser' = Fields /\ parser'.state = "s_chunk_data"
          /\ parser'.nread = 0
          /\ \A f \in Fields \ {"state", "nread"} : parser'[f] = parser[f]
      BY <1>4, <2>1, <2>3 DEF Fields
    <3>2. /\ HasFields' /\ FieldsFit' /\ parser'.http_errno = "OK"
          /\ Trailing' = FALSE
      BY <1>3, <3>1 DEF IInv, HasFields, FieldsFit, Fields, Trailing
    <3>3. /\ parser'.flags = parser.flags
          /\ parser'.content_length = parser.content_length
          /\ parser.content_length # 0 /\ parser.content_length # ULLONG_MAX
      <4>1. parser.content_length # 0 /\ parser'.flags = parser.flags
            /\ parser'.content_length = parser.content_length
        BY <1>4, <2>3, <3>1 DEF Fields
      <4>2. parser.content_length # ULLONG_MAX
        BY <1>3, LimitsAssumption
      <4>3. QED
        BY <4>1, <4>2
    <3>4. Lengths'
      BY <1>3, <3>1, <3>3 DEF Lengths, ChunkStates, ChunkSize, ChunkData
    <3>5. Order("s_chunk_data", "chunk_header", FALSE)
      BY DEF Order, BeforeMessage, InFirstLine, InHeaders, InBody, LineStart,
         TrailingStates, StatusLine, RequestLine, UrlStart, UrlStates, Query,
         Fragment, ChunkSize
    <3>6. QED
      BY <1>1, <1>2, <1>5, <2>1, <3>1, <3>2, <3>4, <3>5, Notifying
  <2>4. QED
    BY <2>2, <2>3
<1>6. QED
  BY <1>1, <1>5, QuietError

(* The data of a chunk, as far as the buffer holds it.                       *)
LEMMA ChunkDataStep == IInv /\ s_chunk_data => IInv'
<1> SUFFICES ASSUME IInv, s_chunk_data PROVE IInv'
  OBVIOUS
<1> DEFINE s == IF Taken.content_length = 0 THEN "s_chunk_data_almost_done"
                                            ELSE "s_chunk_data"
<1>1. call = "switch" /\ parser.state = "s_chunk_data" /\ MARK("body")
  BY DEF s_chunk_data, In
<1>2. /\ p <= end /\ p + to_read \in p + 1 .. end + 1
      /\ DOMAIN Taken = Fields
      /\ Taken.content_length \in 0 .. ULLONG_MAX
      /\ Taken.content_length # ULLONG_MAX
      /\ \A f \in Fields \ {"content_length"} : Taken[f] = parser[f]
  BY <1>1, Reading
<1>3. /\ Trailing = FALSE /\ "body" \in Marks
      /\ \A m \in Marks \ {"body"} : mark[m] = 0
  BY <1>1, BodyNotTrailing DEF ChunkData
<1>4. PICK q \in 1 .. end + 1 : q = p + to_read
  <2>1. p \in Nat \ {0} /\ end \in Nat
    BY DEF IInv, InBuffer
  <2>2. PICK r \in p + 1 .. end + 1 : r = p + to_read
    BY <1>2
  <2>3. r \in 1 .. end + 1
    BY <2>1, <2>2
  <2>4. QED
    BY <2>2, <2>3
<1>5. PICK new : /\ Go(new, q, "loop") /\ DOMAIN new = Fields /\ new.state = s
                 /\ \A f \in Fields \ {"state"} : new[f] = Taken[f]
  <2>1. CASE Taken.content_length = 0
    <3> DEFINE new == [Taken EXCEPT !.state = "s_chunk_data_almost_done"]
    <3>1. /\ Go(new, q, "loop") /\ DOMAIN new = Fields /\ new.state = s
          /\ \A f \in Fields \ {"state"} : new[f] = Taken[f]
      BY <1>2, <1>4, <2>1 DEF s_chunk_data, Fields
    <3>2. QED
      BY <3>1
  <2>2. CASE Taken.content_length # 0
    BY <1>1, <1>2, <1>4, <2>2 DEF s_chunk_data, Fields
  <2>3. QED
    BY <2>1, <2>2
<1>6. GoesOn /\ parser' = new
  BY <1>4, <1>5, Jumping
<1>7. /\ s \in {"s_chunk_data", "s_chunk_data_almost_done"}
      /\ s = "s_chunk_data" <=> Taken.content_length # 0
  OBVIOUS
<1> HIDE DEF s
<1>8. /\ HasFields' /\ FieldsFit' /\ parser'.http_errno = "OK"
      /\ Trailing' = Trailing /\ parser'.state = s
      /\ parser'.content_length = Taken.content_length
      /\ parser'.flags = parser.flags
  BY <1>1, <1>2, <1>5, <1>6, AtWork
     DEF IInv, HasFields, FieldsFit, Fields, Trailing
<1>9. "F_CHUNKED" \in parser.flags
  BY <1>1, AtWork DEF IInv, Lengths, ChunkStates, ChunkData
<1>10. Lengths' /\ Belongs("body", parser'.state)
  BY <1>2, <1>7, <1>8, <1>9
     DEF Lengths, Belongs, BodyMarked, ChunkStates, ChunkSize, ChunkData
<1>11. Order("s_chunk_data", Last, Trailing) => Order(s, Last, Trailing)
  BY <1>7 DEF Order, BeforeMessage, InFirstLine, InHeaders, InBody, LineStart,
     TrailingStates, StatusLine, RequestLine, UrlStart, UrlStates, Query,
     Fragment, ChunkSize
<1>12. QED
  BY <1>1, <1>2, <1>3, <1>6, <1>8, <1>10, <1>11, AtWork, Marking

(* The end of the data delivers it: none of it is without a callback.        *)
LEMMA ChunkDataDoneStep == IInv /\ s_chunk_data_almost_done => IInv'
<1> SUFFICES ASSUME IInv, s_chunk_data_almost_done PROVE IInv'
  OBVIOUS
<1>1. /\ call = "switch" /\ parser.state = "s_chunk_data_almost_done"
      /\ \/ CALLBACK_DATA("body", p) /\ Break(Goto("s_chunk_data_done"))
         \/ Silent /\ Error("STRICT")
  BY DEF s_chunk_data_almost_done, In
<1>2. /\ Trailing = FALSE /\ "body" \in Marks
      /\ \A m \in Marks \ {"body"} : mark[m] = 0
  BY <1>1, BodyNotTrailing DEF ChunkData
<1>3. CASE CALLBACK_DATA("body", p) /\ Break(Goto("s_chunk_data_done"))
  <2>1. GoesOn /\ parser' = Goto("s_chunk_data_done")
    BY <1>1, <1>3, Within, Onward DEF InnerStates
  <2>2. /\ HasFields' /\ FieldsFit' /\ parser'.state = "s_chunk_data_done"
        /\ Trailing' = FALSE /\ parser'.http_errno = "OK"
        /\ parser'.flags = parser.flags
    BY <1>1, <1>2, <2>1, Going, AtWork DEF Fields
  <2>3. "F_CHUNKED" \in parser.flags
    BY <1>1, AtWork DEF IInv, Lengths, ChunkStates, ChunkData
  <2>4. Lengths' /\ parser'.state \notin MarkedStates
    BY <2>2, <2>3 DEF Lengths, MarkedStates, LengthStates, UrlStart,
       UrlStates, Query, Fragment, BodyMarked, ChunkStates, ChunkSize,
       ChunkData
  <2>5. Order("s_chunk_data_done", "body", FALSE)
    BY DEF Order, BeforeMessage, InFirstLine, InHeaders, InBody, LineStart,
       TrailingStates, StatusLine, RequestLine, UrlStart, UrlStates, Query,
       Fragment, ChunkSize
  <2>6. mark["body"] = 0 => Last = "body"
    BY <1>1, AtWork DEF DataBegun, Begun
  <2>7. QED
    BY <1>1, <1>2, <1>3, <2>1, <2>2, <2>4, <2>5, <2>6, Delivering
<1>4. QED
  BY <1>1, <1>3, QuietError

(* The next chunk.                                                           *)
LEMMA ChunkDoneStep == IInv /\ s_chunk_data_done => IInv'
<1> SUFFICES ASSUME IInv, s_chunk_data_done PROVE IInv'
  OBVIOUS
<1> DEFINE new == [Restarted(parser) EXCEPT !.state = "s_chunk_size_start"]
<1>1. /\ call = "switch" /\ parser.state = "s_chunk_data_done"
      /\ \/ CALLBACK_NOTIFY("chunk_complete", parser) /\ Break(new)
         \/ Silent /\ Error("STRICT")
  BY DEF s_chunk_data_done, In
<1>2. /\ parser.state \notin MarkedStates \cup InnerStates
      /\ parser.state \in ChunkStates
      /\ "s_chunk_size_start" \notin MarkedStates \cup InnerStates
  BY <1>1 DEF MarkedStates, LengthStates, UrlStart, UrlStates, Query,
     Fragment, BodyMarked, ChunkStates, ChunkSize, ChunkData, InnerStates
<1>3. Trailing = FALSE /\ parser.http_errno = "OK" /\ "F_CHUNKED" \in parser.flags
  BY <1>1, <1>2, BodyNotTrailing, AtWork DEF IInv, Lengths, ChunkData
<1>4. CASE CALLBACK_NOTIFY("chunk_complete", parser) /\ Break(new)
  <2>1. GoesOn /\ parser' = new /\ call' = "loop"
    BY <1>1, <1>2, <1>4, Within, Onward DEF Break, Go
  <2>2. /\ DOMAIN parser' = Fields /\ parser'.state = "s_chunk_size_start"
        /\ parser'.nread = 0
        /\ \A f \in Fields \ {"state", "nread"} : parser'[f] = parser[f]
    BY <2>1 DEF IInv, HasFields, Fields, Restarted
  <2>3. /\ HasFields' /\ FieldsFit' /\ parser'.http_errno = "OK"
        /\ Trailing' = FALSE /\ parser'.flags = parser.flags
    BY <1>3, <2>2 DEF IInv, HasFields, FieldsFit, Fields, Trailing
  <2>4. Lengths'
    BY <1>3, <2>1, <2>2, <2>3
       DEF Lengths, ChunkStates, ChunkSize, ChunkData
  <2>5. Order("s_chunk_size_start", "chunk_complete", FALSE)
    BY DEF Order, BeforeMessage, InFirstLine, InHeaders, InBody, LineStart,
       TrailingStates, StatusLine, RequestLine, UrlStart, UrlStates, Query,
       Fragment, ChunkSize
  <2> HIDE DEF new
  <2>6. QED
    BY <1>1, <1>2, <1>4, <2>1, <2>2, <2>3, <2>4, <2>5, Notifying
<1>5. QED
  BY <1>1, <1>4, QuietError

-----------------------------------------------------------------------------
(* All of it together: IInv holds at first and no step disturbs it.          *)

(* The parser after http_parser_init.                                        *)
LEMMA Initialised == Init => IInv
<1> SUFFICES ASSUME Init PROVE IInv
  OBVIOUS
<1>1. /\ stream \in Streams /\ parser = http_parser_init(stream.type)
      /\ call = "outside" /\ p = 1 /\ end = 0 /\ start = 0
      /\ mark = [m \in Marks |-> 0] /\ events = <<>>
      /\ cuts = 0 /\ closed = FALSE
  BY DEF Init, NoMarks
<1>2. InBuffer
  <2>1. 0 \in 0 .. Len(bytes) /\ 0 \in 0 .. stream.cuts
    BY <1>1, StreamsAssumption DEF bytes
  <2>2. p \in 1 .. end + 1 /\ end + 1 = 1 /\ start \in 0 .. end
    BY <1>1
  <2>3. mark \in [Marks -> 0 .. end + 1]
    BY <1>1, <2>2
  <2>4. QED
    BY <1>1, <2>1, <2>2, <2>3 DEF InBuffer
<1>3. /\ DOMAIN parser = Fields /\ parser.nread = 0 /\ parser.flags = {}
      /\ parser.content_length = 0 /\ parser.method = "DELETE"
      /\ parser.http_major = 0 /\ parser.http_minor = 0
      /\ parser.status_code = 0 /\ parser.http_errno = "OK"
      /\ parser.state \in {"s_start_req_or_res", "s_start_req", "s_start_res"}
  BY <1>1 DEF http_parser_init, start_state, Fields
<1>4. FieldsFit
  <2>1. "DELETE" \in Methods
    BY DEF Methods
  <2>2. 0 \in 0 .. ULLONG_MAX /\ 0 \in 0 .. 999 /\ 0 \in Nat
    BY LimitsAssumption
  <2>3. QED
    BY <1>3, <2>1, <2>2 DEF FieldsFit
<1>5. EventsNamed
  <2>1. events \in Seq({})
    BY <1>1
  <2>2. QED
    BY <2>1 DEF EventsNamed
<1>6. InnerOnly /\ NoErrorInside /\ MarksBelong
  BY <1>1 DEF InnerOnly, NoErrorInside, MarksBelong
<1>7. Lengths
  BY <1>3 DEF Lengths, ChunkStates, ChunkSize, ChunkData
<1>8. InOrder
  <2>1. Last = "none" /\ Trailing = FALSE
    BY <1>1, <1>3 DEF Last, Trailing
  <2>2. Order(parser.state, "none", FALSE)
    BY <1>3 DEF Order, BeforeMessage, InFirstLine, InHeaders, InBody,
       LineStart, TrailingStates, StatusLine, RequestLine, UrlStart,
       UrlStates, Query, Fragment, ChunkSize
  <2>3. DataBegun
    BY <1>3 DEF DataBegun
  <2>4. QED
    BY <2>1, <2>2, <2>3 DEF InOrder
<1>9. HasFields
  BY <1>3 DEF HasFields
<1>10. QED
  BY <1>2, <1>4, <1>5, <1>6, <1>7, <1>8, <1>9 DEF IInv

(* Nothing happens.                                                          *)
LEMMA Stuttering == IInv /\ UNCHANGED vars => IInv'
BY DEF vars, IInv, InBuffer, bytes, FieldsFit, HasFields, EventsNamed,
       InnerOnly, NoErrorInside, MarksBelong, Lengths, InOrder, Last,
       Trailing, DataBegun, Begun

(* Together, the steps of the first line.                                    *)
LEMMA FirstLineSteps == IInv /\ FirstLine => IInv'
BY DeadStep, FirstByteStep, HeadOrHttpStep, StartResStep, LiteralStep,
   FirstDigitStep, MoreDigitsStep, FirstStatusStep, StatusStartStep,
   StatusStep, StartReqStep, MethodStep, BeforeUrlStep, UrlStartStep,
   UrlStep, HttpStartStep, LineDoneStep
   DEF FirstLine

(* Together, those of the headers.                                           *)
LEMMA HeadersSteps == IInv /\ Headers => IInv'
BY FieldStartStep, FieldByteStep, FieldEndsStep, DiscardStep,
   ValueStartStep, ValueGeneralStep, ValueLengthStep, ValueWordStep,
   ValueTokenStartStep, ValueTokenStep, ValueAfterChunkedStep,
   ValueAfterWordStep, ValueEndsStep, LwsStep, DiscardLwsStep
   DEF Headers

(* Together, those of the bodies.                                            *)
LEMMA BodiesSteps == IInv /\ Bodies => IInv'
BY HeadersAlmostDoneStep, HeadersDoneStep, IdentityStep, IdentityEofStep,
   MessageDoneStep, ChunkSizeStartStep, ChunkSizeDigitStep,
   ChunkParametersStep, ChunkSizeDoneStep, ChunkDataStep, ChunkDataDoneStep,
   ChunkDoneStep
   DEF Bodies

(* One step of the parser or of its caller.                                  *)
LEMMA Inductive == IInv /\ [Next]_vars => IInv'
<1>1. IInv /\ Parse => IInv'
  BY LoopHeadStep, LeftoverStep, FirstLineSteps, HeadersSteps, BodiesSteps
     DEF Parse
<1>2. QED
  BY <1>1, Entered, EnteredAfterError, Ended, Stuttering DEF Next

(* The invariant that the theorems rest on: where the parser is in its       *)
(* buffer, what its marks, its lengths and its last callback are in each     *)
(* state (http_parser_execute, http_parser.c:637).                           *)
THEOREM Invariant == Spec => []IInv
<1> QED
  BY Initialised, Inductive, PTL DEF Spec

(* Whatever arrives and wherever it is cut, the parser looks at no byte      *)
(* outside its buffer and no mark points outside it (http_parser.c:700).     *)
THEOREM StaysInBuffer == Spec => []InBuffer
<1>1. IInv => InBuffer
  BY DEF IInv
<1> QED
  BY Invariant, <1>1, PTL

(* The numbers, flags and methods the parser stores fit the fields of        *)
(* struct http_parser (http_parser.h:206-229).                               *)
THEOREM FieldsAlwaysFit == Spec => []FieldsFit
<1>1. IInv => FieldsFit
  BY DEF IInv
<1> QED
  BY Invariant, <1>1, PTL

(* No assertion of http_parser_execute fails (http_parser.c:1588 to 2086).   *)
THEOREM AssertionsAlwaysHold == Spec => []AssertionsHold
<1>1. IInv => AssertionsHold
  <2> SUFFICES ASSUME IInv PROVE AssertionsHold
    OBVIOUS
  <2>1. call # "outside" => parser.http_errno = "OK"
    BY AtWork
  <2>3. /\ In("s_header_value") => parser.header_state \in ValueStates
        /\ In("s_body_identity") \/ In("s_chunk_data") =>
               parser.content_length \notin {0, ULLONG_MAX}
        /\ In("s_chunk_size_start") => parser.nread = 1
        /\ In("s_chunk_data_almost_done") => parser.content_length = 0
    BY <2>1 DEF IInv, Lengths, In
  <2>4. call = "switch" /\ parser.state \in ChunkStates
        => "F_CHUNKED" \in parser.flags
    BY <2>1 DEF IInv, Lengths
  <2>5. ASSUME call = "loop", NEW m \in Marks, NEW n \in Marks,
               mark[m] # 0, mark[n] # 0
        PROVE  m = n
    <3>1. MarksBelong
      BY DEF IInv
    <3>2. QED
      BY <2>5, <3>1
         DEF MarksBelong, Marks, UrlStart, UrlStates, Query, Fragment,
         BodyMarked
  <2>6. QED
    BY <2>1, <2>3, <2>4, <2>5
       DEF AssertionsHold, ChunkStates, ChunkSize, ChunkData
<1> QED
  BY Invariant, <1>1, PTL

-----------------------------------------------------------------------------
(* Reading lengths. The states that take in the digits of a number have one  *)
(* action each.                                                              *)
NumberStates == {"s_header_value", "s_chunk_size"}

(* The first line has no length in it.                                       *)
LEMMA NotInFirstLine == FirstLine => parser.state \notin NumberStates
<1>1. s_dead => parser.state \notin NumberStates
  BY DEF s_dead, In, NumberStates
<1>2. s_start_req_or_res => parser.state \notin NumberStates
  BY DEF s_start_req_or_res, In, NumberStates
<1>3. s_res_or_resp_H => parser.state \notin NumberStates
  BY DEF s_res_or_resp_H, In, NumberStates
<1>4. s_start_res => parser.state \notin NumberStates
  BY DEF s_start_res, In, NumberStates
<1>5. StrictLiteral => parser.state \notin NumberStates
  BY DEF StrictLiteral, Literal, NumberStates
<1>6. FirstDigitState => parser.state \notin NumberStates
  BY DEF FirstDigitState, FirstDigit, NumberStates
<1>7. MoreDigitsState => parser.state \notin NumberStates
  BY DEF MoreDigitsState, MoreDigits, NumberStates
<1>8. s_res_first_status_code => parser.state \notin NumberStates
  BY DEF s_res_first_status_code, In, NumberStates
<1>9. s_res_status_start => parser.state \notin NumberStates
  BY DEF s_res_status_start, In, NumberStates
<1>10. s_res_status => parser.state \notin NumberStates
  BY DEF s_res_status, In, NumberStates
<1>11. s_start_req => parser.state \notin NumberStates
  BY DEF s_start_req, In, NumberStates
<1>12. s_req_method => parser.state \notin NumberStates
  BY DEF s_req_method, In, NumberStates
<1>13. s_req_spaces_before_url => parser.state \notin NumberStates
  BY DEF s_req_spaces_before_url, In, NumberStates
<1>14. s_req_url_start => parser.state \notin NumberStates
  BY DEF s_req_url_start, UrlStart, NumberStates
<1>15. s_req_url => parser.state \notin NumberStates
  BY DEF s_req_url, UrlStates, Query, Fragment, NumberStates
<1>16. s_req_http_start => parser.state \notin NumberStates
  BY DEF s_req_http_start, In, NumberStates
<1>17. s_req_line_almost_done => parser.state \notin NumberStates
  BY DEF s_req_line_almost_done, In, NumberStates
<1>18. QED
  BY <1>1, <1>2, <1>3, <1>4, <1>5, <1>6, <1>7, <1>8, <1>9, <1>10, <1>11,
     <1>12, <1>13, <1>14, <1>15, <1>16, <1>17 DEF FirstLine

(* Only the value of Content-Length is read as a number in the headers.      *)
LEMMA OnlyValueLength ==
    ASSUME IInv, Headers, ValueByte("h_content_length")
    PROVE  ValueLength
<1>1. /\ parser.state = "s_header_value" /\ p <= end /\ c \notin {CR, LF}
      /\ parser.header_state = "h_content_length"
  BY DEF ValueByte, InnerLoop, In
<1>2. ~s_header_field_start
  BY <1>1 DEF s_header_field_start, In
<1>3. ~FieldByte
  BY <1>1 DEF FieldByte, InnerLoop, In
<1>4. ~FieldEnds
  BY <1>1 DEF FieldEnds, In
<1>5. ~s_header_value_discard_ws
  BY <1>1 DEF s_header_value_discard_ws, In
<1>6. ~s_header_value_start
  BY <1>1 DEF s_header_value_start, In
<1>7. ~s_header_value_lws
  BY <1>1 DEF s_header_value_lws, In
<1>8. ~s_header_value_discard_lws
  BY <1>1 DEF s_header_value_discard_lws, In
<1>9. ~ValueGeneral
  BY <1>1 DEF ValueGeneral, ValueByte
<1>10. ~ValueWord
  BY <1>1 DEF ValueWord, ValueByte, Words
<1>11. ~ValueTokenStart
  BY <1>1 DEF ValueTokenStart, ValueByte
<1>12. ~ValueToken
  BY <1>1 DEF ValueToken, ValueByte
<1>13. ~ValueAfterChunked
  BY <1>1 DEF ValueAfterChunked, ValueByte
<1>14. ~ValueAfterWord
  BY <1>1 DEF ValueAfterWord, ValueByte, FlagOf
<1>15. ~ValueEnds
  <2>1. ~(p > end)
    BY <1>1 DEF IInv, InBuffer
  <2>2. QED
    BY <1>1, <2>1 DEF ValueEnds
<1>16. QED
  BY <1>2, <1>3, <1>4, <1>5, <1>6, <1>7, <1>8, <1>9, <1>10, <1>11, <1>12,
     <1>13, <1>14, <1>15 DEF Headers

(* The headers have no chunk size in them.                                   *)
LEMMA NotInHeaders == Headers => parser.state # "s_chunk_size"
<1>1. s_header_field_start => parser.state # "s_chunk_size"
  BY DEF s_header_field_start, In
<1>2. FieldByte => parser.state # "s_chunk_size"
  BY DEF FieldByte, InnerLoop, In
<1>3. FieldEnds => parser.state # "s_chunk_size"
  BY DEF FieldEnds, In
<1>4. s_header_value_discard_ws => parser.state # "s_chunk_size"
  BY DEF s_header_value_discard_ws, In
<1>5. s_header_value_start => parser.state # "s_chunk_size"
  BY DEF s_header_value_start, In
<1>6. s_header_value_lws => parser.state # "s_chunk_size"
  BY DEF s_header_value_lws, In
<1>7. s_header_value_discard_lws => parser.state # "s_chunk_size"
  BY DEF s_header_value_discard_lws, In
<1>8. ValueGeneral => parser.state # "s_chunk_size"
  BY DEF ValueGeneral, ValueByte, InnerLoop, In
<1>9. ValueWord => parser.state # "s_chunk_size"
  BY DEF ValueWord, ValueByte, InnerLoop, In
<1>10. ValueTokenStart => parser.state # "s_chunk_size"
  BY DEF ValueTokenStart, ValueByte, InnerLoop, In
<1>11. ValueToken => parser.state # "s_chunk_size"
  BY DEF ValueToken, ValueByte, InnerLoop, In
<1>12. ValueAfterChunked => parser.state # "s_chunk_size"
  BY DEF ValueAfterChunked, ValueByte, InnerLoop, In
<1>13. ValueAfterWord => parser.state # "s_chunk_size"
  BY DEF ValueAfterWord, ValueByte, InnerLoop, In
<1>14. ValueEnds => parser.state # "s_chunk_size"
  BY DEF ValueEnds, In
<1>15. ValueLength => parser.state # "s_chunk_size"
  BY DEF ValueLength, ValueByte, InnerLoop, In
<1>16. QED
  BY <1>1, <1>2, <1>3, <1>4, <1>5, <1>6, <1>7, <1>8, <1>9, <1>10, <1>11,
     <1>12, <1>13, <1>14, <1>15 DEF Headers

(* Nor have the bodies a value, and the size of a chunk is read in one way.  *)
LEMMA OnlyChunkSize ==
    Bodies => parser.state \notin NumberStates \/ s_chunk_size
<1>1. s_headers_almost_done => parser.state \notin NumberStates
  BY DEF s_headers_almost_done, In, NumberStates
<1>2. s_headers_done => parser.state \notin NumberStates
  BY DEF s_headers_done, In, NumberStates
<1>3. s_body_identity => parser.state \notin NumberStates
  BY DEF s_body_identity, In, NumberStates
<1>4. s_body_identity_eof => parser.state \notin NumberStates
  BY DEF s_body_identity_eof, In, NumberStates
<1>5. s_message_done => parser.state \notin NumberStates
  BY DEF s_message_done, In, NumberStates
<1>6. s_chunk_size_start => parser.state \notin NumberStates
  BY DEF s_chunk_size_start, In, NumberStates
<1>7. s_chunk_parameters => parser.state \notin NumberStates
  BY DEF s_chunk_parameters, In, NumberStates
<1>8. s_chunk_size_almost_done => parser.state \notin NumberStates
  BY DEF s_chunk_size_almost_done, In, NumberStates
<1>9. s_chunk_data => parser.state \notin NumberStates
  BY DEF s_chunk_data, In, NumberStates
<1>10. s_chunk_data_almost_done => parser.state \notin NumberStates
  BY DEF s_chunk_data_almost_done, In, NumberStates
<1>11. s_chunk_data_done => parser.state \notin NumberStates
  BY DEF s_chunk_data_done, In, NumberStates
<1>12. QED
  BY <1>1, <1>2, <1>3, <1>4, <1>5, <1>6, <1>7, <1>8, <1>9, <1>10,
     <1>11 DEF Bodies

(* In the switch the next step is one of the switch.                         *)
LEMMA InSwitch ==
    ASSUME Next, call = "switch"
    PROVE  FirstLine \/ Headers \/ Bodies
BY DEF Next, Execute, ExecuteAfterError, ExecuteEof, Receive, Parse, LoopHead,
       Leftover

(* A digit is not a blank.                                                   *)
LEMMA DigitNotBlank == " " \notin IS_HEX
<1>1. " " \notin {"0", "1", "2", "3", "4", "5", "6", "7", "8", "9"}
  BY Zenon
<1>2. " " \notin {"a", "b", "c", "d", "e", "f", "A", "B", "C", "D", "E", "F"}
  BY Zenon
<1>3. QED
  BY <1>1, <1>2, Zenon DEF IS_HEX, IS_NUM

(* The digit of a Content-Length that is taken in.                           *)
LEMMA LengthGrows ==
    ASSUME IInv, Next, ValueByte("h_content_length"),
           parser'.http_errno = "OK", c \in IS_NUM
    PROVE  parser'.content_length = 10 * parser.content_length + unhex(c)
<1>1. call = "switch" /\ parser.state = "s_header_value"
  BY DEF ValueByte, InnerLoop, In
<1>2. ValueLength
  BY <1>1, InSwitch, NotInFirstLine, OnlyChunkSize, OnlyValueLength
     DEF NumberStates, s_chunk_size, In
<1>3. c # " "
  BY DigitNotBlank, Zenon DEF IS_HEX
<1>4. \/ /\ ~TooLong(10)
         /\ Inner([parser EXCEPT !.content_length = WithDigit(10)], p + 1)
      \/ Error("INVALID_CONTENT_LENGTH")
  BY <1>2, <1>3, Zenon DEF ValueLength
<1>5. ~Error("INVALID_CONTENT_LENGTH")
  BY DEF Error, Go, IInv, HasFields, Fields
<1>6. parser'.content_length = WithDigit(10)
  BY <1>4, <1>5 DEF Inner, IInv, HasFields, Fields
<1>7. unhex(c) \in 0 .. 10 - 1
  BY Digits
<1>8. QED
  BY <1>4, <1>5, <1>6, <1>7, NumberFits

(* The digit of a chunk size that is taken in.                               *)
LEMMA ChunkSizeGrows ==
    ASSUME IInv, Next, In("s_chunk_size"),
           parser'.http_errno = "OK", c \in IS_HEX
    PROVE  parser'.content_length = 16 * parser.content_length + unhex(c)
<1>1. call = "switch" /\ parser.state = "s_chunk_size"
  BY DEF In
<1>2. s_chunk_size
  BY <1>1, InSwitch, NotInFirstLine, NotInHeaders, OnlyChunkSize
     DEF NumberStates
<1>3. c \notin {CR, ";", " "}
  <2>1. CR \notin IS_HEX /\ ";" \notin IS_HEX
    BY DEF CR, IS_HEX, IS_NUM
  <2>2. QED
    BY <2>1, DigitNotBlank, Zenon
<1>4. \/ /\ ~TooLong(16)
         /\ Break([parser EXCEPT !.content_length = WithDigit(16)])
      \/ Error("INVALID_CONTENT_LENGTH")
  BY <1>2, <1>3, Zenon DEF s_chunk_size
<1>5. ~Error("INVALID_CONTENT_LENGTH")
  BY DEF Error, Go, IInv, HasFields, Fields
<1>6. parser'.content_length = WithDigit(16)
  BY <1>4, <1>5 DEF Break, Go, IInv, HasFields, Fields
<1>7. unhex(c) \in 0 .. 16 - 1
  BY Digits
<1>8. QED
  BY <1>4, <1>5, <1>6, <1>7, NumberFits

(* A Content-Length and the size of a chunk are the numbers that are         *)
(* written, for no digit makes them wrap around (http_parser.c:1607, 1988).  *)
THEOREM LengthsDoNotWrap == Spec => LengthsNeverWrap
<1> DEFINE longer(base) ==
        parser'.content_length = base * parser.content_length + unhex(c)
    A == /\ ValueByte("h_content_length")
            /\ parser'.header_state = "h_content_length"
            /\ parser'.http_errno = "OK" /\ c \in IS_NUM
            => longer(10)
         /\ In("s_chunk_size") /\ parser'.http_errno = "OK" /\ c \in IS_HEX
            => longer(16)
<1>1. IInv /\ [Next]_vars => [A]_vars
  BY LengthGrows, ChunkSizeGrows, Zenon
<1>2. Spec => [][A]_vars
  BY Invariant, <1>1, PTL DEF Spec
<1> QED
  BY <1>2 DEF LengthsNeverWrap

-----------------------------------------------------------------------------
(* The order of the callbacks: a step makes one that may follow, or none.    *)
Quiet == events' = events /\ Trailing' = Trailing
Ordered == (Last' = Last /\ Trailing' = Trailing) \/ Callbacks!Next

(* What a run that goes on, or fails, makes of the fields.                   *)
LEMMA FieldsAfter ==
    ASSUME IInv
    PROVE  /\ \A e : Error(e) => Trailing' = Trailing
           /\ \A new, q, where : Go(new, q, where) => parser' = new
           /\ \A new, q : Inner(new, q) => parser' = new
           /\ \A new : Break(new) \/ REEXECUTE(new) \/ Leave(new)
                       => parser' = new
           /\ \A s : Goto(s).flags = parser.flags
BY DEF IInv, HasFields, Fields, Error, Go, Inner, Break, REEXECUTE, Leave,
       Goto, Trailing

(* The flags that a value sets are not that of the trailers.                 *)
LEMMA ValueFlagsNotTrailing ==
    /\ \A hs \in DOMAIN FlagOf : "F_TRAILING" \notin FlagOf[hs]
    /\ "F_TRAILING" # "F_UPGRADE"
BY DEF FlagOf

(* The last value is complete.                                               *)
LEMMA FinishedFlags ==
    ASSUME IInv, NEW s
    PROVE  ("F_TRAILING" \in Finished(s).flags) = Trailing
<1> DEFINE add == IF parser.header_state \in DOMAIN FlagOf
                  THEN FlagOf[parser.header_state] ELSE {}
<1>1. "F_TRAILING" \notin add
  BY ValueFlagsNotTrailing
<1>2. Finished(s).flags = parser.flags \cup add
  BY DEF Finished, IInv, HasFields, Fields
<1> HIDE DEF add
<1>3. QED
  BY <1>1, <1>2 DEF Trailing

(* The numbers of the first line are in fields of their own.                 *)
LEMMA NumbersAreNotFlags ==
    /\ \A s \in DOMAIN FirstDigit : FirstDigit[s][2] # "flags"
    /\ \A s \in DOMAIN MoreDigits : MoreDigits[s][1] # "flags"
<1>1. \A s \in DOMAIN FirstDigit : FirstDigit[s][2] # "flags"
  BY DEF FirstDigit
<1>2. ASSUME NEW s \in DOMAIN MoreDigits PROVE MoreDigits[s][1] # "flags"
  <2> DEFINE row == MoreDigits[s]
  <2>1. s = "s_res_http_major" => row[1] = "http_major"
    BY DEF MoreDigits
  <2>2. s = "s_res_http_minor" => row[1] = "http_minor"
    BY DEF MoreDigits
  <2>3. s = "s_res_status_code" => row[1] = "status_code"
    BY DEF MoreDigits
  <2>4. s = "s_req_http_major" => row[1] = "http_major"
    BY DEF MoreDigits
  <2>5. s = "s_req_http_minor" => row[1] = "http_minor"
    BY DEF MoreDigits
  <2>6. s \in {"s_res_http_major", "s_res_http_minor", "s_res_status_code",
               "s_req_http_major", "s_req_http_minor"}
    BY DEF MoreDigits
  <2>7. QED
    BY <2>1, <2>2, <2>3, <2>4, <2>5, <2>6
<1>3. QED
  BY <1>1, <1>2

(* What may follow the callbacks that Order allows in a state.               *)
LEMMA Allowed ==
    /\ Last \in {"none", "message_complete", "message_begin"}
       => "message_begin" \in Callbacks!Follows
    /\ Last = "message_begin" => {"url", "status"} \subseteq Callbacks!Follows
    /\ Last \in LineStart(Trailing) =>
           /\ "header_field" \in Callbacks!Follows
           /\ ~Trailing => "headers_complete" \in Callbacks!Follows
           /\ Trailing => "chunk_complete" \in Callbacks!Follows
    /\ Last = "header_field" => "header_value" \in Callbacks!Follows
    /\ Last = "headers_complete" =>
           {"body", "chunk_header", "message_complete"}
           \subseteq Callbacks!Follows
    /\ Last = "chunk_header" /\ ~Trailing => "body" \in Callbacks!Follows
    /\ Last = "body" =>
           {"chunk_complete", "message_complete"} \subseteq Callbacks!Follows
    /\ Last = "chunk_complete" =>
           /\ Trailing => "message_complete" \in Callbacks!Follows
           /\ ~Trailing => "chunk_header" \in Callbacks!Follows
BY DEF Callbacks!Follows, Callbacks!AfterLine, Callbacks!AfterHeaders,
       LineStart, Trailing

(* A callback that may follow is made.                                       *)
LEMMA Hears ==
    ASSUME NEW cb \in Callbacks!Follows, Last' = cb,
           cb = "message_begin" => Trailing' = FALSE,
           cb \notin {"message_begin", "chunk_header"} => Trailing' = Trailing
    PROVE  Ordered
<1>1. Trailing' \in BOOLEAN
  BY DEF Trailing
<1>2. Callbacks!Callback(cb)
  BY <1>1 DEF Callbacks!Callback, Trailing
<1>3. QED
  BY <1>2 DEF Ordered, Callbacks!Next

(* Data that is marked may follow the last callback, or continues it.        *)
LEMMA DataAllowed ==
    ASSUME IInv, call # "outside", NEW m \in Marks, mark[m] # 0
    PROVE  Last = m \/ m \in Callbacks!Follows
<1>1. Order(parser.state, Last, Trailing)
  BY AtWork
<1>2. MarksBelong
  BY DEF IInv
<1>3. CASE m = "header_field"
  <2>1. Last \in LineStart(Trailing) \cup {"header_field"}
    BY <1>1, <1>2, <1>3 DEF MarksBelong, Order, InHeaders
  <2>2. QED
    BY <1>3, <2>1, Allowed
<1>4. CASE m = "header_value"
  BY <1>1, <1>2, <1>4, Allowed DEF MarksBelong, Order, InHeaders
<1>5. CASE m \in {"url", "status"}
  <2>1. Last \in {"message_begin", m}
    BY <1>1, <1>2, <1>5 DEF MarksBelong, Order, InFirstLine
  <2>2. QED
    BY <1>5, <2>1, Allowed
<1>6. CASE m = "body"
  <2>1. parser.state \in BodyMarked
    BY <1>2, <1>6 DEF MarksBelong
  <2>2. ~Trailing
    BY <2>1, BodyNotTrailing DEF BodyMarked, ChunkData
  <2>3. Last \in {"headers_complete", "chunk_header", "body"}
    BY <1>1, <2>1 DEF Order, InBody, BodyMarked
  <2>4. QED
    BY <1>6, <2>2, <2>3, Allowed
<1>7. QED
  BY <1>3, <1>4, <1>5, <1>6 DEF Marks

(* A step without a callback.                                                *)
LEMMA QuietOrdered == Quiet => Ordered
BY DEF Quiet, Ordered, Last

(* The data of a mark is delivered, or none was marked.                      *)
LEMMA DataOrdered ==
    ASSUME IInv, call # "outside", NEW m \in Marks, NEW q,
           CALLBACK_DATA(m, q), Trailing' = Trailing
    PROVE  Ordered
<1>1. Last' = IF mark[m] = 0 THEN Last ELSE m
  BY Delivered DEF IInv
<1>2. CASE mark[m] = 0 \/ Last = m
  BY <1>1, <1>2 DEF Ordered
<1>3. CASE mark[m] # 0 /\ Last # m
  <2>1. m \in Callbacks!Follows /\ m \notin {"message_begin", "chunk_header"}
    BY <1>3, DataAllowed DEF Marks
  <2>2. QED
    BY <1>1, <1>3, <2>1, Hears
<1>4. QED
  BY <1>2, <1>3

(* The steps of the caller and of the loop.                                  *)
LEMMA CallsOrdered ==
    ASSUME IInv, Execute \/ ExecuteAfterError \/ ExecuteEof \/ LoopHead
                 \/ Leftover
    PROVE  Ordered
<1>1. Execute \/ ExecuteAfterError => Quiet
  BY DEF Execute, ExecuteAfterError, Receive, Quiet, Trailing
<1>2. LoopHead => Quiet
  BY FieldsAfter DEF LoopHead, COUNT_HEADER_SIZE, Silent, IInv, HasFields,
     Fields, Trailing, Quiet
<1>3. CASE ExecuteEof
  <2>1. /\ call = "outside" /\ ~closed /\ Trailing' = Trailing
        /\ \/ events' = events
           \/ /\ parser.http_errno = "OK"
              /\ parser.state = "s_body_identity_eof"
              /\ CALLBACK_NOTIFY("message_complete", parser)
    BY <1>3 DEF ExecuteEof, Silent, IInv, HasFields, Fields, Trailing
  <2>2. CASE /\ parser.http_errno = "OK"
             /\ parser.state = "s_body_identity_eof"
             /\ CALLBACK_NOTIFY("message_complete", parser)
    <3>1. Last \in {"headers_complete", "body"}
      BY <2>1, <2>2 DEF IInv, InOrder, Order, InBody
    <3>2. Last' = "message_complete"
      BY <2>2, Notified DEF IInv
    <3>3. "message_complete" \in Callbacks!Follows
      BY <3>1, Allowed
    <3>4. QED
      BY <2>1, <3>2, <3>3, Hears
  <2>3. QED
    BY <2>1, <2>2, QuietOrdered DEF Quiet
<1>4. CASE Leftover
  <2>1. call # "outside" /\ Trailing' = Trailing
    BY <1>4, FieldsAfter DEF Leftover, Trailing
  <2>2. CASE mark = NoMarks
    BY <1>4, <2>1, <2>2, QuietOrdered DEF Leftover, Silent, Quiet
  <2>3. CASE mark # NoMarks
    <3> DEFINE m == CHOOSE x \in Marks : mark[x] # 0
    <3>1. \E x \in Marks : mark[x] # 0
      BY <2>3 DEF IInv, InBuffer, NoMarks
    <3>2. m \in Marks /\ CALLBACK_DATA(m, p)
      BY <1>4, <2>3, <3>1 DEF Leftover
    <3>3. QED
      BY <2>1, <3>2, DataOrdered
  <2>4. QED
    BY <2>2, <2>3
<1>5. QED
  BY <1>1, <1>2, <1>3, <1>4, QuietOrdered

(* A message begins.                                                         *)
LEMMA BeginsOrdered ==
    ASSUME IInv, call = "switch",
           parser.state \in {"s_start_req_or_res", "s_start_res", "s_start_req"},
           NEW q, CALLBACK_NOTIFY("message_begin", q), Trailing' = FALSE
    PROVE  Ordered
<1>1. Last \in {"none", "message_complete", "message_begin"}
  BY AtWork DEF Order, BeforeMessage
<1>2. Last' = "message_begin"
  BY Notified DEF IInv
<1>3. "message_begin" \in Callbacks!Follows
  BY <1>1, Allowed
<1>4. QED
  BY <1>2, <1>3, Hears

(* The flags of a message that begins.                                       *)
LEMMA FreshFlags ==
    ASSUME IInv
    PROVE  DOMAIN Fresh = Fields /\ Fresh.flags = {}
BY DEF IInv, HasFields, Fields, Fresh

(* The steps of the first line.                                              *)
LEMMA FirstLineOrdered == IInv /\ FirstLine => Ordered
<1> SUFFICES ASSUME IInv, FirstLine PROVE Ordered
  OBVIOUS
<1>1. s_dead => Quiet
  BY FieldsAfter DEF s_dead, Silent, IInv, HasFields, Fields,
     Trailing, Quiet
<1>2. s_res_or_resp_H => Quiet
  BY FieldsAfter DEF s_res_or_resp_H, Silent, IInv, HasFields, Fields,
     Trailing, Quiet
<1>3. StrictLiteral => Quiet
  BY FieldsAfter DEF StrictLiteral, Silent, IInv, HasFields, Fields,
     Trailing, Quiet
<1>4. FirstDigitState => Quiet
  <2> SUFFICES ASSUME FirstDigitState PROVE Quiet
    OBVIOUS
  <2> DEFINE row == FirstDigit[parser.state]
  <2>1. /\ parser.state \in DOMAIN FirstDigit /\ Silent
        /\ \/ Break([parser EXCEPT ![row[2]] = unhex(c), !.state = row[3]])
           \/ Error("INVALID_VERSION")
    BY DEF FirstDigitState
  <2>2. row[2] # "flags"
    BY <2>1, NumbersAreNotFlags
  <2> HIDE DEF row
  <2>3. QED
    BY <2>1, <2>2, FieldsAfter DEF Silent, IInv, HasFields, Fields,
       Trailing, Quiet
<1>5. MoreDigitsState => Quiet
  <2> SUFFICES ASSUME MoreDigitsState PROVE Quiet
    OBVIOUS
  <2> DEFINE row == MoreDigits[parser.state]
             number == 10 * parser[row[1]] + unhex(c)
  <2>1. /\ parser.state \in DOMAIN MoreDigits /\ Silent
        /\ \/ \E after \in row[2] : Break(Goto(after[2]))
           \/ Error(row[3])
           \/ Break([parser EXCEPT ![row[1]] = number])
    BY DEF MoreDigitsState
  <2>2. row[1] # "flags"
    BY <2>1, NumbersAreNotFlags
  <2> HIDE DEF row, number
  <2>3. QED
    BY <2>1, <2>2, FieldsAfter DEF Silent, IInv, HasFields, Fields,
       Trailing, Quiet
<1>6. s_res_first_status_code => Quiet
  BY FieldsAfter DEF s_res_first_status_code, Silent, IInv, HasFields, Fields,
     Trailing, Quiet
<1>7. s_res_status_start => Quiet
  BY FieldsAfter DEF s_res_status_start, Silent, MARK, IInv, HasFields, Fields,
     Trailing, Quiet
<1>8. s_req_method => Quiet
  BY FieldsAfter DEF s_req_method, Silent, IInv, HasFields, Fields,
     Trailing, Quiet
<1>9. s_req_spaces_before_url => Quiet
  BY FieldsAfter DEF s_req_spaces_before_url, UrlByte, Silent, MARK, IInv,
     HasFields, Fields,
     Trailing, Quiet
<1>10. s_req_url_start => Quiet
  BY FieldsAfter DEF s_req_url_start, UrlByte, Silent, IInv, HasFields, Fields,
     Trailing, Quiet
<1>11. s_req_http_start => Quiet
  BY FieldsAfter DEF s_req_http_start, Silent, IInv, HasFields, Fields,
     Trailing, Quiet
<1>12. s_req_line_almost_done => Quiet
  BY FieldsAfter DEF s_req_line_almost_done, Silent, IInv, HasFields, Fields,
     Trailing, Quiet
<1>13. CASE s_start_req_or_res
  <2>1. /\ call = "switch" /\ parser.state = "s_start_req_or_res"
        /\ \/ Silent /\ Break(parser)
           \/ /\ CALLBACK_NOTIFY("message_begin", parser)
              /\ Break([Fresh EXCEPT !.state = "s_res_or_resp_H"])
           \/ /\ Silent
              /\ REEXECUTE([Fresh EXCEPT !.type = "HTTP_REQUEST",
                                         !.state = "s_start_req"])
    BY <1>13 DEF s_start_req_or_res, In
  <2>2. ~Trailing
    BY <2>1, AtWork DEF Order, TrailingStates
  <2>3. ~Trailing'
    BY <2>1, <2>2, FieldsAfter, FreshFlags DEF Fields, Trailing
  <2>4. Trailing' = FALSE /\ Trailing' = Trailing
    BY <2>2, <2>3 DEF Trailing
  <2>5. CASE Silent
    BY <2>4, <2>5, QuietOrdered DEF Silent, Quiet
  <2>6. QED
    BY <2>1, <2>4, <2>5, BeginsOrdered
<1>14. CASE s_start_res
  <2>1. /\ call = "switch" /\ parser.state = "s_start_res"
        /\ \/ /\ CALLBACK_NOTIFY("message_begin", parser)
              /\ \/ Break([Fresh EXCEPT !.state = "s_res_H"])
                 \/ Break(Fresh)
           \/ Silent /\ Error("INVALID_CONSTANT")
    BY <1>14 DEF s_start_res, In
  <2>2. CASE Silent /\ Error("INVALID_CONSTANT")
    BY <2>2, FieldsAfter, QuietOrdered DEF Silent, Quiet
  <2>3. CASE /\ CALLBACK_NOTIFY("message_begin", parser)
             /\ \/ Break([Fresh EXCEPT !.state = "s_res_H"])
                \/ Break(Fresh)
    <3>1. Trailing' = FALSE
      BY <2>3, FieldsAfter, FreshFlags DEF Fields, Trailing
    <3>2. QED
      BY <2>1, <2>3, <3>1, BeginsOrdered
  <2>4. QED
    BY <2>1, <2>2, <2>3
<1>15. CASE s_start_req
  <2>1. /\ call = "switch" /\ parser.state = "s_start_req"
        /\ \/ /\ CALLBACK_NOTIFY("message_begin", parser)
              /\ \E x : Break([Fresh EXCEPT !.method = x, !.index = 1,
                                            !.state = "s_req_method"])
           \/ Silent /\ (Break(parser) \/ Error("INVALID_METHOD"))
    BY <1>15 DEF s_start_req, In
  <2>2. CASE Silent /\ (Break(parser) \/ Error("INVALID_METHOD"))
    BY <2>2, FieldsAfter, QuietOrdered DEF Silent, Quiet, Trailing
  <2>3. CASE /\ CALLBACK_NOTIFY("message_begin", parser)
             /\ \E x : Break([Fresh EXCEPT !.method = x, !.index = 1,
                                           !.state = "s_req_method"])
    <3>1. PICK x : Break([Fresh EXCEPT !.method = x, !.index = 1,
                                       !.state = "s_req_method"])
      BY <2>3
    <3>2. parser' = [Fresh EXCEPT !.method = x, !.index = 1,
                                  !.state = "s_req_method"]
      BY <3>1, FieldsAfter
    <3>3. parser'.flags = {}
      BY <3>2, FreshFlags DEF Fields
    <3>4. Trailing' = FALSE
      BY <3>3 DEF Trailing
    <3>5. QED
      BY <2>1, <2>3, <3>4, BeginsOrdered
  <2>4. QED
    BY <2>1, <2>2, <2>3
<1>16. CASE s_res_status
  <2>1. /\ call # "outside" /\ "status" \in Marks
        /\ \/ CALLBACK_DATA("status", p) /\ Break(Goto(LineEnd))
           \/ Silent /\ Break(parser)
    BY <1>16 DEF s_res_status, In, Marks
  <2>2. Trailing' = Trailing
    BY <2>1, FieldsAfter DEF Trailing
  <2>3. QED
    BY <2>1, <2>2, DataOrdered, QuietOrdered DEF Silent, Quiet
<1>17. CASE s_req_url
  <2>1. /\ call # "outside" /\ "url" \in Marks
        /\ CALLBACK_DATA("url", p) \/ Silent
        /\ \/ \E s : Break(Goto(s))
           \/ \E s : Break([parser EXCEPT !.http_major = 0, !.http_minor = 9,
                                          !.state = s])
           \/ Error("INVALID_URL")
    BY <1>17 DEF s_req_url, UrlByte, Marks
  <2>2. Trailing' = Trailing
    BY <2>1, FieldsAfter DEF Trailing, IInv, HasFields, Fields
  <2>3. QED
    BY <2>1, <2>2, DataOrdered, QuietOrdered DEF Silent, Quiet
<1>18. QED
  BY <1>1, <1>2, <1>3, <1>4, <1>5, <1>6, <1>7, <1>8, <1>9, <1>10, <1>11,
     <1>12, <1>13, <1>14, <1>15, <1>16, <1>17, QuietOrdered DEF FirstLine

(* The steps of the headers.                                                 *)
LEMMA HeadersOrdered == IInv /\ Headers => Ordered
<1> SUFFICES ASSUME IInv, Headers PROVE Ordered
  OBVIOUS
<1>1. s_header_field_start => Quiet
  BY FieldsAfter DEF s_header_field_start, Silent, MARK, IInv, HasFields,
     Fields,
     Trailing, Quiet
<1>2. FieldByte => Quiet
  BY FieldsAfter DEF FieldByte, Match, Inner, IInv, HasFields, Fields,
     Trailing, Quiet
<1>3. s_header_value_discard_ws => Quiet
  BY FieldsAfter DEF s_header_value_discard_ws, Silent, IInv, HasFields,
     Fields,
     Trailing, Quiet
<1>4. s_header_value_start => Quiet
  <2> SUFFICES ASSUME s_header_value_start PROVE Quiet
    OBVIOUS
  <2> DEFINE value == [parser EXCEPT !.state = "s_header_value", !.index = 0]
  <2>1. /\ MARK("header_value")
        /\ \/ Break([value EXCEPT !.flags = @ \cup {"F_UPGRADE"},
                                  !.header_state = "h_general"])
           \/ \E state : Break([value EXCEPT !.header_state = state])
           \/ Break(value)
           \/ Break([value EXCEPT !.content_length = unhex(c)])
           \/ Error("INVALID_CONTENT_LENGTH")
    BY DEF s_header_value_start
  <2>2. CASE Break([value EXCEPT !.flags = @ \cup {"F_UPGRADE"},
                                 !.header_state = "h_general"])
    <3>1. parser'.flags = parser.flags \cup {"F_UPGRADE"}
      BY <2>2, FieldsAfter DEF IInv, HasFields, Fields
    <3>2. Trailing' = Trailing
      BY <3>1, ValueFlagsNotTrailing DEF Trailing
    <3>3. QED
      BY <2>1, <3>2 DEF MARK, Quiet
  <2>3. CASE \/ \E state : Break([value EXCEPT !.header_state = state])
             \/ Break(value)
             \/ Break([value EXCEPT !.content_length = unhex(c)])
    <3>1. parser'.flags = parser.flags
      BY <2>3, FieldsAfter DEF IInv, HasFields, Fields
    <3>2. QED
      BY <2>1, <3>1 DEF MARK, Trailing, Quiet
  <2>4. QED
    BY <2>1, <2>2, <2>3, FieldsAfter DEF MARK, Quiet
<1>5. ValueGeneral => Quiet
  BY FieldsAfter DEF ValueGeneral, ValueByte, Inner, IInv, HasFields, Fields,
     Trailing, Quiet
<1>6. ValueLength => Quiet
  BY FieldsAfter DEF ValueLength, ValueByte, Inner, Silent, IInv, HasFields,
     Fields,
     Trailing, Quiet
<1>7. ValueWord => Quiet
  BY FieldsAfter DEF ValueWord, ValueByte, Match, Inner, IInv, HasFields,
     Fields,
     Trailing, Quiet
<1>8. ValueTokenStart => Quiet
  BY FieldsAfter DEF ValueTokenStart, ValueByte, Recognised, Inner, IInv,
     HasFields, Fields,
     Trailing, Quiet
<1>9. ValueToken => Quiet
  BY FieldsAfter DEF ValueToken, ValueByte, Inner, IInv, HasFields, Fields,
     Trailing, Quiet
<1>10. ValueAfterChunked => Quiet
  BY FieldsAfter DEF ValueAfterChunked, ValueByte, Recognised, Inner, IInv,
     HasFields, Fields,
     Trailing, Quiet
<1>11. ValueAfterWord => Quiet
  <2> SUFFICES ASSUME ValueAfterWord PROVE Quiet
    OBVIOUS
  <2>1. PICK hs \in DOMAIN FlagOf :
          \/ Inner([parser EXCEPT !.flags = @ \cup FlagOf[hs], !.index = 0,
                    !.header_state = "h_matching_connection_token_start"], p + 1)
          \/ Inner(parser, p + 1)
          \/ Inner([parser EXCEPT
                        !.header_state = "h_matching_connection_token"], p + 1)
    BY DEF ValueAfterWord, Recognised
  <2>2. "F_TRAILING" \notin FlagOf[hs] /\ events' = events
    BY <2>1, ValueFlagsNotTrailing DEF Inner
  <2>3. \/ parser'.flags = parser.flags \cup FlagOf[hs]
        \/ parser'.flags = parser.flags
    BY <2>1, FieldsAfter DEF IInv, HasFields, Fields
  <2>4. QED
    BY <2>2, <2>3 DEF Trailing, Quiet
<1>12. s_header_value_lws => Quiet
  BY FieldsAfter, FinishedFlags DEF s_header_value_lws, Silent, Trailing, Quiet
<1>13. CASE FieldEnds
  <2> DEFINE counted == COUNT_HEADER_SIZE(InnerRead)
  <2>1. /\ call # "outside" /\ "header_field" \in Marks
        /\ CALLBACK_DATA("header_field", p) \/ Silent
        /\ \/ Go(counted, p, "loop")
           \/ Break([counted EXCEPT !.state = "s_header_value_discard_ws"])
           \/ \E e : Error(e)
    BY <1>13 DEF FieldEnds, In, Marks
  <2>2. Trailing' = Trailing
    BY <2>1, FieldsAfter
       DEF Trailing, COUNT_HEADER_SIZE, IInv, HasFields, Fields
  <2>3. QED
    BY <2>1, <2>2, DataOrdered, QuietOrdered DEF Silent, Quiet
<1>14. CASE ValueEnds
  <2> DEFINE counted == COUNT_HEADER_SIZE(InnerRead)
             done == [counted EXCEPT !.state = "s_header_almost_done"]
  <2>1. /\ call # "outside" /\ "header_value" \in Marks
        /\ CALLBACK_DATA("header_value", p) \/ Silent
        /\ \/ Go(counted, p, "loop")
           \/ Break(done) \/ REEXECUTE(done)
           \/ \E e : Error(e)
    BY <1>14 DEF ValueEnds, In, Marks
  <2>2. Trailing' = Trailing
    BY <2>1, FieldsAfter
       DEF Trailing, COUNT_HEADER_SIZE, IInv, HasFields, Fields
  <2>3. QED
    BY <2>1, <2>2, DataOrdered, QuietOrdered DEF Silent, Quiet
<1>15. CASE s_header_value_discard_lws
  <2>1. /\ call = "switch" /\ parser.state = "s_header_value_discard_lws"
        /\ \/ Silent /\ Break(Goto("s_header_value_discard_ws"))
           \/ /\ events' = Join("header_value", <<>>)
              /\ REEXECUTE(Finished("s_header_field_start"))
    BY <1>15 DEF s_header_value_discard_lws, In
  <2>2. Trailing' = Trailing
    BY <2>1, FieldsAfter, FinishedFlags DEF Trailing
  <2>3. Last = "header_field"
    BY <2>1, AtWork DEF Order, InHeaders
  <2>4. CASE events' = Join("header_value", <<>>)
    <3>1. Last' = "header_value"
      BY <2>4, Joined DEF IInv
    <3>2. "header_value" \in Callbacks!Follows
      BY <2>3, Allowed
    <3>3. QED
      BY <2>2, <3>1, <3>2, Hears
  <2>5. QED
    BY <2>1, <2>2, <2>4, QuietOrdered DEF Silent, Quiet
<1>16. QED
  BY <1>1, <1>2, <1>3, <1>4, <1>5, <1>6, <1>7, <1>8, <1>9, <1>10, <1>11,
     <1>12, <1>13, <1>14, <1>15, QuietOrdered DEF Headers

(* A notification that may follow, where the flags do not change.            *)
LEMMA TellsOrdered ==
    ASSUME IInv, NEW cb \in Callbacks!Follows, NEW q, CALLBACK_NOTIFY(cb, q),
           cb \in {"headers_complete", "message_complete", "chunk_header",
                  "chunk_complete"},
           Trailing' = Trailing \/ cb = "chunk_header"
    PROVE  Ordered
<1>1. Last' = cb
  BY Notified DEF IInv
<1>2. QED
  BY <1>1, Hears

(* The steps of the bodies.                                                  *)
LEMMA BodiesOrdered == IInv /\ Bodies => Ordered
<1> SUFFICES ASSUME IInv, Bodies PROVE Ordered
  OBVIOUS
<1>1. s_body_identity_eof => Quiet
  BY FieldsAfter DEF s_body_identity_eof, MARK, IInv, HasFields, Fields,
     Trailing, Quiet
<1>2. s_chunk_size_start => Quiet
  BY FieldsAfter DEF s_chunk_size_start, Silent, IInv, HasFields, Fields,
     Trailing, Quiet
<1>3. s_chunk_size => Quiet
  BY FieldsAfter DEF s_chunk_size, Silent, IInv, HasFields, Fields,
     Trailing, Quiet
<1>4. s_chunk_parameters => Quiet
  BY FieldsAfter DEF s_chunk_parameters, Silent, IInv, HasFields, Fields,
     Trailing, Quiet
<1>5. s_chunk_data => Quiet
  BY FieldsAfter DEF s_chunk_data, Taken, MARK, IInv, HasFields, Fields,
     Trailing, Quiet
<1>6. CASE s_headers_almost_done
  <2> DEFINE upgrade == \/ {"F_UPGRADE", "F_CONNECTION_UPGRADE"}
                           \subseteq parser.flags
                        \/ parser.method = "CONNECT"
             done == [parser EXCEPT !.state = "s_headers_done",
                                    !.upgrade = upgrade]
  <2>1. /\ call = "switch" /\ parser.state = "s_headers_almost_done"
        /\ \/ Silent /\ Error("STRICT")
           \/ /\ Trailing
              /\ CALLBACK_NOTIFY("chunk_complete", parser)
              /\ REEXECUTE(Goto("s_message_done"))
           \/ /\ ~Trailing
              /\ CALLBACK_NOTIFY("headers_complete", done)
              /\ \/ REEXECUTE([done EXCEPT !.flags = @ \cup {"F_SKIPBODY"}])
                 \/ REEXECUTE(done)
    BY <1>6 DEF s_headers_almost_done, In, Trailing
  <2>2. DOMAIN done = Fields /\ done.flags = parser.flags
    BY DEF IInv, HasFields, Fields
  <2>3. Last \in LineStart(Trailing)
    BY <2>1, AtWork DEF Order, InHeaders
  <2> HIDE DEF done
  <2>4. parser'.flags \in {parser.flags, parser.flags \cup {"F_SKIPBODY"}}
        \/ Error("STRICT")
    BY <2>1, <2>2, FieldsAfter DEF Fields
  <2>5. Trailing' = Trailing
    BY <2>4, FieldsAfter DEF Trailing
  <2>6. QED
    BY <2>1, <2>3, <2>5, Allowed, TellsOrdered, QuietOrdered DEF Silent, Quiet
<1>7. CASE s_headers_done
  <2> DEFINE q == Restarted(parser)
             ended == [q EXCEPT !.state = NEW_MESSAGE(q)]
  <2>1. /\ call = "switch" /\ parser.state = "s_headers_done"
        /\ \/ /\ CALLBACK_NOTIFY("message_complete", ended)
              /\ Leave(ended) \/ Break(ended)
           \/ Silent /\ \E s : Break([q EXCEPT !.state = s])
    BY <1>7 DEF s_headers_done, In
  <2>2. Trailing' = Trailing
    BY <2>1, FieldsAfter DEF Trailing, Restarted, IInv, HasFields, Fields
  <2>3. Last = "headers_complete"
    BY <2>1, AtWork DEF Order, InBody
  <2> HIDE DEF ended
  <2>4. QED
    BY <2>1, <2>2, <2>3, Allowed, TellsOrdered, QuietOrdered DEF Silent, Quiet
<1>8. CASE s_body_identity
  <2>1. call = "switch" /\ parser.state = "s_body_identity"
    BY <1>8 DEF s_body_identity, In
  <2>2. Trailing' = Trailing
    <3>1. \/ \E s, last : Go([Taken EXCEPT !.state = s], last, "switch")
          \/ \E last : Go(Taken, last, "loop")
      BY <1>8 DEF s_body_identity
    <3>2. QED
      BY <3>1, FieldsAfter DEF Taken, Trailing, IInv, HasFields, Fields
  <2>3. Last \in {"headers_complete", "body"}
    BY <2>1, AtWork DEF Order, InBody
  <2>4. CASE Taken.content_length = 0
    <3>1. Last' = "body"
      BY <1>8, <2>4, Joined DEF s_body_identity, IInv
    <3>2. Last = "headers_complete" => "body" \in Callbacks!Follows
      BY Allowed
    <3>3. QED
      BY <2>2, <2>3, <3>1, <3>2, Hears DEF Ordered
  <2>5. CASE Taken.content_length # 0
    BY <1>8, <2>2, <2>5, QuietOrdered DEF s_body_identity, MARK, Quiet
  <2>6. QED
    BY <2>4, <2>5
<1>9. CASE s_message_done
  <2> DEFINE ended == Goto(NEW_MESSAGE(parser))
  <2>1. /\ call = "switch" /\ parser.state = "s_message_done"
        /\ CALLBACK_NOTIFY("message_complete", ended)
        /\ Leave(ended) \/ Break(ended)
    BY <1>9 DEF s_message_done, In
  <2>2. Trailing' = Trailing
    BY <2>1, FieldsAfter DEF Trailing
  <2>3. Last = IF Trailing THEN "chunk_complete" ELSE "body"
    BY <2>1, AtWork DEF Order, InBody
  <2> HIDE DEF ended
  <2>4. "message_complete" \in Callbacks!Follows
    BY <2>3, Allowed
  <2>5. QED
    BY <2>1, <2>2, <2>4, TellsOrdered
<1>10. CASE s_chunk_size_almost_done
  <2>1. /\ call = "switch" /\ parser.state = "s_chunk_size_almost_done"
        /\ \/ Silent /\ Error("STRICT")
           \/ \E next : CALLBACK_NOTIFY("chunk_header", next)
    BY <1>10 DEF s_chunk_size_almost_done, In
  <2>2. CASE Silent /\ Error("STRICT")
    BY <2>2, FieldsAfter, QuietOrdered DEF Silent, Quiet
  <2>3. ASSUME NEW next, CALLBACK_NOTIFY("chunk_header", next)
        PROVE  Ordered
    <3>1. Last \in {"headers_complete", "chunk_complete"}
      BY <2>1, AtWork DEF Order, InBody, ChunkSize
    <3>2. ~Trailing
      BY <2>1, AtWork DEF Order, TrailingStates
    <3>3. "chunk_header" \in Callbacks!Follows
      BY <3>1, <3>2, Allowed
    <3>4. QED
      BY <2>3, <3>3, TellsOrdered
  <2>4. QED
    BY <2>1, <2>2, <2>3
<1>11. CASE s_chunk_data_almost_done
  <2>1. /\ call # "outside" /\ "body" \in Marks
        /\ \/ CALLBACK_DATA("body", p) /\ Break(Goto("s_chunk_data_done"))
           \/ Silent /\ Error("STRICT")
    BY <1>11 DEF s_chunk_data_almost_done, In, Marks
  <2>2. Trailing' = Trailing
    BY <2>1, FieldsAfter DEF Trailing
  <2>3. QED
    BY <2>1, <2>2, DataOrdered, QuietOrdered DEF Silent, Quiet
<1>12. CASE s_chunk_data_done
  <2> DEFINE new == [Restarted(parser) EXCEPT !.state = "s_chunk_size_start"]
  <2>1. /\ call = "switch" /\ parser.state = "s_chunk_data_done"
        /\ \/ Silent /\ Error("STRICT")
           \/ CALLBACK_NOTIFY("chunk_complete", parser) /\ Break(new)
    BY <1>12 DEF s_chunk_data_done, In
  <2>2. Trailing' = Trailing
    BY <2>1, FieldsAfter DEF Trailing, Restarted, IInv, HasFields, Fields
  <2>3. Last = "body"
    BY <2>1, AtWork DEF Order, InBody
  <2> HIDE DEF new
  <2>4. QED
    BY <2>1, <2>2, <2>3, Allowed, TellsOrdered, QuietOrdered DEF Silent, Quiet
<1>13. QED
  BY <1>1, <1>2, <1>3, <1>4, <1>5, <1>6, <1>7, <1>8, <1>9, <1>10, <1>11,
     <1>12, QuietOrdered DEF Bodies

(* The parser is a refinement of ParserCallbacks: wherever the bytes are cut *)
(* and whatever they are, its callbacks come in the order a user relies on   *)
(* (http_parser.h:236-250).                                                  *)
THEOREM CallbacksInOrder == Spec => ImplementsCallbacks
<1>1. Init => Callbacks!Init
  BY DEF Init, http_parser_init, Last, Callbacks!Init
<1>2. IInv /\ [Next]_vars
      => [Callbacks!Next]_<<Last, "F_TRAILING" \in parser.flags>>
  <2>1. IInv /\ Next => Ordered
    BY CallsOrdered, FirstLineOrdered, HeadersOrdered, BodiesOrdered
       DEF Next, Parse
  <2>2. UNCHANGED vars => Ordered
    BY DEF vars, Ordered, Last, Trailing
  <2>3. QED
    BY <2>1, <2>2 DEF Ordered, Trailing
<1> QED
  BY Invariant, <1>1, <1>2, PTL DEF Spec, ImplementsCallbacks, Callbacks!Spec
=============================================================================
