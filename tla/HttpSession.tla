---------------------------- MODULE HttpSession ----------------------------
(***************************************************************************)
(* One http_session: the 30 s timer, the read loop into data_, the request *)
(* parser's callbacks, the asynchronous writes and close().                *)
(*                                                                         *)
(* Two threads touch a session.  The acceptor thread runs OnAccept, which  *)
(* registers it and calls start().  Every completion handler runs on the   *)
(* one thread of the session's io_service, so handlers never overlap; they *)
(* can overlap with start().  The client, the kernel and the clock are the *)
(* environment.                                                            *)
(*                                                                         *)
(* What a client sends is a sequence of units: "head" and "frame" units    *)
(* (request line, headers, chunk sizes), "data" units (body bytes) and     *)
(* "bad" units (what http_parser rejects).  A unit with last = TRUE ends a *)
(* message; keep says whether http_should_keep_alive holds for it.  pos_   *)
(* is never reset, so a position of the stream is a position of data_.     *)
(***************************************************************************)
EXTENDS Integers, Sequences

CONSTANTS
    MaxLength,   \* max_length: the size of data_
    Streams,     \* the byte streams a client may send
    RespSizes,   \* the body lengths a response may have
    WholeSend,   \* the socket's send buffer always has room for a response
    Timeout,     \* the 30 s of timer_, in ticks after the constructor ran
    MaxTime      \* bound: the clock stops here

Unit == [kind : {"head", "data", "frame", "bad"}, last : BOOLEAN, keep : BOOLEAN]

ASSUME MaxLengthAssumption == MaxLength \in Nat \ {0}
ASSUME StreamsAssumption   == Streams \subseteq Seq(Unit)
ASSUME RespSizesAssumption == RespSizes \subseteq Nat \ {0}
ASSUME WholeSendAssumption == WholeSend \in BOOLEAN
ASSUME TimeAssumption      == Timeout \in Nat /\ MaxTime \in Nat /\ Timeout < MaxTime

VARIABLES
    stream,      \* what this client sends; never changes
    now,         \* the clock; the session was constructed at 0
    phase,       \* where OnAccept is with this session
    accepted,    \* when the connection was accepted
    registered,  \* the session is in http_server::session_
    open,        \* socket_ has not been closed
    timer,       \* timer_'s wait: "none", "waiting", "expired" (handler queued)
    reading,     \* the read: "none", "pending", "ready" or "failed" (handler queued)
    got,         \* the length the completed read reports
    handler,     \* onRead's progress: "idle", "parse", "complete"
    at,          \* how far the parser has come in data_
    parser,      \* "ok", or "dead" once it has an error or saw a last message
    pos_,        \* http_session::pos_
    process_,    \* http_session::process_
    body,        \* request_.body_ and len_, as an offset in data_ and a length
    clen,        \* the Content-Length header of response_, 0 while it has none
    invoked,     \* history: for each invoke, where its message ended and its body
    writes,      \* for each invoke its async_write: size, units left, status
    wire,        \* history: units sent, each with its response and whether the
                 \* buffer it was copied from was still alive
    closedBy     \* history: what called close() first

clock    == <<now, stream>>
acceptor == <<phase, accepted>>
onread   == <<got, handler, at, parser, pos_, process_, body>>
output   == <<clen, invoked, writes, wire>>
sock     == <<registered, open, closedBy>>
vars == <<stream, now, phase, accepted, registered, open, timer, reading, got,
          handler, at, parser, pos_, process_, body, clen, invoked, writes, wire,
          closedBy>>

Closers == {"timer", "readError", "full", "written", "writeError"}

Write == [size : Nat, left : Nat, declared : Nat,
          status : {"waiting", "ready", "failed", "done"}]

Slice == [off : Nat, len : Nat]

(* The shape of every variable; pos_ + got never exceeds data_ and what    *)
(* the client has sent, so neither a read nor a parse leaves the buffer.   *)
TypeOK ==
    /\ stream \in Streams
    /\ now \in 0..MaxTime
    /\ phase \in {"accepting", "insert", "wait", "read", "returning", "done", "refused"}
    /\ accepted \in 0..MaxTime
    /\ registered \in BOOLEAN /\ open \in BOOLEAN
    /\ timer \in {"none", "waiting", "expired"}
    /\ reading \in {"none", "pending", "ready", "failed"}
    /\ handler \in {"idle", "parse", "complete"}
    /\ parser \in {"ok", "dead"}
    /\ pos_ \in Nat /\ got \in Nat /\ at \in Nat
    /\ pos_ + got <= MaxLength /\ pos_ + got <= Len(stream)
    /\ at <= pos_ + got
    /\ process_ \in BOOLEAN
    /\ body \in Slice /\ body.off + body.len <= at
    /\ clen \in Nat
    /\ invoked \in Seq([end : Nat, body : Slice])
    /\ writes \in Seq(Write)
    /\ wire \in Seq([resp : Nat, live : BOOLEAN])
    /\ closedBy \in Closers \cup {"none"}

Init ==
    /\ stream \in Streams
    /\ now = 0 /\ phase = "accepting" /\ accepted = 0
    /\ registered = FALSE /\ open = TRUE
    /\ timer = "none" /\ reading = "none" /\ got = 0
    /\ handler = "idle" /\ at = 0 /\ parser = "ok"
    /\ pos_ = 0 /\ process_ = FALSE /\ body = [off |-> 0, len |-> 0]
    /\ clen = 0 /\ invoked = <<>> /\ writes = <<>> /\ wire = <<>>
    /\ closedBy = "none"

-----------------------------------------------------------------------------
(* Who owns the session: session_, OnAccept's new_session, or the handler  *)
(* that is running.  A queued handler only has a weak_ptr.                 *)
Held == phase \in {"accepting", "insert", "wait", "read", "returning"}
Alive == registered \/ Held \/ handler # "idle"
Locks_NoLock == TRUE
Locks == Alive

(* close(): the operations in progress on the socket fail, and the session *)
(* leaves session_.  Completed operations keep their result.               *)
Fail(w) == IF w.status = "waiting" THEN [w EXCEPT !.status = "failed"] ELSE w

Close_NotErased(why) ==
    /\ open' = FALSE
    /\ UNCHANGED registered
    /\ closedBy' = IF closedBy = "none" THEN why ELSE closedBy
Close(why) ==
    /\ open' = FALSE
    /\ registered' = FALSE
    /\ closedBy' = IF closedBy = "none" THEN why ELSE closedBy

(* What close() does to a read and to writes in progress.                  *)
ReadAfterClose  == IF reading = "pending" THEN "failed" ELSE reading
WritesAfterClose == [i \in DOMAIN writes |-> Fail(writes[i])]

(* do_read(): on a closed socket the read completes at once with an error. *)
DoRead_Never == UNCHANGED reading
DoRead == reading' = IF open THEN "pending" ELSE "failed"

-----------------------------------------------------------------------------
(* The acceptor thread: OnAccept and start().                              *)

Accept ==
    /\ phase = "accepting"
    /\ phase' = "insert" /\ accepted' = now
    /\ UNCHANGED <<clock, sock, timer, reading, onread, output>>

AcceptFails ==
    /\ phase = "accepting"
    /\ phase' = "refused"
    /\ UNCHANGED <<clock, accepted, sock, timer, reading, onread, output>>

Insert_Forgotten ==
    /\ phase = "insert"
    /\ phase' = "wait"
    /\ UNCHANGED <<clock, accepted, sock, timer, reading, onread, output>>
Insert ==
    /\ phase = "insert"
    /\ phase' = "wait" /\ registered' = TRUE
    /\ UNCHANGED <<clock, accepted, open, closedBy, timer, reading, onread, output>>

StartTimer_Forgotten ==
    /\ phase = "wait"
    /\ phase' = "read" /\ UNCHANGED timer
    /\ UNCHANGED <<clock, accepted, sock, reading, onread, output>>
StartTimer ==
    /\ phase = "wait"
    /\ phase' = "read" /\ timer' = "waiting"
    /\ UNCHANGED <<clock, accepted, sock, reading, onread, output>>

StartRead ==
    /\ phase = "read"
    /\ phase' = "returning" /\ DoRead
    /\ UNCHANGED <<clock, accepted, sock, timer, onread, output>>

(* OnAccept returns and drops new_session.                                 *)
OnAcceptReturns ==
    /\ phase = "returning"
    /\ phase' = "done"
    /\ UNCHANGED <<clock, accepted, sock, timer, reading, onread, output>>

-----------------------------------------------------------------------------
(* The environment: the clock, the client and the kernel.                  *)

Tick ==
    /\ now < MaxTime
    /\ now' = now + 1
    /\ UNCHANGED <<stream, acceptor, sock, timer, reading, onread, output>>

Expire ==
    /\ timer = "waiting" /\ now >= Timeout
    /\ timer' = "expired"
    /\ UNCHANGED <<clock, acceptor, sock, reading, onread, output>>

(* async_read_some is given the room left in data_ and completes with any  *)
(* part of what the client has sent by then.                               *)
Room_WholeBuffer == MaxLength
Room == MaxLength - pos_
ReadReady ==
    /\ reading = "pending" /\ handler = "idle"
    /\ \E n \in 1..Room :
           pos_ + n <= Len(stream) /\ got' = n
    /\ reading' = "ready"
    /\ UNCHANGED <<clock, acceptor, sock, timer, handler, at, parser, pos_,
                   process_, body, output>>

(* End of file, a reset: the read completes with an error.                 *)
ReadFails ==
    /\ reading = "pending" /\ handler = "idle"
    /\ reading' = "failed"
    /\ UNCHANGED <<clock, acceptor, sock, timer, onread, output>>

(* async_write is done when everything is sent.                            *)
AllSent_Some(n, size) == n > 0
AllSent(n, size) == n = size

Units(i, n, alive) == [k \in 1..n |-> [resp |-> i, live |-> alive]]

(* The reactor finds room for more of a response.  The string the buffer   *)
(* pointed to was a temporary of do_write's caller and is gone by now.     *)
WriteSome(i) ==
    /\ writes[i].status = "waiting" /\ handler = "idle"
    /\ \E n \in 1..writes[i].left :
           /\ wire' = wire \o Units(i, n, FALSE)
           /\ writes' = [writes EXCEPT ![i].left = @ - n,
                           ![i].status = IF AllSent(n, writes[i].left) THEN "ready" ELSE @]
    /\ UNCHANGED <<clock, acceptor, sock, timer, reading, onread, clen, invoked>>

WriteFails(i) ==
    /\ writes[i].status = "waiting" /\ handler = "idle"
    /\ writes' = [writes EXCEPT ![i].status = "failed"]
    /\ UNCHANGED <<clock, acceptor, sock, timer, reading, onread, clen, invoked, wire>>

-----------------------------------------------------------------------------
(* onRead: http_parser_execute with its callbacks, then the buffer check.  *)

OnReadData ==
    /\ reading = "ready" /\ handler = "idle" /\ Locks
    /\ handler' = "parse" /\ reading' = "none"
    /\ UNCHANGED <<clock, acceptor, sock, timer, got, at, parser, pos_, process_,
                   body, output>>

OnReadError ==
    /\ reading = "failed" /\ handler = "idle" /\ Locks
    /\ reading' = "none"
    /\ Close("readError") /\ writes' = WritesAfterClose
    /\ UNCHANGED <<clock, acceptor, timer, onread, clen, invoked, wire>>

Parsing == handler = "parse" /\ parser = "ok" /\ at < pos_ + got
AfterUnit(j) == handler' = IF stream[j].last THEN "complete" ELSE "parse"

(* A unit for which the session has set no callback.                       *)
ParseFrame ==
    /\ Parsing /\ stream[at + 1].kind \in {"head", "frame"}
    /\ at' = at + 1 /\ AfterUnit(at + 1)
    /\ UNCHANGED <<clock, acceptor, sock, timer, reading, got, parser, pos_,
                   process_, body, output>>

(* on_body gets the body bytes there are in this buffer, up to the end of  *)
(* the body or of the chunk, and replaces body_ and len_.                  *)
BodyRun(j) ==
    /\ \A i \in (at + 1)..j : stream[i].kind = "data"
    /\ \A i \in (at + 1)..(j - 1) : ~stream[i].last
    /\ j < pos_ + got /\ ~stream[j].last => stream[j + 1].kind # "data"
OnBody_WrongBase(j) == [off |-> at - pos_, len |-> j - at]
OnBody(j) == [off |-> at, len |-> j - at]
ParseBody ==
    /\ Parsing /\ stream[at + 1].kind = "data"
    /\ \E j \in (at + 1)..(pos_ + got) :
           BodyRun(j) /\ body' = OnBody(j) /\ at' = j /\ AfterUnit(j)
    /\ UNCHANGED <<clock, acceptor, sock, timer, reading, got, parser, pos_,
                   process_, output>>

ParseError ==
    /\ Parsing /\ stream[at + 1].kind = "bad"
    /\ parser' = "dead"
    /\ UNCHANGED <<clock, acceptor, sock, timer, reading, got, handler, at, pos_,
                   process_, body, output>>

(* do_write: async_write sends at once what the send buffer takes, while   *)
(* the response string still exists, and leaves the rest to the reactor.   *)
SentAtOnce(size) ==
    IF ~open THEN {0} ELSE IF WholeSend THEN {size} ELSE 0..size
(* response::end() sets the header Content-Length if there is none yet.    *)
ContentLength(size) == IF clen = 0 THEN size ELSE clen
DoWrite_Posted(size, n) ==
    /\ UNCHANGED wire
    /\ writes' = Append(writes,
           [size |-> size, left |-> size, declared |-> ContentLength(size),
            status |-> IF open THEN "waiting" ELSE "failed"])
DoWrite(size, n) ==
    /\ wire' = wire \o Units(Len(invoked) + 1, n, TRUE)
    /\ writes' = Append(writes,
           [size |-> size, left |-> size - n,
            declared |-> ContentLength(size),
            status |-> IF ~open THEN "failed"
                       ELSE IF AllSent(n, size) THEN "ready" ELSE "waiting"])

(* on_message_complete: invoke, process_ = true, do_write(response_.end()).*)
SetProcessed_Forgotten == UNCHANGED process_
SetProcessed == process_' = TRUE
MessageComplete ==
    /\ handler = "complete"
    /\ invoked' = Append(invoked, [end |-> at, body |-> body])
    /\ SetProcessed
    /\ \E size \in RespSizes : \E n \in SentAtOnce(size) :
           DoWrite(size, n) /\ clen' = ContentLength(size)
    /\ parser' = IF stream[at].keep THEN "ok" ELSE "dead"
    /\ handler' = "parse"
    /\ UNCHANGED <<clock, acceptor, sock, timer, reading, got, at, pos_, body>>

(* http_parser_execute is done with the buffer, or will not take any more  *)
(* of it; its result is not looked at.                                     *)
Executed == handler = "parse" /\ (parser = "dead" \/ at = pos_ + got)
BufferFull_OffByOne == pos_ + got >= MaxLength - 1
BufferFull_TooLate == pos_ + got > MaxLength
BufferFull == pos_ + got >= MaxLength
AfterExecute ==
    IF process_ THEN
        UNCHANGED <<sock, reading, writes>>
    ELSE IF BufferFull THEN
        /\ Close("full")
        /\ reading' = ReadAfterClose /\ writes' = WritesAfterClose
    ELSE
        DoRead /\ UNCHANGED <<sock, writes>>
OnReadReturns ==
    /\ Executed
    /\ handler' = "idle" /\ pos_' = pos_ + got /\ got' = 0
    /\ AfterExecute
    /\ UNCHANGED <<clock, acceptor, timer, at, parser, process_, body, clen,
                   invoked, wire>>

-----------------------------------------------------------------------------
(* The write's and the timer's handlers.                                   *)

(* The write's handler cancels the timer, whatever became of the write.  A *)
(* wait that has already expired is not cancelled any more.                *)
OnWrite(i) ==
    /\ writes[i].status \in {"ready", "failed"} /\ handler = "idle" /\ Locks
    /\ timer' = IF timer = "waiting" THEN "none" ELSE timer
    /\ Close(IF writes[i].status = "ready" THEN "written" ELSE "writeError")
    /\ reading' = ReadAfterClose
    /\ writes' = [WritesAfterClose EXCEPT ![i].status = "done"]
    /\ UNCHANGED <<clock, acceptor, onread, clen, invoked, wire>>

OnTimer ==
    /\ timer = "expired" /\ handler = "idle" /\ Locks
    /\ timer' = "none"
    /\ Close("timer")
    /\ reading' = ReadAfterClose /\ writes' = WritesAfterClose
    /\ UNCHANGED <<clock, acceptor, onread, clen, invoked, wire>>

(* The session is destroyed: its members cancel what is in progress, and   *)
(* no weak_ptr of a queued handler locks any more.                         *)
Pending(w) == w.status # "done"
Destroyed ==
    /\ ~Alive
    /\ reading # "none" \/ timer # "none" \/ \E i \in DOMAIN writes : Pending(writes[i])
    /\ reading' = "none" /\ timer' = "none"
    /\ writes' = [i \in DOMAIN writes |-> [writes[i] EXCEPT !.status = "done"]]
    /\ UNCHANGED <<clock, acceptor, sock, onread, clen, invoked, wire>>

(* Nothing is left to do for this session.                                 *)
Over ==
    /\ ~Alive /\ reading = "none" /\ timer = "none"
    /\ \A i \in DOMAIN writes : ~Pending(writes[i])
    /\ UNCHANGED vars

-----------------------------------------------------------------------------
AcceptorThread == Insert \/ StartTimer \/ StartRead \/ OnAcceptReturns

Handlers ==
    \/ OnReadData \/ OnReadError \/ ParseFrame \/ ParseBody \/ ParseError
    \/ MessageComplete \/ OnReadReturns \/ OnTimer \/ Destroyed
    \/ \E i \in DOMAIN writes : OnWrite(i)

Network ==
    \/ Accept \/ AcceptFails \/ ReadReady \/ ReadFails
    \/ \E i \in DOMAIN writes : WriteSome(i) \/ WriteFails(i)

Next == AcceptorThread \/ Handlers \/ Network \/ Tick \/ Expire \/ Over

(* The acceptor thread and the session's io_service thread run, time       *)
(* passes and an expired wait completes; clients and network owe nothing.  *)
Fairness ==
    /\ WF_vars(AcceptorThread) /\ WF_vars(Handlers)
    /\ WF_vars(Tick) /\ WF_vars(Expire)

Spec == Init /\ [][Next]_vars /\ Fairness

-----------------------------------------------------------------------------
(* Properties.                                                             *)

(* A session that is in session_ after start() has set its timer always    *)
(* has a timeout coming: no path through the handlers leaves a registered  *)
(* session that nothing will ever close.                                   *)
NeverLeaked ==
    registered /\ phase \notin {"accepting", "insert", "wait"}
        => timer \in {"waiting", "expired"}

(* Between handlers a registered session has a read or a write in          *)
(* progress, so a client that sends its bytes is not left to the timeout.  *)
NeverDormant ==
    registered /\ phase \in {"returning", "done"} /\ handler = "idle"
        => \/ reading # "none"
           \/ \E i \in DOMAIN writes : Pending(writes[i])

(* A read is only outstanding into free room of data_ and only before the  *)
(* first answer: after it the buffer, which the answered request's body_   *)
(* points into, is never read into again.                                  *)
ReadDiscipline ==
    reading \in {"pending", "ready"} => pos_ < MaxLength /\ ~process_

(* However the bytes were cut into reads, a complete message among them    *)
(* has been handed to the application by the time onRead returns, and      *)
(* process_ says so.                                                       *)
NothingMissed ==
    handler = "idle" =>
        /\ process_ <=> invoked # <<>>
        /\ ~process_ /\ parser = "ok" =>
               \A i \in 1..pos_ : ~stream[i].last

(* The body the application sees for a message that has one is a part of   *)
(* that message's own body and includes its end, never bytes of another    *)
(* message and never framing.                                              *)
EndsHere(k) == invoked[k].end
BeginsAfter(k) == IF k = 1 THEN 0 ELSE invoked[k - 1].end
BodyOf(k) == {i \in (BeginsAfter(k) + 1)..EndsHere(k) : stream[i].kind = "data"}
SliceOf(s) == (s.off + 1)..(s.off + s.len)
BodyIsOwn ==
    \A k \in DOMAIN invoked :
        BodyOf(k) # {} =>
            /\ SliceOf(invoked[k].body) \subseteq BodyOf(k)
            /\ \E i \in SliceOf(invoked[k].body) : \A b \in BodyOf(k) : b <= i

(* The comment at http_session.cpp:161: a full buffer means an illegal     *)
(* request.  The session is only cut off for a full buffer when the first  *)
(* MaxLength units of the stream hold no complete legal message, however   *)
(* the reads fell.                                                         *)
FullMeansTooLong ==
    closedBy = "full" =>
        \A i \in 1..MaxLength :
            stream[i].last => \E j \in 1..i : stream[j].kind = "bad"

(* Closing after a write does not cut the answer short: when the first     *)
(* write to finish closes the socket, all of some response was sent, and   *)
(* the first response is as long as its Content-Length says.               *)
SentOf(i) == {k \in DOMAIN wire : wire[k].resp = i}
AnswerDelivered ==
    closedBy = "written" =>
        /\ \E i \in DOMAIN writes :
               /\ writes[i].left = 0 /\ writes[i].status = "done"
               /\ \E f \in [1..writes[i].size -> SentOf(i)] :
                      \A a, b \in 1..writes[i].size : f[a] = f[b] => a = b
        /\ writes[1].declared = writes[1].size

(* As long as the send buffer takes a whole response at once, pipelined    *)
(* responses go out whole and in order, and nothing is ever sent from the  *)
(* string do_write's caller has already destroyed (http_session.cpp:189).  *)
ResponsesInOrder ==
    WholeSend =>
        \A k \in DOMAIN wire :
            /\ wire[k].live
            /\ k > 1 => wire[k].resp \in {wire[k - 1].resp, wire[k - 1].resp + 1}

(* A request reaches the application while its session is registered; the  *)
(* one exception is a session whose timeout closed it while OnAccept still *)
(* held it, with a completed read queued behind the timer.                 *)
InvokeWhileRegistered ==
    [][Len(invoked') > Len(invoked) => registered \/ closedBy = "timer"]_vars

(* Every accepted session is destroyed, whatever its client does.          *)
Released == phase = "insert" ~> ~Alive

(* What the session promises to the server.                                *)
life ==
    IF phase \in {"accepting", "insert"} THEN "fresh"
    ELSE IF Alive THEN "live" ELSE "gone"
Promise == INSTANCE SessionLife WITH life <- life, served <- Len(invoked)
ImplementsSessionLife == Promise!Spec

(* The comment at http_session.cpp:119: a client may be connected for 30 s *)
(* and is disconnected after more than that.                               *)
TimeoutAfterThirtySeconds ==
    [][closedBy = "none" /\ closedBy' = "timer" => now - accepted >= Timeout]_vars

(* http_parser.h:79: a body may reach on_body in any number of pieces, so  *)
(* a callback has to collect them.                                         *)
BodyIsWhole ==
    \A k \in DOMAIN invoked :
        BodyOf(k) # {} => SliceOf(invoked[k].body) = BodyOf(k)
=============================================================================
