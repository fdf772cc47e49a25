----------------------- MODULE HttpSessionDeeds_proofs -----------------------
(***************************************************************************)
(* More about HttpSession, for every buffer size, client and timeout: who  *)
(* owns the session while its handlers run, what it hands to the           *)
(* application and what it sends. IInv and Scanned, proved invariant in    *)
(* HttpSession_proofs, are the ground.                                     *)
(***************************************************************************)
EXTENDS HttpSession_proofs

USE MaxLengthAssumption, StreamsAssumption, RespSizesAssumption,
    WholeSendAssumption, TimeAssumption

-----------------------------------------------------------------------------
(* The session is open from its construction to the first close(), and in  *)
(* session_ from insert() to the first close().                            *)
OpenUntilClosed ==
    /\ open <=> closedBy = "none"
    /\ registered => open
    /\ phase \in {"accepting", "insert", "refused"} =>
           /\ open /\ timer = "none" /\ reading = "none" /\ handler = "idle"
           /\ DOMAIN writes = {} /\ ~registered
    /\ open => registered \/ phase \in {"accepting", "insert", "refused"}

(* A read is lost to a session that has been closed, unless it was the     *)
(* timeout that closed it while OnAccept still held it.                    *)
HandledWhileOpen ==
    /\ reading = "pending" => open
    /\ reading = "ready" \/ handler # "idle" => open \/ closedBy = "timer"

(* An open session that has answered has the write of an answer to come.   *)
AnswersToCome ==
    /\ DOMAIN writes # {} => process_
    /\ open /\ process_ => \E i \in DOMAIN writes : Pending(writes[i])

Ownership == OpenUntilClosed /\ HandledWhileOpen /\ AnswersToCome

(* Closing, and the end of a write, leave the writes of the session.       *)
LEMMA WritesStay == DOMAIN WritesAfterClose = DOMAIN writes
BY DEF WritesAfterClose

(* Every step keeps the account of who owns the session.                   *)
LEMMA OwnershipStep ==
    ASSUME IInv, Ownership, [Next]_vars
    PROVE  Ownership'
<1> USE DEF Ownership, OpenUntilClosed, HandledWhileOpen, AnswersToCome
<1>0. /\ NeverLeaked /\ ReadDiscipline /\ BeforeRead /\ ReadOrHandle
      /\ writes \in Seq(Write) /\ closedBy \in Closers \cup {"none"}
      /\ open \in BOOLEAN /\ registered \in BOOLEAN /\ process_ \in BOOLEAN
  BY DEF IInv, TypeOK
<1> USE DEF clock, acceptor, onread, output, sock
<1>1. CASE Accept
  BY <1>0, <1>1 DEF Accept
<1>2. CASE AcceptFails
  BY <1>0, <1>2 DEF AcceptFails
<1>3. CASE Insert
  BY <1>0, <1>3 DEF Insert, BeforeRead
<1>4. CASE StartTimer
  BY <1>0, <1>4 DEF StartTimer
<1>5. CASE StartRead
  BY <1>0, <1>5 DEF StartRead, DoRead, BeforeRead
<1>6. CASE OnAcceptReturns
  BY <1>0, <1>6 DEF OnAcceptReturns
<1>7. CASE OnReadData
  BY <1>0, <1>7 DEF OnReadData
<1>8. CASE OnReadError
  BY <1>0, <1>8, WritesStay DEF OnReadError, Close, Closers
<1>9. CASE ParseFrame
  BY <1>0, <1>9 DEF ParseFrame, Parsing, AfterUnit
<1>10. CASE ParseBody
  BY <1>0, <1>10 DEF ParseBody, Parsing, AfterUnit
<1>11. CASE ParseError
  BY <1>0, <1>11 DEF ParseError, Parsing
<1>12. CASE MessageComplete
  <2>1. handler = "complete" /\ handler' = "parse" /\ process_' = TRUE
        /\ UNCHANGED <<phase, registered, open, closedBy, timer, reading>>
    BY <1>12 DEF MessageComplete, SetProcessed
  <2>2. PICK w : writes' = Append(writes, w) /\ w.status # "done"
    <3>0. PICK size \in RespSizes : \E n \in SentAtOnce(size) : DoWrite(size, n)
      BY <1>12 DEF MessageComplete
    <3>1. PICK n \in SentAtOnce(size) : DoWrite(size, n)
      BY <3>0
    <3> DEFINE w == [size |-> size, left |-> size - n,
                     declared |-> ContentLength(size),
                     status |-> IF ~open THEN "failed"
                                ELSE IF AllSent(n, size) THEN "ready"
                                ELSE "waiting"]
    <3>2. writes' = Append(writes, w) /\ w.status # "done"
      BY <3>1 DEF DoWrite
    <3>3. QED
      BY <3>2
  <2>3. Len(writes) + 1 \in DOMAIN writes' /\ Pending(writes'[Len(writes) + 1])
    BY <1>0, <2>2 DEF Pending
  <2>4. QED
    BY <1>0, <2>1, <2>3
<1>13. CASE OnReadReturns
  <2>1. /\ handler = "parse" /\ handler' = "idle"
        /\ UNCHANGED <<phase, timer, process_>>
    BY <1>13 DEF OnReadReturns, Executed
  <2>2. reading = "none"
    BY <1>0, <2>1 DEF ReadOrHandle
  <2>3. CASE process_
    BY <1>0, <1>13, <2>1, <2>2, <2>3 DEF OnReadReturns, AfterExecute
  <2>4. CASE ~process_ /\ BufferFull
    BY <1>0, <1>13, <2>1, <2>2, <2>4, WritesStay
       DEF OnReadReturns, AfterExecute, Close, ReadAfterClose, Closers
  <2>5. CASE ~process_ /\ ~BufferFull
    BY <1>0, <1>13, <2>1, <2>2, <2>5 DEF OnReadReturns, AfterExecute, DoRead
  <2>6. QED
    BY <2>3, <2>4, <2>5
<1>14. CASE OnTimer
  BY <1>0, <1>14, WritesStay DEF OnTimer, Close, Closers, ReadAfterClose
<1>15. CASE Destroyed
  <2>1. DOMAIN writes' = DOMAIN writes
    BY <1>15 DEF Destroyed
  <2>2. QED
    BY <1>0, <1>15, <2>1 DEF Destroyed, Alive, Held
<1>16. CASE ReadReady
  BY <1>0, <1>16 DEF ReadReady
<1>17. CASE ReadFails
  BY <1>0, <1>17 DEF ReadFails
<1>18. CASE Tick
  BY <1>0, <1>18 DEF Tick
<1>19. CASE Expire
  BY <1>0, <1>19 DEF Expire
<1>20. ASSUME NEW i \in DOMAIN writes, OnWrite(i) PROVE Ownership'
  <2>1. DOMAIN writes' = DOMAIN writes
    BY <1>20, WritesStay DEF OnWrite
  <2>2. process_ /\ reading \notin {"pending", "ready"}
    BY <1>0 DEF ReadDiscipline
  <2>3. QED
    BY <1>0, <1>20, <2>1, <2>2 DEF OnWrite, Close, Closers, ReadAfterClose
<1>21. ASSUME NEW i \in DOMAIN writes, WriteSome(i) PROVE Ownership'
  <2>0. writes[i] \in Write /\ writes[i].status = "waiting"
    BY <1>0, <1>21 DEF WriteSome
  <2>1. /\ DOMAIN writes' = DOMAIN writes
        /\ writes'[i].status \in {"ready", "waiting"}
    <3>1. PICK n \in 1..writes[i].left :
              writes' = [writes EXCEPT ![i].left = @ - n,
                  ![i].status = IF AllSent(n, writes[i].left) THEN "ready" ELSE @]
      BY <1>21 DEF WriteSome
    <3>2. writes'[i].status = IF AllSent(n, writes[i].left) THEN "ready"
                              ELSE writes[i].status
      BY <2>0, <3>1 DEF Write
    <3>3. QED
      BY <2>0, <3>1, <3>2
  <2>2. Pending(writes'[i])
    BY <2>1 DEF Pending
  <2>3. QED
    BY <1>0, <1>21, <2>1, <2>2 DEF WriteSome
<1>22. ASSUME NEW i \in DOMAIN writes, WriteFails(i) PROVE Ownership'
  <2>0. writes[i] \in Write
    BY <1>0
  <2>1. DOMAIN writes' = DOMAIN writes /\ writes'[i].status = "failed"
    BY <2>0, <1>22 DEF WriteFails, Write
  <2>2. Pending(writes'[i])
    BY <2>1 DEF Pending
  <2>3. QED
    BY <1>0, <1>22, <2>1, <2>2 DEF WriteFails
<1>23. CASE UNCHANGED vars
  BY <1>0, <1>23 DEF vars
<1>24. CASE Over
  BY <1>23, <1>24 DEF Over
<1> QED
  BY <1>1, <1>2, <1>3, <1>4, <1>5, <1>6, <1>7, <1>8, <1>9, <1>10, <1>11, <1>12, <1>13, <1>14, <1>15, <1>16, <1>17, <1>18, <1>19, <1>20, <1>21, <1>22, <1>23, <1>24
     DEF Next, AcceptorThread, Handlers, Network

(* It holds always.                                                        *)
LEMMA Owned == Spec => []Ownership
<1>1. Init => Ownership
  BY DEF Init, Ownership, OpenUntilClosed, HandledWhileOpen, AnswersToCome
<1>2. IInv /\ Ownership /\ [Next]_vars => Ownership'
  BY OwnershipStep
<1> QED
  BY <1>1, <1>2, Inductive, PTL DEF Spec

-----------------------------------------------------------------------------
(* Between handlers an open session past start() reads until it has        *)
(* answered.                                                               *)
ReadsOn ==
    open /\ phase \in {"returning", "done"} /\ handler = "idle" /\ ~process_
        => reading # "none"

(* Every step keeps an open session reading.                               *)
LEMMA ReadsOnStep ==
    ASSUME IInv, Ownership, ReadsOn, [Next]_vars
    PROVE  ReadsOn'
<1> USE DEF ReadsOn, OpenUntilClosed, clock, acceptor, onread, output, sock
<1>0. /\ OpenUntilClosed /\ process_ \in BOOLEAN /\ open \in BOOLEAN
      /\ NotYetRegistered /\ BeforeRead
  BY DEF IInv, TypeOK, Ownership
<1>1. CASE AcceptorThread
  BY <1>0, <1>1
     DEF AcceptorThread, Insert, StartTimer, StartRead, DoRead, OnAcceptReturns
<1>2. CASE OnReadData \/ ParseFrame \/ ParseBody \/ ParseError
  BY <1>0, <1>2
     DEF OnReadData, ParseFrame, ParseBody, ParseError, AfterUnit, Parsing
<1>3. CASE OnReadError \/ OnTimer \/ \E i \in DOMAIN writes : OnWrite(i)
  BY <1>0, <1>3 DEF OnReadError, OnTimer, OnWrite, Close
<1>4. CASE MessageComplete
  BY <1>0, <1>4 DEF MessageComplete
<1>5. CASE OnReadReturns
  BY <1>0, <1>5 DEF OnReadReturns, AfterExecute, DoRead, Close
<1>6. CASE Destroyed
  BY <1>0, <1>6 DEF Destroyed, Alive, Held
<1>7. CASE Network
  BY <1>0, <1>7
     DEF Network, Accept, AcceptFails, ReadReady, ReadFails, WriteSome, WriteFails
<1>8. CASE Tick \/ Expire \/ Over \/ UNCHANGED vars
  BY <1>0, <1>8 DEF Tick, Expire, Over, vars
<1>9. QED
  BY <1>1, <1>2, <1>3, <1>4, <1>5, <1>6, <1>7, <1>8 DEF Next, Handlers

(* No path through onRead leaves a registered session with neither a read  *)
(* nor a write in progress (http_session.cpp:163).                         *)
THEOREM SessionNeverDormant == Spec => []NeverDormant
<1>1. Init => ReadsOn
  BY DEF Init, ReadsOn
<1>2. IInv /\ Ownership /\ ReadsOn /\ [Next]_vars => ReadsOn'
  BY ReadsOnStep
<1>3. IInv /\ Ownership /\ ReadsOn => NeverDormant
  BY DEF IInv, TypeOK, Ownership, OpenUntilClosed, AnswersToCome, ReadsOn,
         NeverDormant
<1> QED
  BY <1>1, <1>2, <1>3, Inductive, Owned, PTL DEF Spec

(* A request reaches the application while its session is registered, or   *)
(* the timeout has closed it (http_session.cpp:111).                       *)
THEOREM InvokedWhileRegistered == Spec => InvokeWhileRegistered
<1>1. IInv /\ Ownership /\ [Next]_vars =>
          [Len(invoked') > Len(invoked) => registered \/ closedBy = "timer"]_vars
  <2> SUFFICES ASSUME IInv, Ownership, [Next]_vars, Len(invoked') > Len(invoked)
               PROVE  registered \/ closedBy = "timer"
    OBVIOUS
  <2>1. Len(invoked) \in Nat
    BY DEF IInv, TypeOK
  <2>2. invoked' # invoked
    BY <2>1
  <2>3. MessageComplete
    BY <2>2
       DEF Next, AcceptorThread, Handlers, Network, Over, vars, clock, acceptor,
           onread, output, sock, Accept, AcceptFails, Insert, StartTimer,
           StartRead, OnAcceptReturns, OnReadData, OnReadError, ParseFrame,
           ParseBody, ParseError, OnReadReturns, OnTimer, Destroyed, OnWrite,
           ReadReady, ReadFails, WriteSome, WriteFails, Tick, Expire
  <2>4. handler = "complete"
    BY <2>3 DEF MessageComplete
  <2>5. QED
    BY <2>4 DEF Ownership, OpenUntilClosed, HandledWhileOpen
<1> QED
  BY <1>1, Inductive, Owned, PTL DEF Spec, InvokeWhileRegistered
-----------------------------------------------------------------------------
(* What a session owes to SessionLife, step by step. The theorem states    *)
(* Promise!Spec without its fairness.                                      *)

(* A session that is gone stays gone.                                      *)
LEMMA GoneForGood ==
    ASSUME IInv, Ownership, [Next]_vars, life = "gone"
    PROVE  life' = "gone" /\ invoked' = invoked
<1> USE DEF clock, acceptor, onread, output, sock
<1>1. /\ registered = FALSE /\ handler = "idle" /\ phase \in {"done", "refused"}
  BY DEF life, Alive, Held, IInv, TypeOK
<1>2. ~Insert /\ ~AcceptorThread /\ ~Accept /\ ~AcceptFails
  BY <1>1 DEF AcceptorThread, Insert, StartTimer, StartRead, OnAcceptReturns,
              Accept, AcceptFails
<1>3. registered' = FALSE /\ handler' = "idle" /\ phase' = phase
      /\ invoked' = invoked
  <2>1. CASE Handlers
    BY <1>1, <2>1
       DEF Handlers, OnReadData, OnReadError, ParseFrame, ParseBody, ParseError,
           Parsing, MessageComplete, OnReadReturns, Executed, OnTimer,
           Destroyed, OnWrite, Locks, Alive, Held
  <2>2. CASE Network
    <3>1. ReadReady \/ ReadFails
          \/ \E i \in DOMAIN writes : WriteSome(i) \/ WriteFails(i)
      BY <1>2, <2>2 DEF Network
    <3>2. CASE ReadReady \/ ReadFails
      BY <1>1, <3>2 DEF ReadReady, ReadFails
    <3>3. ASSUME NEW i \in DOMAIN writes, WriteSome(i) \/ WriteFails(i)
          PROVE  UNCHANGED <<registered, handler, phase, invoked>>
      BY <3>3 DEF WriteSome, WriteFails
    <3>4. QED
      BY <1>1, <3>1, <3>2, <3>3
  <2>3. CASE Tick \/ Expire \/ Over \/ UNCHANGED vars
    BY <1>1, <2>3 DEF Tick, Expire, Over, vars
  <2>4. QED
    BY <1>2, <2>1, <2>2, <2>3 DEF Next
<1>4. QED
  BY <1>1, <1>3 DEF life, Alive, Held

(* A fresh session serves nothing.                                         *)
LEMMA FreshServesNothing ==
    ASSUME IInv, Ownership, [Next]_vars, life = "fresh"
    PROVE  invoked' = invoked
<1> USE DEF clock, acceptor, onread, output, sock
<1>1. /\ phase \in {"accepting", "insert"} /\ handler = "idle"
  BY DEF life, Ownership, OpenUntilClosed
<1>2. ~MessageComplete
  BY <1>1 DEF MessageComplete
<1>3. QED
  BY <1>2
     DEF Next, AcceptorThread, Handlers, Network, Over, vars, Accept,
         AcceptFails, Insert, StartTimer, StartRead, OnAcceptReturns,
         OnReadData, OnReadError, ParseFrame, ParseBody, ParseError,
         OnReadReturns, OnTimer, Destroyed, OnWrite, ReadReady, ReadFails,
         WriteSome, WriteFails, Tick, Expire

(* A session begins fresh, serves only while it is live, and is gone once  *)
(* (http_server.cpp:31, http_session.cpp:111).                             *)
THEOREM KeepsPromise ==
    Spec => Promise!Init /\ [][Promise!Next]_<<life, Len(invoked)>>
<1>1. Init => Promise!Init
  BY DEF Init, Promise!Init, life
<1>2. IInv /\ Ownership /\ [Next]_vars => [Promise!Next]_<<life, Len(invoked)>>
  <2> SUFFICES ASSUME IInv, Ownership, [Next]_vars
               PROVE  [Promise!Next]_<<life, Len(invoked)>>
    OBVIOUS
  <2> USE DEF clock, acceptor, onread, output, sock
  <2>0. /\ invoked \in Seq([end : Nat, body : Slice])
        /\ life \in {"fresh", "live", "gone"} /\ life' \in {"fresh", "live", "gone"}
    BY DEF IInv, TypeOK, life
  <2>1. CASE life = "gone"
    BY <2>1, GoneForGood
  <2>2. CASE life = "fresh"
    <3>1. invoked' = invoked
      BY <2>2, FreshServesNothing
    <3>2. QED
      BY <2>0, <2>2, <3>1
         DEF Promise!Next, Promise!Register, Promise!Refuse
  <2>3. CASE life = "live"
    <3>1. phase \notin {"accepting", "insert"}
      BY <2>3 DEF life
    <3>2. phase' \notin {"accepting", "insert"}
      BY <3>1
         DEF Next, AcceptorThread, Handlers, Network, Over, vars, Accept,
             AcceptFails, Insert, StartTimer, StartRead, OnAcceptReturns,
             OnReadData, OnReadError, ParseFrame, ParseBody, ParseError,
             MessageComplete, OnReadReturns, OnTimer, Destroyed, OnWrite,
             ReadReady, ReadFails, WriteSome, WriteFails, Tick, Expire
    <3>3. life' \in {"live", "gone"}
      BY <3>2 DEF life
    <3>4. CASE MessageComplete
      <4>1. Len(invoked') = Len(invoked) + 1 /\ handler' = "parse"
        BY <2>0, <3>4 DEF MessageComplete
      <4>2. life' = "live"
        BY <3>2, <4>1 DEF life, Alive
      <4>3. QED
        BY <2>3, <4>1, <4>2 DEF Promise!Next, Promise!Serve
    <3>5. CASE ~MessageComplete
      <4>1. invoked' = invoked
        BY <3>5
           DEF Next, AcceptorThread, Handlers, Network, Over, vars, Accept,
               AcceptFails, Insert, StartTimer, StartRead, OnAcceptReturns,
               OnReadData, OnReadError, ParseFrame, ParseBody, ParseError,
               OnReadReturns, OnTimer, Destroyed, OnWrite, ReadReady,
               ReadFails, WriteSome, WriteFails, Tick, Expire
      <4>2. QED
        BY <2>3, <3>3, <4>1 DEF Promise!Next, Promise!Release
    <3>6. QED
      BY <3>4, <3>5
  <2>4. QED
    BY <2>0, <2>1, <2>2, <2>3
<1> QED
  BY <1>1, <1>2, Inductive, Owned, PTL DEF Spec
-----------------------------------------------------------------------------
(* What a session cuts off. A parser that has stopped before any message   *)
(* has met an illegal unit, and none before it ended a message.            *)
NoMessageIn(n) == \A i \in 1..n : ~stream[i].last
BadFirst ==
    parser = "dead" /\ invoked = <<>> =>
        at < Len(stream) /\ stream[at + 1].kind = "bad" /\ NoMessageIn(at)

(* Every step keeps that, and the reason of a session cut off.             *)
LEMMA CutOffStep ==
    ASSUME IInv, Scanned, BadFirst, FullMeansTooLong, [Next]_vars
    PROVE  BadFirst' /\ FullMeansTooLong'
<1> USE DEF BadFirst, NoMessageIn, clock, acceptor, onread, output, sock
<1>0. /\ stream \in Seq(Unit) /\ Len(stream) \in Nat /\ MaxLength \in Nat
      /\ pos_ \in Nat /\ got \in Nat /\ at \in Nat
      /\ pos_ + got <= MaxLength /\ pos_ + got <= Len(stream)
      /\ at <= pos_ + got /\ process_ \in BOOLEAN
      /\ closedBy \in Closers \cup {"none"}
      /\ invoked \in Seq([end : Nat, body : Slice])
  BY StreamType DEF IInv, TypeOK
<1>1. CASE ParseError
  <2>1. invoked = <<>> => NoMessageIn(at)
    BY <1>0, <1>1 DEF ParseError, Parsing, Scanned
  <2>2. QED
    BY <1>0, <1>1, <2>1 DEF ParseError, Parsing, FullMeansTooLong
<1>2. CASE OnReadReturns
  <2>1. UNCHANGED <<parser, invoked, at, stream>>
    BY <1>2 DEF OnReadReturns
  <2>2. BadFirst'
    BY <2>1
  <2>3. CASE closedBy' = closedBy
    BY <2>1, <2>2, <2>3 DEF FullMeansTooLong
  <2>4. CASE closedBy' # closedBy
    <3>1. ~process_ /\ BufferFull /\ Executed
      BY <1>2, <2>4 DEF OnReadReturns, AfterExecute
    <3>2. invoked = <<>> /\ pos_ + got = MaxLength /\ handler = "parse"
      BY <1>0, <3>1 DEF Scanned, BufferFull, Executed
    <3>3. ASSUME NEW i \in 1..MaxLength, stream[i].last
          PROVE  \E j \in 1..i : stream[j].kind = "bad"
      <4>1. CASE parser = "ok"
        BY <1>0, <3>1, <3>2, <3>3, <4>1 DEF Scanned, Executed
      <4>2. CASE parser = "dead"
        <5>1. at + 1 \in 1..i /\ stream[at + 1].kind = "bad"
          BY <1>0, <3>2, <3>3, <4>2
        <5>2. QED
          BY <5>1
      <4>3. QED
        BY <4>1, <4>2 DEF IInv, TypeOK
    <3>4. QED
      BY <2>1, <2>2, <3>3 DEF FullMeansTooLong
  <2>5. QED
    BY <2>3, <2>4
<1>3. CASE MessageComplete
  <2>1. invoked' # <<>> /\ UNCHANGED <<closedBy, stream>>
    BY <1>0, <1>3 DEF MessageComplete
  <2>2. QED
    BY <2>1 DEF FullMeansTooLong
<1>4. CASE ParseFrame \/ ParseBody
  <2>1. parser' = "ok" /\ UNCHANGED <<closedBy, stream>>
    BY <1>4 DEF ParseFrame, ParseBody, Parsing
  <2>2. QED
    BY <2>1 DEF FullMeansTooLong
<1>5. CASE ~(ParseError \/ OnReadReturns \/ MessageComplete \/ ParseFrame \/ ParseBody)
  <2>1. UNCHANGED <<parser, invoked, at, stream>>
    BY <1>5
       DEF Next, AcceptorThread, Handlers, Network, Over, vars, Accept,
           AcceptFails, Insert, StartTimer, StartRead, OnAcceptReturns,
           OnReadData, OnReadError, OnTimer, Destroyed, OnWrite, ReadReady,
           ReadFails, WriteSome, WriteFails, Tick, Expire
  <2>2. closedBy' = "full" => closedBy = "full"
    BY <1>5
       DEF Next, AcceptorThread, Handlers, Network, Over, vars, Accept,
           AcceptFails, Insert, StartTimer, StartRead, OnAcceptReturns,
           OnReadData, OnReadError, OnTimer, Destroyed, OnWrite, ReadReady,
           ReadFails, WriteSome, WriteFails, Tick, Expire, Close
  <2>3. QED
    BY <2>1, <2>2 DEF FullMeansTooLong
<1>6. QED
  BY <1>1, <1>2, <1>3, <1>4, <1>5

(* Scanned, on which this rests.                                           *)
LEMMA AlwaysScanned == Spec => []Scanned
<1>1. Init => Scanned
  BY DEF Init, Scanned
<1>2. IInv /\ Scanned /\ [Next]_vars => Scanned'
  BY ScannedStep
<1> QED
  BY <1>1, <1>2, Inductive, PTL DEF Spec

(* A session is cut off for a full buffer only if what filled it is no     *)
(* request, however the reads fell (http_session.cpp:161).                 *)
THEOREM CutOffIfTooLong == Spec => []FullMeansTooLong
<1>1. Init => BadFirst /\ FullMeansTooLong
  BY DEF Init, BadFirst, FullMeansTooLong
<1>2. IInv /\ Scanned /\ BadFirst /\ FullMeansTooLong /\ [Next]_vars
          => BadFirst' /\ FullMeansTooLong'
  BY CutOffStep
<1> QED
  BY <1>1, <1>2, Inductive, AlwaysScanned, PTL DEF Spec
-----------------------------------------------------------------------------
(* Bodies. Begun is where the message being parsed begins; what body_ and  *)
(* len_ say of it is a part of its body, up to the last byte there is.     *)
Begun == IF invoked = <<>> THEN 0 ELSE invoked[Len(invoked)].end
BodySoFar == {i \in Begun + 1 .. at : stream[i].kind = "data"}
BodyTaken ==
    /\ Begun \in 0 .. at
    /\ BodySoFar # {} =>
           /\ SliceOf(body) \subseteq BodySoFar
           /\ \E i \in SliceOf(body) : \A b \in BodySoFar : b <= i

(* Every step keeps the account of bodies.                                 *)
LEMMA BodyStep ==
    ASSUME IInv, BodyTaken, BodyIsOwn, [Next]_vars
    PROVE  BodyTaken' /\ BodyIsOwn'
<1> USE DEF clock, acceptor, onread, output, sock
<1>0. /\ stream \in Seq(Unit) /\ Len(stream) \in Nat
      /\ pos_ \in Nat /\ got \in Nat /\ at \in Nat
      /\ at <= pos_ + got /\ pos_ + got <= Len(stream)
      /\ invoked \in Seq([end : Nat, body : Slice]) /\ Len(invoked) \in Nat
      /\ body \in Slice
  BY StreamType DEF IInv, TypeOK
<1>1. CASE ParseFrame
  <2>1. /\ UNCHANGED <<invoked, stream, body>> /\ at' = at + 1
        /\ stream[at + 1].kind # "data"
    BY <1>1 DEF ParseFrame
  <2>2. Begun' = Begun /\ BodySoFar' = BodySoFar
    BY <1>0, <2>1 DEF Begun, BodySoFar, BodyTaken
  <2>3. BodyTaken'
    BY <1>0, <2>1, <2>2 DEF BodyTaken, SliceOf
  <2>4. BodyIsOwn'
    BY <2>1 DEF BodyIsOwn, BodyOf, BeginsAfter, EndsHere, SliceOf
  <2>5. QED
    BY <2>3, <2>4
<1>2. CASE ParseBody
  <2>1. PICK j \in at + 1 .. pos_ + got :
            BodyRun(j) /\ body' = OnBody(j) /\ at' = j
    BY <1>2 DEF ParseBody
  <2>2. UNCHANGED <<invoked, stream>>
    BY <1>2 DEF ParseBody
  <2>3. SliceOf(body') = at + 1 .. j
    BY <1>0, <2>1 DEF OnBody, SliceOf
  <2>4. Begun' = Begun /\ BodySoFar' = BodySoFar \cup (at + 1 .. j)
    BY <1>0, <2>1, <2>2 DEF Begun, BodySoFar, BodyTaken, BodyRun
  <2>5. j \in SliceOf(body') /\ \A b \in BodySoFar' : b <= j
    BY <1>0, <2>1, <2>3, <2>4 DEF BodySoFar
  <2>6. BodyTaken'
    BY <1>0, <2>1, <2>3, <2>4, <2>5 DEF BodyTaken
  <2>7. BodyIsOwn'
    BY <2>2 DEF BodyIsOwn, BodyOf, BeginsAfter, EndsHere, SliceOf
  <2>8. QED
    BY <2>6, <2>7
<1>3. CASE MessageComplete
  <2>0. PICK n \in Nat, m \in [end : Nat, body : Slice] :
            n = Len(invoked) + 1 /\ m = [end |-> at, body |-> body]
    <3>1. Len(invoked) + 1 \in Nat /\ [end |-> at, body |-> body] \in [end : Nat, body : Slice]
      BY <1>0
    <3>2. QED
      BY <3>1, Zenon
  <2>1. invoked' = Append(invoked, m) /\ UNCHANGED <<at, stream, body>>
    BY <1>3, <2>0 DEF MessageComplete
  <2>2. /\ DOMAIN invoked' = 1 .. n /\ invoked'[n] = m /\ Len(invoked') = n
        /\ \A k \in DOMAIN invoked : invoked'[k] = invoked[k]
        /\ DOMAIN invoked = 1 .. n - 1
    BY <1>0, <2>0, <2>1
  <2>3. invoked' # <<>> /\ Begun' = at
    BY <1>0, <2>0, <2>1, <2>2 DEF Begun
  <2>4. BodyTaken'
    BY <1>0, <2>1, <2>3 DEF BodyTaken, BodySoFar
  <2>5. ASSUME NEW k \in DOMAIN invoked
        PROVE  BodyOf(k)' = BodyOf(k) /\ SliceOf(invoked'[k].body) = SliceOf(invoked[k].body)
    <3>1. invoked'[k] = invoked[k]
          /\ (k # 1 => k - 1 \in DOMAIN invoked /\ invoked'[k - 1] = invoked[k - 1])
      BY <1>0, <2>2
    <3>2. BeginsAfter(k)' = BeginsAfter(k) /\ EndsHere(k)' = EndsHere(k)
      BY <3>1 DEF BeginsAfter, EndsHere
    <3>3. QED
      BY <2>1, <3>1, <3>2 DEF BodyOf, SliceOf
  <2>6. BodyOf(n)' = BodySoFar
    <3>1. BeginsAfter(n)' = Begun
      BY <1>0, <2>0, <2>2 DEF BeginsAfter, Begun
    <3>2. EndsHere(n)' = at
      BY <2>0, <2>2 DEF EndsHere
    <3>3. QED
      BY <2>1, <3>1, <3>2 DEF BodyOf, BodySoFar
  <2>7. ASSUME NEW k \in DOMAIN invoked', BodyOf(k)' # {}
        PROVE  /\ SliceOf(invoked'[k].body) \subseteq BodyOf(k)'
               /\ \E i \in SliceOf(invoked'[k].body) : \A b \in BodyOf(k)' : b <= i
    <3>1. CASE k \in DOMAIN invoked
      BY <2>5, <2>7, <3>1 DEF BodyIsOwn
    <3>2. CASE k = n
      BY <2>0, <2>2, <2>6, <2>7, <3>2 DEF BodyTaken
    <3>3. QED
      BY <1>0, <2>2, <3>1, <3>2
  <2>8. BodyIsOwn'
    BY <2>7 DEF BodyIsOwn, SliceOf
  <2>9. QED
    BY <2>4, <2>8
<1>4. CASE ~(ParseFrame \/ ParseBody \/ MessageComplete)
  <2>1. UNCHANGED <<invoked, at, stream, body>>
    BY <1>4
       DEF Next, AcceptorThread, Handlers, Network, Over, vars, Accept,
           AcceptFails, Insert, StartTimer, StartRead, OnAcceptReturns,
           OnReadData, OnReadError, ParseError, OnReadReturns, OnTimer,
           Destroyed, OnWrite, ReadReady, ReadFails, WriteSome, WriteFails,
           Tick, Expire
  <2>2. BodyTaken'
    BY <2>1 DEF BodyTaken, BodySoFar, Begun, SliceOf
  <2>3. BodyIsOwn'
    BY <2>1 DEF BodyIsOwn, BodyOf, BeginsAfter, EndsHere, SliceOf
  <2>4. QED
    BY <2>2, <2>3
<1>5. QED
  BY <1>1, <1>2, <1>3, <1>4

(* The body of a message that has one is its own, never bytes of another   *)
(* message or of a chunk's size (http_session.cpp:102).                    *)
THEOREM BodiesAreOwn == Spec => []BodyIsOwn
<1>1. Init => BodyTaken /\ BodyIsOwn
  <2> SUFFICES ASSUME Init PROVE BodyTaken /\ BodyIsOwn
    OBVIOUS
  <2>1. Begun = 0 /\ at = 0 /\ BodySoFar = {}
    BY DEF Init, Begun, BodySoFar
  <2>2. QED
    BY <2>1 DEF Init, BodyTaken, BodyIsOwn
<1>2. IInv /\ BodyTaken /\ BodyIsOwn /\ [Next]_vars => BodyTaken' /\ BodyIsOwn'
  BY BodyStep
<1> QED
  BY <1>1, <1>2, Inductive, PTL DEF Spec
-----------------------------------------------------------------------------
(* Answers.                                                                *)
Wire == Seq([resp : Nat, live : BOOLEAN])
(* v is w with n more units of answer i.                                   *)
Grown(w, i, n, alive, v) ==
    /\ v \in Wire /\ Len(v) = Len(w) + n
    /\ \A k \in 1 .. Len(w) : v[k] = w[k]
    /\ \A k \in Len(w) + 1 .. Len(w) + n : v[k] = [resp |-> i, live |-> alive]

(* A unit that is sent goes to the end of the wire.                        *)
LEMMA WireGrows ==
    ASSUME NEW w \in Wire, NEW i \in Nat, NEW n \in Nat, NEW alive \in BOOLEAN
    PROVE  Grown(w, i, n, alive, w \o Units(i, n, alive))
<1> DEFINE v == w \o Units(i, n, alive)
<1>1. Units(i, n, alive) \in Wire /\ Len(Units(i, n, alive)) = n
      /\ \A k \in 1 .. n : Units(i, n, alive)[k] = [resp |-> i, live |-> alive]
  BY DEF Units, Wire
<1>2. /\ v \in Wire /\ Len(v) = Len(w) + n
      /\ \A k \in 1 .. Len(v) : v[k] = IF k <= Len(w) THEN w[k]
                                      ELSE Units(i, n, alive)[k - Len(w)]
  BY <1>1, ConcatProperties DEF Wire
<1>3. Len(w) \in Nat
  BY DEF Wire
<1>4. \A k \in Len(w) + 1 .. Len(w) + n :
          v[k] = [resp |-> i, live |-> alive]
  BY <1>1, <1>2, <1>3
<1>5. \A k \in 1 .. Len(w) : v[k] = w[k]
  BY <1>2, <1>3
<1>6. QED
  BY <1>2, <1>4, <1>5 DEF Grown

(* A session whose send buffer takes a whole answer has none waiting, and  *)
(* the last unit sent by an open one is of its last answer.                *)
SentWhole ==
    WholeSend =>
        /\ \A i \in DOMAIN writes : writes[i].status # "waiting"
        /\ open /\ wire # <<>> => wire[Len(wire)].resp = Len(invoked)

(* What a write becomes by closing, and by its end.                        *)
LEMMA AfterClose ==
    ASSUME NEW i \in DOMAIN writes, writes \in Seq(Write)
    PROVE  /\ WritesAfterClose[i] \in Write
           /\ WritesAfterClose[i].size = writes[i].size
           /\ WritesAfterClose[i].left = writes[i].left
           /\ WritesAfterClose[i].declared = writes[i].declared
           /\ WritesAfterClose[i].status \in {writes[i].status, "failed"}
           /\ WritesAfterClose[i].status # "waiting"
           /\ writes[i].status # "waiting" =>
                  WritesAfterClose[i].status = writes[i].status
<1>1. writes[i] \in Write /\ WritesAfterClose[i] = Fail(writes[i])
  BY DEF WritesAfterClose
<1>2. QED
  BY <1>1 DEF Fail, Write
(* The steps that touch neither the answers nor the socket.                *)
Aside ==
    ~(\/ MessageComplete \/ OnReadReturns \/ OnReadError \/ OnTimer \/ Destroyed
      \/ \E i \in DOMAIN writes : OnWrite(i) \/ WriteSome(i) \/ WriteFails(i))
LEMMA AsideKeeps ==
    ASSUME [Next]_vars, Aside
    PROVE  UNCHANGED <<stream, open, closedBy, clen, invoked, writes, wire>>
<1> USE DEF clock, acceptor, onread, output, sock
<1>1. CASE AcceptorThread
  BY <1>1 DEF AcceptorThread, Insert, StartTimer, StartRead, OnAcceptReturns
<1>2. CASE OnReadData \/ ParseFrame \/ ParseBody \/ ParseError
  BY <1>2 DEF OnReadData, ParseFrame, ParseBody, ParseError
<1>3. CASE Accept \/ AcceptFails \/ ReadReady \/ ReadFails
  BY <1>3 DEF Accept, AcceptFails, ReadReady, ReadFails
<1>4. CASE Tick \/ Expire \/ Over \/ UNCHANGED vars
  BY <1>4 DEF Tick, Expire, Over, vars
<1>5. QED
  BY <1>1, <1>2, <1>3, <1>4 DEF Next, Handlers, Network, Aside

(* The steps that close the socket, leave it, or end a write, send nothing.*)
Quiet ==
    /\ UNCHANGED <<stream, clen, invoked, wire>>
    /\ DOMAIN writes' = DOMAIN writes
    /\ open' = open \/ ~open'
    /\ \A i \in DOMAIN writes :
           /\ writes'[i].size = writes[i].size
           /\ writes'[i].left = writes[i].left
           /\ writes'[i].declared = writes[i].declared
           /\ writes'[i].status \in {writes[i].status, "failed", "done"}
           /\ writes[i].status = "done" => writes'[i].status = "done"

LEMMA QuietSteps ==
    ASSUME IInv,
           \/ OnReadReturns \/ OnReadError \/ OnTimer \/ Destroyed
           \/ \E i \in DOMAIN writes : OnWrite(i)
    PROVE  Quiet
<1> USE DEF clock, acceptor, onread, output, sock
<1>0. writes \in Seq(Write) /\ \A i \in DOMAIN writes : writes[i] \in Write
  BY DEF IInv, TypeOK
<1>1. CASE writes' = writes /\ UNCHANGED <<stream, clen, invoked, wire, open>>
  BY <1>1 DEF Quiet
<1>2. CASE /\ writes' = WritesAfterClose /\ open' = FALSE
           /\ UNCHANGED <<stream, clen, invoked, wire>>
  BY <1>0, <1>2, AfterClose, WritesStay DEF Quiet
<1>3. CASE OnReadReturns
  <2>1. \/ writes' = writes /\ open' = open
        \/ writes' = WritesAfterClose /\ open' = FALSE
    BY <1>3 DEF OnReadReturns, AfterExecute, Close
  <2>2. UNCHANGED <<stream, clen, invoked, wire>>
    BY <1>3 DEF OnReadReturns
  <2>3. QED
    BY <1>1, <1>2, <2>1, <2>2
<1>4. CASE OnReadError \/ OnTimer
  BY <1>2, <1>4 DEF OnReadError, OnTimer, Close
<1>5. CASE Destroyed
  <2>1. /\ writes' = [i \in DOMAIN writes |-> [writes[i] EXCEPT !.status = "done"]]
        /\ UNCHANGED <<stream, clen, invoked, wire, open>>
    BY <1>5 DEF Destroyed
  <2>2. \A i \in DOMAIN writes :
            /\ writes'[i].size = writes[i].size
            /\ writes'[i].left = writes[i].left
            /\ writes'[i].declared = writes[i].declared
            /\ writes'[i].status = "done"
    BY <1>0, <2>1 DEF Write
  <2>3. QED
    BY <2>1, <2>2 DEF Quiet
<1>6. ASSUME NEW i \in DOMAIN writes, OnWrite(i) PROVE Quiet
  <2>1. /\ writes' = [WritesAfterClose EXCEPT ![i].status = "done"]
        /\ UNCHANGED <<stream, clen, invoked, wire>> /\ open' = FALSE
    BY <1>6 DEF OnWrite, Close
  <2>2. WritesAfterClose[i] \in Write
    BY <1>0, AfterClose
  <2>3. /\ DOMAIN writes' = DOMAIN writes
        /\ writes'[i].size = WritesAfterClose[i].size
        /\ writes'[i].left = WritesAfterClose[i].left
        /\ writes'[i].declared = WritesAfterClose[i].declared
        /\ writes'[i].status = "done"
        /\ \A j \in DOMAIN writes \ {i} : writes'[j] = WritesAfterClose[j]
    BY <2>1, <2>2, WritesStay DEF Write
  <2>4. QED
    BY <1>0, <2>1, <2>3, AfterClose DEF Quiet
<1>7. QED
  BY <1>3, <1>4, <1>5, <1>6

(* Every step keeps answers whole and in order, as long as the send buffer *)
(* has room for them.                                                      *)
LEMMA OrderStep ==
    ASSUME IInv, SentWhole, ResponsesInOrder, [Next]_vars
    PROVE  SentWhole' /\ ResponsesInOrder'
<1>0. /\ writes \in Seq(Write) /\ \A i \in DOMAIN writes : writes[i] \in Write
      /\ wire \in Wire /\ invoked \in Seq([end : Nat, body : Slice])
      /\ Len(invoked) \in Nat /\ Len(wire) \in Nat /\ open \in BOOLEAN
  BY DEF IInv, TypeOK, Wire
<1>1. CASE ~WholeSend
  BY <1>1 DEF SentWhole, ResponsesInOrder
<1>2. CASE WholeSend /\ Aside
  BY <1>2, AsideKeeps DEF SentWhole, ResponsesInOrder
<1>3. CASE /\ WholeSend
           /\ \/ OnReadReturns \/ OnReadError \/ OnTimer \/ Destroyed
              \/ \E i \in DOMAIN writes : OnWrite(i)
  <2>1. Quiet
    BY <1>3, QuietSteps
  <2>2. \A i \in DOMAIN writes' : writes'[i].status # "waiting"
    BY <1>3, <2>1 DEF Quiet, SentWhole
  <2>3. QED
    BY <1>0, <1>3, <2>1, <2>2 DEF Quiet, SentWhole, ResponsesInOrder
<1>4. CASE WholeSend /\ \E i \in DOMAIN writes : WriteSome(i) \/ WriteFails(i)
  BY <1>4 DEF SentWhole, WriteSome, WriteFails
<1>5. CASE WholeSend /\ MessageComplete
  <2>1. PICK size \in RespSizes : \E n \in SentAtOnce(size) : DoWrite(size, n)
    BY <1>5 DEF MessageComplete
  <2>2. PICK n \in SentAtOnce(size) : DoWrite(size, n)
    BY <2>1
  <2>3. PICK m \in Nat : m = Len(invoked) + 1
    BY <1>0
  <2>4. Len(invoked') = m /\ open' = open
    BY <1>0, <1>5, <2>3 DEF MessageComplete, sock
  <2>5. n \in Nat /\ (open => n = size /\ n > 0) /\ (~open => n = 0)
    BY <1>5, RespSizesAssumption DEF SentAtOnce
  <2>6. wire' = wire \o Units(m, n, TRUE)
    BY <2>2, <2>3 DEF DoWrite
  <2>7. /\ wire' \in Wire /\ Len(wire') = Len(wire) + n
        /\ \A k \in 1 .. Len(wire) : wire'[k] = wire[k]
        /\ \A k \in Len(wire) + 1 .. Len(wire) + n :
               wire'[k] = [resp |-> m, live |-> TRUE]
    <3>1. m \in Nat /\ n \in Nat /\ wire \in Wire
      BY <1>0, <2>3, <2>5
    <3>2. PICK alive \in BOOLEAN : alive = TRUE
      OBVIOUS
    <3>3. Grown(wire, m, n, alive, wire \o Units(m, n, alive))
      BY <3>1, WireGrows
    <3>4. wire' = wire \o Units(m, n, alive)
      BY <2>6, <3>2
    <3>5. Grown(wire, m, n, TRUE, wire')
      BY <3>2, <3>3, <3>4
    <3>6. QED
      BY <3>5 DEF Grown
  <2>8. PICK w : writes' = Append(writes, w) /\ w.status # "waiting"
    <3> DEFINE w == [size |-> size, left |-> size - n,
                     declared |-> ContentLength(size),
                     status |-> IF ~open THEN "failed"
                                ELSE IF AllSent(n, size) THEN "ready"
                                ELSE "waiting"]
    <3>1. writes' = Append(writes, w) /\ w.status # "waiting"
      BY <2>2, <2>5 DEF DoWrite, AllSent
    <3>2. QED
      BY <3>1
  <2>9. SentWhole'
    <3>1. \A i \in DOMAIN writes' : writes'[i].status # "waiting"
      BY <1>0, <1>5, <2>8 DEF SentWhole
    <3>2. open' => wire'[Len(wire')].resp = Len(invoked')
      <4>1. CASE open
        <5>1. Len(wire) + n \in Len(wire) + 1 .. Len(wire) + n
          BY <1>0, <2>5, <4>1
        <5>2. wire'[Len(wire) + n] = [resp |-> m, live |-> TRUE]
          BY <2>7, <5>1
        <5>3. wire'[Len(wire')].resp = m
          BY <2>7, <5>2
        <5>4. QED
          BY <2>4, <5>3
      <4>2. QED
        BY <2>4, <4>1
    <3>3. QED
      BY <3>1, <3>2 DEF SentWhole
  <2>10. ResponsesInOrder'
    <3>1. DOMAIN wire = 1 .. Len(wire) /\ DOMAIN wire' = 1 .. Len(wire) + n
      BY <1>0, <2>7 DEF Wire
    <3>2. ASSUME NEW k \in DOMAIN wire'
          PROVE  /\ wire'[k].live
                 /\ k > 1 => wire'[k].resp \in {wire'[k - 1].resp, wire'[k - 1].resp + 1}
      <4>1. CASE k \in 1 .. Len(wire)
        <5>1. wire'[k] = wire[k] /\ (k > 1 => wire'[k - 1] = wire[k - 1])
          BY <1>0, <2>7, <4>1
        <5>2. QED
          BY <1>5, <3>1, <4>1, <5>1 DEF ResponsesInOrder
      <4>2. CASE k = Len(wire) + 1
        <5>1. open /\ wire'[k] = [resp |-> m, live |-> TRUE]
          <6>1. n >= 1
            BY <1>0, <2>5, <3>1, <4>2
          <6>2. k \in Len(wire) + 1 .. Len(wire) + n
            BY <1>0, <2>5, <4>2, <6>1
          <6>3. QED
            BY <2>5, <2>7, <6>1, <6>2
        <5>2. k > 1 => wire # <<>> /\ wire'[k - 1] = wire[Len(wire)]
          <6>1. k - 1 = Len(wire)
            BY <1>0, <4>2
          <6>2. k > 1 => Len(wire) > 0 /\ Len(wire) \in 1 .. Len(wire)
            <7>1. Len(wire) \in Nat
              BY <1>0
            <7>2. QED
              BY <7>1, <4>2
          <6>3. Len(wire) > 0 => wire # <<>>
            BY <1>0 DEF Wire
          <6>4. QED
            BY <2>7, <6>1, <6>2, <6>3
        <5>3. k > 1 => wire'[k - 1].resp = m - 1
          BY <1>0, <1>5, <2>3, <5>1, <5>2 DEF SentWhole
        <5>4. QED
          BY <2>3, <5>1, <5>3
      <4>3. CASE k > Len(wire) + 1
        <5>1. /\ k \in Len(wire) + 1 .. Len(wire) + n
              /\ k - 1 \in Len(wire) + 1 .. Len(wire) + n
          BY <1>0, <2>5, <3>1, <4>3
        <5>2. /\ wire'[k] = [resp |-> m, live |-> TRUE]
              /\ wire'[k - 1] = [resp |-> m, live |-> TRUE]
          BY <2>7, <5>1
        <5>3. QED
          BY <5>2
      <4>4. QED
        BY <1>0, <2>5, <3>1, <4>1, <4>2, <4>3
    <3>3. QED
      BY <3>2 DEF ResponsesInOrder
  <2>11. QED
    BY <2>9, <2>10
<1>6. QED
  BY <1>1, <1>2, <1>3, <1>4, <1>5 DEF Aside

(* Pipelined answers go out whole, in order and from memory that is still  *)
(* there, as long as the send buffer takes a whole answer at once          *)
(* (http_session.cpp:189).                                                 *)
THEOREM AnswersInOrder == Spec => []ResponsesInOrder
<1>1. Init => SentWhole /\ ResponsesInOrder
  BY DEF Init, SentWhole, ResponsesInOrder
<1>2. IInv /\ SentWhole /\ ResponsesInOrder /\ [Next]_vars
          => SentWhole' /\ ResponsesInOrder'
  BY OrderStep
<1> QED
  BY <1>1, <1>2, Inductive, PTL DEF Spec

-----------------------------------------------------------------------------
(* a units of an answer are among the places S of the wire.                *)
Holds(S, a) ==
    \E f \in [1 .. a -> S] : \A x, y \in 1 .. a : f[x] = f[y] => x = y

(* What is sent of an answer stays, and what is sent next comes after it.  *)
LEMMA HoldsMore ==
    ASSUME NEW S, NEW T, NEW a \in Nat, NEW n \in Nat, NEW len \in Nat,
           Holds(S, a), S \subseteq 1 .. len, S \subseteq T,
           len + 1 .. len + n \subseteq T
    PROVE  Holds(T, a + n)
<1>1. PICK f \in [1 .. a -> S] : \A x, y \in 1 .. a : f[x] = f[y] => x = y
  BY DEF Holds
<1> DEFINE g == [k \in 1 .. a + n |-> IF k <= a THEN f[k] ELSE len + (k - a)]
<1>2. ASSUME NEW k \in 1 .. a + n
      PROVE  IF k <= a THEN k \in 1 .. a /\ g[k] = f[k] /\ f[k] \in S /\ g[k] \in 1 .. len
             ELSE g[k] = len + (k - a) /\ g[k] \in len + 1 .. len + n
  <2>1. CASE k <= a
    <3>1. k \in 1 .. a
      BY <2>1
    <3>2. f[k] \in S
      BY <1>1, <3>1
    <3>3. QED
      BY <2>1, <3>1, <3>2
  <2>2. CASE ~(k <= a)
    BY <2>2
  <2>3. QED
    BY <2>1, <2>2
<1>3. g \in [1 .. a + n -> T]
  <2>1. \A k \in 1 .. a + n : g[k] \in T
    BY <1>2
  <2>2. QED
    BY <2>1
<1>4. ASSUME NEW x \in 1 .. a + n, NEW y \in 1 .. a + n, g[x] = g[y]
      PROVE  x = y
  <2>1. CASE x <= a /\ y <= a
    BY <1>1, <1>2, <1>4, <2>1
  <2>2. CASE ~(x <= a) /\ ~(y <= a)
    BY <1>2, <1>4, <2>2
  <2>3. CASE x <= a /\ ~(y <= a)
    <3>1. g[x] \in 1 .. len /\ g[y] \in len + 1 .. len + n
      BY <1>2, <2>3
    <3>2. QED
      BY <1>4, <3>1
  <2>4. CASE ~(x <= a) /\ y <= a
    <3>1. g[y] \in 1 .. len /\ g[x] \in len + 1 .. len + n
      BY <1>2, <2>4
    <3>2. QED
      BY <1>4, <3>1
  <2>5. QED
    BY <2>1, <2>2, <2>3, <2>4
<1> HIDE DEF g
<1>5. QED
  BY <1>3, <1>4 DEF Holds

(* Each invoke has its write, the units a write no longer has left are on  *)
(* the wire, and a write that is ready has none left.                      *)
Accounted ==
    /\ DOMAIN writes = DOMAIN invoked
    /\ \A i \in DOMAIN writes :
           /\ writes[i].left <= writes[i].size
           /\ Holds(SentOf(i), writes[i].size - writes[i].left)
           /\ writes[i].status = "ready" => writes[i].left = 0

(* Closing after a write comes after one that is all sent.                 *)
WrittenFirst ==
    closedBy = "written" =>
        \E i \in DOMAIN writes : writes[i].left = 0 /\ writes[i].status = "done"

(* The first answer finds response_ without a Content-Length.              *)
FirstDeclared ==
    /\ DOMAIN writes = {} => clen = 0
    /\ DOMAIN writes # {} => writes[1].declared = writes[1].size

Delivery == Accounted /\ WrittenFirst /\ FirstDeclared

(* Sending more of answer i adds to what is on the wire of it, and leaves  *)
(* the others what they have.                                              *)
LEMMA SentMore ==
    ASSUME NEW i \in Nat, NEW n \in Nat, NEW alive \in BOOLEAN, wire \in Wire,
           wire' = wire \o Units(i, n, alive)
    PROVE  /\ \A j : \A a \in Nat : Holds(SentOf(j), a) => Holds(SentOf(j)', a)
           /\ \A a \in Nat : Holds(SentOf(i), a) => Holds(SentOf(i)', a + n)
           /\ Holds(SentOf(i)', n)
<1>1. Grown(wire, i, n, alive, wire \o Units(i, n, alive))
  BY WireGrows
<1>2. Grown(wire, i, n, alive, wire')
  BY <1>1
<1>3. Len(wire) \in Nat /\ DOMAIN wire = 1 .. Len(wire)
      /\ DOMAIN wire' = 1 .. Len(wire) + n
  BY <1>2 DEF Grown, Wire
<1>4. \A j : SentOf(j) \subseteq 1 .. Len(wire) /\ SentOf(j) \subseteq SentOf(j)'
  BY <1>2, <1>3 DEF Grown, SentOf
<1>5. Len(wire) + 1 .. Len(wire) + n \subseteq SentOf(i)'
  BY <1>2, <1>3 DEF Grown, SentOf
<1>6. ASSUME NEW j, NEW a \in Nat, Holds(SentOf(j), a) PROVE Holds(SentOf(j)', a)
  <2>1. PICK f \in [1 .. a -> SentOf(j)] :
            \A x, y \in 1 .. a : f[x] = f[y] => x = y
    BY <1>6 DEF Holds
  <2>2. f \in [1 .. a -> SentOf(j)']
    BY <1>4
  <2>3. QED
    BY <2>1, <2>2 DEF Holds
<1>7. ASSUME NEW a \in Nat, Holds(SentOf(i), a) PROVE Holds(SentOf(i)', a + n)
  BY <1>3, <1>4, <1>5, <1>7, HoldsMore
<1>8. Holds(SentOf(i)', n)
  <2>1. Holds({}, 0)
    <3>1. [x \in 1 .. 0 |-> x] \in [1 .. 0 -> {}]
      OBVIOUS
    <3>2. QED
      BY <3>1 DEF Holds
  <2>2. Holds(SentOf(i)', 0 + n)
    BY <1>3, <1>5, <2>1, HoldsMore
  <2>3. QED
    BY <2>2
<1>9. QED
  BY <1>6, <1>7, <1>8

(* A step that sends nothing and only ends writes keeps the account.       *)
LEMMA QuietDelivers ==
    ASSUME Quiet, Delivery,
           closedBy' = "written" =>
               \/ closedBy = "written"
               \/ \E i \in DOMAIN writes : writes[i].left = 0 /\ writes'[i].status = "done"
    PROVE  Delivery'
<1>1. \A i : SentOf(i)' = SentOf(i)
  BY DEF Quiet, SentOf
<1>2. Accounted'
  <2>1. DOMAIN writes' = DOMAIN invoked'
    BY DEF Quiet, Delivery, Accounted
  <2>2. ASSUME NEW i \in DOMAIN writes'
        PROVE  /\ writes'[i].left <= writes'[i].size
               /\ Holds(SentOf(i)', writes'[i].size - writes'[i].left)
               /\ writes'[i].status = "ready" => writes'[i].left = 0
    BY <1>1 DEF Quiet, Delivery, Accounted
  <2>3. QED
    BY <2>1, <2>2 DEF Accounted
<1>3. WrittenFirst'
  BY DEF Quiet, Delivery, WrittenFirst
<1>4. FirstDeclared'
  <2>1. CASE DOMAIN writes = {}
    BY <2>1 DEF Quiet, Delivery, FirstDeclared
  <2>2. CASE DOMAIN writes # {} /\ 1 \in DOMAIN writes
    BY <2>2 DEF Quiet, Delivery, FirstDeclared
  <2>3. QED
    BY <2>1, <2>2 DEF Quiet
<1>5. QED
  BY <1>2, <1>3, <1>4 DEF Delivery

(* Every step keeps the account of what is sent of each answer.            *)
LEMMA DeliveryStep ==
    ASSUME IInv, Delivery, [Next]_vars
    PROVE  Delivery'
<1>0. /\ writes \in Seq(Write) /\ \A i \in DOMAIN writes : writes[i] \in Write
      /\ wire \in Wire /\ invoked \in Seq([end : Nat, body : Slice])
      /\ Len(invoked) \in Nat /\ clen \in Nat
  BY DEF IInv, TypeOK, Wire
<1>1. CASE Aside
  <2>1. UNCHANGED <<closedBy, clen, invoked, writes, wire>>
    BY <1>1, AsideKeeps
  <2>2. QED
    BY <2>1 DEF Delivery, Accounted, WrittenFirst, FirstDeclared, SentOf
<1>2. CASE OnReadReturns \/ OnReadError \/ OnTimer \/ Destroyed
  <2>1. Quiet
    BY <1>2, QuietSteps
  <2>2. closedBy' = "written" => closedBy = "written"
    BY <1>2 DEF OnReadReturns, AfterExecute, OnReadError, OnTimer, Destroyed,
                Close, sock
  <2>3. QED
    BY <2>1, <2>2, QuietDelivers
<1>3. ASSUME NEW i \in DOMAIN writes, OnWrite(i) PROVE Delivery'
  <2>1. Quiet
    BY <1>3, QuietSteps
  <2>2. /\ closedBy' = "written" => closedBy = "written" \/ writes[i].status = "ready"
        /\ writes' = [WritesAfterClose EXCEPT ![i].status = "done"]
    BY <1>3 DEF OnWrite, Close
  <2>3. writes'[i].status = "done"
    <3>1. WritesAfterClose[i] \in Write
      BY <1>0, AfterClose
    <3>2. QED
      BY <2>2, <3>1, WritesStay DEF Write
  <2>4. writes[i].status = "ready" => writes[i].left = 0
    BY DEF Delivery, Accounted
  <2>5. QED
    BY <2>1, <2>2, <2>3, <2>4, QuietDelivers
<1>4. ASSUME NEW i \in DOMAIN writes, WriteFails(i) PROVE Delivery'
  <2>1. Quiet
    <3>1. /\ writes' = [writes EXCEPT ![i].status = "failed"]
          /\ UNCHANGED <<stream, clen, invoked, wire, open>>
          /\ writes[i].status = "waiting"
      BY <1>4 DEF WriteFails, clock, sock
    <3>2. QED
      BY <1>0, <3>1 DEF Quiet, Write
  <2>2. closedBy' = closedBy
    BY <1>4 DEF WriteFails, sock
  <2>3. QED
    BY <2>1, <2>2, QuietDelivers
<1>5. ASSUME NEW i \in DOMAIN writes, WriteSome(i) PROVE Delivery'
  <2>1. PICK n \in 1 .. writes[i].left :
            /\ wire' = wire \o Units(i, n, FALSE)
            /\ writes' = [writes EXCEPT ![i].left = @ - n,
                             ![i].status = IF AllSent(n, writes[i].left) THEN "ready" ELSE @]
    BY <1>5 DEF WriteSome
  <2>2. UNCHANGED <<closedBy, clen, invoked>> /\ writes[i].status = "waiting"
    BY <1>5 DEF WriteSome, sock
  <2>3. i \in Nat /\ n \in Nat /\ n <= writes[i].left
    BY <1>0, <2>1 DEF Write
  <2>4. /\ DOMAIN writes' = DOMAIN writes
        /\ writes'[i].size = writes[i].size
        /\ writes'[i].left = writes[i].left - n
        /\ writes'[i].declared = writes[i].declared
        /\ writes'[i].status = "ready" => n = writes[i].left
        /\ \A j \in DOMAIN writes \ {i} : writes'[j] = writes[j]
    BY <1>0, <2>1, <2>2 DEF Write, AllSent
  <2>5. /\ \A j : \A a \in Nat : Holds(SentOf(j), a) => Holds(SentOf(j)', a)
        /\ \A a \in Nat : Holds(SentOf(i), a) => Holds(SentOf(i)', a + n)
    <3>1. PICK alive \in BOOLEAN : alive = FALSE
      OBVIOUS
    <3>2. wire' = wire \o Units(i, n, alive)
      BY <2>1, <3>1
    <3>3. QED
      BY <1>0, <2>3, <3>2, SentMore
  <2>6. Accounted'
    <3>1. ASSUME NEW j \in DOMAIN writes
          PROVE  /\ writes'[j].left <= writes'[j].size
                 /\ Holds(SentOf(j)', writes'[j].size - writes'[j].left)
                 /\ writes'[j].status = "ready" => writes'[j].left = 0
      <4> DEFINE a == writes[j].size - writes[j].left
      <4>1. /\ writes[j].size \in Nat /\ writes[j].left \in Nat
            /\ writes[j].left <= writes[j].size /\ Holds(SentOf(j), a)
            /\ writes[j].status = "ready" => writes[j].left = 0
        BY <1>0 DEF Delivery, Accounted, Write
      <4>2. a \in Nat
        BY <4>1
      <4>3. CASE j = i
        <5>1. Holds(SentOf(i)', a + n)
          BY <2>5, <4>1, <4>2, <4>3
        <5>2. writes'[j].size - writes'[j].left = a + n
          BY <2>3, <2>4, <4>1, <4>3
        <5>3. QED
          BY <2>3, <2>4, <4>1, <4>3, <5>1, <5>2
      <4>4. CASE j # i
        <5>1. writes'[j] = writes[j]
          BY <2>4, <4>4
        <5>2. QED
          BY <2>5, <4>1, <4>2, <5>1
      <4>5. QED
        BY <4>3, <4>4
    <3>2. DOMAIN writes' = DOMAIN invoked'
      BY <2>2, <2>4 DEF Delivery, Accounted
    <3>3. QED
      BY <2>4, <3>1, <3>2 DEF Accounted
  <2>7. WrittenFirst'
    BY <2>2, <2>4 DEF Delivery, WrittenFirst, Pending
  <2>8. FirstDeclared'
    <3>1. 1 \in DOMAIN writes
      BY <1>0
    <3>2. writes'[1].declared = writes[1].declared /\ writes'[1].size = writes[1].size
      BY <2>4, <3>1
    <3>3. QED
      BY <2>2, <2>4, <3>1, <3>2 DEF Delivery, FirstDeclared
  <2>9. QED
    BY <2>6, <2>7, <2>8 DEF Delivery
<1>6. CASE MessageComplete
  <2>1. PICK size \in RespSizes :
            \E n \in SentAtOnce(size) : DoWrite(size, n) /\ clen' = ContentLength(size)
    BY <1>6 DEF MessageComplete
  <2>2. PICK n \in SentAtOnce(size) : DoWrite(size, n)
    BY <2>1
  <2>3. n \in 0 .. size /\ size \in Nat /\ size > 0
    BY RespSizesAssumption DEF SentAtOnce
  <2>4. PICK m \in Nat : m = Len(invoked) + 1
    BY <1>0
  <2> DEFINE w == [size |-> size, left |-> size - n,
                   declared |-> ContentLength(size),
                   status |-> IF ~open THEN "failed"
                              ELSE IF AllSent(n, size) THEN "ready" ELSE "waiting"]
  <2>5. /\ wire' = wire \o Units(m, n, TRUE) /\ writes' = Append(writes, w)
        /\ closedBy' = closedBy /\ DOMAIN invoked' = 1 .. m
    <3>1. invoked' = Append(invoked, [end |-> at, body |-> body]) /\ closedBy' = closedBy
      BY <1>6 DEF MessageComplete, sock
    <3>2. [end |-> at, body |-> body] \in [end : Nat, body : Slice]
      BY DEF IInv, TypeOK
    <3>3. DOMAIN invoked' = 1 .. m
      BY <1>0, <2>4, <3>1, <3>2
    <3>4. QED
      BY <2>2, <2>4, <3>1, <3>3 DEF DoWrite
  <2>6. DOMAIN writes = 1 .. Len(invoked)
    BY <1>0 DEF Delivery, Accounted
  <2>7. /\ DOMAIN writes' = 1 .. m /\ writes'[m] = w
        /\ \A i \in DOMAIN writes : writes'[i] = writes[i]
    BY <1>0, <2>4, <2>5, <2>6
  <2>8. /\ w.size = size /\ w.left = size - n /\ w.declared = ContentLength(size)
        /\ w.status = "ready" => n = size
    BY DEF AllSent
  <2> HIDE DEF w
  <2>9. /\ \A j : \A a \in Nat : Holds(SentOf(j), a) => Holds(SentOf(j)', a)
        /\ Holds(SentOf(m)', n)
    <3>1. PICK alive \in BOOLEAN : alive = TRUE
      OBVIOUS
    <3>2. wire' = wire \o Units(m, n, alive)
      BY <2>5, <3>1
    <3>3. m \in Nat /\ n \in Nat
      BY <2>3, <2>4
    <3>4. QED
      BY <1>0, <3>2, <3>3, SentMore
  <2>10. Accounted'
    <3>1. ASSUME NEW j \in DOMAIN writes'
          PROVE  /\ writes'[j].left <= writes'[j].size
                 /\ Holds(SentOf(j)', writes'[j].size - writes'[j].left)
                 /\ writes'[j].status = "ready" => writes'[j].left = 0
      <4>1. CASE j = m
        <5>1. size - (size - n) = n /\ size - n <= size /\ size - n \in Nat
          BY <2>3
        <5>2. QED
          BY <2>3, <2>7, <2>8, <2>9, <4>1, <5>1
      <4>2. CASE j \in DOMAIN writes
        <5>1. /\ writes[j].size \in Nat /\ writes[j].left \in Nat
              /\ writes[j].left <= writes[j].size
              /\ Holds(SentOf(j), writes[j].size - writes[j].left)
              /\ writes[j].status = "ready" => writes[j].left = 0
          BY <1>0, <4>2 DEF Delivery, Accounted, Write
        <5>2. writes[j].size - writes[j].left \in Nat
          BY <5>1
        <5>3. QED
          BY <2>7, <2>9, <4>2, <5>1, <5>2
      <4>3. QED
        BY <2>4, <2>6, <2>7, <4>1, <4>2, <1>0
    <3>2. QED
      BY <2>5, <2>7, <3>1 DEF Accounted
  <2>11. WrittenFirst'
    <3>1. DOMAIN writes \subseteq DOMAIN writes'
      BY <1>0, <2>4, <2>6, <2>7
    <3>2. QED
      BY <2>5, <2>7, <3>1 DEF Delivery, WrittenFirst
  <2>12. FirstDeclared'
    <3>1. CASE m = 1
      <4>1. clen = 0
        BY <1>0, <2>4, <2>6, <3>1 DEF Delivery, FirstDeclared
      <4>2. QED
        BY <2>7, <2>8, <3>1, <4>1 DEF FirstDeclared, ContentLength
    <3>2. CASE m # 1
      <4>1. 1 \in DOMAIN writes
        BY <1>0, <2>4, <2>6, <3>2
      <4>2. QED
        BY <2>7, <4>1, <2>4 DEF Delivery, FirstDeclared
    <3>3. QED
      BY <3>1, <3>2
  <2>13. QED
    BY <2>10, <2>11, <2>12 DEF Delivery
<1>7. QED
  BY <1>1, <1>2, <1>3, <1>4, <1>5, <1>6 DEF Aside

(* The close() after a write is an answer's that was sent in full, and the *)
(* first answer is as long as its Content-Length (http_session.cpp:189).   *)
THEOREM WrittenIsDelivered == Spec => []AnswerDelivered
<1>1. Init => Delivery
  <2> SUFFICES ASSUME Init PROVE Delivery
    OBVIOUS
  <2>1. writes = <<>> /\ invoked = <<>> /\ clen = 0 /\ closedBy = "none"
    BY DEF Init
  <2>2. QED
    BY <2>1 DEF Delivery, Accounted, WrittenFirst, FirstDeclared
<1>2. IInv /\ Delivery /\ [Next]_vars => Delivery'
  BY DeliveryStep
<1>3. IInv /\ Delivery => AnswerDelivered
  <2> SUFFICES ASSUME IInv, Delivery, closedBy = "written" PROVE AnswerDelivered
    BY DEF AnswerDelivered
  <2>1. PICK i \in DOMAIN writes : writes[i].left = 0 /\ writes[i].status = "done"
    BY DEF Delivery, WrittenFirst
  <2>2. writes[i].size \in Nat
    <3>1. writes[i] \in Write
      BY DEF IInv, TypeOK
    <3>2. QED
      BY <3>1 DEF Write
  <2>3. Holds(SentOf(i), writes[i].size)
    <3>1. Holds(SentOf(i), writes[i].size - writes[i].left)
      BY DEF Delivery, Accounted
    <3>2. writes[i].size - writes[i].left = writes[i].size
      BY <2>1, <2>2
    <3>3. QED
      BY <3>1, <3>2
  <2>4. \E f \in [1 .. writes[i].size -> SentOf(i)] :
            \A a, b \in 1 .. writes[i].size : f[a] = f[b] => a = b
    BY <2>3 DEF Holds
  <2>5. writes[1].declared = writes[1].size
    BY <2>1 DEF Delivery, FirstDeclared
  <2>6. QED
    BY <2>1, <2>4, <2>5 DEF AnswerDelivered
<1> QED
  BY <1>1, <1>2, <1>3, Inductive, PTL DEF Spec
=============================================================================
