------------------------- MODULE HttpSession_proofs -------------------------
(***************************************************************************)
(* Proofs about HttpSession, for every buffer size, client and timeout.    *)
(***************************************************************************)
EXTENDS HttpSession, TLAPS, SequenceTheorems

(* Until start() has called do_read() no handler of the session but the    *)
(* timer's can run.                                                        *)
BeforeRead ==
    phase \in {"accepting", "insert", "wait", "read"} =>
        reading = "none" /\ got = 0 /\ handler = "idle" /\ pos_ = 0 /\ ~process_

(* onRead runs between two reads, and a read in progress has no length.    *)
ReadOrHandle ==
    /\ handler # "idle" => reading = "none"
    /\ reading = "pending" => got = 0

(* The session enters session_ in insert().                                *)
NotYetRegistered == phase \in {"accepting", "insert", "refused"} => ~registered

(* What TypeOK needs to be inductive, and what it needs itself.            *)
IInv ==
    /\ TypeOK /\ BeforeRead /\ ReadOrHandle
    /\ NotYetRegistered /\ NeverLeaked /\ ReadDiscipline

USE MaxLengthAssumption, StreamsAssumption, RespSizesAssumption,
    WholeSendAssumption, TimeAssumption

(* Closing the socket leaves the writes a sequence of writes.              *)
LEMMA WritesAfterCloseType ==
    ASSUME writes \in Seq(Write)
    PROVE  WritesAfterClose \in Seq(Write) /\ Len(WritesAfterClose) = Len(writes)
<1>1. \A i \in 1..Len(writes) : writes[i] \in Write
  OBVIOUS
<1>2. \A i \in 1..Len(writes) : Fail(writes[i]) \in Write
  BY <1>1 DEF Fail, Write
<1>3. DOMAIN writes = 1..Len(writes)
  OBVIOUS
<1>4. WritesAfterClose = [i \in 1..Len(writes) |-> Fail(writes[i])]
  BY <1>3 DEF WritesAfterClose
<1> QED
  BY <1>2, <1>4

(* Nor does ending one of them.                                            *)
LEMMA WriteEnds ==
    ASSUME NEW ws \in Seq(Write), NEW i \in 1..Len(ws),
           NEW w \in Write
    PROVE  [ws EXCEPT ![i] = w] \in Seq(Write)
BY ExceptSeq

(* A function on 1..n whose values are writes is a sequence of writes.     *)
LEMMA WritesFunction ==
    ASSUME NEW n \in Nat, NEW ws \in [1..n -> Write]
    PROVE  ws \in Seq(Write)
OBVIOUS

(* A stream is a sequence of units.                                        *)
LEMMA StreamType ==
    ASSUME stream \in Streams
    PROVE  stream \in Seq(Unit) /\ \A i \in 1..Len(stream) : stream[i] \in Unit
<1>1. stream \in Seq(Unit)
  OBVIOUS
<1> QED
  BY <1>1

(* Sending units of a response leaves the wire a sequence of units.        *)
LEMMA UnitsType ==
    ASSUME NEW i \in Nat, NEW n \in Nat, NEW alive \in BOOLEAN,
           wire \in Seq([resp : Nat, live : BOOLEAN])
    PROVE  wire \o Units(i, n, alive) \in Seq([resp : Nat, live : BOOLEAN])
<1>1. Units(i, n, alive) \in Seq([resp : Nat, live : BOOLEAN])
  BY DEF Units
<1> QED
  BY <1>1, ConcatProperties

(* Every step keeps the shape of the variables.                            *)
LEMMA TypeStep ==
    ASSUME IInv, [Next]_vars
    PROVE  TypeOK'
<1> USE DEF IInv, TypeOK, clock, acceptor, onread, output, sock
<1>s. stream \in Seq(Unit) /\ \A i \in 1..Len(stream) : stream[i] \in Unit
  BY StreamType
<1>w. WritesAfterClose \in Seq(Write)
  BY WritesAfterCloseType
<1>1. CASE Accept
  BY <1>1 DEF Accept
<1>2. CASE AcceptFails
  BY <1>2 DEF AcceptFails
<1>3. CASE Insert
  BY <1>3 DEF Insert
<1>4. CASE StartTimer
  BY <1>4 DEF StartTimer
<1>5. CASE StartRead
  BY <1>5 DEF StartRead, DoRead
<1>6. CASE OnAcceptReturns
  BY <1>6 DEF OnAcceptReturns
<1>7. CASE OnReadData
  BY <1>7 DEF OnReadData
<1>8. CASE OnReadError
  BY <1>w, <1>8 DEF OnReadError, Close, Closers
<1>9. CASE ParseFrame
  BY <1>s, <1>9 DEF ParseFrame, Parsing, AfterUnit, Slice
<1>10. CASE ParseBody
  BY <1>s, <1>10 DEF ParseBody, Parsing, AfterUnit, BodyRun, OnBody, Slice
<1>11. CASE ParseError
  BY <1>11 DEF ParseError, Parsing
<1>12. CASE MessageComplete
  <2> USE DEF MessageComplete, DoWrite, ContentLength
  <2>1. PICK size \in RespSizes : \E n \in SentAtOnce(size) :
            DoWrite(size, n) /\ clen' = ContentLength(size)
    BY <1>12
  <2>2. PICK n \in SentAtOnce(size) :
            DoWrite(size, n) /\ clen' = ContentLength(size)
    BY <2>1
  <2>3. size \in Nat /\ n \in 0..size
    BY DEF SentAtOnce
  <2>4. wire' \in Seq([resp : Nat, live : BOOLEAN])
    <3>1. Len(invoked) + 1 \in Nat /\ n \in Nat /\ TRUE \in BOOLEAN
      BY <2>3
    <3>2. wire \o Units(Len(invoked) + 1, n, TRUE) \in Seq([resp : Nat, live : BOOLEAN])
      BY <3>1, UnitsType
    <3> QED
      BY <2>2, <3>2
  <2>5. writes' \in Seq(Write)
    <3> DEFINE w == [size |-> size, left |-> size - n,
                     declared |-> ContentLength(size),
                     status |-> IF ~open THEN "failed"
                                ELSE IF AllSent(n, size) THEN "ready" ELSE "waiting"]
    <3>1. w \in Write
      BY <2>3 DEF Write
    <3>2. writes' = Append(writes, w)
      BY <2>2
    <3> HIDE DEF w
    <3> QED
      BY <3>1, <3>2
  <2>6. clen' \in Nat
    BY <2>2, <2>3
  <2>7. invoked' \in Seq([end : Nat, body : Slice])
    BY <1>12
  <2>8. process_' \in BOOLEAN /\ parser' \in {"ok", "dead"}
    BY <1>12 DEF SetProcessed
  <2>9. /\ handler' = "parse"
        /\ UNCHANGED <<clock, acceptor, sock, timer, reading, got, at, pos_, body>>
    BY <1>12
  <2> QED
    BY <2>4, <2>5, <2>6, <2>7, <2>8, <2>9
<1>13. CASE OnReadReturns
  <2> USE DEF OnReadReturns
  <2>1. writes' \in Seq(Write)
    BY <1>w, <1>13 DEF AfterExecute
  <2>2. reading' \in {"none", "pending", "ready", "failed"}
    BY <1>13 DEF AfterExecute, DoRead, ReadAfterClose
  <2>3. registered' \in BOOLEAN /\ open' \in BOOLEAN /\ closedBy' \in Closers \cup {"none"}
    BY <1>13 DEF AfterExecute, Close, Closers
  <2>4. /\ pos_' = pos_ + got /\ got' = 0 /\ pos_' \in Nat
        /\ pos_' + got' = pos_ + got
    BY <1>13
  <2> QED
    BY <1>13, <2>1, <2>2, <2>3, <2>4
<1>14. CASE OnTimer
  BY <1>w, <1>14 DEF OnTimer, Close, Closers, ReadAfterClose
<1>15. CASE Destroyed
  <2>0. \A i \in 1..Len(writes) : writes[i] \in Write
    OBVIOUS
  <2>1. \A i \in 1..Len(writes) : [writes[i] EXCEPT !.status = "done"] \in Write
    BY <2>0 DEF Write
  <2>2. writes' = [i \in 1..Len(writes) |-> [writes[i] EXCEPT !.status = "done"]]
    BY <1>15 DEF Destroyed
  <2>3. Len(writes) \in Nat
    OBVIOUS
  <2>5. writes' \in [1..Len(writes) -> Write]
    BY <2>1, <2>2, Zenon
  <2>4. writes' \in Seq(Write)
    BY <2>3, <2>5, WritesFunction
  <2> QED
    BY <1>15, <2>4 DEF Destroyed
<1>16. CASE ReadReady
  BY <1>16 DEF ReadReady, Room, ReadOrHandle
<1>17. CASE ReadFails
  BY <1>17 DEF ReadFails
<1>18. CASE Tick
  BY <1>18 DEF Tick
<1>19. CASE Expire
  BY <1>19 DEF Expire
<1>20. ASSUME NEW i \in DOMAIN writes, OnWrite(i) PROVE TypeOK'
  <2> DEFINE w == [WritesAfterClose[i] EXCEPT !.status = "done"]
  <2>1. i \in 1..Len(WritesAfterClose) /\ WritesAfterClose[i] \in Write
    BY <1>w, WritesAfterCloseType
  <2>2. w \in Write
    BY <2>1 DEF Write
  <2>3. writes' = [WritesAfterClose EXCEPT ![i] = w]
    BY <1>20 DEF OnWrite
  <2>4. writes' \in Seq(Write)
    BY <1>w, <2>1, <2>2, <2>3, WriteEnds
  <2> QED
    BY <1>20, <2>4 DEF OnWrite, Close, Closers, ReadAfterClose
<1>21. ASSUME NEW i \in DOMAIN writes, WriteSome(i) PROVE TypeOK'
  <2>1. writes[i] \in Write
    OBVIOUS
  <2>2. PICK n \in 1..writes[i].left :
            /\ wire' = wire \o Units(i, n, FALSE)
            /\ writes' = [writes EXCEPT ![i].left = @ - n,
                   ![i].status = IF AllSent(n, writes[i].left) THEN "ready" ELSE @]
    BY <1>21 DEF WriteSome
  <2>3. n \in Nat /\ writes[i].left - n \in Nat
    <3> HIDE DEF IInv, TypeOK
    <3>1. writes[i].left \in Nat
      BY <2>1 DEF Write
    <3> QED
      BY <3>1
  <2> DEFINE w == [writes[i] EXCEPT !.left = writes[i].left - n,
                     !.status = IF AllSent(n, writes[i].left) THEN "ready" ELSE writes[i].status]
  <2>4. w \in Write
    BY <2>1, <2>3 DEF Write
  <2>5. writes' = [writes EXCEPT ![i] = w]
    BY <2>2
  <2>6. writes' \in Seq(Write)
    BY <2>4, <2>5, WriteEnds
  <2>7. i \in Nat /\ FALSE \in BOOLEAN
    OBVIOUS
  <2>8. wire' \in Seq([resp : Nat, live : BOOLEAN])
    BY <2>2, <2>3, <2>7, UnitsType
  <2>9. UNCHANGED <<clock, acceptor, sock, timer, reading, onread, clen, invoked>>
    BY <1>21 DEF WriteSome
  <2> HIDE DEF w
  <2> QED
    BY <2>6, <2>8, <2>9
<1>22. ASSUME NEW i \in DOMAIN writes, WriteFails(i) PROVE TypeOK'
  <2>0. writes[i] \in Write
    OBVIOUS
  <2>1. [writes[i] EXCEPT !.status = "failed"] \in Write
    BY <2>0 DEF Write
  <2>2. writes' = [writes EXCEPT ![i] = [writes[i] EXCEPT !.status = "failed"]]
    BY <1>22 DEF WriteFails
  <2>3. writes' \in Seq(Write)
    BY <2>1, <2>2, WriteEnds
  <2> QED
    BY <1>22, <2>3 DEF WriteFails
<1>23. CASE UNCHANGED vars
  BY <1>23 DEF vars
<1>24. CASE Over
  BY <1>23, <1>24 DEF Over
<1> QED
  BY <1>1, <1>2, <1>3, <1>4, <1>5, <1>6, <1>7, <1>8, <1>9, <1>10, <1>11, <1>12, <1>13, <1>14, <1>15, <1>16, <1>17, <1>18, <1>19, <1>20, <1>21, <1>22, <1>23, <1>24
     DEF Next, AcceptorThread, Handlers, Network

(* Every step keeps the rest of the inductive invariant.                   *)
LEMMA ControlStep ==
    ASSUME IInv, [Next]_vars
    PROVE  (BeforeRead /\ ReadOrHandle /\ NotYetRegistered /\ NeverLeaked /\ ReadDiscipline)'
<1> USE DEF IInv, TypeOK, BeforeRead, ReadOrHandle, NotYetRegistered, NeverLeaked,
            ReadDiscipline, clock, acceptor, onread, output, sock
<1> DEFINE Control ==
        BeforeRead /\ ReadOrHandle /\ NotYetRegistered /\ NeverLeaked /\ ReadDiscipline
<1>1. CASE Accept
  BY <1>1 DEF Accept
<1>2. CASE AcceptFails
  BY <1>2 DEF AcceptFails
<1>3. CASE Insert
  BY <1>3 DEF Insert
<1>4. CASE StartTimer
  BY <1>4 DEF StartTimer
<1>5. CASE StartRead
  BY <1>5 DEF StartRead, DoRead
<1>6. CASE OnAcceptReturns
  BY <1>6 DEF OnAcceptReturns
<1>7. CASE OnReadData
  BY <1>7 DEF OnReadData
<1>8. CASE OnReadError
  BY <1>8 DEF OnReadError, Close
<1>9. CASE ParseFrame
  BY <1>9 DEF ParseFrame, Parsing, AfterUnit
<1>10. CASE ParseBody
  BY <1>10 DEF ParseBody, Parsing, AfterUnit
<1>11. CASE ParseError
  BY <1>11 DEF ParseError
<1>12. CASE MessageComplete
  BY <1>12 DEF MessageComplete, SetProcessed
<1>13. CASE OnReadReturns
  BY <1>13 DEF OnReadReturns, Executed, AfterExecute, BufferFull, DoRead, Close, ReadAfterClose
<1>14. CASE OnTimer
  BY <1>14 DEF OnTimer, Close, ReadAfterClose
<1>15. CASE Destroyed
  BY <1>15 DEF Destroyed, Alive, Held
<1>16. CASE ReadReady
  BY <1>16 DEF ReadReady, Room
<1>17. CASE ReadFails
  BY <1>17 DEF ReadFails
<1>18. CASE Tick
  BY <1>18 DEF Tick
<1>19. CASE Expire
  BY <1>19 DEF Expire
<1>20. ASSUME NEW i \in DOMAIN writes, OnWrite(i) PROVE Control'
  BY <1>20 DEF OnWrite, Close, ReadAfterClose
<1>21. ASSUME NEW i \in DOMAIN writes, WriteSome(i) PROVE Control'
  BY <1>21 DEF WriteSome
<1>22. ASSUME NEW i \in DOMAIN writes, WriteFails(i) PROVE Control'
  BY <1>22 DEF WriteFails
<1>23. CASE UNCHANGED vars
  BY <1>23 DEF vars
<1>24. CASE Over
  BY <1>23, <1>24 DEF Over
<1> QED
  BY <1>1, <1>2, <1>3, <1>4, <1>5, <1>6, <1>7, <1>8, <1>9, <1>10, <1>11, <1>12, <1>13, <1>14, <1>15, <1>16, <1>17, <1>18, <1>19, <1>20, <1>21, <1>22, <1>23, <1>24
     DEF Next, AcceptorThread, Handlers, Network

(* The inductive invariant holds.                                          *)
LEMMA Inductive == Spec => []IInv
<1>1. Init => IInv
  <2> SUFFICES ASSUME Init PROVE IInv
    OBVIOUS
  <2>1. stream \in Seq(Unit)
    BY StreamType DEF Init
  <2>2. Len(stream) \in Nat
    BY <2>1
  <2>3. TypeOK
    <3>1. stream \in Streams /\ now \in 0..MaxTime /\ accepted \in 0..MaxTime
      BY DEF Init
    <3>2. 0 <= MaxLength /\ 0 <= Len(stream)
      BY <2>2
    <3>3. body \in Slice /\ body.off + body.len <= at
      BY DEF Init, Slice
    <3>4. /\ invoked \in Seq([end : Nat, body : Slice]) /\ writes \in Seq(Write)
          /\ wire \in Seq([resp : Nat, live : BOOLEAN])
      BY EmptySeq DEF Init
    <3>5. /\ phase \in {"accepting", "insert", "wait", "read", "returning", "done", "refused"}
          /\ registered \in BOOLEAN /\ open \in BOOLEAN
          /\ timer \in {"none", "waiting", "expired"}
          /\ reading \in {"none", "pending", "ready", "failed"}
          /\ handler \in {"idle", "parse", "complete"}
          /\ parser \in {"ok", "dead"} /\ process_ \in BOOLEAN
          /\ closedBy \in Closers \cup {"none"}
      BY DEF Init
    <3>6. /\ pos_ \in Nat /\ got \in Nat /\ at \in Nat /\ clen \in Nat
          /\ pos_ + got <= MaxLength /\ pos_ + got <= Len(stream) /\ at <= pos_ + got
      BY <3>2 DEF Init
    <3> QED
      BY <3>1, <3>3, <3>4, <3>5, <3>6 DEF TypeOK
  <2>4. BeforeRead /\ ReadOrHandle /\ NotYetRegistered /\ NeverLeaked /\ ReadDiscipline
    BY DEF Init, BeforeRead, ReadOrHandle, NotYetRegistered, NeverLeaked, ReadDiscipline
  <2> QED
    BY <2>3, <2>4 DEF IInv
<1>2. IInv /\ [Next]_vars => IInv'
  BY TypeStep, ControlStep DEF IInv
<1> QED
  BY <1>1, <1>2, PTL DEF Spec

(* Type correctness, with the bounds on data_: whatever the client sends   *)
(* and however the reads fall, onRead (http_session.cpp:154) keeps pos_    *)
(* and the parser inside the buffer.                                       *)
THEOREM TypeCorrect == Spec => []TypeOK
BY Inductive, PTL DEF IInv

(* No interleaving of the handlers with start() and with each other leaves *)
(* a session in session_ without a timeout coming (http_session.cpp:119).  *)
THEOREM SessionNeverLeaked == Spec => []NeverLeaked
BY Inductive, PTL DEF IInv

(* do_read (http_session.cpp:139) only ever reads into free room, and      *)
(* never after a request has been answered.                                *)
THEOREM ReadsDisciplined == Spec => []ReadDiscipline
BY Inductive, PTL DEF IInv

-----------------------------------------------------------------------------
(* How far the parser is: it has seen no end of a message unless the       *)
(* callback for it is due, and between reads it has seen all of data_.     *)
Scanned ==
    /\ parser = "ok" /\ invoked = <<>> =>
           \A i \in 1..at : stream[i].last => handler = "complete" /\ i = at
    /\ handler = "idle" /\ parser = "ok" => at = pos_
    /\ handler = "complete" => parser = "ok"
    /\ process_ <=> invoked # <<>>


(* Every step keeps the parser's account.                                  *)
LEMMA ScannedStep ==
    ASSUME IInv, Scanned, [Next]_vars
    PROVE  Scanned'
<1> USE DEF IInv, TypeOK, Scanned, clock, acceptor, onread, output, sock
<1>s. stream \in Seq(Unit) /\ \A i \in 1..Len(stream) : stream[i] \in Unit
  BY StreamType
<1>1. CASE Accept
  BY <1>1 DEF Accept
<1>2. CASE AcceptFails
  BY <1>2 DEF AcceptFails
<1>3. CASE Insert
  BY <1>3 DEF Insert
<1>4. CASE StartTimer
  BY <1>4 DEF StartTimer
<1>5. CASE StartRead
  BY <1>5 DEF StartRead
<1>6. CASE OnAcceptReturns
  BY <1>6 DEF OnAcceptReturns
<1>7. CASE OnReadData
  BY <1>7 DEF OnReadData
<1>8. CASE OnReadError
  BY <1>8 DEF OnReadError
<1>9. CASE ParseFrame
  BY <1>s, <1>9 DEF ParseFrame, Parsing, AfterUnit
<1>10. CASE ParseBody
  BY <1>s, <1>10 DEF ParseBody, Parsing, AfterUnit, BodyRun
<1>11. CASE ParseError
  BY <1>s, <1>11 DEF ParseError, Parsing
<1>12. CASE MessageComplete
  BY <1>12 DEF MessageComplete, SetProcessed
<1>13. CASE OnReadReturns
  BY <1>13 DEF OnReadReturns, Executed
<1>14. CASE OnTimer
  BY <1>14 DEF OnTimer
<1>15. CASE Destroyed
  BY <1>15 DEF Destroyed
<1>16. CASE ReadReady
  BY <1>16 DEF ReadReady
<1>17. CASE ReadFails
  BY <1>17 DEF ReadFails
<1>18. CASE Tick
  BY <1>18 DEF Tick
<1>19. CASE Expire
  BY <1>19 DEF Expire
<1>20. ASSUME NEW i \in DOMAIN writes, OnWrite(i) PROVE Scanned'
  BY <1>20 DEF OnWrite
<1>21. ASSUME NEW i \in DOMAIN writes, WriteSome(i) PROVE Scanned'
  BY <1>21 DEF WriteSome
<1>22. ASSUME NEW i \in DOMAIN writes, WriteFails(i) PROVE Scanned'
  BY <1>22 DEF WriteFails
<1>23. CASE UNCHANGED vars
  BY <1>23 DEF vars
<1>24. CASE Over
  BY <1>23, <1>24 DEF Over
<1> QED
  BY <1>1, <1>2, <1>3, <1>4, <1>5, <1>6, <1>7, <1>8, <1>9, <1>10, <1>11, <1>12, <1>13, <1>14, <1>15, <1>16, <1>17, <1>18, <1>19, <1>20, <1>21, <1>22, <1>23, <1>24
     DEF Next, AcceptorThread, Handlers, Network

(* However a client's bytes are cut into reads, when onRead returns every  *)
(* complete message in them has reached the application                    *)
(* (http_session.cpp:108, 158).                                            *)
THEOREM MessagesNotMissed == Spec => []NothingMissed
<1>1. Init => Scanned
  BY DEF Init, Scanned
<1>2. IInv /\ Scanned /\ [Next]_vars => Scanned'
  BY ScannedStep
<1>3. IInv /\ Scanned => NothingMissed
  BY DEF IInv, TypeOK, Scanned, NothingMissed
<1> QED
  BY <1>1, <1>2, <1>3, Inductive, PTL DEF Spec
=============================================================================
