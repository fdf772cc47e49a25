----------------------- MODULE HttpParserCounts_proofs -----------------------
(* Three more theorems about HttpParser, for every set of streams and every  *)
(* limit on the header: what the application is given of a header stays      *)
(* within HTTP_MAX_HEADER_SIZE, index within its eight bits and within the   *)
(* word or method it is an index of, and a call within a number of runs      *)
(* through the switch. The first is an accounting: every byte of a header    *)
(* that was given or is marked has been counted in nread. HeaderBytes is     *)
(* defined by a recursive function; what it computes is proved by induction  *)
(* over the naturals, from their well-foundedness.                           *)
EXTENDS HttpParser_proofs, WellFoundedInduction, SequenceTheorems

-----------------------------------------------------------------------------
(* The naturals are well founded.                                            *)
LEMMA LessWellFounded ==
    IsWellFoundedOn({ss \in Nat \X Nat : ss[1] < ss[2]}, Nat)
BY NatLessThanWellFounded DEF OpToRel

(* Induction over the naturals, the induction hypothesis being a set.        *)
LEMMA Induction ==
    ASSUME NEW S, 0 \in S, \A n \in Nat : n \in S => n + 1 \in S
    PROVE  Nat \subseteq S
<1> DEFINE T == Nat \ S
           Less == {ss \in Nat \X Nat : ss[1] < ss[2]}
<1> SUFFICES ASSUME T # {} PROVE FALSE
  OBVIOUS
<1>1. IsWellFoundedOn(Less, Nat) /\ T \subseteq Nat
  BY LessWellFounded
<1>2. \A x, y \in T : <<y, x>> \notin Less => x <= y
  OBVIOUS
<1> HIDE DEF T, Less
<1>3. \E x \in T : \A y \in T : <<y, x>> \notin Less
  BY <1>1, WFMin
<1>4. PICK x \in T : \A y \in T : x <= y
  BY <1>2, <1>3
<1>5. x \in Nat /\ x \notin S
  BY DEF T
<1>6. x # 0 /\ x - 1 \in Nat
  BY <1>5
<1>7. x - 1 \in S
  <2>1. ~(x <= x - 1)
    BY <1>5
  <2>2. QED
    BY <1>4, <1>6, <2>1 DEF T
<1>8. QED
  BY <1>5, <1>6, <1>7

-----------------------------------------------------------------------------
(* The count of header bytes, as a function that unfolds one event at a      *)
(* time: the data that counts, the callbacks that start the count again, the *)
(* count after one more event, and what makes f the counts of the first n    *)
(* events.                                                                   *)
HeaderMarks == Marks \ {"body"}
Resets == {"message_begin", "headers_complete", "chunk_header"}
Added(n, e) == IF e.cb \in HeaderMarks THEN n + Len(e.data)
               ELSE IF e.cb \in Resets THEN 0 ELSE n
Counts(f, evs, n) ==
    f = [i \in 0 .. n |-> IF i = 0 THEN 0 ELSE Added(f[i - 1], evs[i])]

(* HeaderBytes is the last value of such a function.                         *)
LEMMA Unfolded ==
    ASSUME NEW evs
    PROVE  HeaderBytesIn(evs) = (CHOOSE f : Counts(f, evs, Len(evs)))[Len(evs)]
BY DEF HeaderBytesIn, Counts, Added, HeaderMarks, Resets

(* There is such a function for any sequence of events.                      *)
LEMMA CountExists ==
    ASSUME NEW evs, NEW n \in Nat
    PROVE  \E f : Counts(f, evs, n)
<1> DEFINE S == {k \in Nat : \E f : Counts(f, evs, k)}
<1>1. 0 \in S
  <2>1. Counts([i \in {0} |-> 0], evs, 0)
    BY DEF Counts
  <2>2. QED
    BY <2>1
<1>2. ASSUME NEW k \in Nat, k \in S PROVE k + 1 \in S
  <2>1. PICK f : Counts(f, evs, k)
    BY <1>2
  <2> DEFINE g == [i \in 0 .. k + 1 |-> IF i = k + 1 THEN Added(f[k], evs[i])
                                                     ELSE f[i]]
  <2>2. ASSUME NEW i \in 0 .. k + 1
        PROVE  g[i] = IF i = 0 THEN 0 ELSE Added(g[i - 1], evs[i])
    <3>1. CASE i = k + 1
      <4>1. g[i] = Added(f[k], evs[i]) /\ g[i - 1] = f[k] /\ i # 0
        BY <3>1
      <4>2. QED
        BY <4>1
    <3>2. CASE i # k + 1
      <4>1. g[i] = f[i] /\ i \in 0 .. k
        BY <3>2
      <4>2. f[i] = IF i = 0 THEN 0 ELSE Added(f[i - 1], evs[i])
        BY <2>1, <4>1 DEF Counts
      <4>3. i # 0 => g[i - 1] = f[i - 1]
        BY <4>1
      <4>4. QED
        BY <4>1, <4>2, <4>3
    <3>3. QED
      BY <3>1, <3>2
  <2>3. g = [i \in 0 .. k + 1 |-> IF i = 0 THEN 0 ELSE Added(g[i - 1], evs[i])]
    <3> HIDE DEF g
    <3>1. g = [i \in 0 .. k + 1 |-> g[i]]
      BY DEF g
    <3>2. QED
      BY <2>2, <3>1
  <2>4. Counts(g, evs, k + 1)
    BY <2>3 DEF Counts
  <2>5. QED
    BY <2>4
<1>3. Nat \subseteq S
  BY <1>1, <1>2, Induction
<1>4. QED
  BY <1>3

(* Where two sequences of events begin alike, so do their counts.            *)
LEMMA CountsAgree ==
    ASSUME NEW evs, NEW other, NEW f, NEW g, NEW n \in Nat, NEW m \in Nat,
           Counts(f, evs, n), Counts(g, other, m),
           NEW k \in Nat, k <= n, k <= m,
           \A i \in 1 .. k : evs[i] = other[i]
    PROVE  f[k] = g[k]
<1> DEFINE S == {i \in Nat : i <= k => f[i] = g[i]}
<1>1. 0 \in S
  BY DEF Counts
<1>2. ASSUME NEW i \in Nat, i \in S PROVE i + 1 \in S
  <2>1. SUFFICES ASSUME i + 1 <= k PROVE f[i + 1] = g[i + 1]
    OBVIOUS
  <2>2. f[i] = g[i] /\ evs[i + 1] = other[i + 1]
    BY <1>2, <2>1
  <2>3. /\ f[i + 1] = Added(f[i], evs[i + 1])
        /\ g[i + 1] = Added(g[i], other[i + 1])
    <3>1. i + 1 \in 0 .. n /\ i + 1 \in 0 .. m /\ i + 1 # 0 /\ (i + 1) - 1 = i
      BY <2>1
    <3>2. f[i + 1] = Added(f[(i + 1) - 1], evs[i + 1])
      BY <3>1 DEF Counts
    <3>3. g[i + 1] = Added(g[(i + 1) - 1], other[i + 1])
      BY <3>1 DEF Counts
    <3>4. QED
      BY <3>1, <3>2, <3>3
  <2>4. QED
    BY <2>2, <2>3
<1>3. Nat \subseteq S
  BY <1>1, <1>2, Induction
<1>4. QED
  BY <1>3

(* The count after the first k events.                                       *)
CountAt(evs, k) == (CHOOSE f : Counts(f, evs, Len(evs)))[k]

(* The count starts at 0 and goes on event by event.                         *)
LEMMA CountFacts ==
    ASSUME NEW S, NEW evs \in Seq(S)
    PROVE  /\ CountAt(evs, 0) = 0
           /\ \A k \in 1 .. Len(evs) :
                  CountAt(evs, k) = Added(CountAt(evs, k - 1), evs[k])
           /\ HeaderBytesIn(evs) = CountAt(evs, Len(evs))
<1>1. Len(evs) \in Nat
  OBVIOUS
<1> DEFINE f == CHOOSE f : Counts(f, evs, Len(evs))
<1>2. Counts(f, evs, Len(evs))
  BY <1>1, CountExists
<1>3. HeaderBytesIn(evs) = f[Len(evs)]
  BY Unfolded
<1> HIDE DEF f
<1>4. f[0] = 0 /\ \A k \in 1 .. Len(evs) : f[k] = Added(f[k - 1], evs[k])
  BY <1>1, <1>2 DEF Counts
<1>5. QED
  BY <1>3, <1>4 DEF f, CountAt

(* The count after k events depends on those k alone.                        *)
LEMMA CountsAlike ==
    ASSUME NEW S, NEW evs \in Seq(S), NEW T, NEW other \in Seq(T),
           NEW k \in Nat,
           k <= Len(evs), k <= Len(other), \A i \in 1 .. k : evs[i] = other[i]
    PROVE  CountAt(evs, k) = CountAt(other, k)
<1>1. Len(evs) \in Nat /\ Len(other) \in Nat
  OBVIOUS
<1>2. /\ Counts(CHOOSE f : Counts(f, evs, Len(evs)), evs, Len(evs))
      /\ Counts(CHOOSE f : Counts(f, other, Len(other)), other, Len(other))
  BY <1>1, CountExists
<1>3. QED
  BY <1>1, <1>2, CountsAgree DEF CountAt

(* The events are records that carry a sequence of characters.               *)
Carries(e) == {"cb", "data"} \subseteq DOMAIN e /\ e.data \in Seq(Character)
CarryData(evs) == \E S : evs \in Seq(S) /\ \A e \in S : Carries(e)

(* An event that is appended adds what it carries, or starts the count       *)
(* again.                                                                    *)
LEMMA CountAppended ==
    ASSUME NEW S, NEW evs \in Seq(S), NEW e
    PROVE  HeaderBytesIn(Append(evs, e)) = Added(HeaderBytesIn(evs), e)
<1> DEFINE n == Len(evs)
           other == Append(evs, e)
<1>1. /\ n \in Nat /\ other \in Seq(S \cup {e}) /\ Len(other) = n + 1
      /\ other[n + 1] = e /\ \A i \in 1 .. n : evs[i] = other[i]
  OBVIOUS
<1> HIDE DEF other
<1>2. CountAt(evs, n) = CountAt(other, n)
  BY <1>1, CountsAlike
<1>3. HeaderBytesIn(evs) = CountAt(evs, n)
  BY CountFacts
<1>4. /\ HeaderBytesIn(other) = CountAt(other, n + 1)
      /\ CountAt(other, n + 1) = Added(CountAt(other, (n + 1) - 1), other[n + 1])
  BY <1>1, CountFacts
<1>5. QED
  BY <1>1, <1>2, <1>3, <1>4 DEF other

(* An event that is replaced, as the last one is when a piece of data is     *)
(* joined to it, changes what is added last.                                 *)
LEMMA CountReplaced ==
    ASSUME NEW S, NEW evs \in Seq(S), evs # <<>>, NEW e,
           Added(0, evs[Len(evs)]) \in Nat
    PROVE  \E n : /\ HeaderBytesIn(evs) = Added(n, evs[Len(evs)])
                  /\ HeaderBytesIn([evs EXCEPT ![Len(evs)] = e]) = Added(n, e)
                  /\ n = CountAt(evs, Len(evs) - 1)
<1> DEFINE n == Len(evs)
           other == [evs EXCEPT ![n] = e]
<1>1. /\ n \in Nat \ {0} /\ n \in 1 .. n /\ other \in Seq(S \cup {e})
      /\ Len(other) = n /\ n - 1 \in Nat
      /\ other[n] = e /\ \A i \in 1 .. n - 1 : evs[i] = other[i]
  OBVIOUS
<1> HIDE DEF other
<1>2. CountAt(evs, n - 1) = CountAt(other, n - 1)
  BY <1>1, CountsAlike
<1>3. /\ HeaderBytesIn(evs) = CountAt(evs, n)
      /\ CountAt(evs, n) = Added(CountAt(evs, n - 1), evs[n])
  BY <1>1, CountFacts
<1>4. /\ HeaderBytesIn(other) = CountAt(other, n)
      /\ CountAt(other, n) = Added(CountAt(other, n - 1), other[n])
  BY <1>1, CountFacts
<1>5. QED
  BY <1>1, <1>2, <1>3, <1>4 DEF other

(* The count is a natural number after every event.                          *)
LEMMA CountIsNatural ==
    ASSUME NEW S, NEW evs \in Seq(S), \A e \in S : Carries(e)
    PROVE  \A k \in 0 .. Len(evs) : CountAt(evs, k) \in Nat
<1> DEFINE T == {k \in Nat : k <= Len(evs) => CountAt(evs, k) \in Nat}
<1>1. 0 \in T
  BY CountFacts
<1>2. ASSUME NEW k \in Nat, k \in T PROVE k + 1 \in T
  <2>1. SUFFICES ASSUME k + 1 <= Len(evs) PROVE CountAt(evs, k + 1) \in Nat
    OBVIOUS
  <2>2. CountAt(evs, k) \in Nat /\ k + 1 \in 1 .. Len(evs) /\ evs[k + 1] \in S
    BY <1>2, <2>1
  <2>3. CountAt(evs, k + 1) = Added(CountAt(evs, (k + 1) - 1), evs[k + 1])
    BY <2>2, CountFacts
  <2>4. Len(evs[k + 1].data) \in Nat
    BY <2>2 DEF Carries
  <2>5. QED
    BY <2>2, <2>3, <2>4 DEF Added
<1>3. Nat \subseteq T
  BY <1>1, <1>2, Induction
<1>4. QED
  BY <1>3

(* So the header data given to the application have a length.                *)
LEMMA HeaderBytesNatural ==
    ASSUME CarryData(events)
    PROVE  HeaderBytes \in Nat
<1>1. PICK S : events \in Seq(S) /\ \A e \in S : Carries(e)
  BY DEF CarryData
<1>2. Len(events) \in 0 .. Len(events) /\ Len(events) \in Nat
  BY <1>1
<1>3. QED
  BY <1>1, <1>2, CountIsNatural, CountFacts DEF HeaderBytes

(* The callbacks that carry no data.                                         *)
Notices == {"message_begin", "headers_complete", "message_complete",
            "chunk_header", "chunk_complete"}

(* A notification starts the count again or leaves it alone.                 *)
LEMMA NoticeCounts ==
    ASSUME CarryData(events), NEW q, NEW cb \in Notices,
           CALLBACK_NOTIFY(cb, q)
    PROVE  /\ CarryData(events) /\ CarryData(events)' /\ mark' = mark
           /\ HeaderBytes' = IF cb \in Resets THEN 0 ELSE HeaderBytes
<1> DEFINE e == Event(cb, q)
<1>1. /\ {"cb", "data"} \subseteq DOMAIN e /\ e.cb = cb /\ e.data = <<>>
  BY DEF Event
<1>2. PICK S : events \in Seq(S) /\ \A x \in S : Carries(x)
  BY DEF CarryData
<1>3. events' = Append(events, e) /\ mark' = mark
  BY DEF CALLBACK_NOTIFY
<1> HIDE DEF e
<1>4. Carries(e)
  BY <1>1 DEF Carries
<1>5. CarryData(events')
  <2>1. events' \in Seq(S \cup {e}) /\ \A x \in S \cup {e} : Carries(x)
    BY <1>2, <1>3, <1>4
  <2>2. QED
    BY <2>1 DEF CarryData
<1>6. HeaderBytesIn(events') = Added(HeaderBytesIn(events), e)
  BY <1>2, <1>3, CountAppended
<1>7. Added(HeaderBytesIn(events), e) =
          IF cb \in Resets THEN 0 ELSE HeaderBytesIn(events)
  BY <1>1 DEF Added, HeaderMarks, Marks, Resets, Notices
<1>8. QED
  BY <1>3, <1>5, <1>6, <1>7 DEF HeaderBytes, CarryData

(* A piece of header data adds its length, whether it begins an event or     *)
(* continues one; a piece of a body adds nothing.                            *)
LEMMA JoinCounts ==
    ASSUME CarryData(events), NEW m \in Marks, NEW text \in Seq(Character),
           events' = Join(m, text)
    PROVE  /\ CarryData(events)'
           /\ HeaderBytes' = IF m = "body" THEN HeaderBytes
                             ELSE HeaderBytes + Len(text)
<1>1. PICK S : events \in Seq(S) /\ \A x \in S : Carries(x)
  BY DEF CarryData
<1>2. m # "none" /\ m \notin Resets /\ (m \in HeaderMarks <=> m # "body")
  BY DEF Marks, Resets, HeaderMarks
<1>3. CASE Last = m
  <2>1. events # <<>> /\ Len(events) \in Nat \ {0} /\ events[Len(events)] \in S
    BY <1>1, <1>2, <1>3 DEF Last
  <2> DEFINE old == events[Len(events)]
             new == [old EXCEPT !.data = @ \o text]
  <2>2. Carries(old) /\ old.cb = m
    BY <1>1, <1>2, <1>3, <2>1 DEF Last
  <2>3. /\ DOMAIN new = DOMAIN old /\ new.cb = m /\ new.data = old.data \o text
    BY <2>2 DEF Carries
  <2>4. events' = [events EXCEPT ![Len(events)] = new]
    BY <1>3 DEF Join
  <2> HIDE DEF new
  <2>5. Carries(new) /\ Len(new.data) = Len(old.data) + Len(text)
        /\ Len(old.data) \in Nat /\ Len(text) \in Nat
    BY <2>2, <2>3 DEF Carries
  <2>6. CarryData(events')
    <3>1. events' \in Seq(S \cup {new}) /\ \A x \in S \cup {new} : Carries(x)
      BY <1>1, <2>1, <2>4, <2>5
    <3>2. QED
      BY <3>1 DEF CarryData
  <2> DEFINE n == CountAt(events, Len(events) - 1)
  <2>7. n \in Nat
    <3>1. Len(events) - 1 \in 0 .. Len(events)
      BY <2>1
    <3>2. QED
      BY <1>1, <3>1, CountIsNatural
  <2>8. Added(0, old) \in Nat
    BY <2>5 DEF Added
  <2>9. /\ HeaderBytesIn(events) = Added(n, old)
        /\ HeaderBytesIn(events') = Added(n, new)
    BY <1>1, <2>1, <2>4, <2>8, CountReplaced
  <2> HIDE DEF n
  <2>10. Added(n, new) = IF m = "body" THEN Added(n, old)
                         ELSE Added(n, old) + Len(text)
    BY <1>2, <2>2, <2>3, <2>5, <2>7 DEF Added
  <2>11. QED
    BY <2>6, <2>9, <2>10 DEF HeaderBytes, CarryData
<1>4. CASE Last # m
  <2> DEFINE new == [cb |-> m, data |-> text]
  <2>1. Carries(new) /\ new.cb = m /\ new.data = text
    BY DEF Carries
  <2>2. events' = Append(events, new)
    BY <1>4 DEF Join
  <2> HIDE DEF new
  <2>3. CarryData(events')
    <3>1. events' \in Seq(S \cup {new}) /\ \A x \in S \cup {new} : Carries(x)
      BY <1>1, <2>1, <2>2
    <3>2. QED
      BY <3>1 DEF CarryData
  <2>4. HeaderBytesIn(events') = Added(HeaderBytesIn(events), new)
    BY <1>1, <2>2, CountAppended
  <2>5. Added(HeaderBytesIn(events), new) =
            IF m = "body" THEN HeaderBytesIn(events)
                          ELSE HeaderBytesIn(events) + Len(text)
    BY <1>2, <2>1 DEF Added
  <2>6. QED
    BY <2>3, <2>4, <2>5 DEF HeaderBytes, CarryData
<1>5. QED
  BY <1>3, <1>4

-----------------------------------------------------------------------------
(* The byte in the switch has been counted already, where a header is read.  *)
Due == IF PARSING_HEADER(parser.state) THEN 1 ELSE 0
(* The header data given, together with what is marked before byte x but not *)
(* yet given, is at most bound.                                              *)
HeldWithin(x, bound) ==
    /\ HeaderBytes <= bound
    /\ \A m \in HeaderMarks : mark[m] # 0 =>
           mark[m] <= x /\ HeaderBytes + (x - mark[m]) <= bound
(* nread counts at least the header data that has been given or marked       *)
(* (http_parser.c:144-157, COUNT_HEADER_SIZE): between buffers what was      *)
(* given, at the head of the loop what is marked too, and in the switch      *)
(* without the byte that is looked at but with the bytes an inner loop has   *)
(* run over and not counted yet. A limit that compared only with what was    *)
(* given would not be inductive: the bytes are counted when they are read    *)
(* and given when they end.                                                  *)
HeaderCounted ==
    parser.http_errno = "OK" =>
        /\ parser.nread <= HTTP_MAX_HEADER_SIZE
        /\ call = "outside" => HeaderBytes <= parser.nread
        /\ call = "loop" => HeldWithin(p, parser.nread)
        /\ call = "switch" => HeldWithin(p, parser.nread + InnerRead - Due)
        /\ parser.state \in ChunkData => HeaderBytes = 0

(* The states in which index is looked at.                                   *)
Indexed == {"s_req_method"} \cup InnerStates
(* index (http_parser.h:212, eight bits) is within the method that is        *)
(* guessed, and a word that is being recognised is not over yet; the three   *)
(* first letters that words share have been read at the indices 0 to 2, and  *)
(* the words of Connection are begun at 0.                                   *)
IndexFits(q) ==
    /\ q.index \in 0 .. 255
    /\ q.state = "s_req_method" => q.index <= Len(Spelled[q.method])
    /\ q.state \in InnerStates /\ q.header_state \in DOMAIN Words =>
           q.index + 1 < Len(Words[q.header_state][1])
    /\ q.state = "s_header_field" =>
           /\ q.header_state = "h_C" => q.index = 0
           /\ q.header_state = "h_CO" => q.index = 1
           /\ q.header_state = "h_CON" => q.index = 2
    /\ q.state = "s_header_value"
       /\ q.header_state = "h_matching_connection_token_start"
       => q.index = 0

(* What is inductive together with IInv.                                     *)
CInv == CarryData(events) /\ HeaderCounted /\ IndexFits(parser)

(* What a run through the switch may tell the application or mark.           *)
Told ==
    \/ Silent
    \/ \E cb \in Notices : \E q : CALLBACK_NOTIFY(cb, q)
    \/ \E m \in Marks : MARK(m)
    \/ \E m \in Marks : CALLBACK_DATA(m, p)
    \/ events' = Join("header_value", <<>>) /\ UNCHANGED mark

(* HeldWithin after the step, at byte x.                                     *)
WillHold(x, bound) ==
    /\ HeaderBytes' <= bound
    /\ \A m \in HeaderMarks : mark'[m] # 0 =>
           mark'[m] <= x /\ HeaderBytes' + (x - mark'[m]) <= bound

(* At most one mark is set while the parser works.                           *)
LEMMA OneMark ==
    ASSUME IInv, call # "outside", NEW m \in Marks, NEW n \in Marks,
           mark[m] # 0, mark[n] # 0
    PROVE  m = n
<1>1. MarksBelong
  BY DEF IInv
<1>2. QED
  BY <1>1 DEF MarksBelong, Marks, UrlStart, UrlStates, Query, Fragment,
     BodyMarked

(* The marks and the bytes that have been run over are in the buffer.        *)
LEMMA Placing ==
    ASSUME IInv
    PROVE  /\ p \in Nat \ {0} /\ end \in Nat /\ p <= end + 1 /\ start \in Nat
           /\ end <= Len(bytes) /\ Len(bytes) \in Nat
           /\ bytes \in Seq(Character)
           /\ mark \in [Marks -> Nat] /\ parser.nread \in Nat
           /\ start > 0 => start <= p
           /\ InnerRead \in Nat
<1>1. bytes \in Seq(Character) /\ Len(bytes) \in Nat
  BY StreamsAssumption DEF IInv, InBuffer, bytes
<1>2. QED
  BY <1>1 DEF IInv, InBuffer, InnerOnly, InnerRead, FieldsFit

(* The data of a mark is as long as the way from the mark to p.              *)
LEMMA Given ==
    ASSUME IInv, CarryData(events), call # "outside", NEW m \in Marks,
           mark[m] # 0, mark[m] <= p, CALLBACK_DATA(m, p)
    PROVE  /\ CarryData(events)' /\ mark' = [mark EXCEPT ![m] = 0]
           /\ HeaderBytes' = IF m = "body" THEN HeaderBytes
                             ELSE HeaderBytes + (p - mark[m])
<1> DEFINE text == SubSeq(bytes, mark[m], p - 1)
<1>1. /\ mark[m] \in 1 .. Len(bytes) + 1 /\ p - 1 \in mark[m] - 1 .. Len(bytes)
  BY Placing
<1>2. text \in Seq(Character) /\ Len(text) = p - mark[m]
  BY <1>1, Placing, SubSeqProperties
<1>3. events' = Join(m, text) /\ mark' = [mark EXCEPT ![m] = 0]
  BY DEF CALLBACK_DATA
<1> HIDE DEF text
<1>4. QED
  BY <1>2, <1>3, JoinCounts

(* Whatever a step tells or marks, what is held stays within its bound.      *)
LEMMA Telling ==
    ASSUME IInv, CarryData(events), call # "outside", Told, NEW b \in Int,
           HeldWithin(p, b)
    PROVE  /\ CarryData(events)'
           /\ \A x \in Int : x >= p => WillHold(x, b + (x - p))
<1>1. HeaderBytes \in Nat /\ HeaderBytes <= b
  BY HeaderBytesNatural DEF HeldWithin
<1>2. p \in Nat /\ mark \in [Marks -> Nat] /\ p <= Len(bytes) + 1
  BY Placing
<1>3. \A m \in HeaderMarks : m \in Marks /\ m # "body"
  BY DEF HeaderMarks
<1>4. ASSUME NEW h \in Nat, h <= HeaderBytes, CarryData(events)',
             HeaderBytes' = h, mark' = mark
      PROVE  /\ CarryData(events)'
             /\ \A x \in Int : x >= p => WillHold(x, b + (x - p))
  <2> SUFFICES ASSUME NEW x \in Int, x >= p PROVE WillHold(x, b + (x - p))
    BY <1>4
  <2>1. ASSUME NEW m \in HeaderMarks, mark[m] # 0
        PROVE  mark[m] <= x /\ h + (x - mark[m]) <= b + (x - p)
    <3>1. mark[m] <= p /\ HeaderBytes + (p - mark[m]) <= b /\ mark[m] \in Nat
      BY <1>2, <1>3, <2>1 DEF HeldWithin
    <3>2. QED
      BY <1>1, <1>2, <1>4, <3>1
  <2>2. h <= b + (x - p)
    BY <1>1, <1>2, <1>4
  <2>3. QED
    BY <1>4, <2>1, <2>2 DEF WillHold
<1>5. CASE Silent
  <2>1. events' = events /\ mark' = mark
    BY <1>5 DEF Silent
  <2>2. CarryData(events)' /\ HeaderBytes' = HeaderBytes
    BY <2>1 DEF CarryData, HeaderBytes
  <2>3. QED
    BY <1>1, <1>4, <2>1, <2>2
<1>6. CASE \E cb \in Notices : \E q : CALLBACK_NOTIFY(cb, q)
  <2>1. PICK cb \in Notices : \E q : CALLBACK_NOTIFY(cb, q)
    BY <1>6
  <2>2. PICK q : CALLBACK_NOTIFY(cb, q)
    BY <2>1
  <2>3. /\ CarryData(events)' /\ mark' = mark
        /\ HeaderBytes' \in {0, HeaderBytes}
    BY <2>2, NoticeCounts
  <2>4. HeaderBytes' \in Nat /\ HeaderBytes' <= HeaderBytes
    BY <1>1, <2>3
  <2>5. QED
    BY <1>4, <2>3, <2>4
<1>7. CASE events' = Join("header_value", <<>>) /\ UNCHANGED mark
  <2>1. "header_value" \in Marks /\ <<>> \in Seq(Character) /\ Len(<<>>) = 0
    BY DEF Marks
  <2>2. CarryData(events)' /\ HeaderBytes' = HeaderBytes + 0
    BY <1>7, <2>1, JoinCounts
  <2>3. QED
    BY <1>1, <1>4, <1>7, <2>2
<1>8. ASSUME NEW m \in Marks, MARK(m)
      PROVE  /\ CarryData(events)'
             /\ \A x \in Int : x >= p => WillHold(x, b + (x - p))
  <2>1. /\ events' = events /\ mark' = [mark EXCEPT ![m] = From(m)]
    BY <1>8 DEF MARK
  <2>2. CarryData(events)' /\ HeaderBytes' = HeaderBytes
    BY <2>1 DEF CarryData, HeaderBytes
  <2>3. SUFFICES ASSUME NEW x \in Int, x >= p PROVE WillHold(x, b + (x - p))
    BY <2>2
  <2>4. ASSUME NEW n \in HeaderMarks, mark'[n] # 0
        PROVE  mark'[n] <= x /\ HeaderBytes + (x - mark'[n]) <= b + (x - p)
    <3>1. CASE mark[n] # 0
      <4>1. mark'[n] = mark[n]
        BY <1>2, <1>3, <2>1, <3>1 DEF From
      <4>2. mark[n] <= p /\ HeaderBytes + (p - mark[n]) <= b /\ mark[n] \in Nat
        BY <1>2, <1>3, <3>1 DEF HeldWithin
      <4>3. QED
        BY <1>1, <1>2, <2>3, <4>1, <4>2
    <3>2. CASE mark[n] = 0
      <4>1. mark'[n] = p
        BY <1>2, <1>3, <2>1, <2>4, <3>2 DEF From
      <4>2. QED
        BY <1>1, <1>2, <2>3, <4>1
    <3>3. QED
      BY <3>1, <3>2
  <2>5. HeaderBytes <= b + (x - p)
    BY <1>1, <1>2, <2>3
  <2>6. QED
    BY <2>2, <2>4, <2>5 DEF WillHold
<1>9. ASSUME NEW m \in Marks, CALLBACK_DATA(m, p)
      PROVE  /\ CarryData(events)'
             /\ \A x \in Int : x >= p => WillHold(x, b + (x - p))
  <2>1. CASE mark[m] = 0
    <3>1. events' = events /\ mark' = mark
      BY <1>2, <1>9, <2>1 DEF CALLBACK_DATA
    <3>2. QED
      BY <1>5, <3>1 DEF Silent
  <2>2. CASE mark[m] # 0 /\ m = "body"
    <3>1. events' = Join(m, SubSeq(bytes, mark[m], p - 1))
          /\ mark' = [mark EXCEPT ![m] = 0]
      BY <1>9, <2>2 DEF CALLBACK_DATA
    <3>2. \A n \in HeaderMarks : mark[n] = 0
      BY <1>3, <2>2, OneMark
    <3>3. \A n \in HeaderMarks : mark'[n] = 0
      BY <1>2, <1>3, <3>1, <3>2
    <3>4. SubSeq(bytes, mark[m], p - 1) \in Seq(Character)
      <4>1. \A i \in mark[m] .. p - 1 : bytes[i] \in Character
        BY <1>2, <2>2, Placing
      <4>2. mark[m] \in Int /\ p - 1 \in Int
        BY <1>2
      <4>3. QED
        BY <4>1, <4>2, SubSeqProperties
    <3>5. CarryData(events)' /\ HeaderBytes' = HeaderBytes
      BY <2>2, <3>1, <3>4, JoinCounts
    <3>6. QED
      BY <1>1, <1>2, <3>3, <3>5 DEF WillHold
  <2>3. CASE mark[m] # 0 /\ m # "body"
    <3>1. mark[m] <= p /\ HeaderBytes + (p - mark[m]) <= b
      BY <2>3 DEF HeldWithin, HeaderMarks
    <3>2. /\ CarryData(events)' /\ mark' = [mark EXCEPT ![m] = 0]
          /\ HeaderBytes' = HeaderBytes + (p - mark[m])
      BY <1>9, <2>3, <3>1, Given
    <3>3. \A n \in HeaderMarks : mark'[n] = 0
      BY <1>2, <1>3, <2>3, <3>2, OneMark
    <3>4. HeaderBytes' <= b
      BY <3>1, <3>2
    <3>5. HeaderBytes' \in Int
      BY <1>1, <1>2, <3>2
    <3>6. QED
      BY <1>2, <3>2, <3>3, <3>4, <3>5 DEF WillHold
  <2>4. QED
    BY <2>1, <2>2, <2>3
<1>10. QED
  BY <1>5, <1>6, <1>7, <1>8, <1>9 DEF Told

(* A failure.                                                                *)
LEMMA FailingCounts ==
    ASSUME IInv, CInv, call # "outside", CarryData(events)', NEW e, e # "OK",
           Error(e)
    PROVE  CInv'
<1>1. parser' = [parser EXCEPT !.http_errno = e]
  BY DEF Error, Go
<1>2. /\ parser'.http_errno = e /\ parser'.index = parser.index
      /\ parser'.state = parser.state /\ parser'.method = parser.method
      /\ parser'.header_state = parser.header_state
  BY <1>1 DEF IInv, HasFields, Fields
<1>3. HeaderCounted'
  BY <1>2 DEF HeaderCounted
<1>4. IndexFits(parser')
  BY <1>2 DEF IndexFits, CInv
<1>5. QED
  BY <1>3, <1>4 DEF CInv

(* A run that goes on in the state of new counts nothing, and keeps index    *)
(* within its bounds.                                                        *)
Follows(new) ==
    /\ new.nread = parser.nread /\ new.state \notin ChunkData
    /\ IndexFits(new)
(* The usual run: it tells something or nothing, and fails or goes on.       *)
Passes ==
    /\ Told
    /\ \/ \E e : e # "OK" /\ Error(e)
       \/ \E new : (Break(new) \/ REEXECUTE(new)) /\ Follows(new)

(* Such a run keeps the invariant: what it tells was marked, and the byte it *)
(* moves past was counted at the head of the loop.                           *)
LEMMA Passing ==
    ASSUME IInv, IInv', CInv, call = "switch", parser.state \notin InnerStates,
           PARSING_HEADER(parser.state), Passes
    PROVE  CInv'
<1>1. /\ start = 0 /\ InnerRead = 0 /\ Due = 1 /\ parser.nread \in Nat
      /\ parser.nread <= HTTP_MAX_HEADER_SIZE /\ p \in Nat
  BY AtWork, Placing DEF IInv, InnerOnly, InBuffer, InnerRead, Due, CInv,
     HeaderCounted
<1> DEFINE b == parser.nread - 1
<1>2. HeldWithin(p, b) /\ b \in Int
  BY <1>1, AtWork DEF CInv, HeaderCounted
<1> HIDE DEF b
<1>3. CarryData(events)' /\ \A x \in Int : x >= p => WillHold(x, b + (x - p))
  BY <1>2, Telling DEF CInv, Passes
<1>4. ASSUME NEW e, e # "OK", Error(e) PROVE CInv'
  BY <1>3, <1>4, FailingCounts
<1>5. ASSUME NEW new, Break(new) \/ REEXECUTE(new), Follows(new) PROVE CInv'
  <2>1. parser' = new /\ start' = 0
    BY <1>5 DEF Break, REEXECUTE, Go
  <2>2. IndexFits(parser')
    BY <1>5, <2>1 DEF Follows
  <2>3. CASE Break(new)
    <3>1. p' = p + 1 /\ call' = "loop"
      BY <2>3 DEF Break, Go
    <3>2. WillHold(p + 1, parser.nread)
      <4>1. p + 1 \in Int /\ p + 1 >= p /\ b + ((p + 1) - p) = parser.nread
        BY <1>1 DEF b
      <4>2. QED
        BY <1>3, <4>1
    <3>3. HeaderCounted'
      BY <1>1, <1>5, <2>1, <3>1, <3>2
         DEF Follows, HeaderCounted, HeldWithin, WillHold
    <3>4. QED
      BY <1>3, <2>2, <3>3 DEF CInv
  <2>4. CASE REEXECUTE(new)
    <3>1. p' = p /\ call' = "switch"
      BY <2>4 DEF REEXECUTE, Go
    <3>2. WillHold(p, parser.nread - 1)
      <4>1. p \in Int /\ p >= p /\ b + (p - p) = parser.nread - 1
        BY <1>1 DEF b
      <4>2. QED
        BY <1>3, <4>1
    <3>3. HeaderBytes' \in Int
      <4>1. CarryData(events')
        BY <1>3 DEF CarryData
      <4>2. HeaderBytesIn(events') \in Nat
        <5>1. PICK S : events' \in Seq(S) /\ \A e \in S : Carries(e)
          BY <4>1 DEF CarryData
        <5>2. QED
          BY <5>1, CountIsNatural, CountFacts
      <4>3. QED
        BY <4>2 DEF HeaderBytes
    <3>4. InnerRead' = 0 /\ Due' \in {0, 1}
      BY <2>1 DEF InnerRead, Due
    <3>5. HeaderCounted'
      <4>1. HeldWithin(p, parser.nread + InnerRead - Due)'
        <5>1. mark' \in [Marks -> Int]
          BY DEF IInv, InBuffer
        <5>2. QED
        BY <1>1, <1>5, <2>1, <3>1, <3>2, <3>3, <3>4, <5>1
           DEF Follows, HeldWithin, WillHold, HeaderMarks
      <4>2. QED
        BY <1>1, <1>5, <2>1, <3>1, <4>1 DEF Follows, HeaderCounted
    <3>6. QED
      BY <1>3, <2>2, <3>5 DEF CInv
  <2>5. QED
    BY <1>5, <2>3, <2>4
<1>6. QED
  BY <1>4, <1>5 DEF Passes

-----------------------------------------------------------------------------
(* The states in which index or the absence of header data is promised.      *)
Unread == Indexed \cup ChunkData

(* No other state promises anything.                                         *)
LEMMA Unindexed ==
    ASSUME IndexFits(parser), NEW new, new.index = parser.index,
           new.nread = parser.nread, new.state \notin Unread
    PROVE  Follows(new)
BY DEF Follows, IndexFits, Unread, Indexed, InnerStates

(* A change of state alone, to one of the others.                            *)
LEMMA GoingFollows ==
    ASSUME IInv, IndexFits(parser)
    PROVE  /\ \A s : s \notin Unread => Follows(Goto(s))
           /\ parser.state \notin Unread => Follows(parser)
<1>1. ASSUME NEW s, s \notin Unread PROVE Follows(Goto(s))
  <2>1. /\ Goto(s).index = parser.index /\ Goto(s).nread = parser.nread
        /\ Goto(s).state = s
    BY DEF IInv, HasFields, Fields, Goto
  <2>2. QED
    BY <1>1, <2>1, Unindexed
<1>2. QED
  BY <1>1, Unindexed

(* An error is one way on.                                                   *)
LEMMA ErrorPasses ==
    ASSUME Told, NEW e, e # "OK", Error(e)
    PROVE  Passes
BY DEF Passes

(* To go on is the other way.                                                *)
LEMMA FollowingPasses ==
    ASSUME Told, NEW new, Break(new) \/ REEXECUTE(new), Follows(new)
    PROVE  Passes
BY DEF Passes

(* The states that follow in the first line.                                 *)
LEMMA LineStates ==
    /\ \A s \in DOMAIN Literal : Literal[s][2] \notin Unread
    /\ \A s \in DOMAIN FirstDigit : FirstDigit[s][3] \notin Unread
    /\ \A s \in DOMAIN MoreDigits : s \notin Unread
    /\ \A s \in UrlStart \cup UrlStates : s \notin Unread
    /\ LineEnd \notin Unread
<1>1. \A s \in DOMAIN Literal : Literal[s][2] \notin Unread
  BY DEF Literal, Unread, Indexed, InnerStates, ChunkData
<1>2. \A s \in DOMAIN FirstDigit : FirstDigit[s][3] \notin Unread
  BY DEF FirstDigit, Unread, Indexed, InnerStates, ChunkData
<1>3. \A s \in DOMAIN MoreDigits : s \notin Unread
  BY DEF MoreDigits, Unread, Indexed, InnerStates, ChunkData
<1>4. \A s \in UrlStart \cup UrlStates : s \notin Unread
  BY DEF UrlStart, UrlStates, Query, Fragment, Unread, Indexed, InnerStates,
         ChunkData
<1>5. LineEnd \notin Unread
  BY DEF LineEnd, Unread, Indexed, InnerStates, ChunkData
<1>6. QED
  BY <1>1, <1>2, <1>3, <1>4, <1>5

(* None of the states of the first line that need no length does, except     *)
(* s_req_method.                                                             *)
LEMMA PlainNotUnread ==
    \A s \in PlainStates \ {"s_req_method"} : s \notin Unread
BY PlainOnes DEF Unread, Indexed, LengthStates, ChunkStates

(* A byte of the URL.                                                        *)
LEMMA UrlPasses ==
    ASSUME IInv, IndexFits(parser), Told, NEW s, UrlByte(s)
    PROVE  Passes
<1>1. CASE Error("INVALID_URL")
  BY <1>1, ErrorPasses
<1>2. CASE \E next \in UrlStart \cup UrlStates : Break(Goto(next))
  BY <1>2, LineStates, GoingFollows, FollowingPasses
<1>3. QED
  BY <1>1, <1>2, UrlBytes

LEMMA CharacterThere ==
    ASSUME IInv, p <= end
    PROVE  c \in Character /\ c # ""
<1>1. p \in 1 .. Len(bytes) /\ bytes \in Seq(Character)
  BY Placing
<1>2. c = bytes[p]
  BY <1>1 DEF c, At
<1>3. c \in Character
  BY <1>1, <1>2
<1>4. QED
  BY <1>3 DEF Character

(* A message begins.                                                         *)
LEMMA FreshFollows ==
    ASSUME IInv, IndexFits(parser), NEW s, s \notin Unread, NEW t
    PROVE  /\ Follows([Fresh EXCEPT !.state = s])
           /\ Follows([Fresh EXCEPT !.type = t, !.state = s])
           /\ parser.state \notin Unread => Follows(Fresh)
<1>1. DOMAIN Fresh = Fields /\ Fresh.index = parser.index
      /\ Fresh.nread = parser.nread /\ Fresh.state = parser.state
  BY DEF IInv, HasFields, Fields, Fresh
<1> DEFINE one == [Fresh EXCEPT !.state = s]
           two == [Fresh EXCEPT !.type = t, !.state = s]
<1>2. /\ one.index = parser.index /\ one.nread = parser.nread /\ one.state = s
      /\ two.index = parser.index /\ two.nread = parser.nread /\ two.state = s
  BY <1>1 DEF Fields
<1> HIDE DEF one, two
<1>3. QED
  BY <1>1, <1>2, Unindexed DEF one, two

(* The lengths of the methods (SpellingAssumption).                          *)
LEMMA MethodLength ==
    ASSUME NEW m \in Methods
    PROVE  /\ Len(Spelled[m]) \in Nat
           /\ 2 <= Len(Spelled[m]) /\ Len(Spelled[m]) <= 254
<1>1. PICK l \in 2 .. 254 : l = Len(Spelled[m])
  BY SpellingAssumption
<1>2. l \in Nat /\ 2 <= l /\ l <= 254
  OBVIOUS
<1>3. QED
  BY <1>1, <1>2

(* A guess has a first letter, and HEAD two.                                 *)
LEMMA MethodsBegin ==
    /\ \A ch \in DOMAIN FirstGuess : 1 <= Len(Spelled[FirstGuess[ch]])
    /\ 2 <= Len(Spelled["HEAD"])
<1>1. ASSUME NEW m \in Methods
      PROVE  1 <= Len(Spelled[m]) /\ 2 <= Len(Spelled[m])
  <2>1. PICK l \in 2 .. 254 : l = Len(Spelled[m])
    BY SpellingAssumption
  <2>2. 1 <= l /\ 2 <= l
    OBVIOUS
  <2>3. QED
    BY <2>1, <2>2
<1>2. "HEAD" \in Methods
  BY DEF Methods
<1>3. QED
  BY <1>1, <1>2, KnownMethods

(* The first line, and what is between messages. In s_req_method index is    *)
(* within the method, for a letter that matches is one of the method, and    *)
(* one that corrects the guess is one of the other method.                   *)
LEMMA FirstLinePasses ==
    ASSUME IInv, CInv, FirstLine PROVE Passes
<1>1. IndexFits(parser)
  BY DEF CInv
<1> USE GoingFollows, ErrorPasses, FollowingPasses DEF Told
<1>2. CASE s_dead
  BY <1>1, <1>2 DEF s_dead, In, Unread, Indexed, InnerStates, ChunkData
<1>3. CASE s_start_req_or_res
  <2>1. "message_begin" \in Notices /\ parser.state \notin Unread
        /\ "s_res_or_resp_H" \notin Unread /\ "s_start_req" \notin Unread
    BY <1>3 DEF s_start_req_or_res, In, Notices, Unread, Indexed, InnerStates,
       ChunkData
  <2>2. QED
    BY <1>1, <1>3, <2>1, FreshFollows DEF s_start_req_or_res
<1>4. CASE s_start_res
  <2>1. "message_begin" \in Notices /\ parser.state \notin Unread
        /\ "s_res_H" \notin Unread
    BY <1>4 DEF s_start_res, In, Notices, Unread, Indexed, InnerStates,
       ChunkData
  <2>2. QED
    BY <1>1, <1>4, <2>1, FreshFollows DEF s_start_res
<1>5. CASE StrictLiteral
  BY <1>1, <1>5, LineStates DEF StrictLiteral
<1>6. CASE s_res_or_resp_H
  <2>1. CASE Break([parser EXCEPT !.type = "HTTP_RESPONSE", !.state = "s_res_HT"])
    <3> DEFINE new == [parser EXCEPT !.type = "HTTP_RESPONSE",
                                     !.state = "s_res_HT"]
    <3>1. /\ new.index = parser.index /\ new.nread = parser.nread
          /\ new.state = "s_res_HT"
      BY DEF IInv, HasFields, Fields
    <3>2. "s_res_HT" \notin Unread
      BY DEF Unread, Indexed, InnerStates, ChunkData
    <3> HIDE DEF new
    <3>3. Follows(new)
      BY <1>1, <3>1, <3>2, Unindexed
    <3>4. QED
      BY <1>6, <2>1, <3>3 DEF new, s_res_or_resp_H
  <2>2. CASE Break([parser EXCEPT !.type = "HTTP_REQUEST", !.method = "HEAD",
                                  !.index = 2, !.state = "s_req_method"])
    <3> DEFINE new == [parser EXCEPT !.type = "HTTP_REQUEST", !.method = "HEAD",
                                  !.index = 2, !.state = "s_req_method"]
    <3>1. new.index = 2 /\ new.nread = parser.nread /\ new.state = "s_req_method"
          /\ new.method = "HEAD"
      BY DEF IInv, HasFields, Fields
    <3> HIDE DEF new
    <3>3. Follows(new)
      BY <1>1, <3>1, MethodsBegin DEF Follows, IndexFits, InnerStates, ChunkData
    <3>4. QED
      BY <1>6, <2>2, <3>3 DEF new, s_res_or_resp_H
  <2>3. QED
    BY <1>6, <2>1, <2>2 DEF s_res_or_resp_H
<1>7. CASE FirstDigitState
  <2> DEFINE row == FirstDigit[parser.state]
             new == [parser EXCEPT ![row[2]] = unhex(c), !.state = row[3]]
  <2>1. /\ Silent /\ (Break(new) \/ Error("INVALID_VERSION"))
        /\ parser.state \in DOMAIN FirstDigit
    BY <1>7 DEF FirstDigitState
  <2>2. row[3] \notin Unread /\ row[2] \in {"http_major", "http_minor"}
    <3>1. \A s \in DOMAIN FirstDigit :
              FirstDigit[s][2] \in {"http_major", "http_minor"}
      BY DEF FirstDigit
    <3>2. QED
      BY <2>1, <3>1, LineStates
  <2> HIDE DEF row
  <2>3. new.index = parser.index /\ new.nread = parser.nread /\ new.state = row[3]
    BY <2>2 DEF IInv, HasFields, Fields
  <2> HIDE DEF new
  <2>4. Follows(new)
    BY <1>1, <2>2, <2>3, Unindexed
  <2>5. Told
    BY <2>1
  <2>6. CASE Break(new)
    BY <2>4, <2>5, <2>6
  <2>7. CASE Error("INVALID_VERSION")
    BY <2>5, <2>7
  <2>8. QED
    BY <2>1, <2>6, <2>7
<1>8. CASE MoreDigitsState
  <2> DEFINE row == MoreDigits[parser.state]
             new == [parser EXCEPT ![row[1]] = 10 * parser[row[1]] + unhex(c)]
  <2>1. /\ parser.state \in DOMAIN MoreDigits /\ call = "switch" /\ Silent
        /\ \/ \E after \in row[2] : Break(Goto(after[2]))
           \/ Error(row[3])
           \/ Break(new)
    BY <1>8 DEF MoreDigitsState
  <2>2. /\ row[1] \in {"http_major", "http_minor", "status_code"}
        /\ row[3] # "OK"
        /\ \A after \in row[2] : after[2] \in PlainStates
    BY <2>1, AtWork, MoreDigitsRows
  <2>3. \A after \in row[2] : after[2] # "s_req_method"
    BY <2>1, AtWork, MoreDigitsRows
  <2>4. \A after \in row[2] : after[2] \notin Unread
    BY <2>2, <2>3, PlainNotUnread
  <2>5. parser.state \notin Unread
    BY <2>1, LineStates
  <2> HIDE DEF row
  <2>6. new.index = parser.index /\ new.nread = parser.nread
        /\ new.state = parser.state
    BY <2>2 DEF IInv, HasFields, Fields
  <2> HIDE DEF new
  <2>7. QED
    BY <1>1, <2>1, <2>2, <2>4, <2>5, <2>6, Unindexed
<1>9. CASE s_res_first_status_code
  <2> DEFINE new == [parser EXCEPT !.status_code = unhex(c),
                                   !.state = "s_res_status_code"]
  <2>1. new.index = parser.index /\ new.nread = parser.nread
        /\ new.state = "s_res_status_code"
    BY DEF IInv, HasFields, Fields
  <2>2. "s_res_status_code" \notin Unread /\ "s_res_first_status_code" \notin Unread
    BY DEF Unread, Indexed, InnerStates, ChunkData
  <2>3. /\ Silent /\ parser.state = "s_res_first_status_code"
        /\ Break(parser) \/ Break(new) \/ Error("INVALID_STATUS")
    BY <1>9 DEF s_res_first_status_code, In
  <2> HIDE DEF new
  <2>4. QED
    BY <1>1, <2>1, <2>2, <2>3, Unindexed
<1>10. CASE s_res_status_start
  <2> DEFINE new == [parser EXCEPT !.state = "s_res_status", !.index = 0]
  <2>1. new.index = 0 /\ new.nread = parser.nread /\ new.state = "s_res_status"
    BY DEF IInv, HasFields, Fields
  <2>2. "status" \in Marks
    BY DEF Marks
  <2>3. \/ Silent /\ Break(Goto(LineEnd))
        \/ MARK("status") /\ Break(new)
    BY <1>10 DEF s_res_status_start
  <2> HIDE DEF new
  <2>4. Follows(new)
    BY <2>1 DEF Follows, IndexFits, InnerStates, ChunkData
  <2>5. QED
    BY <1>1, <2>2, <2>3, <2>4, LineStates
<1>11. CASE s_res_status
  <2>1. "status" \in Marks /\ "s_res_status" \notin Unread
    BY DEF Marks, Unread, Indexed, InnerStates, ChunkData
  <2>2. QED
    BY <1>1, <1>11, <2>1, LineStates DEF s_res_status, In
<1>12. CASE s_start_req
  <2>1. CASE Silent /\ Break(parser)
    BY <1>1, <1>12, <2>1 DEF s_start_req, In, Unread, Indexed, InnerStates,
       ChunkData
  <2>2. CASE Silent /\ Error("INVALID_METHOD")
    BY <2>2
  <2>3. CASE /\ c \in DOMAIN FirstGuess
             /\ CALLBACK_NOTIFY("message_begin", parser)
             /\ Break([Fresh EXCEPT !.method = FirstGuess[c], !.index = 1,
                                    !.state = "s_req_method"])
    <3> DEFINE m == FirstGuess[c]
               new == [Fresh EXCEPT !.method = m, !.index = 1,
                                    !.state = "s_req_method"]
    <3>1. DOMAIN Fresh = Fields /\ Fresh.nread = parser.nread
      BY DEF IInv, HasFields, Fields, Fresh
    <3>2. new.index = 1 /\ new.nread = parser.nread /\ new.state = "s_req_method"
          /\ new.method = m
      BY <3>1 DEF Fields
    <3>3. 1 <= Len(Spelled[m])
      BY <2>3, MethodsBegin
    <3> HIDE DEF m
    <3>5. Break(new) /\ CALLBACK_NOTIFY("message_begin", parser)
      BY <2>3 DEF m
    <3> HIDE DEF new
    <3>4. Follows(new)
      BY <3>2, <3>3 DEF Follows, IndexFits, InnerStates, ChunkData
    <3>6. QED
      BY <3>4, <3>5 DEF Notices
  <2>4. QED
    BY <1>12, <2>1, <2>2, <2>3 DEF s_start_req
<1>13. CASE s_req_method
  <2>1. /\ Silent /\ parser.state = "s_req_method" /\ call = "switch"
        /\ parser.method \in Methods /\ c # ""
    <3>1. /\ Silent /\ parser.state = "s_req_method" /\ call = "switch"
      BY <1>13 DEF s_req_method, In
    <3>2. p <= end
      BY <3>1, Within DEF InnerStates
    <3>3. QED
      BY <3>1, <3>2, CharacterThere DEF IInv, FieldsFit
  <2> DEFINE word == Spelled[parser.method]
             matcher == At(word, parser.index + 1)
             next == [parser EXCEPT !.index = @ + 1]
  <2>2. /\ parser.index \in Nat /\ parser.index <= Len(word)
        /\ Len(word) \in Nat /\ Len(word) <= 254
    <3>1. Len(word) \in Nat /\ Len(word) <= 254
      BY <2>1, MethodLength
    <3>2. parser.index \in 0 .. 255 /\ parser.index <= Len(word)
      BY <1>1, <2>1 DEF IndexFits
    <3>3. \A i \in 0 .. 255 : i \in Nat
      OBVIOUS
    <3> HIDE DEF word
    <3>4. QED
      BY <3>1, <3>2, <3>3
  <2>3. DOMAIN next = Fields /\ next.index = parser.index + 1
        /\ next.nread = parser.nread /\ next.state = parser.state
        /\ next.method = parser.method
    BY DEF IInv, HasFields, Fields
  <2>10. \A n \in Nat : n <= 255 => n \in 0 .. 255
    OBVIOUS
  <2>11. parser.index + 1 \in Nat /\ parser.index + 1 <= 255
    <3> HIDE DEF word
    <3>1. QED
      BY <2>2
  <2>4. \/ Break([next EXCEPT !.state = "s_req_spaces_before_url"])
        \/ c = matcher /\ Break(next)
        \/ \E row \in Corrections : row[2] = parser.index
                                    /\ Break([next EXCEPT !.method = row[4]])
        \/ Error("INVALID_METHOD")
    BY <1>13 DEF s_req_method
  <2> HIDE DEF next
  <2>5. CASE Break([next EXCEPT !.state = "s_req_spaces_before_url"])
    <3> DEFINE new == [next EXCEPT !.state = "s_req_spaces_before_url"]
    <3>1. new.index = parser.index + 1 /\ new.nread = parser.nread
          /\ new.state = "s_req_spaces_before_url"
      BY <2>3 DEF Fields
    <3>2. new.index \in 0 .. 255
      BY <2>10, <2>11, <3>1
    <3> HIDE DEF new
    <3>3. Follows(new)
      BY <3>1, <3>2 DEF Follows, IndexFits, InnerStates, ChunkData
    <3>4. QED
      BY <2>1, <2>5, <3>3 DEF new
  <2>6. CASE c = matcher /\ Break(next)
    <3>1. parser.index + 1 <= Len(word)
      BY <2>1, <2>2, <2>6 DEF At
    <3>2. next.index \in 0 .. 255 /\ next.index <= Len(Spelled[next.method])
      BY <2>3, <2>10, <2>11, <3>1
    <3>3. Follows(next)
      BY <2>1, <2>3, <3>2 DEF Follows, IndexFits, InnerStates, ChunkData
    <3>4. QED
      BY <2>1, <2>6, <3>3
  <2>7. CASE \E row \in Corrections : row[2] = parser.index
                                    /\ Break([next EXCEPT !.method = row[4]])
    <3>1. PICK row \in Corrections : row[2] = parser.index
                                    /\ Break([next EXCEPT !.method = row[4]])
      BY <2>7
    <3> DEFINE new == [next EXCEPT !.method = row[4]]
    <3>2. new.index = parser.index + 1 /\ new.nread = parser.nread
          /\ new.state = "s_req_method" /\ new.method = row[4]
      BY <2>1, <2>3 DEF Fields
    <3>3. parser.index < Len(Spelled[row[4]]) /\ row[4] \in Methods
      BY <3>1, SpellingAssumption, KnownMethods
    <3>4. parser.index + 1 <= Len(Spelled[row[4]])
      <4>1. Len(Spelled[row[4]]) \in 2 .. 254
        BY <3>3, SpellingAssumption
      <4> DEFINE l == Len(Spelled[row[4]])
      <4> HIDE DEF word, l
      <4>2. l \in Nat /\ parser.index < l /\ parser.index \in Nat
        BY <2>2, <3>3, <4>1 DEF l
      <4>3. QED
        BY <4>2 DEF l
    <3> HIDE DEF new
    <3>5. new.index \in 0 .. 255 /\ new.index <= Len(Spelled[new.method])
      BY <2>10, <2>11, <3>2, <3>4
    <3>6. Follows(new)
      BY <3>2, <3>5 DEF Follows, IndexFits, InnerStates, ChunkData
    <3>7. QED
      BY <2>1, <3>1, <3>6 DEF new
  <2>8. CASE Error("INVALID_METHOD")
    BY <2>1, <2>8
  <2>9. QED
    BY <2>4, <2>5, <2>6, <2>7, <2>8
<1>14. CASE s_req_spaces_before_url
  <2>1. "url" \in Marks /\ "s_req_spaces_before_url" \notin Unread
    BY DEF Marks, Unread, Indexed, InnerStates, ChunkData
  <2>2. QED
    BY <1>1, <1>14, <2>1, UrlPasses DEF s_req_spaces_before_url, In
<1>15. CASE s_req_url_start
  BY <1>1, <1>15, UrlPasses DEF s_req_url_start
<1>16. CASE s_req_url
  <2>1. CASE Silent /\ UrlByte(parser.state)
    BY <1>1, <2>1, UrlPasses
  <2>2. CASE CALLBACK_DATA("url", p) /\ Break(Goto("s_req_http_start"))
    BY <1>1, <2>2 DEF Marks, Unread, Indexed, InnerStates, ChunkData
  <2>3. CASE /\ CALLBACK_DATA("url", p)
             /\ Break([parser EXCEPT !.http_major = 0, !.http_minor = 9,
                           !.state = IF c = CR THEN "s_req_line_almost_done"
                                               ELSE "s_header_field_start"])
    <3> DEFINE s == IF c = CR THEN "s_req_line_almost_done"
                              ELSE "s_header_field_start"
               new == [parser EXCEPT !.http_major = 0, !.http_minor = 9,
                                     !.state = s]
    <3>1. s \notin Unread
      BY DEF Unread, Indexed, InnerStates, ChunkData
    <3>2. Break(new) /\ CALLBACK_DATA("url", p)
      BY <2>3
    <3> HIDE DEF s
    <3>3. new.index = parser.index /\ new.nread = parser.nread /\ new.state = s
      BY DEF IInv, HasFields, Fields
    <3> HIDE DEF new
    <3>4. QED
      BY <1>1, <3>1, <3>2, <3>3, Unindexed DEF Marks
  <2>4. QED
    BY <1>16, <2>1, <2>2, <2>3 DEF s_req_url
<1>17. CASE s_req_http_start
  BY <1>1, <1>17 DEF s_req_http_start, In, Unread, Indexed, InnerStates,
     ChunkData
<1>18. CASE s_req_line_almost_done
  BY <1>1, <1>18 DEF s_req_line_almost_done, Unread, Indexed, InnerStates,
     ChunkData
<1>19. QED
  BY <1>2, <1>3, <1>4, <1>5, <1>6, <1>7, <1>8, <1>9, <1>10, <1>11, <1>12,
     <1>13, <1>14, <1>15, <1>16, <1>17, <1>18 DEF FirstLine

(* The lengths of the words (SpellingAssumption).                            *)
LEMMA WordLength ==
    ASSUME NEW hs \in DOMAIN Words
    PROVE  /\ Len(Words[hs][1]) \in Nat
           /\ 5 <= Len(Words[hs][1]) /\ Len(Words[hs][1]) <= 255
<1>1. PICK l \in 5 .. 255 : l = Len(Words[hs][1])
  BY SpellingAssumption
<1>2. l \in Nat /\ 5 <= l /\ l <= 255
  OBVIOUS
<1>3. QED
  BY <1>1, <1>2

(* A name or a value begins: index is 0, and all words are longer than that. *)
LEMMA BeginningFollows ==
    ASSUME NEW new, new.index = 0, new.nread = parser.nread,
           new.state \in InnerStates,
           new.state = "s_header_field" =>
               new.header_state \notin {"h_CO", "h_CON"}
    PROVE  Follows(new)
<1>1. \A hs \in DOMAIN Words : 0 + 1 < Len(Words[hs][1])
  BY WordLength
<1>2. new.state \notin {"s_req_method"} \cup ChunkData
  BY DEF InnerStates, ChunkData
<1>3. QED
  BY <1>1, <1>2 DEF Follows, IndexFits

(* A value is complete.                                                      *)
LEMMA FinishedFollows ==
    ASSUME IInv, IndexFits(parser), NEW s, s \notin Unread
    PROVE  Follows(Finished(s))
<1>1. /\ Finished(s).index = parser.index /\ Finished(s).nread = parser.nread
      /\ Finished(s).state = s
  BY DEF IInv, HasFields, Fields, Finished
<1>2. QED
  BY <1>1, Unindexed

(* The first byte of a line of the header.                                   *)
LEMMA FieldStartPasses ==
    ASSUME IInv, CInv, s_header_field_start PROVE Passes
<1>1. IndexFits(parser)
  BY DEF CInv
<1>2. CASE Silent /\ \/ Break(Goto("s_headers_almost_done"))
                     \/ REEXECUTE(Goto("s_headers_almost_done"))
  <2>1. "s_headers_almost_done" \notin Unread
    BY DEF Unread, Indexed, InnerStates, ChunkData
  <2>2. QED
    BY <1>1, <1>2, <2>1, GoingFollows, FollowingPasses DEF Told
<1>3. CASE Silent /\ Error("INVALID_HEADER_TOKEN")
  BY <1>3, ErrorPasses DEF Told
<1>4. CASE /\ MARK("header_field")
           /\ Break([parser EXCEPT !.index = 0, !.state = "s_header_field",
                      !.header_state = IF lc \in DOMAIN FirstLetter
                                       THEN FirstLetter[lc] ELSE "h_general"])
  <2> DEFINE hs == IF lc \in DOMAIN FirstLetter THEN FirstLetter[lc]
                   ELSE "h_general"
             new == [parser EXCEPT !.index = 0, !.state = "s_header_field",
                                   !.header_state = hs]
  <2>1. hs \notin {"h_CO", "h_CON"}
    BY DEF FirstLetter
  <2>2. Told /\ Break(new)
    BY <1>4 DEF Told, Marks
  <2> HIDE DEF hs
  <2>3. /\ new.index = 0 /\ new.nread = parser.nread
        /\ new.state = "s_header_field" /\ new.header_state = hs
    BY DEF IInv, HasFields, Fields
  <2> HIDE DEF new
  <2>4. Follows(new)
    BY <2>1, <2>3, BeginningFollows DEF InnerStates
  <2>5. QED
    BY <2>2, <2>4, FollowingPasses
<1>5. QED
  BY <1>2, <1>3, <1>4 DEF s_header_field_start

(* Blanks before a value are skipped.                                        *)
LEMMA DiscardPasses ==
    ASSUME IInv, CInv, s_header_value_discard_ws PROVE Passes
<1>1. IndexFits(parser)
  BY DEF CInv
<1>2. /\ parser.state \notin Unread
      /\ "s_header_value_discard_ws_almost_done" \notin Unread
      /\ "s_header_value_discard_lws" \notin Unread
  BY DEF s_header_value_discard_ws, In, Unread, Indexed, InnerStates, ChunkData
<1>3. QED
  BY <1>1, <1>2, GoingFollows, FollowingPasses
     DEF Told, s_header_value_discard_ws

(* The first byte of a value.                                                *)
LEMMA ValueStartPasses ==
    ASSUME IInv, CInv, s_header_value_start PROVE Passes
<1> DEFINE value == [parser EXCEPT !.state = "s_header_value", !.index = 0]
<1>1. Told
  BY DEF s_header_value_start, Told, Marks
<1>2. /\ DOMAIN value = Fields /\ value.index = 0 /\ value.nread = parser.nread
      /\ value.state = "s_header_value"
  BY DEF IInv, HasFields, Fields
<1>3. \/ \E hs : Break([value EXCEPT !.header_state = hs])
      \/ \E flags, hs : Break([value EXCEPT !.flags = flags, !.header_state = hs])
      \/ \E n : Break([value EXCEPT !.content_length = n])
      \/ Error("INVALID_CONTENT_LENGTH")
      \/ Break(value)
  <2>1. \/ Break([value EXCEPT !.flags = @ \cup {"F_UPGRADE"},
                              !.header_state = "h_general"])
        \/ Break([value EXCEPT !.header_state =
                      IF lc = "c" THEN "h_matching_transfer_encoding_chunked"
                                  ELSE "h_general"])
        \/ Break([value EXCEPT !.content_length = unhex(c)])
        \/ Error("INVALID_CONTENT_LENGTH")
        \/ Break([value EXCEPT !.header_state = ConnectionWord(lc)])
        \/ Break(value)
        \/ Break([value EXCEPT !.header_state = "h_general"])
    BY DEF s_header_value_start
  <2> HIDE DEF value
  <2>2. QED
    BY <2>1
<1> HIDE DEF value
<1>4. ASSUME NEW new, Break(new), new.index = 0, new.nread = parser.nread,
             new.state = "s_header_value"
      PROVE  Passes
  <2>1. Follows(new)
    BY <1>4, BeginningFollows DEF InnerStates
  <2>2. QED
    BY <1>1, <1>4, <2>1, FollowingPasses
<1>5. ASSUME NEW hs, Break([value EXCEPT !.header_state = hs]) PROVE Passes
  BY <1>2, <1>4, <1>5 DEF Fields
<1>6. ASSUME NEW flags, NEW hs,
             Break([value EXCEPT !.flags = flags, !.header_state = hs])
      PROVE  Passes
  BY <1>2, <1>4, <1>6 DEF Fields
<1>7. ASSUME NEW n, Break([value EXCEPT !.content_length = n]) PROVE Passes
  BY <1>2, <1>4, <1>7 DEF Fields
<1>8. CASE Error("INVALID_CONTENT_LENGTH")
  BY <1>1, <1>8, ErrorPasses
<1>9. CASE Break(value)
  BY <1>2, <1>4, <1>9
<1>10. QED
  BY <1>3, <1>5, <1>6, <1>7, <1>8, <1>9

(* A line that may continue a value.                                         *)
LEMMA LwsPasses ==
    ASSUME IInv, CInv, s_header_value_lws \/ s_header_value_discard_lws
    PROVE Passes
<1>1. IndexFits(parser)
  BY DEF CInv
<1>2. /\ "s_header_value_start" \notin Unread /\ "s_header_field_start" \notin Unread
      /\ "s_header_value_discard_ws" \notin Unread
  BY DEF Unread, Indexed, InnerStates, ChunkData
<1>3. /\ Follows(Goto("s_header_value_start"))
      /\ Follows(Goto("s_header_value_discard_ws"))
      /\ Follows(Finished("s_header_field_start"))
  BY <1>1, <1>2, GoingFollows, FinishedFollows
<1>4. QED
  BY <1>3, FollowingPasses
     DEF Told, s_header_value_lws, s_header_value_discard_lws

(* The blank line after the header.                                          *)
LEMMA HeadersAlmostDonePasses ==
    ASSUME IInv, CInv, s_headers_almost_done PROVE Passes
<1>1. IndexFits(parser)
  BY DEF CInv
<1> DEFINE upgrade == \/ {"F_UPGRADE", "F_CONNECTION_UPGRADE"}
                         \subseteq parser.flags
                      \/ parser.method = "CONNECT"
           done == [parser EXCEPT !.state = "s_headers_done",
                                  !.upgrade = upgrade]
           skipped == [done EXCEPT !.flags = @ \cup {"F_SKIPBODY"}]
<1>2. /\ "s_message_done" \notin Unread /\ "s_headers_done" \notin Unread
  BY DEF Unread, Indexed, InnerStates, ChunkData
<1>3. \/ Silent /\ Error("STRICT")
      \/ /\ CALLBACK_NOTIFY("chunk_complete", parser)
         /\ REEXECUTE(Goto("s_message_done"))
      \/ /\ CALLBACK_NOTIFY("headers_complete", done)
         /\ REEXECUTE(skipped) \/ REEXECUTE(done)
  BY DEF s_headers_almost_done
<1> HIDE DEF upgrade
<1>4. /\ DOMAIN done = Fields /\ done.index = parser.index
      /\ done.nread = parser.nread /\ done.state = "s_headers_done"
  BY DEF IInv, HasFields, Fields
<1> HIDE DEF done
<1>5. /\ skipped.index = parser.index
      /\ skipped.nread = parser.nread /\ skipped.state = "s_headers_done"
  BY <1>4 DEF Fields
<1> HIDE DEF skipped
<1>6. Follows(done) /\ Follows(skipped) /\ Follows(Goto("s_message_done"))
  BY <1>1, <1>2, <1>4, <1>5, Unindexed, GoingFollows
<1>7. CASE /\ CALLBACK_NOTIFY("headers_complete", done)
           /\ REEXECUTE(skipped) \/ REEXECUTE(done)
  BY <1>6, <1>7, FollowingPasses DEF Told, Notices
<1>8. CASE /\ CALLBACK_NOTIFY("chunk_complete", parser)
           /\ REEXECUTE(Goto("s_message_done"))
  BY <1>6, <1>8, FollowingPasses DEF Told, Notices
<1>9. CASE Silent /\ Error("STRICT")
  BY <1>9, ErrorPasses DEF Told
<1>10. QED
  BY <1>3, <1>7, <1>8, <1>9

(* The size of a chunk.                                                      *)
LEMMA ChunkSizePasses ==
    ASSUME IInv, CInv, s_chunk_size_start \/ s_chunk_size \/ s_chunk_parameters
    PROVE Passes
<1>1. IndexFits(parser)
  BY DEF CInv
<1>2. /\ "s_chunk_size" \notin Unread /\ "s_chunk_parameters" \notin Unread
      /\ "s_chunk_size_almost_done" \notin Unread
  BY DEF Unread, Indexed, InnerStates, ChunkData
<1>3. /\ Silent
      /\ \/ \E n : Break([parser EXCEPT !.content_length = n,
                                        !.state = "s_chunk_size"])
         \/ /\ parser.state = "s_chunk_size"
            /\ \E n : Break([parser EXCEPT !.content_length = n])
         \/ Break(Goto("s_chunk_size_almost_done"))
         \/ Break(Goto("s_chunk_parameters"))
         \/ parser.state = "s_chunk_parameters" /\ Break(parser)
         \/ Error("INVALID_CHUNK_SIZE") \/ Error("INVALID_CONTENT_LENGTH")
  BY DEF s_chunk_size_start, s_chunk_size, s_chunk_parameters, In
<1>4. ASSUME NEW n, Break([parser EXCEPT !.content_length = n,
                                         !.state = "s_chunk_size"])
      PROVE  Passes
  <2> DEFINE new == [parser EXCEPT !.content_length = n, !.state = "s_chunk_size"]
  <2>1. new.index = parser.index /\ new.nread = parser.nread
        /\ new.state = "s_chunk_size"
    BY DEF IInv, HasFields, Fields
  <2> HIDE DEF new
  <2>2. Follows(new)
    BY <1>1, <1>2, <2>1, Unindexed
  <2>3. QED
    BY <1>3, <1>4, <2>2, FollowingPasses DEF new, Told
<1>5. ASSUME NEW n, Break([parser EXCEPT !.content_length = n]),
             parser.state = "s_chunk_size"
      PROVE  Passes
  <2> DEFINE new == [parser EXCEPT !.content_length = n]
  <2>1. new.index = parser.index /\ new.nread = parser.nread
        /\ new.state = "s_chunk_size"
    BY <1>5 DEF IInv, HasFields, Fields
  <2> HIDE DEF new
  <2>2. Follows(new)
    BY <1>1, <1>2, <2>1, Unindexed
  <2>3. QED
    BY <1>3, <1>5, <2>2, FollowingPasses DEF new, Told
<1>6. QED
  BY <1>1, <1>2, <1>3, <1>4, <1>5, GoingFollows, FollowingPasses, ErrorPasses
     DEF Told

-----------------------------------------------------------------------------
(* The inner loops.                                                          *)

(* A round of an inner loop that keeps the rest.                             *)
Rounds ==
    \E new : \E q \in p .. end + 1 :
        /\ Inner(new, q) /\ IndexFits(new)
        /\ new.nread = parser.nread /\ new.state = parser.state

(* It keeps the invariant: the bytes it runs over are counted in InnerRead   *)
(* until it stops.                                                           *)
LEMMA RoundCounts ==
    ASSUME IInv, CInv, call = "switch", parser.state \in InnerStates, p <= end,
           Rounds
    PROVE  CInv'
<1>0. PICK new : \E q \in p .. end + 1 :
          /\ Inner(new, q) /\ IndexFits(new)
          /\ new.nread = parser.nread /\ new.state = parser.state
  BY DEF Rounds
<1>1. PICK q \in p .. end + 1 :
          /\ Inner(new, q) /\ IndexFits(new)
          /\ new.nread = parser.nread /\ new.state = parser.state
  BY <1>0
<1>2. /\ parser' = new /\ p' = q /\ call' = "switch" /\ events' = events
      /\ mark' = mark /\ start' = IF start = 0 THEN p ELSE start
  BY <1>1 DEF Inner, env
<1>3. /\ p \in Nat \ {0} /\ start \in Nat /\ mark \in [Marks -> Nat]
      /\ parser.nread \in Nat /\ q \in Nat /\ p <= q
  BY Placing
<1>4. InnerRead' = InnerRead + (q - p) /\ InnerRead \in Nat
  BY <1>2, <1>3, Placing DEF InnerRead
<1>5. HeaderBytes' = HeaderBytes /\ CarryData(events)' /\ Due' = Due
      /\ HeaderBytes \in Nat /\ Due \in {0, 1}
  BY <1>1, <1>2, HeaderBytesNatural DEF HeaderBytes, CarryData, CInv, Due
<1>6. /\ HeldWithin(p, parser.nread + InnerRead - Due)
      /\ parser.nread <= HTTP_MAX_HEADER_SIZE
      /\ parser.state \notin ChunkData
  BY AtWork DEF CInv, HeaderCounted, InnerStates, ChunkData
<1> DEFINE b == parser.nread + InnerRead - Due
<1>7. b \in Int /\ parser.nread + InnerRead' - Due = b + (q - p)
  BY <1>3, <1>4, <1>5
<1> HIDE DEF b
<1>8. HeldWithin(p, b)
  BY <1>6 DEF b
<1>9. ASSUME NEW m \in HeaderMarks, mark[m] # 0
      PROVE  mark[m] <= q /\ HeaderBytes + (q - mark[m]) <= b + (q - p)
  <2>1. mark[m] <= p /\ HeaderBytes + (p - mark[m]) <= b /\ mark[m] \in Nat
    BY <1>3, <1>8, <1>9 DEF HeldWithin, HeaderMarks
  <2>2. QED
    BY <1>3, <1>5, <1>7, <2>1
<1>10. HeaderBytes <= b + (q - p)
  BY <1>3, <1>5, <1>7, <1>8 DEF HeldWithin
<1>11. HeldWithin(p, parser.nread + InnerRead - Due)'
  BY <1>1, <1>2, <1>5, <1>7, <1>9, <1>10 DEF HeldWithin
<1>12. HeaderCounted'
  BY <1>1, <1>2, <1>6, <1>11 DEF HeaderCounted
<1>13. QED
  BY <1>1, <1>2, <1>5, <1>12 DEF CInv

(* An inner loop stops, and its bytes are counted.                           *)
Stops ==
    /\ Told
    /\ \/ \E e : e # "OK" /\ Error(e)
       \/ /\ ~Overflows(InnerRead)
          /\ \E new : /\ \/ Go(new, p, "loop")
                         \/ Break(new) \/ REEXECUTE(new)
                      /\ new.nread = parser.nread + InnerRead
                      /\ new.state \notin ChunkData /\ IndexFits(new)

(* That keeps the invariant too.                                             *)
LEMMA StopCounts ==
    ASSUME IInv, IInv', CInv, call = "switch", parser.state \in InnerStates,
           Stops
    PROVE  CInv'
<1>1. /\ Due = 1 /\ parser.nread \in Nat /\ p \in Nat /\ InnerRead \in Nat
  BY Placing DEF Due, PARSING_HEADER, BodyStates, InnerStates
<1> DEFINE b == parser.nread + InnerRead - 1
<1>2. HeldWithin(p, b) /\ b \in Int
  BY <1>1, AtWork DEF CInv, HeaderCounted
<1>3. b + 1 = parser.nread + InnerRead
  BY <1>1
<1> HIDE DEF b
<1>4. CarryData(events)' /\ \A x \in Int : x >= p => WillHold(x, b + (x - p))
  BY <1>2, Telling DEF CInv, Stops
<1>5. ASSUME NEW e, e # "OK", Error(e) PROVE CInv'
  BY <1>4, <1>5, FailingCounts
<1>6. ASSUME ~Overflows(InnerRead), NEW new,
             Go(new, p, "loop") \/ Break(new) \/ REEXECUTE(new),
             new.nread = b + 1, new.state \notin ChunkData, IndexFits(new)
      PROVE  CInv'
  <2>1. /\ parser' = new /\ start' = 0
        /\ \/ call' = "loop" /\ p' \in {p, p + 1}
           \/ call' = "switch" /\ p' = p
    BY <1>6 DEF Break, REEXECUTE, Go
  <2>2. new.nread <= HTTP_MAX_HEADER_SIZE
    BY <1>1, <1>3, <1>6, LimitsAssumption DEF Overflows
  <2>3. /\ HeaderBytes' \in Int /\ mark' \in [Marks -> Int]
    <3>1. CarryData(events')
      BY <1>4 DEF CarryData
    <3>2. PICK S : events' \in Seq(S) /\ \A e \in S : Carries(e)
      BY <3>1 DEF CarryData
    <3>3. HeaderBytesIn(events') \in Nat
      BY <3>2, CountIsNatural, CountFacts
    <3>4. mark' \in [Marks -> Int]
      BY DEF IInv, InBuffer
    <3>5. QED
      BY <3>3, <3>4 DEF HeaderBytes
  <2>4. WillHold(p, b) /\ WillHold(p + 1, b + 1)
    <3>1. /\ p \in Int /\ p >= p /\ b + (p - p) = b
          /\ p + 1 \in Int /\ p + 1 >= p /\ b + ((p + 1) - p) = b + 1
      BY <1>1, <1>2
    <3>2. QED
      BY <1>4, <3>1
  <2>5. WillHold(p, b + 1)
    <3>1. \A m \in HeaderMarks : mark'[m] \in Int
      BY <2>3 DEF HeaderMarks
    <3>2. QED
      BY <1>1, <1>2, <2>3, <2>4, <3>1 DEF WillHold
  <2>6. call' = "loop" => HeldWithin(p, parser.nread)'
    BY <1>6, <2>1, <2>4, <2>5 DEF HeldWithin, WillHold
  <2>7. call' = "switch" => HeldWithin(p, parser.nread + InnerRead - Due)'
    <3>1. InnerRead' = 0 /\ Due' \in {0, 1}
      BY <2>1 DEF InnerRead, Due
    <3>2. new.nread + InnerRead' - Due' \in {b, b + 1}
      <4>1. CASE Due' = 0
        BY <1>2, <1>6, <3>1, <4>1
      <4>2. CASE Due' = 1
        BY <1>2, <1>6, <3>1, <4>2
      <4>3. QED
        BY <3>1, <4>1, <4>2
    <3>3. QED
      BY <2>1, <2>4, <2>5, <3>2 DEF HeldWithin, WillHold
  <2>8. HeaderCounted'
    BY <1>6, <2>1, <2>2, <2>6, <2>7 DEF HeaderCounted
  <2>9. QED
    BY <1>4, <1>6, <2>1, <2>8 DEF CInv
<1>7. QED
  BY <1>3, <1>5, <1>6 DEF Stops

(* A word is compared with one more letter.                                  *)
LEMMA WordRows ==
    \A hs \in DOMAIN Words : \A i \in {2, 3} :
        /\ Words[hs][i] \notin DOMAIN Words
        /\ Words[hs][i] \notin {"h_C", "h_CO", "h_CON",
                                "h_matching_connection_token_start"}
<1> HIDE DEF Spell
<1>1. ASSUME NEW hs \in DOMAIN Words
      PROVE  /\ Words[hs][2] \in {"h_connection", "h_content_length",
                    "h_transfer_encoding", "h_upgrade",
                    "h_transfer_encoding_chunked", "h_connection_keep_alive",
                    "h_connection_close", "h_connection_upgrade"}
             /\ Words[hs][3] \in {"h_general", "h_matching_connection_token"}
  BY DEF Words
<1>2. \A s \in {"h_connection", "h_content_length",
                "h_transfer_encoding", "h_upgrade",
                "h_transfer_encoding_chunked", "h_connection_keep_alive",
                "h_connection_close", "h_connection_upgrade",
                "h_general", "h_matching_connection_token"} :
          /\ s \notin DOMAIN Words
          /\ s \notin {"h_C", "h_CO", "h_CON",
                       "h_matching_connection_token_start"}
  BY DEF Words
<1>3. QED
  BY <1>1, <1>2

(* A letter more of a word: either the word goes on after it, or the state   *)
(* is no longer one of those that look at index.                             *)
LEMMA MatchFits ==
    ASSUME IInv, IndexFits(parser), parser.state \in InnerStates,
           parser.header_state \in DOMAIN Words
    PROVE  /\ IndexFits(Match(Words[parser.header_state]))
           /\ Match(Words[parser.header_state]).nread = parser.nread
           /\ Match(Words[parser.header_state]).state = parser.state
<1> DEFINE hs == parser.header_state
           row == Words[hs]
           index == parser.index + 1
           word == row[1]
           state == IF lc # At(word, index + 1) THEN row[3]
                    ELSE IF index = Len(word) - 1 THEN row[2] ELSE hs
           new == [parser EXCEPT !.index = index, !.header_state = state]
<1>1. Match(row) = new
  BY DEF IInv, HasFields, Fields, Match
<1>2. /\ Len(word) \in Nat /\ Len(word) <= 255
  BY WordLength
<1>3. /\ parser.index \in 0 .. 255 /\ index < Len(word)
  BY DEF IndexFits
<1>4. row[2] \notin DOMAIN Words /\ row[3] \notin DOMAIN Words
      /\ {row[2], row[3], hs} \cap {"h_C", "h_CO", "h_CON",
                  "h_matching_connection_token_start"} = {}
  <2>1. hs \notin {"h_C", "h_CO", "h_CON", "h_matching_connection_token_start"}
    BY DEF Words
  <2>2. QED
    BY <2>1, WordRows
<1> DEFINE l == Len(word)
<1>5. l \in Nat /\ l <= 255 /\ parser.index \in Nat /\ index = parser.index + 1
      /\ index < l
  <2>1. \A i \in 0 .. 255 : i \in Nat
    OBVIOUS
  <2>2. QED
    BY <1>2, <1>3, <2>1
<1>6. state \in DOMAIN Words => state = hs /\ (index = l - 1 => FALSE)
  BY <1>4
<1>7. state \notin {"h_C", "h_CO", "h_CON", "h_matching_connection_token_start"}
  BY <1>4
<1> HIDE DEF state
<1>8. /\ new.index = index /\ new.header_state = state
      /\ new.state = parser.state /\ new.nread = parser.nread
  BY DEF IInv, HasFields, Fields
<1> HIDE DEF new
<1>9. l = Len(Words[hs][1])
  OBVIOUS
<1> HIDE DEF l, row, word, index, hs
<1>10. index \in 0 .. 255 /\ (index = l - 1 \/ index + 1 < l)
  BY <1>5
<1>11. IndexFits(new)
  BY <1>6, <1>7, <1>8, <1>9, <1>10 DEF IndexFits, InnerStates
<1>12. QED
  BY <1>1, <1>8, <1>11 DEF row, hs

(* A round that goes one byte on.                                            *)
LEMMA RoundsOnce ==
    ASSUME IInv, p <= end, NEW new, Inner(new, p + 1), IndexFits(new),
           new.nread = parser.nread, new.state = parser.state
    PROVE  Rounds
<1>1. p + 1 \in p .. end + 1
  BY Placing
<1>2. QED
  BY <1>1 DEF Rounds

(* The states of recognition that no index goes with.                        *)
Indexing == DOMAIN Words \cup {"h_C", "h_CO", "h_CON",
                               "h_matching_connection_token_start"}

(* Some states of recognition that no index goes with.                       *)
LEMMA UnindexedStates ==
    {"h_general", "h_connection", "h_content_length", "h_transfer_encoding",
     "h_upgrade", "h_matching_connection_token"} \cap Indexing = {}
BY DEF Indexing, Words

(* To go over to one of those promises nothing.                              *)
LEMMA RecognisedFits ==
    ASSUME IInv, IndexFits(parser), NEW hs, hs \notin Indexing,
           parser.state \in InnerStates
    PROVE  /\ IndexFits(Recognised(hs)) /\ Recognised(hs).nread = parser.nread
           /\ Recognised(hs).state = parser.state
<1>1. /\ Recognised(hs).nread = parser.nread /\ Recognised(hs).header_state = hs
      /\ Recognised(hs).state = parser.state /\ Recognised(hs).index = parser.index
  BY DEF IInv, HasFields, Fields, Recognised
<1>2. QED
  BY <1>1 DEF IndexFits, Indexing, InnerStates

(* Where a letter that words share leads.                                    *)
LEMMA SharedLetter ==
    ASSUME NEW hs, NEW letter
    PROVE  LET shared == {row \in SharedLetters : row[1] = hs /\ row[2] = letter}
               next == (CHOOSE row \in shared : TRUE)[3]
           IN  shared # {} =>
                   /\ hs = "h_C" => next = "h_CO"
                   /\ hs = "h_CO" => next = "h_CON"
                   /\ hs = "h_CON" => next \in {"h_matching_connection",
                                                "h_matching_content_length"}
<1> DEFINE shared == {row \in SharedLetters : row[1] = hs /\ row[2] = letter}
           row == CHOOSE row \in shared : TRUE
<1> SUFFICES ASSUME shared # {}
             PROVE  /\ hs = "h_C" => row[3] = "h_CO"
                    /\ hs = "h_CO" => row[3] = "h_CON"
                    /\ hs = "h_CON" => row[3] \in {"h_matching_connection",
                                                   "h_matching_content_length"}
  OBVIOUS
<1>1. row \in shared
  OBVIOUS
<1>2. row \in SharedLetters /\ row[1] = hs
  BY <1>1
<1> HIDE DEF row
<1>3. QED
  BY <1>2 DEF SharedLetters

(* A byte of a name: after the letters of "con" the index is 2, and the      *)
(* words that are matched then have more letters.                            *)
LEMMA FieldByteRounds ==
    ASSUME IInv, CInv, FieldByte PROVE Rounds
<1> DEFINE hs == parser.header_state
           shared == {row \in SharedLetters : row[1] = hs /\ row[2] = lc}
           next == IF shared = {} THEN "h_general"
                   ELSE (CHOOSE row \in shared : TRUE)[3]
           new == [parser EXCEPT !.index = @ + 1, !.header_state = next]
<1>1. /\ parser.state = "s_header_field" /\ parser.state \in InnerStates
      /\ p <= end /\ IndexFits(parser)
  BY DEF FieldByte, InnerLoop, In, InnerStates, CInv
<1>2. CASE hs \in DOMAIN Words /\ Inner(Match(Words[hs]), p + 1)
  BY <1>1, <1>2, MatchFits, RoundsOnce
<1>3. CASE Inner([parser EXCEPT !.header_state = "h_general"], p + 1)
  <2>1. Inner(Recognised("h_general"), p + 1)
    BY <1>3 DEF Recognised
  <2>2. QED
    BY <1>1, <2>1, UnindexedStates, RecognisedFits, RoundsOnce
<1>4. CASE hs \in {"h_C", "h_CO", "h_CON"} /\ Inner(new, p + 1)
  <2>1. /\ new.index = parser.index + 1 /\ new.header_state = next
        /\ new.state = parser.state /\ new.nread = parser.nread
    BY DEF IInv, HasFields, Fields
  <2>2. /\ hs = "h_C" => parser.index = 0
        /\ hs = "h_CO" => parser.index = 1
        /\ hs = "h_CON" => parser.index = 2
    BY <1>1 DEF IndexFits
  <2>3. /\ hs = "h_C" => next \in {"h_general", "h_CO"}
        /\ hs = "h_CO" => next \in {"h_general", "h_CON"}
        /\ hs = "h_CON" => next \in {"h_general", "h_matching_connection",
                                     "h_matching_content_length"}
    BY SharedLetter
  <2> HIDE DEF next, new
  <2>4. /\ 3 + 1 < Len(Words["h_matching_connection"][1])
        /\ 3 + 1 < Len(Words["h_matching_content_length"][1])
    <3>1. "h_matching_connection" \in DOMAIN Words
          /\ "h_matching_content_length" \in DOMAIN Words
      BY DEF Words
    <3>2. QED
      BY <3>1, WordLength
  <2>5. {"h_general", "h_CO", "h_CON"} \cap DOMAIN Words = {}
    BY DEF Words
  <2>6. IndexFits(new)
    <3>1. CASE hs = "h_C"
      BY <1>1, <2>1, <2>2, <2>3, <2>5, <3>1 DEF IndexFits
    <3>2. CASE hs = "h_CO"
      BY <1>1, <2>1, <2>2, <2>3, <2>5, <3>2 DEF IndexFits
    <3>3. CASE hs = "h_CON"
      BY <1>1, <2>1, <2>2, <2>3, <2>4, <2>5, <3>3 DEF IndexFits
    <3>4. QED
      BY <1>4, <3>1, <3>2, <3>3
  <2>7. QED
    BY <1>1, <1>4, <2>1, <2>6, RoundsOnce
<1>5. QED
  BY <1>2, <1>3, <1>4 DEF FieldByte

(* Inside a value.                                                           *)
LEMMA InValueNow ==
    ASSUME CInv, NEW hs, ValueByte(hs)
    PROVE  /\ parser.state = "s_header_value" /\ parser.state \in InnerStates
           /\ p <= end /\ IndexFits(parser) /\ parser.header_state = hs
BY DEF ValueByte, InnerLoop, In, InnerStates, CInv

(* A value nobody looks at: the search for its end stays in the buffer.      *)
LEMMA GeneralRounds ==
    ASSUME IInv, CInv, ValueGeneral PROVE Rounds
<1>1. p <= end /\ IndexFits(parser)
  BY InValueNow DEF ValueGeneral
<1>2. PICK q \in NextLineEnd : Inner(parser, q)
  BY DEF ValueGeneral
<1>3. q \in p .. end + 1
  BY <1>1, <1>2, LineEndInBuffer
<1>4. QED
  BY <1>1, <1>2, <1>3 DEF Rounds

(* A digit of Content-Length, or an error.                                   *)
LEMMA LengthRounds ==
    ASSUME IInv, CInv, ValueLength PROVE Rounds \/ Stops
<1> DEFINE new == [parser EXCEPT !.content_length = WithDigit(10)]
<1>1. p <= end /\ IndexFits(parser)
  BY InValueNow DEF ValueLength
<1>2. \/ Inner(parser, p + 1)
      \/ Inner(new, p + 1)
      \/ Silent /\ Error("INVALID_CONTENT_LENGTH")
  BY DEF ValueLength
<1>3. /\ new.nread = parser.nread /\ new.state = parser.state
      /\ new.index = parser.index /\ new.header_state = parser.header_state
      /\ new.method = parser.method
  BY DEF IInv, HasFields, Fields
<1> HIDE DEF new
<1>4. IndexFits(new)
  BY <1>1, <1>3 DEF IndexFits
<1>5. QED
  BY <1>1, <1>2, <1>3, <1>4, RoundsOnce DEF Stops, Told

(* A letter of a word in a value.                                            *)
LEMMA WordRounds ==
    ASSUME IInv, CInv, ValueWord PROVE Rounds
<1>1. PICK hs \in DOMAIN Words : ValueByte(hs) /\ Inner(Match(Words[hs]), p + 1)
  BY DEF ValueWord
<1>2. QED
  BY <1>1, InValueNow, MatchFits, RoundsOnce

(* A value of Connection begins with one of its words, or none.              *)
LEMMA ConnectionWords ==
    ASSUME NEW letter
    PROVE  ConnectionWord(letter) \notin
               {"h_C", "h_CO", "h_CON", "h_matching_connection_token_start"}
BY DEF ConnectionWord

(* The first letter of a further word of Connection, at index 0.             *)
LEMMA TokenStartRounds ==
    ASSUME IInv, CInv, ValueTokenStart PROVE Rounds
<1>1. /\ parser.state = "s_header_value" /\ parser.state \in InnerStates
      /\ p <= end /\ IndexFits(parser)
      /\ parser.header_state = "h_matching_connection_token_start"
  BY InValueNow DEF ValueTokenStart
<1>2. parser.index = 0
  BY <1>1 DEF IndexFits
<1>3. \/ Inner(Recognised(ConnectionWord(lc)), p + 1)
      \/ Inner(parser, p + 1)
      \/ Inner(Recognised("h_general"), p + 1)
  BY DEF ValueTokenStart
<1>4. CASE Inner(Recognised(ConnectionWord(lc)), p + 1)
  <2> DEFINE new == Recognised(ConnectionWord(lc))
             word == ConnectionWord(lc)
  <2>1. /\ new.nread = parser.nread /\ new.header_state = word
        /\ new.state = parser.state /\ new.index = 0
    BY <1>2 DEF IInv, HasFields, Fields, Recognised
  <2>2. word # "h_matching_connection_token_start"
    BY ConnectionWords
  <2> HIDE DEF new, word
  <2>3. \A hs \in DOMAIN Words : 0 + 1 < Len(Words[hs][1])
    BY WordLength
  <2>4. IndexFits(new)
    BY <1>1, <2>1, <2>2, <2>3 DEF IndexFits
  <2>5. QED
    BY <1>1, <1>4, <2>1, <2>4, RoundsOnce DEF new
<1>5. CASE Inner(parser, p + 1)
  BY <1>1, <1>5, RoundsOnce
<1>6. CASE Inner(Recognised("h_general"), p + 1)
  BY <1>1, <1>6, UnindexedStates, RecognisedFits, RoundsOnce
<1>7. QED
  BY <1>3, <1>4, <1>5, <1>6

(* A comma begins another word, at index 0.                                  *)
LEMMA TokenStarts ==
    ASSUME IInv, p <= end, NEW new, Inner(new, p + 1), new.index = 0,
           new.header_state = "h_matching_connection_token_start",
           parser.state = "s_header_value", new.state = "s_header_value",
           new.nread = parser.nread
    PROVE  Rounds
<1>1. "h_matching_connection_token_start" \notin DOMAIN Words
  BY DEF Words
<1>2. IndexFits(new)
  BY <1>1 DEF IndexFits
<1>3. QED
  BY <1>2, RoundsOnce

(* Other bytes of Connection and Transfer-Encoding.                          *)
LEMMA TokenRounds ==
    ASSUME IInv, CInv, ValueToken \/ ValueAfterChunked \/ ValueAfterWord
    PROVE  Rounds
<1>1. /\ parser.state = "s_header_value" /\ parser.state \in InnerStates
      /\ p <= end /\ IndexFits(parser)
  BY InValueNow DEF ValueToken, ValueAfterChunked, ValueAfterWord
<1> DEFINE again == [parser EXCEPT !.index = 0,
                        !.header_state = "h_matching_connection_token_start"]
           with(flags) ==
               [parser EXCEPT !.flags = flags, !.index = 0,
                        !.header_state = "h_matching_connection_token_start"]
<1>2. \/ Inner(again, p + 1)
      \/ \E flags : Inner(with(flags), p + 1)
      \/ Inner(parser, p + 1)
      \/ Inner(Recognised("h_general"), p + 1)
      \/ Inner(Recognised("h_matching_connection_token"), p + 1)
  <2>1. CASE ValueToken
    BY <2>1 DEF ValueToken
  <2>2. CASE ValueAfterChunked
    BY <2>2 DEF ValueAfterChunked
  <2>3. CASE ValueAfterWord
    <3>1. PICK hs \in DOMAIN FlagOf \ {"h_transfer_encoding_chunked"} :
            Inner(CASE c = "," ->
                    [parser EXCEPT !.flags = @ \cup FlagOf[hs], !.index = 0,
                       !.header_state = "h_matching_connection_token_start"]
               [] c = " " -> parser
               [] OTHER -> Recognised("h_matching_connection_token"), p + 1)
      BY <2>3 DEF ValueAfterWord
    <3>2. \/ Inner(with(parser.flags \cup FlagOf[hs]), p + 1)
          \/ Inner(parser, p + 1)
          \/ Inner(Recognised("h_matching_connection_token"), p + 1)
      BY <3>1
    <3>3. QED
      BY <3>2
  <2>4. QED
    BY <2>1, <2>2, <2>3
<1>3. /\ again.index = 0 /\ again.nread = parser.nread
      /\ again.header_state = "h_matching_connection_token_start"
      /\ again.state = parser.state
  BY DEF IInv, HasFields, Fields
<1>4. ASSUME NEW flags
      PROVE  /\ with(flags).index = 0 /\ with(flags).nread = parser.nread
             /\ with(flags).header_state = "h_matching_connection_token_start"
             /\ with(flags).state = parser.state
  BY DEF IInv, HasFields, Fields
<1> HIDE DEF again, with
<1>5. CASE Inner(again, p + 1)
  BY <1>1, <1>3, <1>5, TokenStarts
<1>6. ASSUME NEW flags, Inner(with(flags), p + 1) PROVE Rounds
  BY <1>1, <1>4, <1>6, TokenStarts
<1>7. CASE Inner(parser, p + 1)
  BY <1>1, <1>7, RoundsOnce
<1>8. CASE \/ Inner(Recognised("h_general"), p + 1)
           \/ Inner(Recognised("h_matching_connection_token"), p + 1)
  BY <1>1, <1>8, UnindexedStates, RecognisedFits, RoundsOnce
<1>9. QED
  BY <1>2, <1>5, <1>6, <1>7, <1>8

(* The bytes of an inner loop are counted; index is kept.                    *)
LEMMA CountedFits ==
    ASSUME IInv, IndexFits(parser), NEW s, s \notin Unread
    PROVE  LET counted == COUNT_HEADER_SIZE(InnerRead)
               done == [counted EXCEPT !.state = s]
           IN  /\ counted.nread = parser.nread + InnerRead
               /\ counted.state = parser.state /\ IndexFits(counted)
               /\ done.nread = parser.nread + InnerRead
               /\ done.state = s /\ IndexFits(done)
<1> DEFINE counted == COUNT_HEADER_SIZE(InnerRead)
           done == [counted EXCEPT !.state = s]
<1>1. /\ counted.nread = parser.nread + InnerRead /\ DOMAIN counted = Fields
      /\ counted.state = parser.state /\ counted.index = parser.index
      /\ counted.header_state = parser.header_state
      /\ counted.method = parser.method
  BY DEF IInv, HasFields, Fields, COUNT_HEADER_SIZE
<1> HIDE DEF counted
<1>2. /\ done.nread = counted.nread /\ done.state = s /\ done.index = counted.index
  BY <1>1 DEF Fields
<1> HIDE DEF done
<1>3. IndexFits(counted)
  BY <1>1 DEF IndexFits
<1>4. IndexFits(done)
  BY <1>1, <1>2 DEF IndexFits, Unread, Indexed, InnerStates
<1>5. QED
  BY <1>1, <1>2, <1>3, <1>4 DEF counted, done

(* The end of a name.                                                        *)
LEMMA FieldEndsStops ==
    ASSUME IInv, CInv, FieldEnds PROVE Stops
<1> DEFINE counted == COUNT_HEADER_SIZE(InnerRead)
           done == [counted EXCEPT !.state = "s_header_value_discard_ws"]
<1>1. /\ "s_header_value_discard_ws" \notin Unread
      /\ parser.state = "s_header_field" /\ "s_header_field" \notin ChunkData
      /\ "s_header_value_discard_ws" \notin ChunkData
  BY DEF Unread, Indexed, InnerStates, ChunkData, FieldEnds, In
<1>2. /\ counted.nread = parser.nread + InnerRead /\ counted.state = parser.state
      /\ IndexFits(counted)
      /\ done.nread = parser.nread + InnerRead
      /\ done.state = "s_header_value_discard_ws" /\ IndexFits(done)
  BY <1>1, CountedFits DEF CInv
<1>3. \/ Silent /\ Error("HEADER_OVERFLOW")
      \/ ~Overflows(InnerRead) /\ Silent /\ Go(counted, p, "loop")
      \/ ~Overflows(InnerRead) /\ CALLBACK_DATA("header_field", p) /\ Break(done)
      \/ Silent /\ Error("INVALID_HEADER_TOKEN")
  BY DEF FieldEnds
<1> HIDE DEF counted, done
<1>4. QED
  BY <1>1, <1>2, <1>3 DEF Stops, Told, Marks

(* The end of a value.                                                       *)
LEMMA ValueEndsStops ==
    ASSUME IInv, CInv, ValueEnds PROVE Stops
<1> DEFINE counted == COUNT_HEADER_SIZE(InnerRead)
           done == [counted EXCEPT !.state = "s_header_almost_done"]
<1>1. /\ "s_header_almost_done" \notin Unread
      /\ parser.state = "s_header_value" /\ "s_header_value" \notin ChunkData
      /\ "s_header_almost_done" \notin ChunkData
  BY DEF Unread, Indexed, InnerStates, ChunkData, ValueEnds, In
<1>2. /\ counted.nread = parser.nread + InnerRead /\ counted.state = parser.state
      /\ IndexFits(counted)
      /\ done.nread = parser.nread + InnerRead
      /\ done.state = "s_header_almost_done" /\ IndexFits(done)
  BY <1>1, CountedFits DEF CInv
<1>3. /\ Told
      /\ \/ Error("HEADER_OVERFLOW")
         \/ ~Overflows(InnerRead) /\ Go(counted, p, "loop")
         \/ ~Overflows(InnerRead) /\ (Break(done) \/ REEXECUTE(done))
  BY DEF ValueEnds, Told, Marks
<1> HIDE DEF counted, done
<1>4. QED
  BY <1>1, <1>2, <1>3 DEF Stops

(* Nothing of a header is held back.                                         *)
Unheld == \A m \in HeaderMarks : mark[m] = 0

(* Then it is enough that what was given is counted.                         *)
LEMMA UnheldCounts ==
    ASSUME IInv', CarryData(events)', Unheld', start' = 0,
           parser'.nread <= HTTP_MAX_HEADER_SIZE,
           HeaderBytes' <= parser'.nread,
           parser'.state \in ChunkData => HeaderBytes' = 0,
           call' = "switch" => ~PARSING_HEADER(parser'.state),
           IndexFits(parser')
    PROVE  CInv'
<1>1. InnerRead' = 0 /\ (call' = "switch" => Due' = 0) /\ parser'.nread \in Nat
  BY DEF InnerRead, Due, IInv, FieldsFit
<1>2. HeldWithin(p, parser.nread)'
  BY DEF HeldWithin, Unheld
<1>3. call' = "switch" => HeldWithin(p, parser.nread + InnerRead - Due)'
  BY <1>1, <1>2 DEF HeldWithin
<1>4. HeaderCounted'
  BY <1>2, <1>3 DEF HeaderCounted
<1>5. QED
  BY <1>4 DEF CInv

(* After a callback that starts the count, nothing is counted.               *)
LEMMA CountStarts ==
    ASSUME CarryData(events), Last \in Resets
    PROVE  HeaderBytes = 0
<1>1. PICK S : events \in Seq(S) /\ \A e \in S : Carries(e)
  BY DEF CarryData
<1>2. /\ events # <<>> /\ events[Len(events)].cb \in Resets
      /\ Len(events) \in 1 .. Len(events)
  BY <1>1 DEF Last, Resets
<1>3. CountAt(events, Len(events))
         = Added(CountAt(events, Len(events) - 1), events[Len(events)])
  BY <1>1, <1>2, CountFacts
<1>4. HeaderBytes = CountAt(events, Len(events))
  BY <1>1, CountFacts DEF HeaderBytes
<1>5. QED
  BY <1>2, <1>3, <1>4 DEF Added, Resets, HeaderMarks, Marks

(* Where no header is read, nothing is held back.                            *)
LEMMA BodyUnheld ==
    ASSUME IInv, CInv, call = "switch", parser.state \in BodyStates
    PROVE  /\ Unheld /\ HeaderBytes <= parser.nread
           /\ parser.nread <= HTTP_MAX_HEADER_SIZE /\ parser.nread \in Nat
           /\ IndexFits(parser) /\ CarryData(events)
           /\ parser.state \notin Indexed
           /\ parser.state \in ChunkData => HeaderBytes = 0
<1>1. Unheld
  BY DEF Unheld, HeaderMarks, Marks, IInv, MarksBelong, BodyStates, UrlStart,
     UrlStates, Query, Fragment
<1>2. parser.state \notin Indexed /\ parser.state \notin InnerStates /\ Due = 0
  BY DEF Indexed, InnerStates, BodyStates, Due, PARSING_HEADER
<1>3. InnerRead = 0 /\ parser.nread \in Nat
  BY <1>2, Placing DEF IInv, InnerOnly, InnerRead
<1>4. QED
  BY <1>1, <1>2, <1>3, AtWork DEF CInv, HeaderCounted, HeldWithin

(* The state that is left keeps the index.                                   *)
LEMMA IndexLeft ==
    ASSUME IndexFits(parser), NEW new, new.index = parser.index,
           new.state \notin Indexed
    PROVE  IndexFits(new)
BY DEF IndexFits, Indexed, InnerStates

(* After a message the parser waits for a header and keeps nothing.          *)
LEMMA AfterMessage ==
    ASSUME NEW q
    PROVE  /\ NEW_MESSAGE(q) \notin Indexed /\ NEW_MESSAGE(q) \notin ChunkData
           /\ PARSING_HEADER(NEW_MESSAGE(q))
BY NextMessage DEF Indexed, InnerStates, ChunkData, PARSING_HEADER, BodyStates

(* The count starts again when the header is complete: the application was   *)
(* told so, and has nothing of a header to keep.                             *)
LEMMA HeadersDoneCounts ==
    ASSUME IInv, IInv', CInv, s_headers_done PROVE CInv'
<1> DEFINE q == Restarted(parser)
           ended == [q EXCEPT !.state = NEW_MESSAGE(q)]
           body(s) == [q EXCEPT !.state = s]
<1>1. call = "switch" /\ parser.state = "s_headers_done"
  BY DEF s_headers_done, In
<1>2. /\ HeaderBytes = 0 /\ Unheld /\ CarryData(events) /\ IndexFits(parser)
  <2>1. \A m \in Marks : mark[m] = 0
    BY <1>1, NothingMarked
       DEF MarkedStates, UrlStart, UrlStates, Query, Fragment, BodyMarked
  <2>2. Last = "headers_complete"
    BY <1>1, AtWork DEF Order, InBody
  <2>3. QED
    BY <2>1, <2>2, CountStarts DEF Resets, Unheld, HeaderMarks, CInv
<1>3. \/ /\ CALLBACK_NOTIFY("message_complete", ended)
         /\ Leave(ended) \/ Break(ended)
      \/ /\ Silent
         /\ \E s \in {"s_chunk_size_start", "s_body_identity",
                      "s_body_identity_eof"} : Break(body(s))
  BY DEF s_headers_done
<1>4. /\ CarryData(events)' /\ HeaderBytes' = 0 /\ mark' = mark
  <2>1. CASE CALLBACK_NOTIFY("message_complete", ended)
    <3>1. "message_complete" \in Notices /\ "message_complete" \notin Resets
      BY DEF Notices, Resets
    <3> HIDE DEF ended
    <3>2. QED
      BY <1>2, <2>1, <3>1, NoticeCounts
  <2>2. CASE Silent
    BY <1>2, <2>2 DEF Silent, CarryData, HeaderBytes
  <2>3. QED
    BY <1>3, <2>1, <2>2
<1>5. /\ ended.nread = 0 /\ ended.index = parser.index
      /\ ended.state = NEW_MESSAGE(q)
      /\ \A s : /\ body(s).nread = 0 /\ body(s).index = parser.index
                /\ body(s).state = s
  <2>1. DOMAIN q = Fields /\ q.nread = 0 /\ q.index = parser.index
    BY DEF IInv, HasFields, Fields, Restarted
  <2> HIDE DEF q
  <2>2. QED
    BY <2>1 DEF Fields
<1>6. /\ parser'.nread = 0 /\ parser'.index = parser.index
      /\ parser'.state \notin Indexed /\ parser'.state \notin ChunkData
      /\ start' = 0 /\ call' # "switch"
  <2>1. CASE Leave(ended) \/ Break(ended)
    <3>1. ended.state \notin Indexed /\ ended.state \notin ChunkData
      BY <1>5, AfterMessage
    <3> HIDE DEF ended
    <3>2. QED
      BY <1>5, <2>1, <3>1 DEF Leave, Break, Go
  <2>2. CASE \E s \in {"s_chunk_size_start", "s_body_identity",
                       "s_body_identity_eof"} : Break(body(s))
    <3>1. PICK s \in {"s_chunk_size_start", "s_body_identity",
                      "s_body_identity_eof"} : Break(body(s))
      BY <2>2
    <3>2. s \notin Indexed /\ s \notin ChunkData
      BY DEF Indexed, InnerStates, ChunkData
    <3> HIDE DEF body
    <3>3. QED
      BY <1>5, <3>1, <3>2 DEF Break, Go
  <2>3. QED
    BY <1>3, <2>1, <2>2
<1>7. IndexFits(parser')
  BY <1>2, <1>6, IndexLeft
<1>8. Unheld' /\ 0 <= HTTP_MAX_HEADER_SIZE
  BY <1>2, <1>4, LimitsAssumption DEF Unheld
<1>9. QED
  BY <1>4, <1>6, <1>7, <1>8, UnheldCounts

(* It starts again with every chunk, so for the trailers too.                *)
LEMMA ChunkSizeDoneCounts ==
    ASSUME IInv, IInv', CInv, s_chunk_size_almost_done PROVE CInv'
<1> DEFINE q == Restarted(parser)
           last == [q EXCEPT !.flags = @ \cup {"F_TRAILING"},
                             !.state = "s_header_field_start"]
           chunk == [q EXCEPT !.state = "s_chunk_data"]
           next == IF q.content_length = 0 THEN last ELSE chunk
<1>1. call = "switch" /\ parser.state = "s_chunk_size_almost_done"
  BY DEF s_chunk_size_almost_done, In
<1>2. CarryData(events) /\ IndexFits(parser) /\ Unheld
  <2>1. \A m \in Marks : mark[m] = 0
    BY <1>1, NothingMarked
       DEF MarkedStates, UrlStart, UrlStates, Query, Fragment, BodyMarked
  <2>2. QED
    BY <2>1 DEF CInv, Unheld, HeaderMarks
<1>3. CASE Silent /\ Error("STRICT")
  <2>1. CarryData(events)'
    BY <1>2, <1>3 DEF Silent, CarryData
  <2>2. QED
    BY <1>1, <1>3, <2>1, FailingCounts
<1>4. CASE CALLBACK_NOTIFY("chunk_header", next) /\ Break(next)
  <2>1. DOMAIN q = Fields /\ q.nread = 0 /\ q.index = parser.index
    BY DEF IInv, HasFields, Fields, Restarted
  <2> HIDE DEF q
  <2>2. next.nread = 0 /\ next.index = parser.index
        /\ next.state \in {"s_header_field_start", "s_chunk_data"}
    BY <2>1 DEF Fields
  <2> HIDE DEF next
  <2>3. /\ CarryData(events)' /\ mark' = mark /\ HeaderBytes' = 0
    <3>1. "chunk_header" \in Notices /\ "chunk_header" \in Resets
      BY DEF Notices, Resets
    <3>2. QED
      BY <1>2, <1>4, <3>1, NoticeCounts
  <2>4. parser' = next /\ call' = "loop" /\ start' = 0
    BY <1>4 DEF Break, Go
  <2>5. next.state \notin Indexed
    BY <2>2 DEF Indexed, InnerStates
  <2>6. IndexFits(parser')
    BY <1>2, <2>2, <2>4, <2>5, IndexLeft
  <2>7. Unheld' /\ 0 <= HTTP_MAX_HEADER_SIZE
    BY <1>2, <2>3, LimitsAssumption DEF Unheld
  <2>8. QED
    BY <2>2, <2>3, <2>4, <2>6, <2>7, UnheldCounts
<1>5. QED
  BY <1>3, <1>4 DEF s_chunk_size_almost_done

(* And after a chunk, for the size of the next one.                          *)
LEMMA ChunkDoneCounts ==
    ASSUME IInv, IInv', CInv, s_chunk_data_done PROVE CInv'
<1> DEFINE new == [Restarted(parser) EXCEPT !.state = "s_chunk_size_start"]
<1>1. /\ call = "switch" /\ parser.state = "s_chunk_data_done"
      /\ parser.state \in BodyStates /\ parser.state \in ChunkData
  BY DEF s_chunk_data_done, In, BodyStates, ChunkData
<1>2. Unheld /\ HeaderBytes = 0 /\ CarryData(events) /\ IndexFits(parser)
  BY <1>1, BodyUnheld
<1>3. CASE Silent /\ Error("STRICT")
  <2>1. CarryData(events)'
    BY <1>2, <1>3 DEF Silent, CarryData
  <2>2. QED
    BY <1>1, <1>3, <2>1, FailingCounts
<1>4. CASE CALLBACK_NOTIFY("chunk_complete", parser) /\ Break(new)
  <2>1. /\ DOMAIN Restarted(parser) = Fields /\ Restarted(parser).nread = 0
        /\ Restarted(parser).index = parser.index
    BY DEF IInv, HasFields, Fields, Restarted
  <2>2. new.nread = 0 /\ new.index = parser.index
        /\ new.state = "s_chunk_size_start"
    BY <2>1 DEF Fields
  <2> HIDE DEF new
  <2>3. /\ CarryData(events)' /\ mark' = mark /\ HeaderBytes' = 0
    <3>1. "chunk_complete" \in Notices /\ "chunk_complete" \notin Resets
      BY DEF Notices, Resets
    <3>2. QED
      BY <1>2, <1>4, <3>1, NoticeCounts
  <2>4. parser' = new /\ call' = "loop" /\ start' = 0
    BY <1>4 DEF Break, Go
  <2>5. new.state \notin Indexed
    BY <2>2 DEF Indexed, InnerStates
  <2>6. IndexFits(parser')
    BY <1>2, <2>2, <2>4, <2>5, IndexLeft
  <2>7. Unheld' /\ 0 <= HTTP_MAX_HEADER_SIZE
    BY <1>2, <2>3, LimitsAssumption DEF Unheld
  <2>8. QED
    BY <2>2, <2>3, <2>4, <2>6, <2>7, UnheldCounts
<1>5. QED
  BY <1>3, <1>4 DEF s_chunk_data_done

(* A body is read, or what follows it: the count stands still.               *)
LEMMA StandingStill ==
    ASSUME IInv, IInv', CInv, call = "switch", parser.state \in BodyStates,
           CarryData(events)', HeaderBytes' = HeaderBytes, Unheld', start' = 0,
           parser'.nread = parser.nread, parser'.index = parser.index,
           parser'.state \notin Indexed,
           parser'.state \in ChunkData => parser.state \in ChunkData,
           call' = "switch" => ~PARSING_HEADER(parser'.state)
    PROVE  CInv'
<1>1. IndexFits(parser')
  BY BodyUnheld, IndexLeft
<1>2. QED
  BY <1>1, BodyUnheld, UnheldCounts

(* Only the body is marked there, and no step of it marks anything else.     *)
LEMMA BodyMarks ==
    ASSUME Unheld, mark \in [Marks -> Nat], NEW n,
           mark' = mark \/ mark' = [mark EXCEPT !["body"] = n]
    PROVE  Unheld'
BY DEF Unheld, HeaderMarks

(* The body is marked.                                                       *)
LEMMA BodyMark ==
    ASSUME CarryData(events), MARK("body")
    PROVE  /\ CarryData(events)' /\ HeaderBytes' = HeaderBytes
           /\ \E n : mark' = [mark EXCEPT !["body"] = n]
BY DEF MARK, CarryData, HeaderBytes

(* The data of a chunk.                                                      *)
LEMMA ChunkDataCounts ==
    ASSUME IInv, IInv', CInv, s_chunk_data PROVE CInv'
<1> DEFINE new == IF Taken.content_length = 0
                  THEN [Taken EXCEPT !.state = "s_chunk_data_almost_done"]
                  ELSE Taken
<1>1. /\ call = "switch" /\ parser.state = "s_chunk_data"
      /\ parser.state \in BodyStates /\ parser.state \in ChunkData
  BY DEF s_chunk_data, In, BodyStates, ChunkData
<1>2. MARK("body") /\ Go(new, p + to_read, "loop")
  BY DEF s_chunk_data
<1>3. /\ CarryData(events)' /\ HeaderBytes' = HeaderBytes /\ Unheld'
  <2>1. mark \in [Marks -> Nat]
    BY Placing
  <2>2. QED
    BY <1>1, <1>2, <2>1, BodyUnheld, BodyMark, BodyMarks
<1>4. new.nread = parser.nread /\ new.index = parser.index
      /\ new.state \in {"s_chunk_data", "s_chunk_data_almost_done"}
  <2>1. /\ DOMAIN Taken = Fields /\ Taken.nread = parser.nread
        /\ Taken.index = parser.index /\ Taken.state = parser.state
    BY DEF IInv, HasFields, Fields, Taken
  <2>2. QED
    BY <1>1, <2>1 DEF Fields
<1> HIDE DEF new
<1>5. parser' = new /\ call' = "loop" /\ start' = 0
  BY <1>2 DEF Go
<1>6. new.state \notin Indexed
  BY <1>4 DEF Indexed, InnerStates
<1>7. QED
  BY <1>1, <1>3, <1>4, <1>5, <1>6, StandingStill

(* The line end after it gives the data to the application.                  *)
LEMMA ChunkDataDoneCounts ==
    ASSUME IInv, IInv', CInv, s_chunk_data_almost_done PROVE CInv'
<1>1. /\ call = "switch" /\ parser.state = "s_chunk_data_almost_done"
      /\ parser.state \in BodyStates /\ parser.state \in ChunkData
  BY DEF s_chunk_data_almost_done, In, BodyStates, ChunkData
<1>2. /\ Unheld /\ CarryData(events) /\ mark \in [Marks -> Nat]
      /\ p \in Nat \ {0} /\ p <= Len(bytes) + 1 /\ bytes \in Seq(Character)
      /\ Len(bytes) \in Nat
  BY <1>1, BodyUnheld, Placing
<1>3. CASE Silent /\ Error("STRICT")
  <2>1. CarryData(events)'
    BY <1>2, <1>3 DEF Silent, CarryData
  <2>2. QED
    BY <1>1, <1>3, <2>1, FailingCounts
<1>4. CASE CALLBACK_DATA("body", p) /\ Break(Goto("s_chunk_data_done"))
  <2>1. "body" \in Marks
    BY DEF Marks
  <2>2. CarryData(events)' /\ HeaderBytes' = HeaderBytes
    <3>1. CASE mark["body"] = 0
      BY <1>2, <1>4, <3>1 DEF CALLBACK_DATA, CarryData, HeaderBytes
    <3>2. CASE mark["body"] # 0
      <4> DEFINE text == SubSeq(bytes, mark["body"], p - 1)
      <4>1. text \in Seq(Character)
        <5>1. mark["body"] \in Int /\ p - 1 \in Int
          BY <1>2, <2>1
        <5>2. \A i \in mark["body"] .. p - 1 : bytes[i] \in Character
          BY <1>2, <2>1, <3>2
        <5>3. QED
          BY <5>1, <5>2, SubSeqProperties
      <4>2. events' = Join("body", text)
        BY <1>4, <3>2 DEF CALLBACK_DATA
      <4> HIDE DEF text
      <4>3. QED
        BY <1>2, <2>1, <4>1, <4>2, JoinCounts
    <3>3. QED
      BY <3>1, <3>2
  <2>3. Unheld'
    <3>1. mark' = [mark EXCEPT !["body"] = 0]
      BY <1>4 DEF CALLBACK_DATA
    <3>2. QED
      BY <1>2, <3>1, BodyMarks
  <2> DEFINE new == Goto("s_chunk_data_done")
  <2>4. new.nread = parser.nread /\ new.index = parser.index
        /\ new.state = "s_chunk_data_done"
    BY DEF IInv, HasFields, Fields, Goto
  <2> HIDE DEF new
  <2>5. parser' = new /\ call' = "loop" /\ start' = 0
    BY <1>4 DEF Break, Go, new
  <2>6. new.state \notin Indexed
    BY <2>4 DEF Indexed, InnerStates
  <2>7. QED
    BY <1>1, <2>2, <2>3, <2>4, <2>5, <2>6, StandingStill
<1>5. QED
  BY <1>3, <1>4 DEF s_chunk_data_almost_done

(* A body of known length.                                                   *)
LEMMA IdentityCounts ==
    ASSUME IInv, IInv', CInv, s_body_identity PROVE CInv'
<1>1. /\ call = "switch" /\ parser.state = "s_body_identity"
      /\ parser.state \in BodyStates
  BY DEF s_body_identity, In, BodyStates
<1>2. /\ Unheld /\ CarryData(events) /\ mark \in [Marks -> Nat]
      /\ p \in Nat \ {0} /\ end \in Nat /\ p <= end + 1
      /\ end <= Len(bytes) /\ bytes \in Seq(Character) /\ Len(bytes) \in Nat
  BY <1>1, BodyUnheld, Placing
<1>3. /\ DOMAIN Taken = Fields /\ Taken.nread = parser.nread
      /\ Taken.index = parser.index /\ Taken.state = parser.state
  BY DEF IInv, HasFields, Fields, Taken
<1>4. CASE Taken.content_length = 0
  <2> DEFINE last == p + to_read - 1
             new == [Taken EXCEPT !.state = "s_message_done"]
             text == SubSeq(bytes, From("body"), BodyEnd(last) - 1)
  <2>1. /\ events' = Join("body", text)
        /\ mark' = [mark EXCEPT !["body"] = 0]
        /\ Go(new, last, "switch")
    BY <1>4 DEF s_body_identity
  <2>2. text \in Seq(Character)
    <3>1. last \in Int /\ last <= end
      <4>1. PICK n \in 0 .. ULLONG_MAX : n = parser.content_length
        BY DEF IInv, FieldsFit
      <4>2. QED
        BY <1>2, <4>1, LimitsAssumption DEF to_read
    <3> HIDE DEF last
    <3>2. "body" \in Marks
      BY DEF Marks
    <3>3. From("body") \in Nat \ {0}
      BY <1>2, <3>2 DEF From
    <3>4. BodyEnd(last) - 1 = last
      BY <3>1 DEF BodyEnd
    <3>5. \A i \in From("body") .. last : bytes[i] \in Character
      BY <1>2, <3>1, <3>3
    <3>6. QED
      BY <3>1, <3>3, <3>4, <3>5, SubSeqProperties
  <2> HIDE DEF text, last
  <2>3. CarryData(events)' /\ HeaderBytes' = HeaderBytes
    BY <1>2, <2>1, <2>2, JoinCounts DEF Marks
  <2>4. Unheld'
    BY <1>2, <2>1, BodyMarks
  <2>5. new.nread = parser.nread /\ new.index = parser.index
        /\ new.state = "s_message_done"
    BY <1>3 DEF Fields
  <2> HIDE DEF new
  <2>6. parser' = new /\ call' = "switch" /\ start' = 0
    BY <2>1 DEF Go
  <2>7. new.state \notin Indexed /\ ~PARSING_HEADER(new.state)
        /\ new.state \notin ChunkData
    BY <2>5 DEF Indexed, InnerStates, PARSING_HEADER, BodyStates, ChunkData
  <2>8. QED
    BY <1>1, <2>3, <2>4, <2>5, <2>6, <2>7, StandingStill
<1>5. CASE MARK("body") /\ \E q : Go(Taken, q, "loop")
  <2>1. /\ CarryData(events)' /\ HeaderBytes' = HeaderBytes /\ Unheld'
    BY <1>2, <1>5, BodyMark, BodyMarks
  <2>2. parser' = Taken /\ call' = "loop" /\ start' = 0
    BY <1>5 DEF Go
  <2>3. Taken.state \notin Indexed /\ Taken.state \notin ChunkData
    BY <1>1, <1>3 DEF Indexed, InnerStates, ChunkData
  <2>4. QED
    BY <1>1, <1>3, <2>1, <2>2, <2>3, StandingStill
<1>6. QED
  BY <1>4, <1>5 DEF s_body_identity

(* A body that lasts until the connection ends.                              *)
LEMMA IdentityEofCounts ==
    ASSUME IInv, IInv', CInv, s_body_identity_eof PROVE CInv'
<1>1. /\ call = "switch" /\ parser.state = "s_body_identity_eof"
      /\ parser.state \in BodyStates
  BY DEF s_body_identity_eof, In, BodyStates
<1>2. Unheld /\ CarryData(events) /\ mark \in [Marks -> Nat]
  BY <1>1, BodyUnheld, Placing
<1>3. MARK("body") /\ parser' = parser /\ call' = "loop" /\ start' = 0
  BY DEF s_body_identity_eof, Go
<1>4. /\ CarryData(events)' /\ HeaderBytes' = HeaderBytes /\ Unheld'
  BY <1>2, <1>3, BodyMark, BodyMarks
<1>5. parser.state \notin Indexed /\ parser.state \notin ChunkData
  BY <1>1 DEF Indexed, InnerStates, ChunkData
<1>6. QED
  BY <1>1, <1>3, <1>4, <1>5, StandingStill

(* The end of a message leaves the count to the next one: it is only ever    *)
(* too large.                                                                *)
LEMMA MessageDoneCounts ==
    ASSUME IInv, IInv', CInv, s_message_done PROVE CInv'
<1> DEFINE ended == Goto(NEW_MESSAGE(parser))
<1>1. /\ call = "switch" /\ parser.state = "s_message_done"
      /\ parser.state \in BodyStates
  BY DEF s_message_done, In, BodyStates
<1>2. Unheld /\ CarryData(events)
  BY <1>1, BodyUnheld
<1>3. /\ CALLBACK_NOTIFY("message_complete", ended)
      /\ Leave(ended) \/ Break(ended)
  BY DEF s_message_done
<1>4. /\ ended.nread = parser.nread /\ ended.index = parser.index
      /\ ended.state = NEW_MESSAGE(parser)
  BY DEF IInv, HasFields, Fields, Goto
<1> HIDE DEF ended
<1>5. /\ CarryData(events)' /\ HeaderBytes' = HeaderBytes /\ mark' = mark
  <2>1. "message_complete" \in Notices /\ "message_complete" \notin Resets
    BY DEF Notices, Resets
  <2>2. QED
    BY <1>2, <1>3, <2>1, NoticeCounts
<1>6. parser' = ended /\ call' # "switch" /\ start' = 0
  BY <1>3 DEF Leave, Break, Go
<1>7. Unheld'
  BY <1>2, <1>5 DEF Unheld
<1>8. QED
  BY <1>1, <1>4, <1>5, <1>6, <1>7, AfterMessage, StandingStill

(* The head of the loop counts the byte, or fails because of the limit.      *)
LEMMA LoopHeadCounts ==
    ASSUME IInv, IInv', CInv, LoopHead PROVE CInv'
<1> DEFINE n == Due
           new == COUNT_HEADER_SIZE(n)
<1>1. call = "loop" /\ Silent
  BY DEF LoopHead
<1>2. /\ CarryData(events)' /\ HeaderBytes' = HeaderBytes /\ mark' = mark
      /\ HeaderBytes \in Nat
  BY <1>1, HeaderBytesNatural DEF Silent, CarryData, HeaderBytes, CInv
<1>3. CASE Error("HEADER_OVERFLOW")
  BY <1>1, <1>2, <1>3, FailingCounts
<1>4. CASE ~(n = 1 /\ Overflows(n)) /\ REEXECUTE(new)
  <2>1. /\ new.nread = parser.nread + n /\ new.state = parser.state
        /\ new.index = parser.index /\ new.method = parser.method
        /\ new.header_state = parser.header_state
    BY DEF IInv, HasFields, Fields, COUNT_HEADER_SIZE
  <2> HIDE DEF new
  <2>2. parser' = new /\ call' = "switch" /\ start' = 0 /\ p' = p
    BY <1>4 DEF REEXECUTE, Go
  <2>3. IndexFits(parser')
    BY <2>1, <2>2 DEF IndexFits, CInv
  <2>4. /\ HeldWithin(p, parser.nread) /\ parser.nread <= HTTP_MAX_HEADER_SIZE
        /\ parser.state \in ChunkData => HeaderBytes = 0
    BY <1>1, AtWork DEF CInv, HeaderCounted
  <2>5. parser.nread \in Nat /\ n \in {0, 1} /\ Due' = n /\ InnerRead' = 0
    BY <2>1, <2>2, Placing DEF Due, InnerRead
  <2>6. /\ new.nread + InnerRead' - Due' = parser.nread
        /\ new.nread <= HTTP_MAX_HEADER_SIZE
    <3>1. CASE n = 0
      BY <2>1, <2>4, <2>5, <3>1
    <3>2. CASE n = 1
      BY <1>4, <2>1, <2>5, <3>2, LimitsAssumption DEF Overflows
    <3>3. QED
      BY <2>5, <3>1, <3>2
  <2>7. HeldWithin(p, parser.nread + InnerRead - Due)'
    BY <1>2, <2>2, <2>4, <2>6 DEF HeldWithin
  <2>8. HeaderCounted'
    BY <1>2, <2>1, <2>2, <2>4, <2>6, <2>7 DEF HeaderCounted
  <2>9. QED
    BY <1>2, <2>3, <2>8 DEF CInv
<1>5. Error("HEADER_OVERFLOW") \/ (~(n = 1 /\ Overflows(n)) /\ REEXECUTE(new))
  BY DEF LoopHead, Due
<1>6. QED
  BY <1>3, <1>4, <1>5

(* At the end of a buffer what is marked is given: it was counted.           *)
LEMMA LeftoverCounts ==
    ASSUME IInv, IInv', CInv, Leftover PROVE CInv'
<1>1. call = "loop" /\ Go(parser, p, "outside")
  BY DEF Leftover
<1>2. Told
  <2>1. CASE mark = NoMarks
    BY <2>1 DEF Leftover, Told
  <2>2. CASE mark # NoMarks
    <3>1. \E m \in Marks : mark[m] # 0
      BY <2>2, Placing DEF NoMarks
    <3>2. (CHOOSE m \in Marks : mark[m] # 0) \in Marks
      BY <3>1
    <3>3. QED
      BY <2>2, <3>2 DEF Leftover, Told
  <2>3. QED
    BY <2>1, <2>2
<1>3. /\ HeldWithin(p, parser.nread) /\ parser.nread <= HTTP_MAX_HEADER_SIZE
      /\ parser.state \in ChunkData => HeaderBytes = 0
      /\ parser.nread \in Nat /\ p \in Nat /\ CarryData(events)
      /\ IndexFits(parser)
  BY <1>1, AtWork, Placing DEF CInv, HeaderCounted
<1>4. /\ CarryData(events)' /\ WillHold(p, parser.nread)
  <2>1. /\ CarryData(events)'
        /\ \A x \in Int : x >= p => WillHold(x, parser.nread + (x - p))
    BY <1>1, <1>2, <1>3, Telling
  <2>2. p \in Int /\ p >= p /\ parser.nread + (p - p) = parser.nread
    BY <1>3
  <2>3. QED
    BY <2>1, <2>2
<1>5. parser.state \in ChunkData => HeaderBytes' = 0
  <2>1. SUFFICES ASSUME parser.state \in ChunkData PROVE HeaderBytes' = 0
    OBVIOUS
  <2>2. HeldWithin(p, 0)
    <3>1. \A m \in HeaderMarks : mark[m] = 0
      <4>1. \A m \in Marks \ {"body"} : mark[m] = 0
        BY <1>1, <2>1, BodyNotTrailing
      <4>2. QED
        BY <4>1 DEF HeaderMarks
    <3>2. QED
      BY <1>3, <2>1, <3>1 DEF HeldWithin
  <2>3. WillHold(p, 0)
    <3>1. \A x \in Int : x >= p => WillHold(x, 0 + (x - p))
      BY <1>1, <1>2, <1>3, <2>2, Telling
    <3>2. p \in Int /\ p >= p /\ 0 + (p - p) = 0
      BY <1>3
    <3>3. QED
      BY <3>1, <3>2
  <2>4. HeaderBytes' \in Nat
    <3>1. PICK S : events' \in Seq(S) /\ \A e \in S : Carries(e)
      BY <1>4 DEF CarryData
    <3>2. HeaderBytesIn(events') \in Nat
      BY <3>1, CountIsNatural, CountFacts
    <3>3. QED
      BY <3>2 DEF HeaderBytes
  <2>5. QED
    BY <2>3, <2>4 DEF WillHold
<1>6. parser' = parser /\ call' = "outside"
  BY <1>1 DEF Go
<1>7. HeaderCounted'
  BY <1>3, <1>4, <1>5, <1>6 DEF HeaderCounted, WillHold
<1>8. QED
  BY <1>3, <1>4, <1>6, <1>7 DEF CInv

(* A new buffer: a mark that is resumed marks nothing yet.                   *)
LEMMA EnteredCounts ==
    ASSUME IInv, IInv', CInv, Execute PROVE CInv'
<1>1. PICK last \in end + 1 .. Len(bytes) :
          /\ Receive(last) /\ parser.http_errno = "OK"
          /\ p' = end + 1 /\ call' = "loop"
          /\ mark' = [m \in Marks |->
                          IF Resumed(m, parser.state) THEN end + 1 ELSE 0]
  BY DEF Execute
<1>2. call = "outside" /\ parser' = parser /\ events' = events
  BY <1>1 DEF Receive
<1>3. /\ CarryData(events)' /\ HeaderBytes' = HeaderBytes /\ HeaderBytes \in Nat
      /\ IndexFits(parser')
  BY <1>2, HeaderBytesNatural DEF CarryData, HeaderBytes, CInv
<1>4. /\ HeaderBytes <= parser.nread /\ parser.nread <= HTTP_MAX_HEADER_SIZE
      /\ parser.state \in ChunkData => HeaderBytes = 0
      /\ parser.nread \in Nat /\ end \in Nat
  BY <1>1, <1>2, Placing DEF CInv, HeaderCounted
<1>5. HeldWithin(p, parser.nread)'
  <2>1. ASSUME NEW m \in HeaderMarks, mark'[m] # 0
        PROVE  mark'[m] = end + 1
    BY <1>1, <2>1 DEF HeaderMarks
  <2>2. HeaderBytes + ((end + 1) - (end + 1)) <= parser.nread
        /\ end + 1 <= end + 1
    BY <1>3, <1>4
  <2>3. QED
    BY <1>1, <1>2, <1>3, <1>4, <2>1, <2>2 DEF HeldWithin
<1>6. HeaderCounted'
  BY <1>1, <1>2, <1>3, <1>4, <1>5 DEF HeaderCounted
<1>7. QED
  BY <1>3, <1>6 DEF CInv

(* Calls after an error or at the end of the connection.                     *)
LEMMA CallerCounts ==
    ASSUME IInv, IInv', CInv, ExecuteAfterError \/ ExecuteEof PROVE CInv'
<1>1. CarryData(events) /\ IndexFits(parser) /\ HeaderBytes \in Nat
  BY HeaderBytesNatural DEF CInv
<1>2. CASE ExecuteAfterError
  <2>1. PICK last \in end + 1 .. Len(bytes) :
            Receive(last) /\ parser.http_errno # "OK"
    BY <1>2 DEF ExecuteAfterError
  <2>2. parser' = parser /\ events' = events
    BY <2>1 DEF Receive
  <2>3. QED
    BY <1>1, <2>1, <2>2 DEF CInv, CarryData, HeaderCounted
<1>3. CASE ExecuteEof
  <2> DEFINE failed == [parser EXCEPT !.http_errno = "INVALID_EOF_STATE"]
  <2>1. /\ call = "outside" /\ call' = call
        /\ parser' = failed \/ parser' = parser
    BY <1>3 DEF ExecuteEof
  <2>2. CarryData(events)' /\ HeaderBytes' = HeaderBytes
    <3>1. \/ CALLBACK_NOTIFY("message_complete", parser)
          \/ Silent
      BY <1>3 DEF ExecuteEof
    <3>2. CASE CALLBACK_NOTIFY("message_complete", parser)
      <4>1. "message_complete" \in Notices /\ "message_complete" \notin Resets
        BY DEF Notices, Resets
      <4>2. QED
        BY <1>1, <3>2, <4>1, NoticeCounts
    <3>3. CASE Silent
      BY <1>1, <3>3 DEF Silent, CarryData, HeaderBytes
    <3>4. QED
      BY <3>1, <3>2, <3>3
  <2>3. CASE parser' = failed
    <3>1. /\ failed.http_errno # "OK" /\ failed.index = parser.index
          /\ failed.state = parser.state /\ failed.method = parser.method
          /\ failed.header_state = parser.header_state
      BY DEF IInv, HasFields, Fields
    <3> HIDE DEF failed
    <3>2. IndexFits(parser') /\ HeaderCounted'
      BY <1>1, <2>3, <3>1 DEF IndexFits, HeaderCounted
    <3>3. QED
      BY <2>2, <3>2 DEF CInv
  <2>4. CASE parser' = parser
    <3>1. HeaderCounted'
      BY <2>1, <2>2, <2>4 DEF CInv, HeaderCounted
    <3>2. QED
      BY <1>1, <2>2, <2>4, <3>1 DEF CInv
  <2>5. QED
    BY <2>1, <2>3, <2>4
<1>4. QED
  BY <1>2, <1>3

(* At the beginning nothing was given.                                       *)
LEMMA CountsInitially == Init => CInv
<1> SUFFICES ASSUME Init PROVE CInv
  OBVIOUS
<1>1. /\ call = "outside" /\ events = <<>>
      /\ parser.state \in {"s_start_req_or_res", "s_start_req", "s_start_res"}
      /\ parser.nread = 0 /\ parser.index = 0
  BY DEF Init, http_parser_init, start_state
<1>2. <<>> \in Seq({}) /\ Len(<<>>) = 0
  OBVIOUS
<1>3. CarryData(events)
  <2>1. events \in Seq({}) /\ \A e \in {} : Carries(e)
    BY <1>1, <1>2
  <2>2. QED
    BY <2>1 DEF CarryData
<1>4. HeaderBytes = 0
  BY <1>1, <1>2, CountFacts DEF HeaderBytes
<1>5. HeaderCounted
  BY <1>1, <1>4, LimitsAssumption DEF HeaderCounted, ChunkData
<1>6. IndexFits(parser)
  BY <1>1 DEF IndexFits, InnerStates
<1>7. QED
  BY <1>3, <1>5, <1>6 DEF CInv

(* The actions that pass.                                                    *)
LEMMA FirstLineOutside ==
    ASSUME FirstLine
    PROVE  /\ call = "switch" /\ parser.state \notin InnerStates
           /\ PARSING_HEADER(parser.state)
BY DEF FirstLine, s_dead, s_start_req_or_res, s_res_or_resp_H, s_start_res,
   StrictLiteral, Literal, FirstDigitState, FirstDigit, MoreDigitsState,
   MoreDigits, s_res_first_status_code, s_res_status_start, s_res_status,
   s_start_req, s_req_method, s_req_spaces_before_url, s_req_url_start,
   s_req_url, s_req_http_start, s_req_line_almost_done, In, InnerStates,
   PARSING_HEADER, BodyStates, UrlStart, UrlStates, Query, Fragment

(* All the steps of the header.                                              *)
LEMMA HeadersCount ==
    ASSUME IInv, IInv', CInv, Headers PROVE CInv'
<1>1. ASSUME \/ s_header_field_start \/ s_header_value_discard_ws
             \/ s_header_value_start \/ s_header_value_lws
             \/ s_header_value_discard_lws
      PROVE  CInv'
  <2>1. /\ call = "switch" /\ parser.state \notin InnerStates
        /\ PARSING_HEADER(parser.state)
    BY <1>1 DEF s_header_field_start, s_header_value_discard_ws,
       s_header_value_start, s_header_value_lws, s_header_value_discard_lws,
       In, InnerStates, PARSING_HEADER, BodyStates
  <2>2. Passes
    BY <1>1, FieldStartPasses, DiscardPasses, ValueStartPasses, LwsPasses
  <2>3. QED
    BY <2>1, <2>2, Passing
<1>2. ASSUME \/ FieldByte \/ ValueGeneral \/ ValueLength \/ ValueWord
             \/ ValueTokenStart \/ ValueToken \/ ValueAfterChunked
             \/ ValueAfterWord
      PROVE  CInv'
  <2>1. call = "switch" /\ parser.state \in InnerStates /\ p <= end
    BY <1>2 DEF FieldByte, ValueGeneral, ValueLength, ValueWord,
       ValueTokenStart, ValueToken, ValueAfterChunked, ValueAfterWord,
       ValueByte, InnerLoop, In, InnerStates
  <2>2. Rounds \/ Stops
    BY <1>2, FieldByteRounds, GeneralRounds, LengthRounds, WordRounds,
       TokenStartRounds, TokenRounds
  <2>3. QED
    BY <2>1, <2>2, RoundCounts, StopCounts
<1>3. ASSUME FieldEnds \/ ValueEnds PROVE CInv'
  <2>1. call = "switch" /\ parser.state \in InnerStates
    BY <1>3 DEF FieldEnds, ValueEnds, In, InnerStates
  <2>2. QED
    BY <1>3, <2>1, FieldEndsStops, ValueEndsStops, StopCounts
<1>4. QED
  BY <1>1, <1>2, <1>3 DEF Headers

(* All the steps after it.                                                   *)
LEMMA BodiesCount ==
    ASSUME IInv, IInv', CInv, Bodies PROVE CInv'
<1>1. ASSUME \/ s_headers_almost_done \/ s_chunk_size_start
             \/ s_chunk_size \/ s_chunk_parameters
      PROVE  CInv'
  <2>1. /\ call = "switch" /\ parser.state \notin InnerStates
        /\ PARSING_HEADER(parser.state)
    BY <1>1 DEF s_headers_almost_done, s_chunk_size_start, s_chunk_size,
       s_chunk_parameters, In, InnerStates, PARSING_HEADER, BodyStates
  <2>2. Passes
    BY <1>1, HeadersAlmostDonePasses, ChunkSizePasses
  <2>3. QED
    BY <2>1, <2>2, Passing
<1>2. QED
  BY <1>1, HeadersDoneCounts, IdentityCounts, IdentityEofCounts,
     MessageDoneCounts, ChunkSizeDoneCounts, ChunkDataCounts,
     ChunkDataDoneCounts, ChunkDoneCounts DEF Bodies

(* The invariant is inductive, next to IInv.                                 *)
LEMMA CountsInductive == IInv /\ IInv' /\ CInv /\ [Next]_vars => CInv'
<1> SUFFICES ASSUME IInv, IInv', CInv, [Next]_vars PROVE CInv'
  OBVIOUS
<1>1. CASE FirstLine
  BY <1>1, FirstLinePasses, FirstLineOutside, Passing
<1>2. CASE UNCHANGED vars
  BY <1>2 DEF vars, CInv, CarryData, HeaderCounted, IndexFits, HeaderBytes,
     HeldWithin, InnerRead, Due
<1>3. QED
  BY <1>1, <1>2, HeadersCount, BodiesCount, LoopHeadCounts, LeftoverCounts,
     EnteredCounts, CallerCounts DEF Next, Parse

(* It holds in every behaviour of http_parser_execute, however a stream is   *)
(* cut into buffers.                                                         *)
THEOREM CountInvariant == Spec => [](IInv /\ CInv)
<1>1. Init => IInv /\ CInv
  BY Initialised, CountsInitially
<1>2. (IInv /\ CInv) /\ [Next]_vars => (IInv /\ CInv)'
  BY Inductive, CountsInductive
<1>3. QED
  BY <1>1, <1>2, PTL DEF Spec

(* No byte outside the buffer is looked at, the fields of struct http_parser *)
(* keep to their ranges, and the eight bits of index never wrap              *)
(* (http_parser.h:206-229): a word or a method never matches further than    *)
(* its own length.                                                           *)
THEOREM TypesOK == Spec => []TypeOK
<1>1. IInv /\ CInv => TypeOK
  BY DEF IInv, CInv, IndexFits, TypeOK
<1>2. QED
  BY <1>1, CountInvariant, PTL

(* A caller never has to keep more header than HTTP_MAX_HEADER_SIZE, in how  *)
(* many pieces ever it comes and for the trailers of a chunked body too      *)
(* (http_parser.c:147-152).                                                  *)
THEOREM HeadersBounded == Spec => []HeaderBounded
<1>1. IInv /\ CInv => HeaderBounded
  <2> SUFFICES ASSUME IInv, CInv, call = "outside", parser.http_errno = "OK"
               PROVE  HeaderBytes <= HTTP_MAX_HEADER_SIZE
    BY DEF HeaderBounded
  <2>1. /\ HeaderBytes <= parser.nread /\ parser.nread <= HTTP_MAX_HEADER_SIZE
        /\ HeaderBytes \in Nat /\ parser.nread \in Nat
    BY Placing, HeaderBytesNatural DEF CInv, HeaderCounted
  <2>2. QED
    BY <2>1, LimitsAssumption
<1>2. QED
  BY <1>1, CountInvariant, PTL

-----------------------------------------------------------------------------
(* How many more runs through the switch may look at the byte at p: a state  *)
(* that has it looked at again leads to one of a lower rank.                 *)
RankOf(state) ==
    IF state \in {"s_header_value_lws", "s_header_value_discard_lws"} THEN 4
    ELSE IF state = "s_header_field_start" THEN 3
    ELSE IF state \in {"s_start_req_or_res", "s_headers_almost_done",
                       "s_body_identity"} \cup InnerStates THEN 2
    ELSE 1
Rank == CASE call = "outside" -> 0
          [] call = "loop" -> IF p > end THEN 1 ELSE 5
          [] OTHER -> RankOf(parser.state)
(* What is left to do of a call.                                             *)
Work == 6 * (end + 1 - p) + Rank

(* No run through the switch is made twice: each leaves less to do, and a    *)
(* call of n bytes begins with 6 * n + 5.                                    *)
WorkShrinks ==
    [][/\ Parse => Work' \in Nat /\ Work' < Work
       /\ Execute => Work' = 6 * (end' - end) + 5]_vars

(* What a run does: the call is over, the next byte comes, or the same byte  *)
(* is looked at again in a state of lower rank, or an inner loop that has    *)
(* come to the end of the buffer is left.                                    *)
Advances ==
    /\ end' = end /\ p' >= p
    /\ \/ call' = "outside"
       \/ call' \in {"loop", "switch"} /\ p' > p
       \/ /\ call' = "switch" /\ p' = p
          /\ RankOf(parser'.state) < RankOf(parser.state)
       \/ call' = "loop" /\ p' = p /\ p > end

(* The range of the ranks.                                                   *)
LEMMA Ranks ==
    \A s : /\ RankOf(s) \in Nat /\ RankOf(s) >= 1 /\ RankOf(s) <= 4
           /\ s \in InnerStates => RankOf(s) = 2
BY DEF RankOf, InnerStates

(* A byte is worth six runs.                                                 *)
LEMMA BytesLeft ==
    ASSUME NEW e \in Nat, NEW i \in Nat, NEW j \in Nat, i <= j, j <= e + 1
    PROVE  /\ 6 * (e + 1 - i) \in Nat /\ 6 * (e + 1 - j) \in Nat
           /\ i = j => 6 * (e + 1 - j) = 6 * (e + 1 - i)
           /\ 6 * (e + 1 - j) <= 6 * (e + 1 - i)
           /\ i < j => 6 * (e + 1 - j) + 6 <= 6 * (e + 1 - i)
<1>1. PICK k \in Nat, l \in Nat : k = e + 1 - i /\ l = e + 1 - j /\ l <= k
                                 /\ (i < j => l + 1 <= k)
  OBVIOUS
<1>2. QED
  BY <1>1

(* Less is left of the bytes, or as much of them and a lower rank.           *)
LEMMA LessThan ==
    ASSUME NEW w \in Nat, NEW x \in Nat, NEW r \in Nat, NEW s \in Nat,
           \/ w + 6 <= x /\ s <= 5 /\ r >= 1
           \/ w <= x /\ s < r
    PROVE  w + s \in Nat /\ w + s < x + r
OBVIOUS

(* So there is less to do.                                                   *)
LEMMA LessToDo ==
    ASSUME IInv, IInv', call = "switch", Advances
    PROVE  Work' \in Nat /\ Work' < Work
<1>0. end' = end /\ p' >= p
  BY DEF Advances
<1>1. /\ p \in Nat /\ end \in Nat /\ p <= end + 1 /\ p' \in Nat
      /\ p' <= end + 1
      /\ p > end => parser.state \in InnerStates
  <2>1. p > end => start > 0
    BY DEF IInv, InBuffer
  <2>2. QED
    BY <1>0, <2>1 DEF IInv, InBuffer, InnerOnly
<1> DEFINE r == RankOf(parser.state)
           s == RankOf(parser'.state)
<1>2. /\ r \in Nat /\ r >= 1 /\ r <= 4 /\ s \in Nat /\ s >= 1 /\ s <= 4
      /\ p > end => r = 2
  BY <1>1, Ranks
<1>3. Rank = r
  BY DEF Rank
<1>4. Rank' = IF call' = "outside" THEN 0
              ELSE IF call' = "loop" THEN IF p' > end THEN 1 ELSE 5 ELSE s
  BY <1>0 DEF Rank
<1> DEFINE w == 6 * (end + 1 - p')
           x == 6 * (end + 1 - p)
<1> HIDE DEF r, s
<1>5. Work = x + r /\ Work' = w + Rank'
  BY <1>0, <1>3 DEF Work
<1>6. /\ w \in Nat /\ x \in Nat /\ w <= x
      /\ p < p' => w + 6 <= x
  BY <1>0, <1>1, BytesLeft
<1> HIDE DEF w, x
<1>7. CASE call' = "outside"
  <2>1. Rank' = 0 /\ 0 < r
    BY <1>2, <1>4, <1>7
  <2>2. QED
    BY <1>2, <1>5, <1>6, <2>1, LessThan
<1>8. CASE call' \in {"loop", "switch"} /\ p' > p
  <2>1. Rank' \in Nat /\ Rank' <= 5
    BY <1>2, <1>4, <1>8
  <2>2. w + 6 <= x
    BY <1>0, <1>1, <1>6, <1>8
  <2>3. QED
    BY <1>2, <1>5, <1>6, <2>1, <2>2, LessThan
<1>9. CASE /\ call' = "switch" /\ p' = p
           /\ RankOf(parser'.state) < RankOf(parser.state)
  <2>1. Rank' = s /\ s < r
    BY <1>4, <1>9 DEF r, s
  <2>2. QED
    BY <1>2, <1>5, <1>6, <2>1, LessThan
<1>10. CASE call' = "loop" /\ p' = p /\ p > end
  <2>1. Rank' = 1 /\ r = 2
    BY <1>2, <1>4, <1>10
  <2>2. QED
    BY <1>5, <1>6, <2>1, LessThan
<1>11. QED
  BY <1>7, <1>8, <1>9, <1>10 DEF Advances

(* The usual ways on.                                                        *)
LEMMA WaysOn ==
    ASSUME IInv, call = "switch"
    PROVE  /\ \A e : Error(e) => Advances
           /\ \A new : Leave(new) => Advances
           /\ \A new : Break(new) => Advances
           /\ \A new : REEXECUTE(new)
                       /\ RankOf(new.state) < RankOf(parser.state) => Advances
           /\ \A new : \A q \in p + 1 .. end + 1 :
                  Inner(new, q) \/ Go(new, q, "loop") => Advances
<1>1. p \in Nat /\ end \in Nat /\ p <= end + 1
  BY DEF IInv, InBuffer
<1>2. QED
  BY <1>1 DEF Advances, Error, Leave, Break, REEXECUTE, Inner, Go, env

(* The first line, and what is between messages.                             *)
LEMMA FirstLineAdvances ==
    ASSUME IInv, FirstLine PROVE call = "switch" /\ Advances
<1>1. call = "switch"
  BY DEF FirstLine, s_dead, s_start_req_or_res, s_res_or_resp_H, s_start_res,
     StrictLiteral, FirstDigitState, MoreDigitsState, s_res_first_status_code,
     s_res_status_start, s_res_status, s_start_req, s_req_method,
     s_req_spaces_before_url, s_req_url_start, s_req_url, s_req_http_start,
     s_req_line_almost_done, In
<1> USE <1>1, WaysOn
<1>2. CASE s_start_req_or_res
  <2> DEFINE new == [Fresh EXCEPT !.type = "HTTP_REQUEST",
                                  !.state = "s_start_req"]
  <2>1. DOMAIN Fresh = Fields
    BY DEF IInv, HasFields, Fields, Fresh
  <2>2. new.state = "s_start_req"
    BY <2>1 DEF Fields
  <2>3. parser.state = "s_start_req_or_res"
    BY <1>2 DEF s_start_req_or_res, In
  <2> HIDE DEF new
  <2>4. RankOf(new.state) < RankOf(parser.state)
    BY <2>2, <2>3 DEF RankOf, InnerStates
  <2>5. (\E q : Break(q)) \/ REEXECUTE(new)
    BY <1>2 DEF s_start_req_or_res, new
  <2>6. QED
    BY <2>4, <2>5
<1>3. CASE s_dead \/ s_res_or_resp_H \/ s_start_res \/ s_res_first_status_code
           \/ s_res_status_start \/ s_res_status
  BY <1>3 DEF s_dead, s_res_or_resp_H, s_start_res, s_res_first_status_code,
     s_res_status_start, s_res_status
<1>4. CASE StrictLiteral \/ FirstDigitState
  BY <1>4 DEF StrictLiteral, FirstDigitState
<1>5. CASE MoreDigitsState
  BY <1>5 DEF MoreDigitsState
<1>6. CASE s_start_req \/ s_req_method
  BY <1>6 DEF s_start_req, s_req_method
<1>7. CASE s_req_spaces_before_url \/ s_req_url_start \/ s_req_url
  BY <1>7 DEF s_req_spaces_before_url, s_req_url_start, s_req_url, UrlByte
<1>8. CASE s_req_http_start \/ s_req_line_almost_done
  BY <1>8 DEF s_req_http_start, s_req_line_almost_done
<1>9. QED
  BY <1>2, <1>3, <1>4, <1>5, <1>6, <1>7, <1>8 DEF FirstLine

(* Looked at again in the state s.                                           *)
LEMMA Again ==
    ASSUME IInv, call = "switch", NEW new, REEXECUTE(new), NEW s,
           new.state = s, RankOf(s) < RankOf(parser.state)
    PROVE  Advances
BY WaysOn

(* The inner loops.                                                          *)
LEMMA InnerAdvances ==
    ASSUME IInv,
           \/ FieldByte \/ ValueGeneral \/ ValueLength \/ ValueWord
           \/ ValueTokenStart \/ ValueToken \/ ValueAfterChunked
           \/ ValueAfterWord
    PROVE  call = "switch" /\ Advances
<1>1. call = "switch" /\ p <= end
  BY DEF FieldByte, ValueGeneral, ValueLength, ValueWord, ValueTokenStart,
     ValueToken, ValueAfterChunked, ValueAfterWord, ValueByte, InnerLoop, In
<1>2. p \in Nat /\ end \in Nat /\ p + 1 \in p + 1 .. end + 1
  BY <1>1 DEF IInv, InBuffer
<1>3. \A new : Inner(new, p + 1) => Advances
  BY <1>1, <1>2, WaysOn
<1>4. CASE ValueGeneral
  <2>1. PICK q \in NextLineEnd : Inner(parser, q)
    BY <1>4 DEF ValueGeneral
  <2>2. q \in p .. end + 1
    BY <1>1, LineEndInBuffer
  <2>3. q # p
    <3>1. c \notin {CR, LF}
      BY <1>4 DEF ValueGeneral, ValueByte
    <3>2. q = end + 1 \/ At(bytes, q) \in {CR, LF}
      BY DEF NextLineEnd
    <3>3. QED
      BY <1>1, <1>2, <3>1, <3>2 DEF c
  <2>4. q \in p + 1 .. end + 1
    BY <1>2, <2>2, <2>3
  <2>5. QED
    BY <1>1, <2>1, <2>4, WaysOn
<1>5. CASE FieldByte
  BY <1>3, <1>1, <1>5 DEF FieldByte
<1>6. CASE ValueLength
  BY <1>3, <1>1, <1>6, WaysOn DEF ValueLength
<1>7. CASE ValueWord \/ ValueTokenStart \/ ValueToken \/ ValueAfterChunked
           \/ ValueAfterWord
  BY <1>3, <1>1, <1>7 DEF ValueWord, ValueTokenStart, ValueToken,
     ValueAfterChunked, ValueAfterWord
<1>8. QED
  BY <1>4, <1>5, <1>6, <1>7

(* The inner loops are left.                                                 *)
LEMMA EndsAdvance ==
    ASSUME IInv, FieldEnds \/ ValueEnds
    PROVE  call = "switch" /\ Advances
<1>1. call = "switch" /\ parser.state \in InnerStates
  BY DEF FieldEnds, ValueEnds, In, InnerStates
<1>2. \A new : p > end /\ Go(new, p, "loop") => Advances
  BY DEF IInv, InBuffer, Go, Advances, env
<1>3. CASE FieldEnds
  BY <1>1, <1>2, <1>3, WaysOn DEF FieldEnds
<1>4. CASE ValueEnds
  <2> DEFINE counted == COUNT_HEADER_SIZE(InnerRead)
             done == [counted EXCEPT !.state = "s_header_almost_done"]
  <2>1. DOMAIN counted = Fields
    BY DEF IInv, HasFields, Fields, COUNT_HEADER_SIZE
  <2> HIDE DEF counted
  <2>2. done.state = "s_header_almost_done"
    BY <2>1 DEF Fields
  <2> HIDE DEF done
  <2>3. RankOf("s_header_almost_done") < RankOf(parser.state)
    BY <1>1 DEF RankOf, InnerStates
  <2>4. \/ \E e : Error(e)
        \/ p > end /\ Go(counted, p, "loop")
        \/ Break(done) \/ REEXECUTE(done)
    BY <1>4 DEF ValueEnds, counted, done
  <2>5. QED
    BY <1>1, <1>2, <2>2, <2>3, <2>4, Again, WaysOn
<1>5. QED
  BY <1>1, <1>3, <1>4

(* The rest of the headers.                                                  *)
LEMMA HeadersAdvance == ASSUME IInv, Headers PROVE call = "switch" /\ Advances
<1>1. CASE \/ s_header_field_start \/ s_header_value_discard_ws
           \/ s_header_value_start \/ s_header_value_lws
           \/ s_header_value_discard_lws
  <2>1. call = "switch"
    BY <1>1 DEF s_header_field_start, s_header_value_discard_ws,
       s_header_value_start, s_header_value_lws, s_header_value_discard_lws, In
  <2>2. \A s : Goto(s).state = s /\ Finished(s).state = s
    BY DEF IInv, HasFields, Fields, Goto, Finished
  <2>3. /\ RankOf("s_headers_almost_done") = 2
        /\ RankOf("s_header_field_start") = 3
        /\ RankOf("s_header_value_start") = 1
        /\ RankOf("s_header_value_lws") = 4
        /\ RankOf("s_header_value_discard_lws") = 4
    BY DEF RankOf, InnerStates
  <2>4. CASE s_header_field_start
    <3>1. \/ \E e : Error(e) \/ \E new : Break(new)
          \/ REEXECUTE(Goto("s_headers_almost_done"))
      BY <2>4 DEF s_header_field_start
    <3>2. parser.state = "s_header_field_start"
      BY <2>4 DEF s_header_field_start, In
    <3>3. QED
      BY <2>1, <2>2, <2>3, <3>1, <3>2, Again, WaysOn
  <2>5. CASE s_header_value_discard_ws
    BY <2>1, <2>5, WaysOn DEF s_header_value_discard_ws
  <2>6. CASE s_header_value_start
    BY <2>1, <2>6, WaysOn DEF s_header_value_start
  <2>7. CASE s_header_value_lws
    <3>1. \/ REEXECUTE(Goto("s_header_value_start"))
          \/ REEXECUTE(Finished("s_header_field_start"))
      BY <2>7 DEF s_header_value_lws
    <3>2. parser.state = "s_header_value_lws"
      BY <2>7 DEF s_header_value_lws, In
    <3>3. QED
      BY <2>1, <2>2, <2>3, <3>1, <3>2, Again
  <2>8. CASE s_header_value_discard_lws
    <3>1. \/ \E new : Break(new)
          \/ REEXECUTE(Finished("s_header_field_start"))
      BY <2>8 DEF s_header_value_discard_lws
    <3>2. parser.state = "s_header_value_discard_lws"
      BY <2>8 DEF s_header_value_discard_lws, In
    <3>3. QED
      BY <2>1, <2>2, <2>3, <3>1, <3>2, Again, WaysOn
  <2>9. QED
    BY <1>1, <2>1, <2>4, <2>5, <2>6, <2>7, <2>8
<1>2. CASE \/ FieldByte \/ ValueGeneral \/ ValueLength \/ ValueWord
           \/ ValueTokenStart \/ ValueToken \/ ValueAfterChunked
           \/ ValueAfterWord
  BY <1>2, InnerAdvances
<1>3. CASE FieldEnds \/ ValueEnds
  BY <1>3, EndsAdvance
<1>4. QED
  BY <1>1, <1>2, <1>3 DEF Headers

(* The end of the headers, and the bodies. The last byte of a body is looked *)
(* at again; s_body_identity and s_chunk_data take at least one byte.        *)
LEMMA BodiesAdvance == ASSUME IInv, Bodies PROVE call = "switch" /\ Advances
<1>1. call = "switch"
  BY DEF Bodies, s_headers_almost_done, s_headers_done, s_body_identity,
     s_body_identity_eof, s_message_done, s_chunk_size_start, s_chunk_size,
     s_chunk_parameters, s_chunk_size_almost_done, s_chunk_data,
     s_chunk_data_almost_done, s_chunk_data_done, In
<1>2. p \in Nat /\ end \in Nat
  BY DEF IInv, InBuffer
<1>3. /\ RankOf("s_headers_done") = 1 /\ RankOf("s_message_done") = 1
      /\ RankOf("s_headers_almost_done") = 2 /\ RankOf("s_body_identity") = 2
  BY DEF RankOf, InnerStates
<1> USE <1>1
<1>4. CASE s_headers_almost_done
  <2> DEFINE upgrade == \/ {"F_UPGRADE", "F_CONNECTION_UPGRADE"}
                           \subseteq parser.flags
                        \/ parser.method = "CONNECT"
             done == [parser EXCEPT !.state = "s_headers_done",
                                    !.upgrade = upgrade]
             skip == [done EXCEPT !.flags = @ \cup {"F_SKIPBODY"}]
  <2>1. Goto("s_message_done").state = "s_message_done"
    BY DEF IInv, HasFields, Fields, Goto
  <2>2. DOMAIN done = Fields /\ done.state = "s_headers_done"
    BY DEF IInv, HasFields, Fields
  <2>3. \/ \E e : Error(e)
        \/ REEXECUTE(Goto("s_message_done"))
        \/ REEXECUTE(done) \/ REEXECUTE(skip)
    BY <1>4 DEF s_headers_almost_done
  <2> HIDE DEF done
  <2>4. skip.state = "s_headers_done"
    BY <2>2 DEF Fields
  <2> HIDE DEF skip
  <2>5. parser.state = "s_headers_almost_done"
    BY <1>4 DEF s_headers_almost_done, In
  <2>6. QED
    BY <1>3, <2>1, <2>2, <2>3, <2>4, <2>5, Again, WaysOn
<1>5. CASE s_headers_done \/ s_message_done
  BY <1>5, WaysOn DEF s_headers_done, s_message_done
<1>6. CASE s_body_identity
  <2>1. parser.state = "s_body_identity"
    BY <1>6 DEF s_body_identity, In
  <2>2. p <= end /\ p + to_read \in p + 1 .. end + 1 /\ DOMAIN Taken = Fields
    BY <2>1, Reading
  <2> DEFINE last == p + to_read - 1
             new == [Taken EXCEPT !.state = "s_message_done"]
  <2>3. last \in Nat /\ last >= p /\ last + 1 \in p + 1 .. end + 1
    <3>1. PICK k \in p + 1 .. end + 1 : k = p + to_read
      BY <2>2
    <3>2. to_read \in Int
      BY <1>2, LimitsAssumption DEF to_read, IInv, FieldsFit
    <3>3. last = k - 1
      BY <1>2, <3>1, <3>2
    <3> HIDE DEF last
    <3>4. QED
      BY <1>2, <3>3
  <2>4. new.state = "s_message_done"
    BY <2>2 DEF Fields
  <2>5. Go(new, last, "switch") \/ Go(Taken, last + 1, "loop")
    BY <1>6 DEF s_body_identity
  <2> HIDE DEF last, new
  <2>6. CASE Go(new, last, "switch")
    <3>1. p' = last /\ call' = "switch" /\ parser'.state = "s_message_done"
      BY <2>4, <2>6 DEF Go
    <3>2. (p' > p \/ p' = p) /\ p' >= p
      BY <1>2, <2>3, <3>1
    <3>3. end' = end
      BY <2>6 DEF Go, env
    <3>4. QED
      BY <1>3, <2>1, <3>1, <3>2, <3>3 DEF Advances
  <2>7. CASE Go(Taken, last + 1, "loop")
    BY <2>3, <2>7, WaysOn
  <2>8. QED
    BY <2>5, <2>6, <2>7
<1>7. CASE s_body_identity_eof
  <2>1. p <= end
    BY <1>7 DEF IInv, InBuffer, InnerOnly, s_body_identity_eof, In, InnerStates
  <2>2. end + 1 \in p + 1 .. end + 1
    BY <1>2, <2>1
  <2>3. Go(parser, end + 1, "loop")
    BY <1>7 DEF s_body_identity_eof
  <2>4. QED
    BY <2>2, <2>3, WaysOn
<1>8. CASE s_chunk_data
  <2>1. p + to_read \in p + 1 .. end + 1
    BY <1>8, Reading DEF s_chunk_data, In
  <2>2. \E new : Go(new, p + to_read, "loop")
    BY <1>8 DEF s_chunk_data
  <2>3. QED
    BY <2>1, <2>2, WaysOn
<1>9. CASE s_chunk_size_start \/ s_chunk_size \/ s_chunk_parameters
  BY <1>9, WaysOn DEF s_chunk_size_start, s_chunk_size, s_chunk_parameters
<1>10. CASE s_chunk_size_almost_done \/ s_chunk_data_almost_done
            \/ s_chunk_data_done
  BY <1>10, WaysOn DEF s_chunk_size_almost_done, s_chunk_data_almost_done,
     s_chunk_data_done
<1>11. QED
  BY <1>4, <1>5, <1>6, <1>7, <1>8, <1>9, <1>10 DEF Bodies

(* Each run leaves less to do: the switch is not run for ever by REEXECUTE,  *)
(* no inner loop stays where it is, and a call of n bytes is over after at   *)
(* most 6 * n + 5 runs (http_parser.c:74, 700).                              *)
THEOREM CallsShrink == Spec => WorkShrinks
<1>1. ASSUME IInv, IInv', Parse PROVE Work' \in Nat /\ Work' < Work
  <2>0. p \in Nat /\ end \in Nat /\ p <= end + 1
    BY <1>1 DEF IInv, InBuffer
  <2>1. CASE FirstLine \/ Headers \/ Bodies
    BY <1>1, <2>1, FirstLineAdvances, HeadersAdvance, BodiesAdvance, LessToDo
  <2>2. CASE LoopHead
    <3>1. call = "loop" /\ p <= end /\ end' = end
          /\ \/ p' = end + 1 /\ call' = "outside"
             \/ p' = p /\ call' = "switch"
      BY <2>2 DEF LoopHead, Error, REEXECUTE, Go, env
    <3>2. Rank = 5
      BY <2>0, <3>1 DEF Rank
    <3>3. Rank' \in Nat /\ Rank' < 5
      BY <3>1, Ranks DEF Rank
    <3>4. p' \in Nat /\ p <= p' /\ p' <= end + 1
      BY <2>0, <3>1
    <3> DEFINE w == 6 * (end + 1 - p')
               x == 6 * (end + 1 - p)
    <3>5. w \in Nat /\ x \in Nat /\ w <= x
      BY <2>0, <3>4, BytesLeft
    <3>6. Work = x + Rank /\ Work' = w + Rank'
      BY <3>1 DEF Work
    <3> HIDE DEF w, x
    <3>7. QED
      BY <3>2, <3>3, <3>5, <3>6, LessThan
  <2>3. CASE Leftover
    <3>1. call = "loop" /\ p > end /\ end' = end /\ p' = p /\ call' = "outside"
      BY <2>3 DEF Leftover, Go, env
    <3>2. Rank = 1 /\ Rank' = 0
      BY <3>1 DEF Rank
    <3> DEFINE x == 6 * (end + 1 - p)
    <3>3. x \in Nat
      BY <2>0, BytesLeft
    <3>4. Work = x + 1 /\ Work' = x + 0
      BY <3>1, <3>2 DEF Work
    <3> HIDE DEF x
    <3>5. QED
      BY <3>3, <3>4, LessThan
  <2>4. QED
    BY <1>1, <2>1, <2>2, <2>3 DEF Parse
<1>2. ASSUME IInv, IInv', Execute PROVE Work' = 6 * (end' - end) + 5
  <2>1. p' = end + 1 /\ call' = "loop" /\ end' \in Nat /\ end \in Nat
        /\ end' > end
    BY <1>2 DEF Execute, Receive, IInv, InBuffer
  <2>2. Rank' = 5
    BY <2>1 DEF Rank
  <2>3. end' + 1 - p' = end' - end
    BY <2>1
  <2>4. QED
    BY <2>2, <2>3 DEF Work
<1>3. IInv /\ IInv' /\ [Next]_vars =>
          [/\ Parse => Work' \in Nat /\ Work' < Work
           /\ Execute => Work' = 6 * (end' - end) + 5]_vars
  BY <1>1, <1>2
<1>4. QED
  BY <1>3, Invariant, PTL DEF Spec, WorkShrinks
=============================================================================
