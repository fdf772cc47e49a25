# MyWarehouse: specification and verification

MyWarehouse is a small HTTP server in C++ on boost::asio. It accepts
connections, parses one or more HTTP requests per connection with a copy of
joyent's `http_parser`, hands the body to an application layer that keeps a
table of logged-in users, and answers with JSON. This directory holds TLA+
models of its parts, the TLC configurations that check them on small instances,
and TLAPS proofs of the results that matter most.

Lines below are those of the files under `src/`. Comments of the source are in
Chinese (GBK) and are quoted here in translation.

## 1. The system

Threads of the running server:

* the **main thread** (`UCludeProject.cpp`): constructs `http_server`, calls
  `run()`, destroys it;
* the **acceptor threads** that `http_server::run()` starts, `get_nprocs()` of
  them, all running `http_server::io_service_`: they run `OnAccept` and the
  handlers of the clients' two-hour timers;
* the **pool threads** of `io_service_pool`, one per io_service: they run all
  handlers of the sessions dealt to that io_service, and with them the
  application layer;
* the thread that runs `io_service_pool::run()` and joins the pool threads.

| Component | State | Operations | Interacts with |
|---|---|---|---|
| `http_server` (`http_server.{h,cpp}`) | `session_` under `m_lock`, `acceptor_`, `io_service_` | constructor, `do_accept`, `OnAccept`, `insert`, `erase`, `invoke`, `run`, destructor | calls the pool for io_services, creates sessions, gives itself to them as `session_interface` |
| `io_service_pool` (`io_service_pool.{h,cpp}`) | `io_services_`, `work_`, `m_is_init`, `m_init_ok`, `next_io_service_` | `run`, `wait_init`, `stop`, `get_io_service` | called by `http_server` from the main, acceptor and pool-runner threads |
| `http_session` (`http_session.{h,cpp}`) | `socket_`, `timer_`, `data_`/`pos_`, `process_`, `parser_`, `request_`, `response_` | `start`, `do_read`/`onRead`, the parser's callbacks, `do_write`/`onWrite`, timer handler, `close` | owned by `session_` and by running handlers; `weak_ptr` in queued handlers |
| `request`, `response` (`request_respons.h`) | headers, body, `root_` | `end()` adds Content-Length | filled by parser callbacks and application |
| `http_parser_execute` (`http_parser.{c,h}`) | `struct http_parser`: `state`, `header_state`, `index`, `nread`, `content_length`, flags; the marks of a call | `http_parser_init`, `http_parser_execute` with bytes or with none | called from `onRead`, calls the session's callbacks |
| `http_parser_parse_url` | none | divides a URL into fields | shares `parse_url_char` with `http_parser_execute`; called by `url_obj::from_buf`, whose only call (in `on_url`, `http_session.cpp:29`) is commented out |
| `client_manager` (`client_manager.{h,cpp}`) | `m_client` under `m_lock` | `do_some`: login, business request; `find`, `insert`, `erase` | called by every session from pool threads |
| `client` (`client.{h,cpp}`) | `id_`, `timer_`, user data | `init_user_info`, `do_some`, `start_timer`, `clear_client`, `get_session_data` | owned by `m_client` and by calls in progress; its timer erases it |
| `DBConnectPool` (`DBConnectPool.{h,cpp}`) | `m_connPool` (circular buffer), two condition variables | constructor, `getConn`, the deleter and `releaseConn`, destructor | complete, but nothing calls it yet |
| `Base64` (`Base64.{cpp,h}`) | none | encode, decode, their lengths | nothing calls it |
| `TestClient`, `LogWrapper`, `GameServer.cpp`, build files | | | a test client; output; an older main that is not built |

### What is hard, and what makes each part correct

The list under `hazards` in `PROJECT.json` gives the lines. In short:

* **Session.** `start()` runs on an acceptor thread while handlers may already
  run on a pool thread. Five things can end a session (timeout, read error,
  full buffer, end of a write, failed write), in any order, and completion
  handlers already queued when one of them happens still run if their
  `weak_ptr` locks. A stream may be cut into reads anywhere, and one read may
  hold several messages. Correct means: registered once, no request missed or
  handed over after the session is gone, a body that is the message's own,
  the answer not cut off by the close, no read that leaves `data_`, and the
  session always destroyed in the end.
* **Server and pool.** `wait_init` against `run` (a lost notification would
  leave the constructor waiting for ever); `get_io_service` is not atomic and
  is safe only because the accept chain has one link at a time; `do_accept`
  is called before the accepted session is inserted; a failed accept ends the
  chain.
* **Clients.** Find, create and insert are separate critical sections, so
  logins of one user race; handlers of old timers erase by id; timers are
  started before a client is registered. Correct means: an id leads to an
  initialised client of that id, a racing login never replaces a client, the
  reply tells the truth, and a registered client is always erased in the end.
* **Parser.** One automaton of some sixty states with an automaton for headers inside,
  entered again for every buffer: the end of a buffer may fall anywhere, also
  inside a word, a number or a piece of data whose beginning is in a buffer
  that is gone. States are left by `goto`, inner loops move the position, a
  length is read digit by digit into 64 bits, a limit is counted in three
  places. Correct means: the callbacks and the error depend on the bytes and
  not on the cuts, no length wraps, no assertion fails, the header limit
  holds, every call returns, and the callbacks come in the order users expect.
* **Text functions.** Each character of a URL goes to one field, or the URL is
  refused; it is refused only if it is no URL; what Base64 encodes it decodes, whatever the last group holds.
* **Database pool.** A monitor with `notify_one`: no lost wakeup, no connection
  lent twice or lost, no deleter that blocks, and everything closed when the
  pool is destroyed while connections are lent.

## 2. The modules

| Module | Models | Role |
|---|---|---|
| `SessionLife` | what a session promises the server: fresh, live, gone; serves only while live; always released | abstract specification |
| `HttpSession` | one `http_session` with acceptor, pool thread, client, kernel and clock | refines `SessionLife` |
| `HttpSession_proofs` | theorems about `HttpSession`: what holds of its state | proofs |
| `HttpSessionDeeds_proofs` | theorems about `HttpSession`: what it hands to the application, sends and promises | proofs |
| `IoServicePool` | `io_service_pool` step by step (no next-state relation of its own) | component |
| `HttpServer` | `http_server` composed with `IoServicePool` | composition |
| `HttpServer_proofs` | theorems about `HttpServer` and `IoServicePool` | proofs |
| `ClientManager` | `client_manager` and all `client` objects | component |
| `ClientManager_proofs` | theorems about `ClientManager` | proofs |
| `ConnLease` | who may hold a connection when | abstract specification |
| `DBConnectPool` | the pool and its users | refines `ConnLease` |
| `DBConnectPool_proofs` | theorems about `DBConnectPool` | proofs |
| `HttpChars` | the character classes and the hexadecimal digits of `http_parser.c` | operators |
| `HttpUrl` | `parse_url_char`, `http_parse_host`, `http_parser_parse_url` | operators |
| `ParserCallbacks` | the order of callbacks a user of the parser may rely on | abstract specification |
| `HttpParser` | `http_parser_execute` byte by byte, with the caller that cuts a stream into buffers | refines `ParserCallbacks` |
| `HttpParser_proofs` | theorems about `HttpParser`: its state, its lengths, the order of its callbacks | proofs |
| `HttpParserCounts_proofs` | theorems about `HttpParser`: the header limit, `index`, and how long a call takes | proofs |
| `Base64` | `Base64.cpp` | operators |
| `MC_TextFunctions` | grows URLs and byte strings for `HttpUrl` and `Base64` | model checking |
| `TextFunctions_proofs` | theorems about `Base64` and `HttpUrl` | proofs |
| `MC_*` | small clients, streams, symmetry, instances for TLC | model checking |

### HttpSession

*State.* `phase` is the program counter of `OnAccept` for this session
(accept, `insert`, `start` up to the timer, `start` up to the read, return).
`registered` is membership in `session_`, `open` the socket, `timer`, `reading`
and `writes` the asynchronous operations with their queued handlers. `handler`
is the program counter of `onRead`; all other handlers are one action because
they run on one thread and nobody else changes what they read, except for
`start()`, which touches only `timer` and `reading`. `pos_`, `process_`, `body`
(`request_.body_`, `len_`) and `clen` (the Content-Length header of
`response_`) are the members of that name.

*Data.* Bytes are grouped into units: "head" and "frame" units stand for request
lines, headers and chunk sizes, "data" units for body bytes, "bad" units for
what the parser rejects. A unit may be cut off from the next by the end of a
read, so every way a stream can be split into reads at unit boundaries is
explored. `pos_` is never reset in the code, so an offset in the stream is an
offset in `data_`. What the parser does is what the session sees of it:
callbacks in order, `on_body` once per contiguous run of body bytes and per
buffer, an error that sticks, and no more callbacks after a message without
keep-alive (strict `NEW_MESSAGE` goes to `s_dead`).

*Ownership.* `Alive` says who holds a `shared_ptr`; a handler starts only if its
`weak_ptr` locks (`Locks`); `Destroyed` cancels what is left.

*Writing.* `do_write` passes `async_write` a pointer into a string that is gone
when it returns. What the socket takes at once is sent from the live string;
what the reactor sends later is marked `live = FALSE` in `wire`. `WholeSend`
says that the send buffer always has room for a response.

### HttpServer and IoServicePool

`main`, `pc[a]` and `runner` are the program counters of the main thread, the
acceptor threads and the thread in `io_service_pool::run()`. `get_io_service()`
is three actions (read, increment, wrap), because `next_io_service_` is atomic
and the three steps together are not (the comparison and the store of the wrap are
one step: another thread could only come between them if two were in
`get_io_service()` at once, and `OneTaker` counts that as a violation already). A session is reduced to the stages
`SessionLife` names (fresh, inserted, started, gone) and the io_service it was
given; what it does in between is the business of `HttpSession`. `armed` is the accept in progress; there
is at most one, and `AcceptChain` checks that.

### ClientManager

Each critical section of `m_lock` is one action (`LoginFind`, `FindAgain`,
`LogicFind`, `InsertClient`, `ClearClient`), and what lies between two of them is
another. What `init_user_info` returned decides in `KeepOrReset` what becomes of
a new client; `inited` remembers for whom it succeeded. A client object is named after the request that created it, and `Alive`
says who holds it. A timer is its expiry, the waits on it and the expired waits
whose handlers are queued: `start_timer` adds a wait and never moves the
expiry. `client_manager` is written against `client_interface`, whose
`init_user_info` may fail, and so is the model: `InitResults` is the set of
results. The one implementation, `client.h`, returns `USER_NOT_EXIST` on every
path, so with it no login can succeed and the table stays empty, which
`clients_as_built` shows (`ClientInit`). The other runs and the theorems are about
`client_manager` with an implementation that can succeed (`GoodInit`) or do
either (`AnyInit`).

### DBConnectPool

`m_lock` is held throughout `getConn()` and `releaseConn()` except in their waits,
so an action is a stretch between waits. `emptyCv` is the wait set of
`m_empty_cv`; spurious wakeups are modelled. `m_full_cv` has no wait set:
`RoomForReturn` shows that `releaseConn()` never waits on it. Nothing in the
repository uses the pool, so its users are an assumption, stated in the module:
threads with at most one connection each, and an owner that may drop the pool.

### HttpParser

*State.* `parser` is `struct http_parser`, field by field; `call`, `p`, `end` and
`start` are the program counter and the locals of a call of
`http_parser_execute`, `mark` its five `_mark` pointers. `stream` is what the
peer sends and never changes; a buffer is `bytes[old end + 1 .. end]`, chosen by
`Execute`, so a stream reaches the parser in every division into buffers that
its bound on cuts allows. `ExecuteEof` is the call with length 0.

*Actions.* An action is one run through the `switch`, named after the state,
with the effects in the order of the code; the two inner loops (header field
and header value) are actions of their own that take one byte. `LoopHead` is
the head of the `for` loop with its count of header bytes; where the code uses
`memchr` to get to the end of a line, one action takes all of it. A run ends in one of
the ways the macros of the code provide: `Break` to the next byte, `REEXECUTE`
for the same byte, `Error`, or the return after an upgrade (`Leave`). Where the
code chooses by character class, the guard names the class of `HttpChars`;
where several states differ only in the letter they expect (`HTTP`, the names
of methods and of headers), one action compares with the word.

*What is abstracted.* Consecutive pieces of one data callback are joined in
`events`, as every caller has to join them; a notification carries what the
parser then shows (method, version, status, `upgrade`, length of the chunk,
keep-alive). What a failing run has assigned before it fails is left out,
because nothing reads it after an error. A text is a sequence of characters,
which are strings of length one; literals of the code are spelled out into one
(`Spell`). The fields of a message are sub-sequences of the stream, so nothing is
formatted or copied.

*Quirks kept.* `LOWER` is `c | 0x20` for all of ASCII (`HttpChars` names the characters
that a string cannot hold). It makes a parenthesis of a tabulator, so the test
for a tabulator after a comma of `Connection` is never true (`http_parser.c:1640`);
`parser_tab` shows that. It makes the delete character of `_` and a backquote of
`@`, so there a word that begins with `_` ends the search for `close` and one that
begins with `@` does not: two streams of `parser` (`a,_x, close` and `a,@x, close`)
have what the code makes of them as their meaning, for no line of the
repository says otherwise. A byte of a header line that ends a buffer within
an inner loop is counted twice against the limit (`http_parser.c:158`).

### HttpUrl and Base64

Pure functions as operators. `Scan` is the loop of `http_parser_parse_url` as a
recursive function over positions, `http_parse_host` the loop of that name over
the server part. `PortNumber` is what `strtoul` makes of digits the automaton
has checked. `Legal` says without automata what a URL is: the characters of each
field (`LegalCharacters`), which fields and delimiters stand together
(`LegalOrder`), and a port of 16 bits; `UrlOf` is the text they make. `Divided` and
`Accepted` compare this with the code. It is the language of the code, not that of
an RFC: a schema has letters only, an empty user or query may have its delimiter,
any number of `#` may come before the fragment, and none without a path or a `?`.
Some readers of the fields in `url_obj` guard the wrong one: `port()`
tests `has_path()`, `host()` tests `has_schema()`, `fragment()` tests `has_query()`
(`request_respons.h:49-73`); since `on_url` is commented out, no `url_obj` is ever
filled, and the repository says nothing of what they should return. A `CONNECT` URL may be
`@h:1` or `h:1?`: the empty user and the empty query set no bit, so the test
that only host and port are there (`http_parser.c:2410`) lets them through.

`Base64` uses numbers for bytes and characters; shifts and masks are divisions
and remainders, and what is stored in an `unsigned char` is cut to it.

## 3. What the runs check

| Run | Question | Properties |
|---|---|---|
| `session_single` | one request, however it arrives and whatever fails | `TypeOK`, `NeverLeaked`, `NeverDormant`, `ReadDiscipline`, `NothingMissed`, `FullMeansTooLong`, `AnswerDelivered`, `Released`, `ImplementsSessionLife` |
| `session_pipelined` | two requests on one connection | `BodyIsOwn`, `ResponsesInOrder`, `InvokeWhileRegistered` |
| `clients_races` | racing logins, requests and timers | `TypeOK`, `TableConsistent`, `Armed`, `ReplyIsTrue`, `NeverReplaced` |
| `clients_cleared` | clients are erased in the end | `EventuallyCleared` |
| `dbpool` | the monitor | `TypeOK`, `OneHome`, `RoomForReturn`, `NoLostWakeup`, `ImplementsConnLease`, `AllFinished` |
| `server` | start-up, accept chain, shut-down | `TypeOK`, `OneTaker`, `AcceptChain`, `SessionsAreServed`, `Starts`, `AcceptedIsClosed` |
| `parser` | 109 streams, legal and malformed, cut at any byte | `TypeOK`, `AssertionsHold`, `ParsesWhatWasSent`, `HeaderBounded`, `LengthsNeverWrap`, `ImplementsCallbacks`, `CallsReturn` |
| `text_functions` | every URL of up to five pieces, from nothing, after a `*` or after a complete server part; every byte string up to length five | `UrlDivided`, `UrlAccepted`, `Base64RoundTrip` |

`ParsesWhatWasSent` compares the parser with an independent description of the
streams: `MC_HttpParser` builds each well-formed stream from parts (a first
line, a header line, a chunk, a body) that have a text and a meaning, the list
of callbacks, and gives each malformed one the error that ends it. So the run
shows two things at once: each stream is understood as meant, and a stream is
understood alike however it is cut.

Every property is preceded in its module by a comment that says what it means
for the code. Every one of them fails for at least one changed definition, such
as a forgotten `process_ = true` or a `close()` that does not erase. Those changed
definitions stand beside the originals under names like `SetProcessed_Forgotten`;
nothing else uses them.

### Disagreements between the code and its comments

Four runs state what a comment of the repository says and end with a
counterexample:

| Run | Statement | What the code does |
|---|---|---|
| `session_early_timeout` | `http_session.cpp:119`: a client may be connected for 30 s, then it is disconnected | the 30 s run from the construction of the session (`http_session.h:21`), before anyone has connected; after a quiet period a client is cut off at once |
| `session_split_body` | `http_parser.h:79`: `http_data_cb` "will be called arbitrarily many times for each string" | `on_body` replaces the body by each piece (`http_session.cpp:102`); the application gets the last piece of a body that came in two |
| `clients_as_built` | `client_manager.h:86-90` (translated): who is not logged in is logged in, "then return that the login succeeded" | `init_user_info` of the only client there is returns `USER_NOT_EXIST` (`client.h:38`), the new client is reset (`client_manager.cpp:63`), and the login ends with that error |
| `parser_tab` | `http_parser.c:1641`: "Skip lws" | the character was lowered before (`http_parser.c:1558`), which makes a parenthesis of a tabulator; in `Connection: a,<tab>close` it ends the search, and the connection is kept |

More facts the models show but no statement of the repository contradicts:
a pipelined request without a body is handed over with the body of the one
before, and after one failed accept the server accepts nothing any more
(`AcceptChain` says exactly when). Two would matter only with an `init_user_info`
that can succeed: a packet adds a wait with the old expiry (`client.h:72`), so a
client would be erased two hours after its login however busy it is; and `erase`
goes by id (`client_manager.h:77`), so a second handler of an erased client could
erase the next client of the same user. With the code as it is no client is ever
registered, and no run claims either.

### Bounds

* `MaxLength` = 6 units: `data_` exactly filled, overfilled and partly filled
  all occur (`JustFits`, `TooLong`, the others). Streams have 1 to 7 units and
  at most two messages; the session's state after a message does not depend on
  how many went before, except through `process_`, which the first sets.
* `RespSizes` = {1, 2}: a response that needs one send or two, and two responses
  of one session with equal and with different lengths.
* `Timeout` = 2 and `MaxTime` = 3 or 4: the timeout before, during and after every
  step of the acceptor, and accepts before and after it. The clock only matters
  to `Expire`, which is enabled for good once the timeout has been reached.
* `MaxRequests` = 3 requests for two threads and one or two users: two logins that
  race and a third request that meets the result. `Lifetime` = 1 tick.
  `MaxTime` bounds the clock while no timer waits; a waiting timer always gets
  the time it needs.
* `MaxSessions` = 6 with three io_services: two rounds of the deal. Two acceptors,
  because `run()` joins `threads[0]` and `threads[1]` and so is only defined on
  a machine with two processors. The bound is in `OnAccept`'s guard.
* Four threads and two connections: two threads wait while two return.
* Streams have up to about 150 bytes. A stream is cut in up to three places if it
  has at most 26 bytes, in two up to 80, in one beyond (`Cuts`); one cut at every
  place covers every state a buffer may resume in, two and three cover a piece of
  data, a word or a number spread over several buffers. There are streams for
  every method, every state, every error the automaton raises and every flag, with
  up to three messages.
* `ULLONG_MAX` = 63 instead of 2^64 - 1: numbers of one and two digits pass, meet
  the guards on both sides and would wrap with a third. `HTTP_MAX_HEADER_SIZE` = 72
  instead of 80 KiB: some streams stay below it, some cross it in each of the
  three places that count. Both are CONSTANTS; the proofs hold for all values.
* `MaxPieces` = 5 and ten kinds of pieces, from nothing, from a `*` and from a server
  part with user, host and port: five more pieces then give a path, a query and a
  fragment, so URLs with all seven fields are among them, and so is every short one.
  Of the URLs that `SomeFields` and up to two `#` make, these pieces spell about 180,
  in which each field and each delimiter is there and is missing; `UrlAnyAccepted`
  is about all the others. `MaxBytes` = 5 and six byte values: two groups of Base64,
  the last one with one, two or three bytes, and bytes that use every bit of a group.

Symmetry is used only in `clients_races`, which has no liveness property.

### Fairness

Weak fairness on each thread that has work: the acceptor thread (`AcceptorThread`),
the session's pool thread (`Handlers`), each request and timer thread, the main
thread, the pool's runner and its threads. The operating system schedules them
all, none waits for a resource that others can keep from it for ever. Time passes
(`Tick`) and an expired timer completes (`Expire`). Clients and the network owe
nothing: no fairness on `Accept`, `ReadReady`, `WriteSome`, `OnAccept`. In `HttpServer`
a started session is closed in the end because `HttpSession` shows `Released`. In
`DBConnectPool` threads give back what they hold, which is an assumption on
users; `m_lock` and `notify_one` are not fair, so no property says that each
waiting thread is served. In `HttpParser` a call that has begun goes on
(`WF_vars(Parse)`): it is a function that waits for nothing. The caller owes
nothing, not even another call.

## 4. What is proved

For every value of the constants that the named assumptions allow, tlapm checks:

| Theorem | Statement |
|---|---|
| `HttpSession_proofs!TypeCorrect` | `Spec => []TypeOK`; includes `pos_ + got <= MaxLength`, so neither a read nor a parse leaves `data_` |
| `HttpSession_proofs!SessionNeverLeaked` | `Spec => []NeverLeaked` |
| `HttpSession_proofs!ReadsDisciplined` | `Spec => []ReadDiscipline` |
| `HttpSession_proofs!MessagesNotMissed` | `Spec => []NothingMissed`, for every stream and every way to cut it into reads |
| `HttpSessionDeeds_proofs!SessionNeverDormant` | `Spec => []NeverDormant` |
| `HttpSessionDeeds_proofs!InvokedWhileRegistered` | `Spec => InvokeWhileRegistered` |
| `HttpSessionDeeds_proofs!CutOffIfTooLong` | `Spec => []FullMeansTooLong` |
| `HttpSessionDeeds_proofs!BodiesAreOwn` | `Spec => []BodyIsOwn`, for every stream and every way to cut it |
| `HttpSessionDeeds_proofs!AnswersInOrder` | `Spec => []ResponsesInOrder` |
| `HttpSessionDeeds_proofs!WrittenIsDelivered` | `Spec => []AnswerDelivered` |
| `HttpSessionDeeds_proofs!KeepsPromise` | `Spec` implies the initial states and the steps of `SessionLife`, without its fairness |
| `ClientManager_proofs!TypeCorrect` | `Spec => []TypeOK` |
| `ClientManager_proofs!TableStaysConsistent` | `Spec => []TableConsistent` |
| `ClientManager_proofs!ClientsStayArmed` | `Spec => []Armed` |
| `ClientManager_proofs!RepliesAreTrue` | `Spec => []ReplyIsTrue` |
| `ClientManager_proofs!ClientsNeverReplaced` | `Spec => NeverReplaced` |
| `DBConnectPool_proofs!TypeCorrect` | `Spec => []TypeOK` |
| `DBConnectPool_proofs!ConnectionsHaveOneHome` | `Spec => []OneHome` |
| `DBConnectPool_proofs!AlwaysRoom` | `Spec => []RoomForReturn` |
| `DBConnectPool_proofs!WakeupsNotLost` | `Spec => []NoLostWakeup` |
| `DBConnectPool_proofs!PoolImplementsLease` | `Spec => ImplementsConnLease` |
| `HttpServer_proofs!TypeCorrect` | `Spec => []TypeOK`; `io_services_` is indexed within its bounds |
| `HttpServer_proofs!AcceptsChained` | `Spec => []AcceptChain` |
| `HttpServer_proofs!OneThreadTakes` | `Spec => []OneTaker` |
| `HttpServer_proofs!SessionsServed` | `Spec => []SessionsAreServed` |
| `HttpParser_proofs!StaysInBuffer` | `Spec => []InBuffer`: positions and marks stay within the call's buffer |
| `HttpParser_proofs!FieldsAlwaysFit` | `Spec => []FieldsFit` |
| `HttpParser_proofs!AssertionsAlwaysHold` | `Spec => []AssertionsHold`, for every stream and every way to cut it |
| `HttpParser_proofs!LengthsDoNotWrap` | `Spec => LengthsNeverWrap` |
| `HttpParser_proofs!CallbacksInOrder` | `Spec => ImplementsCallbacks` |
| `HttpParserCounts_proofs!TypesOK` | `Spec => []TypeOK`; includes the range of `index` |
| `HttpParserCounts_proofs!HeadersBounded` | `Spec => []HeaderBounded`, for every stream, every limit and every way to cut it |
| `HttpParserCounts_proofs!CallsShrink` | `Spec => WorkShrinks`: each run of a call lowers a natural number that begins with 6 n + 5 for n bytes |
| `TextFunctions_proofs!Base64Inverse` | `RoundTrip(input)` for every sequence of bytes |
| `TextFunctions_proofs!Base64AlwaysInverse` | `Spec => []Base64RoundTrip` |
| `TextFunctions_proofs!UrlAnyDivided` | `Divided(buf, connect)` for every text `buf` |
| `TextFunctions_proofs!UrlAlwaysDivided` | `Spec => []UrlDivided` |
| `TextFunctions_proofs!UrlAnyAccepted` | `Accepted(F, D, connect)` for all fields `F` and delimiters `D` |
| `TextFunctions_proofs!UrlAlwaysAccepted` | `Spec => []UrlAccepted` |

*HttpSession.* None of the properties is inductive. `IInv` adds to the type
invariant: before `start()` has begun to read there is no read, write, parse or
answer (`BeforeRead`); a session is not registered before `insert`
(`NotYetRegistered`); and no read is outstanding while `onRead` runs
(`ReadOrHandle`), which is what keeps `pos_` and `got` still while the parser works
on them. `NeverLeaked` rests on the fact that whatever stops the timer also closes
the session. For `NothingMissed` a second invariant, `Scanned`, says that no unit
the parser has passed without a message ends one; it must speak of the states
inside `onRead`, where `NothingMissed` does not hold yet.

*HttpSession, its deeds.* Each of these has an invariant of its own above `IInv`.
`Ownership` says that the socket is open exactly until the first `close()`, that a
closed session has a completed read to handle only where the timeout closed it
under `OnAccept`, and that an open session which has answered has a write to come;
`InvokeWhileRegistered` follows, and with `ReadsOn` (an open session that has not
answered reads, between handlers) `NeverDormant`. `KeepsPromise` uses that nothing
makes a session that is no longer owned owned again. `FullMeansTooLong` combines
`Scanned` with the fact that a parser is dead before the first answer only by a
`bad` unit it has met. For `BodyIsOwn`, `BodyTaken` follows the body of the message
being parsed: the slice kept so far is of this message and ends with the last body
byte passed. `SentWhole` (for `ResponsesInOrder`) says that an open session's last
unit sent is of its last answer and that no write waits. `Delivery` (for
`AnswerDelivered`) keeps for each write an injection of the units it no longer has
left into the places of the wire that carry them, which every send extends.

*ClientManager.* None of the properties is inductive without knowing what the
threads are about to do, which `ThreadInv` says: requests in progress have
numbers of their own; the client a login may create has not been registered
before its insert, so no other thread and no timer can have touched it; a client
about to be inserted is the login's own, has been initialised successfully and has a wait on its timer unless it
has expired (so that inserting it keeps `Armed`); and `UNKNOWN_ERROR` is only
ever the answer to the login whose own client was not let in. `TableConsistent`
and `Armed` then follow step by step: `Expire` moves waits to queued handlers, a
handler that locks takes one of them and becomes the eraser itself, and
`ClearClient` removes the entry before the eraser goes.

*DBConnectPool.* `OneHome` becomes inductive with two facts: a thread holds a
connection exactly while it uses or returns it (`HoldsInUse`), and no connection
has been closed while the pool exists (`OpenWhileExists`); without the second a
returned connection might be one the destructor has closed. `RoomForReturn`
then is the pigeonhole principle: the connection being returned is not in the
buffer, so the buffer cannot hold N. `NoLostWakeup` is inductive over these; it
needs `Threads` to be finite (`ThreadsAssumption`), since it counts. For the
refinement every step is mapped to a step of `ConnLease` or to a stutter.

*HttpServer.* `AcceptChain` speaks of the time in `run()` only. `Chain` adds the
program counters: before `run()` nothing is armed and nobody is in `OnAccept`;
only one thread may be about to accept, since the only way there is a completed
accept and there is none while a thread is on its way to the next.
`OneTaker` rests on it (`Dealing`): whoever is in `get_io_service()` is about to
accept, and `next_io_service_` equals `pool_size` only between its increment and
its comparison. `SessionsAreServed` needs `PoolRuns`: `main` gets past
`wait_init()` only when all pool threads have been started, and no thread exits
before `stop()`. The number of acceptors, io_services and sessions is arbitrary.

*HttpParser.* The inductive invariant has nine parts. `InBuffer` and `FieldsFit`
are the type; `HasFields` and `EventsNamed` say that `parser` and the events are
records with these fields. `InnerOnly` ties the local of the inner loops to their
states, `NoErrorInside` says that a parser in error is not in a call, and
`MarksBelong` ties each mark to the states that set it, which is why at most one is
left at the end of a buffer. `Lengths` carries `content_length`, `nread` and
`F_CHUNKED` through the states of bodies and chunks; without it the assertions of
the code are unprovable, since each is about what an earlier state has left behind.
`InOrder` gives for every state the callbacks that may have been made last, and
says that data that has begun has been delivered or is marked. The proofs have a
lemma for each action and go over all states once; they assume nothing of the
streams but that they are sequences of characters, and of the limits that `ULLONG_MAX` is above 31
and the header limit positive. `LengthsDoNotWrap` is the arithmetic of the guards at
lines 1608-1614 and 1988-1994. `CallbacksInOrder` maps every action to a step of
`ParserCallbacks` or to a stutter, from `InOrder`.

*HttpParser, its counts.* `HeaderBounded` sums the lengths of all data given
since the last message began, its header ended or a chunk header was read; the
code knows nothing of that sum, it only compares `nread` with the limit, in three
places. `HeaderCounted` is the accounting that links them: between buffers what was
given is at most `nread`; at the head of the loop so is what was given and what is
marked up to `p`; in the `switch` the byte that is looked at is already in `nread` and
not yet behind `p`, and the bytes an inner loop has run over are behind `p` and not
yet in `nread`. So the invariant has the term `InnerRead` - `Due`, and the proof shows
at each exit of the inner loops that the macro adds exactly what it owes, also at
the end of a buffer, where the byte that is counted twice makes `nread` larger than
it need be and never smaller. The sum is a recursive function; `Unfolded`,
`CountExists` and `CountsAgree` show what it unfolds to, by induction over the
naturals from their well-foundedness (`Induction` takes a set and no operator).
For `index`, `IndexFits` says that a word being recognised is not over yet and a
method guessed is at least as long as what has been read of it. That the words are
that long is `SpellingAssumption`, a statement without constants which TLC
evaluates. Together with `FieldsFit` it gives `TypeOK`.

*HttpParser, its end.* `Work` is six for each byte that is left and a rank: at the
head of the loop five, in the `switch` at most four. A run either goes on to a later
byte, or looks at the same one again in a state of lower rank (`RankOf` orders the
jumps of `REEXECUTE` and `goto`), or leaves an inner loop that has come to the
end of the buffer. That a body has a last byte to look at again, and that data of a
chunk has a byte at all, is `Lengths`. It is the safety half of `CallsReturn`; the
other half, that a call which can go on does, is fairness.

*Base64.* `Base64Inverse` compares the two functions place by place: `Own(n)` is
the number of characters encoding takes from the alphabet for n bytes, the others
being padding (`EncodedCharacters`), so decoding stops there (`DigitsAre`) with as
many bytes as there were (`Lengths64`), and each byte is put together again from
the two digits that hold it (`Regrouped`). No induction is needed, since the
loops keep nothing from one group to the next but the position.

*HttpUrl, what is accepted.* `Divided` says that an accepted text is legal fields
and delimiters, in order; nothing in the code says so, which only notes for each
character the field of the state it leads to, and goes over the server part a second
time. The scan over the text, the one over the server part and the number of the
port are recursive functions over positions; `ScanFacts`, `HostFacts` and their likes
show, by the same induction over a set of naturals, that each value comes from the
one before. The invariant of the first scan is `Scanned`: in each state the fields so
far are `Placed`, one after the other from the beginning, with the delimiters
`Split` names in between and the characters of `Contents`, and the state says which of
them is the last; `old_uf` is then a field only if it has begun. `ScanKeepsOrder` has
one case for each move of the automaton (`UrlMoves`): a character either is a
delimiter or prolongs the last field or begins the next, and no delimiter leads back
to a field, which is what makes a length enough to describe it. `HostPlaced` and
`HostOrders` repeat this for user, host and port, where a `[` may come first; it needs
that the user and the port are still empty when the second scan begins (`Missing`),
since `http_parse_host` clears only the host. `UrlDividedSomewhere` puts the two
together and `GlueNext` joins the parts.

*HttpUrl, what must be accepted.* `Accepted` is the other direction: the automata do
not stop on anything legal, and the fields they note are those the text was made of.
`LaidOut` gives the positions at which the parts of `UrlOf` stand, and `LaidParted`
turns `Legal` into what the automata see of them (`Parted`, `ServerParted`). A part is
read either by keeping still, without a field (`SkipRun`), or into a field that has not
begun (`FillRun`); both are inductions over the length of the part, from the moves of
`UrlGoes` and `HostGoes`. What has to be carried on is that `old_uf` is the field being
filled just when a character of it has been read, so that the first character of a
part begins a field and the others prolong it. `ReadsServer` is
the delicate one, since user, host and port are one field to the first scan, with an
@ allowed once; `ReadsServerPart` then needs for the second scan that the first has
found that @ (`found_at`), which decides whether a `:` ends a host or belongs to a
user. `PortSpelled` shows that the number read in the URL is that of the digits alone.
The classes of characters that must not overlap are `Apart`. Both theorems speak of
positions without a width; the code keeps them in 16 bits.

*Only model-checked.* All liveness properties (`Released`, `EventuallyCleared`,
`AllFinished`, `Starts`, `AcceptedIsClosed`, `CallsReturn`) and the fairness in the
refinement of `SessionLife` (its steps are proved), because the prover does not
treat `ENABLED`. `ParsesWhatWasSent` is about given streams with a given meaning.

## 5. What is not modelled

* Pausing the parser, and callbacks that return an error: the session's return 0
  and nobody calls `http_parser_pause`. `on_headers_complete` returning 1 (skip the
  body), which no callback here does either, is modelled, since responses to HEAD
  cannot be parsed without it.
* The body of `http_errno_name`, `http_method_str` and `http_body_is_final`: tables
  and a comparison that nothing in `src/` depends on.
* What lies in memory behind a URL: `strtoul` reads a port up to the first byte that
  is no digit (`http_parser.c:2416`), also past `buflen` if the URL ends with it.
* The 16 bits of `off` and `len` in `http_parser_url`: a URL of 64 KiB does not fit
  into the session's buffer.
* `HttpSession` takes the parser's callbacks as given, in units; that they come in
  an order it can use is `ImplementsCallbacks`. The two are not composed: the
  product of byte positions and the session's interleavings is out of TLC's reach.
* The sending loop of `TestClient`: its `main` returns before it (the calls of a
  MongoDB driver before it are external). The request it would send is one of the
  streams of `MC_HttpSession`.
* `base64_dec_len` of an empty string, which reads before its beginning.
* The text of requests and responses, JSON, `ci_less` maps, logging: data only.
* The value of `root_`: it is never cleared, so a second reply of a session may
  carry fields of the first.
* `get_nprocs() # 2`: `run()` then indexes past its vector or lets a joinable
  `std::thread` be destroyed, which is outside any state of the server.
* Destruction of sessions left in `session_` after the io_services are gone: the
  order of members in `http_server.h:67` makes it possible, the outcome is
  undefined.
* Concurrent `async_wait` on one `deadline_timer` by two pool threads
  (`client.h:72`): taken to be atomic.
* Running out of memory, exceptions from the standard library, signals and
  `daemon()`.

## 6. Plan

1. Done: `HttpSession` with `SessionLife`, `IoServicePool` and `HttpServer`,
   `ClientManager`, `DBConnectPool` with `ConnLease`, `HttpParser` with
   `ParserCallbacks`, `HttpUrl`, `Base64`, and the proofs listed above.
   The safety properties of `HttpSession` are all proved.
   Of every safety property that is not about given inputs there is a theorem.
2. `AcceptedIsClosed` and `Starts` on instances with three acceptors.

To check a run: `tlc -config MC_session_single.cfg MC_HttpSession`; a proof:
`tlapm HttpSession_proofs.tla`.
