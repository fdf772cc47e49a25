----------------------------- MODULE HttpServer -----------------------------
(***************************************************************************)
(* http_server with its io_service_pool: construction, the chain of        *)
(* asynchronous accepts, the set session_ and the end of run().            *)
(*                                                                         *)
(* The main thread constructs the server, calls run() and destroys it.     *)
(* The acceptor threads are those run() starts for io_service_; they run   *)
(* OnAccept.  A session is reduced to what SessionLife says of it and is   *)
(* named after its place in the sequence of accepts.                       *)
(***************************************************************************)
EXTENDS IoServicePool, FiniteSets

CONSTANTS
    Main,         \* the main thread
    Acceptors,    \* the threads of run(): get_nprocs() of them, joined by main
    MaxSessions   \* bound: sessions that are created

ASSUME CallersAssumption == Callers = Acceptors \cup {Main} /\ Main \notin Acceptors
ASSUME SessionsAssumption == MaxSessions \in Nat \ {0}

Session == 1..MaxSessions
None == 0

VARIABLES
    main,       \* "init", "accept", "run", "stop", "join", "destroyed"
    pc,         \* an acceptor thread in OnAccept: "idle", "accept", "insert", "start"
    mine,       \* its new_session, or None
    created,    \* how many sessions do_accept() has created
    armed,      \* the session the accept in progress is for, or None
    state,      \* of each session: "none", "fresh", "inserted", "started", "gone"
    io,         \* of each session: the io_service it runs on
    session_,   \* the sessions in http_server::session_
    failed      \* history: an accept has failed

serverVars == <<main, pc, mine, created, armed, state, io, session_, failed>>
vars == <<poolVars, serverVars>>

(* The shape of every variable.                                            *)
TypeOK ==
    /\ PoolTypeOK
    /\ main \in {"init", "accept", "run", "stop", "join", "destroyed"}
    /\ pc \in [Acceptors -> {"idle", "accept", "insert", "start"}]
    /\ mine \in [Acceptors -> Session \cup {None}]
    /\ created \in 0..MaxSessions
    /\ armed \in 0..created
    /\ state \in [Session -> {"none", "fresh", "inserted", "started", "gone"}]
    /\ io \in [Session -> Service]
    /\ session_ \subseteq 1..created
    /\ failed \in BOOLEAN

Init ==
    /\ PoolInit
    /\ main = "init"
    /\ pc = [a \in Acceptors |-> "idle"] /\ mine = [a \in Acceptors |-> None]
    /\ created = 0 /\ armed = None
    /\ state = [s \in Session |-> "none"] /\ io = [s \in Session |-> 0]
    /\ session_ = {} /\ failed = FALSE

-----------------------------------------------------------------------------
(* do_accept() on thread c, which is at it while Accepting(c): it takes an *)
(* io_service, creates a session on it and starts an accept into it.       *)
Accepting(c) == IF c = Main THEN main = "accept" ELSE pc[c] = "accept"

Take(c) ==
    /\ Accepting(c)
    /\ TakeRead(c) \/ TakeIncrement(c)
    /\ UNCHANGED serverVars

ThenReturn(c) ==
    IF c = Main THEN main' = "run" /\ UNCHANGED pc
    ELSE pc' = [pc EXCEPT ![c] = "insert"] /\ UNCHANGED main
NewSession == created + 1
Arm_Never == armed' = None
Arm == armed' = NewSession
AsyncAccept(c) ==
    /\ Accepting(c) /\ TakeWrap(c)
    /\ created' = NewSession /\ Arm
    /\ state' = [state EXCEPT ![NewSession] = "fresh"]
    /\ io' = [io EXCEPT ![NewSession] = taken[c]]
    /\ ThenReturn(c)
    /\ UNCHANGED <<mine, session_, failed>>

-----------------------------------------------------------------------------
(* The constructor, run() and the destructor, on the main thread.          *)

WaitInit ==
    /\ main = "init"
    /\ \/ InitWaits /\ UNCHANGED main
       \/ InitSeen /\ main' = "accept" /\ UNCHANGED poolVars
    /\ UNCHANGED <<pc, mine, created, armed, state, io, session_, failed>>

(* io_service_ has nothing left to do, so its threads return and run() has *)
(* joined them.                                                            *)
OutOfWork == armed = None /\ \A a \in Acceptors : pc[a] = "idle"
RunEnds ==
    /\ main = "run" /\ OutOfWork
    /\ main' = "stop"
    /\ UNCHANGED <<poolVars, pc, mine, created, armed, state, io, session_, failed>>

Stop ==
    /\ main = "stop" /\ StopAll
    /\ main' = "join"
    /\ UNCHANGED <<pc, mine, created, armed, state, io, session_, failed>>

Join ==
    /\ main = "join" /\ runner = "returned"
    /\ main' = "destroyed"
    /\ UNCHANGED <<poolVars, pc, mine, created, armed, state, io, session_, failed>>

-----------------------------------------------------------------------------
(* OnAccept on an acceptor thread.                                         *)

Running(a) == main = "run" /\ pc[a] = "idle" /\ armed # None

AcceptDone == armed' = None

(* A connection: do_accept() comes first, then insert() and start().       *)
OnAccept(a) ==
    /\ Running(a) /\ created < MaxSessions
    /\ mine' = [mine EXCEPT ![a] = armed] /\ AcceptDone
    /\ pc' = [pc EXCEPT ![a] = "accept"]
    /\ UNCHANGED <<poolVars, main, created, state, io, session_, failed>>

(* An error: new_session is reset, and do_accept() is not called.          *)
OnAcceptError(a) ==
    /\ Running(a)
    /\ state' = [state EXCEPT ![armed] = "gone"] /\ armed' = None
    /\ failed' = TRUE
    /\ UNCHANGED <<poolVars, main, pc, mine, created, io, session_>>

Insert(a) ==
    /\ pc[a] = "insert"
    /\ session_' = session_ \cup {mine[a]}
    /\ state' = [state EXCEPT ![mine[a]] = "inserted"]
    /\ pc' = [pc EXCEPT ![a] = "start"]
    /\ UNCHANGED <<poolVars, main, mine, created, armed, io, failed>>

(* start(): from here on the session's handlers may run.                   *)
Start_AcceptsAgain(a) ==
    /\ pc[a] = "start"
    /\ state' = [state EXCEPT ![mine[a]] = "started"]
    /\ pc' = [pc EXCEPT ![a] = "accept"] /\ mine' = [mine EXCEPT ![a] = None]
    /\ UNCHANGED <<poolVars, main, created, armed, io, session_, failed>>
Start(a) ==
    /\ pc[a] = "start"
    /\ state' = [state EXCEPT ![mine[a]] = "started"]
    /\ pc' = [pc EXCEPT ![a] = "idle"] /\ mine' = [mine EXCEPT ![a] = None]
    /\ UNCHANGED <<poolVars, main, created, armed, io, session_, failed>>

-----------------------------------------------------------------------------
(* A handler of the session on the thread of its io_service closes it:     *)
(* erase() takes it out of session_.                                       *)
ThreadRuns(i) == i < spawned /\ i \notin exited
Erase(s) == session_' = session_ \ {s}
Close(s) ==
    /\ state[s] = "started" /\ ThreadRuns(io[s])
    /\ Erase(s) /\ state' = [state EXCEPT ![s] = "gone"]
    /\ UNCHANGED <<poolVars, main, pc, mine, created, armed, io, failed>>

(* The server has been destroyed, or the bound on sessions is reached.     *)
Over ==
    /\ \/ main = "destroyed"
       \/ created = MaxSessions /\ \A t \in Session : t = armed \/ state[t] = "gone"
    /\ UNCHANGED vars

-----------------------------------------------------------------------------
DoAccept(c) == Take(c) \/ AsyncAccept(c)
MainThread == WaitInit \/ DoAccept(Main) \/ RunEnds \/ Stop \/ Join
AcceptorThread(a) == DoAccept(a) \/ Insert(a) \/ Start(a)
Runner == (RunLocks \/ RunSpawns \/ RunInitialised \/ RunReturns) /\ UNCHANGED serverVars
PoolThread(i) == ThreadExits(i) /\ UNCHANGED serverVars

Next ==
    \/ MainThread \/ Runner
    \/ \E a \in Acceptors : AcceptorThread(a) \/ OnAccept(a) \/ OnAcceptError(a)
    \/ \E i \in Service : PoolThread(i)
    \/ \E s \in Session : Close(s)
    \/ Over

(* Threads that can go on do; a session with a running thread is closed in *)
(* the end, which is what HttpSession shows.  Connections need not arrive. *)
Fairness ==
    /\ WF_vars(MainThread) /\ WF_vars(Runner)
    /\ \A a \in Acceptors : WF_vars(AcceptorThread(a))
    /\ \A i \in Service : WF_vars(PoolThread(i))
    /\ \A s \in Session : WF_vars(Close(s))

Spec == Init /\ [][Next]_vars /\ Fairness

-----------------------------------------------------------------------------
(* Properties.                                                             *)

(* While run() is running and no accept has failed there is one accept in  *)
(* progress or one thread about to start the next: the server neither goes *)
(* deaf nor accepts twice at a time.  After a failed accept it is deaf.    *)
InDoAccept == {c \in Callers : Accepting(c)}
AcceptChain ==
    main = "run" =>
        IF failed THEN armed = None /\ InDoAccept = {}
        ELSE \/ armed # None /\ InDoAccept = {}
             \/ armed = None /\ \E c \in Callers : InDoAccept = {c}

(* While the server runs, every session in session_ is on an io_service    *)
(* whose thread is running, so its handlers, the timeout's among them, do  *)
(* run: no pool thread runs out of work between sessions.                  *)
SessionsAreServed ==
    main = "run" => \A s \in session_ : ThreadRuns(io[s])

(* The constructor gets past wait_init() and starts the first accept,      *)
(* whether it or the pool's run() takes m_lock first.                      *)
Starts == <>(created > 0)

(* A connection that has been accepted is served and closed in the end,    *)
(* unless the server is stopped first.                                     *)
AcceptedIsClosed ==
    \A s \in Session :
        (\E a \in Acceptors : mine[a] = s) ~> state[s] = "gone" \/ main = "join"
=============================================================================
