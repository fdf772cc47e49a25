-------------------------- MODULE HttpServer_proofs --------------------------
(* Theorems about HttpServer and IoServicePool, for every number of acceptor *)
(* threads, io_services and sessions: the chain of accepts does not break or *)
(* fork, get_io_service() has one caller at a time, and every session has a  *)
(* thread that serves it.                                                    *)
EXTENDS HttpServer, TLAPS

-----------------------------------------------------------------------------
(* The inductive invariant, in named parts.                                  *)

(* There is one next session: the one an accept is in progress for, or the   *)
(* one that a single thread is about to create. After an error there is none.*)
Chain ==
    /\ main # "run" => armed = None /\ \A a \in Acceptors : pc[a] = "idle"
    /\ main \in {"init", "accept"} => created = 0 /\ ~failed
    /\ main = "run" /\ ~failed =>
           armed # None \/ \E a \in Acceptors : pc[a] = "accept"
    /\ armed # None \/ failed => \A a \in Acceptors : pc[a] # "accept"
    /\ failed => armed = None
    /\ \A a, b \in Acceptors : pc[a] = "accept" /\ pc[b] = "accept" => a = b
    /\ \A a \in Acceptors : pc[a] = "accept" => created < MaxSessions
    /\ \A a \in Acceptors : pc[a] # "idle" => mine[a] \in 1 .. created

(* Only that thread is in get_io_service(), and the index is past the end    *)
(* only between its increment and its comparison.                            *)
Dealing ==
    /\ \A c \in Callers : taking[c] # "out" => Accepting(c)
    /\ next = PoolSize => \E c \in Callers : taking[c] = "inc"

(* The threads of the pool run from wait_init() until stop().                *)
PoolRuns ==
    /\ isInit => spawned = PoolSize
    /\ main # "init" => isInit
    /\ main \in {"init", "accept", "run"} => stopped = {}
    /\ exited \subseteq stopped

IInv == TypeOK /\ Chain /\ Dealing /\ PoolRuns

-----------------------------------------------------------------------------
(* Two threads that may call get_io_service() are one.                       *)
LEMMA OneAccepts ==
    ASSUME IInv, NEW c \in Callers, NEW d \in Callers,
           Accepting(c), Accepting(d)
    PROVE  c = d
BY CallersAssumption DEF IInv, Chain, Accepting

(* Nobody else is in get_io_service() with a thread that is about to accept. *)
LEMMA AloneInside ==
    ASSUME IInv, NEW c \in Callers, Accepting(c)
    PROVE  \A d \in Callers \ {c} : taking[d] = "out"
BY OneAccepts DEF IInv, Dealing

(* A thread that is about to accept may create one more session.             *)
LEMMA RoomForSession ==
    ASSUME IInv, NEW c \in Callers, Accepting(c)
    PROVE  created \in 0 .. MaxSessions - 1 /\ armed = None /\ ~failed
<1>1. created < MaxSessions /\ armed = None /\ ~failed
  BY CallersAssumption, SessionsAssumption
     DEF IInv, Chain, Accepting
<1>2. QED
  BY <1>1, SessionsAssumption DEF IInv, TypeOK
-----------------------------------------------------------------------------
(* It holds at first.                                                        *)
LEMMA Initial == Init => IInv
<1> SUFFICES ASSUME Init PROVE IInv
  OBVIOUS
<1>1. PoolSize \in Nat \ {0} /\ MaxSessions \in Nat \ {0}
  BY PoolSizeAssumption, SessionsAssumption
<1>2. 0 \in Service /\ None \in 0 .. MaxSessions /\ 0 # PoolSize
  BY <1>1 DEF Service, None
<1>3. PoolTypeOK
  <2>1. spawned \in 0 .. PoolSize /\ next \in 0 .. PoolSize
    BY <1>1 DEF Init, PoolInit
  <2>2. /\ taking \in [Callers -> {"out", "read", "inc"}]
        /\ taken \in [Callers -> Service]
    BY <1>2 DEF Init, PoolInit
  <2>3. QED
    BY <2>1, <2>2 DEF Init, PoolInit, PoolTypeOK
<1>4. TypeOK
  <2>1. created \in 0 .. MaxSessions /\ armed \in 0 .. created
        /\ session_ \subseteq 1 .. created
    BY <1>2 DEF Init, None
  <2>2. mine \in [Acceptors -> Session \cup {None}]
        /\ io \in [Session -> Service]
    BY <1>2 DEF Init
  <2>3. QED
    BY <1>3, <2>1, <2>2 DEF Init, TypeOK
<1>5. Chain
  BY DEF Init, Chain
<1>6. Dealing
  BY <1>2, CallersAssumption DEF Init, PoolInit, Dealing
<1>7. PoolRuns
  BY DEF Init, PoolInit, PoolRuns
<1>8. QED
  BY <1>4, <1>5, <1>6, <1>7 DEF IInv

(* get_io_service() reads and increments.                                    *)
LEMMA TakeStep == ASSUME IInv, NEW c \in Callers, Take(c) PROVE IInv'
<1>1. Accepting(c) /\ UNCHANGED serverVars /\ UNCHANGED lifeVars
  BY DEF Take, TakeRead, TakeIncrement
<1>2. \A d \in Callers \ {c} : taking[d] = "out"
  BY <1>1, AloneInside
<1>3. Chain' /\ PoolRuns'
  BY <1>1 DEF IInv, Chain, PoolRuns, serverVars, lifeVars
<1>4. CASE TakeRead(c)
  <2>1. /\ taking' = [taking EXCEPT ![c] = "read"] /\ next' = next
        /\ \E i \in Service : taken' = [taken EXCEPT ![c] = i]
        /\ taking[c] = "out"
    BY <1>4 DEF TakeRead
  <2>2. TypeOK'
    BY <1>1, <2>1
       DEF IInv, TypeOK, PoolTypeOK, serverVars, lifeVars
  <2>3. Dealing'
    BY <1>1, <1>2, <2>1
       DEF IInv, TypeOK, PoolTypeOK, Dealing, Accepting, serverVars
  <2>4. QED
    BY <1>3, <2>2, <2>3 DEF IInv
<1>5. CASE TakeIncrement(c)
  <2>1. /\ taking' = [taking EXCEPT ![c] = "inc"] /\ next' = next + 1
        /\ taken' = taken /\ taking[c] = "read"
    BY <1>5 DEF TakeIncrement
  <2>2. next \in 0 .. PoolSize - 1
    BY <1>2, <2>1, PoolSizeAssumption DEF IInv, TypeOK, PoolTypeOK, Dealing
  <2>3. TypeOK'
    BY <1>1, <2>1, <2>2, PoolSizeAssumption
       DEF IInv, TypeOK, PoolTypeOK, serverVars, lifeVars
  <2>4. Dealing'
    BY <1>1, <2>1
       DEF IInv, TypeOK, PoolTypeOK, Dealing, Accepting, serverVars
  <2>5. QED
    BY <1>3, <2>3, <2>4 DEF IInv
<1>6. QED
  BY <1>4, <1>5 DEF Take

(* The comparison, and the session with its accept.                          *)
LEMMA AsyncAcceptStep ==
    ASSUME IInv, NEW c \in Callers, AsyncAccept(c)
    PROVE  IInv'
<1>1. /\ Accepting(c) /\ taking[c] = "inc"
      /\ taking' = [taking EXCEPT ![c] = "out"] /\ next' = Wrap
      /\ UNCHANGED <<taken, lifeVars>>
      /\ created' = created + 1 /\ armed' = created + 1
      /\ state' = [state EXCEPT ![created + 1] = "fresh"]
      /\ io' = [io EXCEPT ![created + 1] = taken[c]]
      /\ ThenReturn(c)
      /\ UNCHANGED <<mine, session_, failed>>
  BY DEF AsyncAccept, TakeWrap, Arm, NewSession
<1>2. /\ \A d \in Callers \ {c} : taking[d] = "out" /\ ~Accepting(d)
      /\ created \in 0 .. MaxSessions - 1 /\ armed = None /\ ~failed
  BY <1>1, AloneInside, OneAccepts, RoomForSession
<1>3. created + 1 \in 1 .. MaxSessions /\ MaxSessions \in Nat
  BY <1>2, SessionsAssumption
<1>4. next' \in 0 .. PoolSize /\ next' # PoolSize
  BY <1>1, PoolSizeAssumption DEF Wrap, IInv, TypeOK, PoolTypeOK
<1>5. /\ main' = "run"
      /\ \A a \in Acceptors : pc'[a] # "accept"
      /\ pc' \in [Acceptors -> {"idle", "accept", "insert", "start"}]
  BY <1>1, <1>2, CallersAssumption
     DEF ThenReturn, Accepting, IInv, TypeOK, Chain
<1>6. \A a \in Acceptors : pc'[a] # "idle" => pc[a] # "idle"
  BY <1>1, CallersAssumption DEF ThenReturn, Accepting, IInv, TypeOK
<1>7. TypeOK'
  <2>1. PoolTypeOK'
    BY <1>1, <1>4 DEF IInv, TypeOK, PoolTypeOK, lifeVars
  <2>2. taken[c] \in Service
    BY DEF IInv, TypeOK, PoolTypeOK
  <2>3. state' \in [Session -> {"none", "fresh", "inserted", "started", "gone"}]
        /\ io' \in [Session -> Service]
    BY <1>1, <2>2 DEF IInv, TypeOK
  <2>4. created' \in 0 .. MaxSessions /\ armed' \in 0 .. created'
        /\ session_' \subseteq 1 .. created'
    BY <1>1, <1>2, <1>3 DEF IInv, TypeOK
  <2>5. mine' \in [Acceptors -> Session \cup {None}] /\ failed' \in BOOLEAN
    BY <1>1 DEF IInv, TypeOK
  <2>6. main' \in {"init", "accept", "run", "stop", "join", "destroyed"}
    BY <1>5
  <2>7. pc' \in [Acceptors -> {"idle", "accept", "insert", "start"}]
    BY <1>5
  <2>8. QED
    BY <2>1, <2>3, <2>4, <2>5, <2>6, <2>7 DEF TypeOK
<1>8. Chain'
  <2>1. armed' # None
    BY <1>1, <1>2 DEF None
  <2>2. \A a \in Acceptors : pc'[a] # "idle" => mine'[a] \in 1 .. created'
    BY <1>1, <1>2, <1>6 DEF IInv, Chain
  <2>3. QED
    BY <1>1, <1>2, <1>5, <2>1, <2>2 DEF Chain
<1>9. Dealing'
  BY <1>1, <1>2, <1>4 DEF IInv, TypeOK, PoolTypeOK, Dealing
<1>10. PoolRuns'
  <2>1. main \in {"accept", "run"}
    BY <1>1, CallersAssumption DEF Accepting, IInv, Chain
  <2>2. QED
    BY <1>1, <1>5, <2>1 DEF IInv, PoolRuns, lifeVars
<1>11. QED
  BY <1>7, <1>8, <1>9, <1>10 DEF IInv

(* The constructor waits, run() ends, the destructor stops and joins.        *)
LEMMA MainSteps ==
    ASSUME IInv, WaitInit \/ RunEnds \/ Stop \/ Join
    PROVE  IInv'
<1>1. CASE WaitInit
  <2>1. /\ main = "init" /\ main' \in {"init", "accept"}
        /\ main' = "accept" => isInit
        /\ waiting' \in BOOLEAN
        /\ UNCHANGED <<runner, spawned, isInit, stopped, exited, dealVars>>
        /\ UNCHANGED <<pc, mine, created, armed, state, io, session_, failed>>
    BY <1>1 DEF WaitInit, InitWaits, InitSeen, poolVars, dealVars, IInv,
       TypeOK, PoolTypeOK
  <2>2. TypeOK' /\ PoolRuns'
    BY <2>1 DEF IInv, TypeOK, PoolTypeOK, PoolRuns, dealVars
  <2>3. Chain'
    BY <2>1 DEF IInv, Chain
  <2>4. Dealing'
    BY <2>1, CallersAssumption DEF IInv, Chain, Dealing, Accepting, dealVars
  <2>5. QED
    BY <2>2, <2>3, <2>4 DEF IInv
<1>2. CASE RunEnds
  <2>1. /\ main = "run" /\ main' = "stop" /\ armed = None
        /\ \A a \in Acceptors : pc[a] = "idle"
        /\ UNCHANGED <<poolVars, pc, mine, created, armed, state, io, session_,
                       failed>>
    BY <1>2 DEF RunEnds, OutOfWork
  <2>2. TypeOK' /\ PoolRuns' /\ Chain'
    BY <2>1 DEF IInv, TypeOK, PoolTypeOK, PoolRuns, Chain, poolVars
  <2>3. Dealing'
    BY <2>1 DEF IInv, Dealing, Accepting, poolVars
  <2>4. QED
    BY <2>2, <2>3 DEF IInv
<1>3. CASE Stop
  <2>1. /\ main = "stop" /\ main' = "join" /\ stopped' = Service
        /\ UNCHANGED <<runner, spawned, isInit, waiting, exited, dealVars>>
        /\ UNCHANGED <<pc, mine, created, armed, state, io, session_, failed>>
    BY <1>3 DEF Stop, StopAll
  <2>2. TypeOK' /\ PoolRuns' /\ Chain'
    BY <2>1 DEF IInv, TypeOK, PoolTypeOK, PoolRuns, Chain, dealVars
  <2>3. Dealing'
    BY <2>1 DEF IInv, Dealing, Accepting, dealVars
  <2>4. QED
    BY <2>2, <2>3 DEF IInv
<1>4. CASE Join
  <2>1. /\ main = "join" /\ main' = "destroyed"
        /\ UNCHANGED <<poolVars, pc, mine, created, armed, state, io, session_,
                       failed>>
    BY <1>4 DEF Join
  <2>2. TypeOK' /\ PoolRuns' /\ Chain'
    BY <2>1 DEF IInv, TypeOK, PoolTypeOK, PoolRuns, Chain, poolVars
  <2>3. Dealing'
    BY <2>1 DEF IInv, Dealing, Accepting, poolVars
  <2>4. QED
    BY <2>2, <2>3 DEF IInv
<1>5. QED
  BY <1>1, <1>2, <1>3, <1>4

(* The thread of the pool's run(), and the pool threads.                     *)
LEMMA PoolSteps ==
    ASSUME IInv, Runner \/ \E i \in Service : PoolThread(i)
    PROVE  IInv'
<1>1. UNCHANGED serverVars /\ UNCHANGED <<stopped, dealVars>>
  BY DEF Runner, RunLocks, RunSpawns, RunInitialised, RunReturns, PoolThread,
         ThreadExits
<1>2. PoolTypeOK' /\ PoolRuns'
  <2>1. PoolTypeOK /\ PoolRuns
    BY DEF IInv, TypeOK
  <2>2. CASE RunLocks \/ RunReturns
    BY <1>1, <2>1, <2>2
       DEF RunLocks, RunReturns, PoolTypeOK, PoolRuns, serverVars, dealVars
  <2>3. CASE RunSpawns
    BY <1>1, <2>1, <2>3, PoolSizeAssumption
       DEF RunSpawns, PoolTypeOK, PoolRuns, serverVars, dealVars
  <2>4. CASE RunInitialised
    BY <1>1, <2>1, <2>4
       DEF RunInitialised, AllSpawned, Notify, PoolTypeOK, PoolRuns,
           serverVars, dealVars
  <2>5. ASSUME NEW i \in Service, ThreadExits(i) PROVE PoolTypeOK' /\ PoolRuns'
    BY <1>1, <2>1, <2>5
       DEF ThreadExits, MayExit, PoolTypeOK, PoolRuns, serverVars, dealVars
  <2>6. QED
    BY <2>2, <2>3, <2>4, <2>5 DEF Runner, PoolThread
<1>3. TypeOK' /\ Chain' /\ Dealing'
  BY <1>1, <1>2
     DEF IInv, TypeOK, Chain, Dealing, Accepting, serverVars, dealVars
<1>4. QED
  BY <1>2, <1>3 DEF IInv

(* OnAccept, with a connection or an error.                                  *)
LEMMA OnAcceptSteps ==
    ASSUME IInv, NEW a \in Acceptors, OnAccept(a) \/ OnAcceptError(a)
    PROVE  IInv'
<1>1. /\ main = "run" /\ pc[a] = "idle" /\ armed # None /\ armed' = None
      /\ UNCHANGED <<poolVars, main, created, io, session_>>
      /\ armed \in 1 .. created
  BY DEF OnAccept, OnAcceptError, Running, AcceptDone, IInv, TypeOK, None
<1>2. ~failed /\ \A b \in Acceptors : pc[b] # "accept"
  BY <1>1 DEF IInv, Chain
<1>3. PoolRuns'
  BY <1>1 DEF IInv, PoolRuns, poolVars
<1>4. CASE OnAccept(a)
  <2>1. /\ created < MaxSessions /\ mine' = [mine EXCEPT ![a] = armed]
        /\ pc' = [pc EXCEPT ![a] = "accept"] /\ UNCHANGED <<state, failed>>
    BY <1>4 DEF OnAccept
  <2>2. TypeOK'
    <3>1. armed \in Session /\ None \in 0 .. created
      BY <1>1, SessionsAssumption DEF IInv, TypeOK, Session, None
    <3>2. QED
      BY <1>1, <2>1, <3>1 DEF IInv, TypeOK, PoolTypeOK, poolVars
  <2>3. Chain'
    BY <1>1, <1>2, <2>1 DEF IInv, TypeOK, Chain
  <2>4. Dealing'
    BY <1>1, <2>1, CallersAssumption
       DEF IInv, TypeOK, Dealing, Accepting, poolVars
  <2>5. QED
    BY <1>3, <2>2, <2>3, <2>4 DEF IInv
<1>5. CASE OnAcceptError(a)
  <2>1. /\ state' = [state EXCEPT ![armed] = "gone"] /\ failed' = TRUE
        /\ UNCHANGED <<pc, mine>>
    BY <1>5 DEF OnAcceptError
  <2>2. TypeOK'
    <3>1. None \in 0 .. created
      BY <1>1 DEF IInv, TypeOK, None
    <3>2. QED
      BY <1>1, <2>1, <3>1 DEF IInv, TypeOK, PoolTypeOK, poolVars
  <2>3. Chain'
    BY <1>1, <1>2, <2>1 DEF IInv, Chain
  <2>4. Dealing'
    BY <1>1, <2>1 DEF IInv, Dealing, Accepting, poolVars
  <2>5. QED
    BY <1>3, <2>2, <2>3, <2>4 DEF IInv
<1>6. QED
  BY <1>4, <1>5

(* The rest of OnAccept, and the end of a session.                           *)
LEMMA SessionSteps ==
    ASSUME IInv,
           \/ \E a \in Acceptors : Insert(a) \/ Start(a)
           \/ \E s \in Session : Close(s)
    PROVE  IInv'
<1>1. ASSUME NEW a \in Acceptors, Insert(a) \/ Start(a) PROVE IInv'
  <2>1. /\ pc[a] \in {"insert", "start"} /\ mine[a] \in 1 .. created
        /\ \/ pc' = [pc EXCEPT ![a] = "start"] /\ mine' = mine
           \/ pc' = [pc EXCEPT ![a] = "idle"]
              /\ mine' = [mine EXCEPT ![a] = None]
        /\ session_' \in {session_, session_ \cup {mine[a]}}
        /\ \E s \in {"inserted", "started"} :
               state' = [state EXCEPT ![mine[a]] = s]
        /\ UNCHANGED <<poolVars, main, created, armed, io, failed>>
    BY <1>1 DEF Insert, Start, IInv, Chain
  <2>2. main = "run" /\ \A b \in Acceptors : pc'[b] = "accept" <=> pc[b] = "accept"
    BY <2>1 DEF IInv, TypeOK, Chain
  <2>3. TypeOK'
    BY <2>1 DEF IInv, TypeOK, PoolTypeOK, poolVars
  <2>4. Chain'
    <3>1. \A b \in Acceptors : pc'[b] # "idle" => mine'[b] \in 1 .. created'
      BY <2>1 DEF IInv, TypeOK, Chain
    <3>2. QED
      BY <2>1, <2>2, <3>1 DEF IInv, Chain
  <2>5. Dealing'
    BY <2>1, <2>2, CallersAssumption DEF IInv, Dealing, Accepting, poolVars
  <2>6. PoolRuns'
    BY <2>1 DEF IInv, PoolRuns, poolVars
  <2>7. QED
    BY <2>3, <2>4, <2>5, <2>6 DEF IInv
<1>2. ASSUME NEW s \in Session, Close(s) PROVE IInv'
  <2>1. /\ session_' = session_ \ {s} /\ state' = [state EXCEPT ![s] = "gone"]
        /\ UNCHANGED <<poolVars, main, pc, mine, created, armed, io, failed>>
    BY <1>2 DEF Close, Erase
  <2>2. TypeOK' /\ Chain' /\ Dealing' /\ PoolRuns'
    BY <2>1
       DEF IInv, TypeOK, PoolTypeOK, Chain, Dealing, Accepting, PoolRuns,
           poolVars
  <2>3. QED
    BY <2>2 DEF IInv
<1>3. QED
  BY <1>1, <1>2

(* Nothing happens.                                                          *)
LEMMA Stuttering == IInv /\ UNCHANGED vars => IInv'
BY DEF vars, serverVars, poolVars, IInv, TypeOK, PoolTypeOK, Chain, Dealing,
       Accepting, PoolRuns

-----------------------------------------------------------------------------
(* One session at a time is about to be created, and only by one thread.     *)
THEOREM Invariant == Spec => []IInv
<1>1. IInv /\ [Next]_vars => IInv'
  <2> SUFFICES ASSUME IInv, [Next]_vars PROVE IInv'
    OBVIOUS
  <2>1. Acceptors \subseteq Callers /\ Main \in Callers
    BY CallersAssumption
  <2>2. CASE MainThread
    BY <2>1, <2>2, MainSteps, TakeStep, AsyncAcceptStep
       DEF MainThread, DoAccept
  <2>3. ASSUME NEW a \in Acceptors, AcceptorThread(a) PROVE IInv'
    BY <2>1, <2>3, TakeStep, AsyncAcceptStep, SessionSteps
       DEF AcceptorThread, DoAccept
  <2>4. QED
    BY <2>2, <2>3, PoolSteps, OnAcceptSteps, SessionSteps, Stuttering
       DEF Next, Over
<1> QED
  BY Initial, <1>1, PTL DEF Spec

(* Every variable of the server and its pool keeps its shape; in particular  *)
(* io_services_ is indexed within its bounds (io_service_pool.cpp:57).       *)
THEOREM TypeCorrect == Spec => []TypeOK
<1>1. IInv => TypeOK
  BY DEF IInv
<1> QED
  BY Invariant, <1>1, PTL

(* While run() is running and no accept has failed, one accept is in         *)
(* progress or one thread is about to start it (http_server.cpp:31).         *)
THEOREM AcceptsChained == Spec => []AcceptChain
<1>1. IInv => AcceptChain
  <2> SUFFICES ASSUME IInv, main = "run"
               PROVE  IF failed THEN armed = None /\ InDoAccept = {}
                      ELSE \/ armed # None /\ InDoAccept = {}
                           \/ armed = None /\ \E c \in Callers : InDoAccept = {c}
    BY DEF AcceptChain
  <2>1. InDoAccept = {a \in Acceptors : pc[a] = "accept"}
    BY CallersAssumption DEF InDoAccept, Accepting
  <2>2. CASE failed \/ armed # None
    BY <2>1, <2>2 DEF IInv, Chain
  <2>3. CASE ~failed /\ armed = None
    <3>1. PICK a \in Acceptors : pc[a] = "accept"
      BY <2>3 DEF IInv, Chain
    <3>2. InDoAccept = {a}
      BY <2>1, <3>1 DEF IInv, Chain
    <3>3. QED
      BY <2>3, <3>2, CallersAssumption
  <2>4. QED
    BY <2>2, <2>3
<1> QED
  BY Invariant, <1>1, PTL

(* One thread at a time is in get_io_service(), whose steps are not atomic   *)
(* (io_service_pool.cpp:57).                                                 *)
THEOREM OneThreadTakes == Spec => []OneTaker
<1>1. IInv => OneTaker
  <2> SUFFICES ASSUME IInv PROVE OneTaker
    OBVIOUS
  <2>1. \A c, d \in Callers : taking[c] # "out" /\ taking[d] # "out" => c = d
    BY OneAccepts DEF IInv, Dealing
  <2>2. (\A c \in Callers : taking[c] = "out") => next < PoolSize
    BY PoolSizeAssumption DEF IInv, TypeOK, PoolTypeOK, Dealing
  <2>3. QED
    BY <2>1, <2>2 DEF OneTaker
<1> QED
  BY Invariant, <1>1, PTL

(* While the server runs, the io_service of every session has its thread     *)
(* (io_service_pool.cpp:14).                                                 *)
THEOREM SessionsServed == Spec => []SessionsAreServed
<1>1. IInv => SessionsAreServed
  <2> SUFFICES ASSUME IInv, main = "run", NEW s \in session_
               PROVE  ThreadRuns(io[s])
    BY DEF SessionsAreServed
  <2>1. created \in 0 .. MaxSessions /\ MaxSessions \in Nat /\ s \in 1 .. created
    BY SessionsAssumption DEF IInv, TypeOK
  <2>2. io[s] \in Service
    BY <2>1 DEF IInv, TypeOK, Session
  <2>3. spawned = PoolSize /\ exited = {}
    BY DEF IInv, PoolRuns
  <2>4. QED
    BY <2>2, <2>3, PoolSizeAssumption DEF ThreadRuns, Service
<1> QED
  BY Invariant, <1>1, PTL
=============================================================================
