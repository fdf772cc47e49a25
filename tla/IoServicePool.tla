--------------------------- MODULE IoServicePool ---------------------------
(***************************************************************************)
(* io_service_pool: PoolSize io_services with a thread each, started by    *)
(* run() on a thread of its own, and get_io_service(), which deals them    *)
(* out in turn.                                                            *)
(*                                                                         *)
(* next_io_service_ is atomic but get_io_service() reads it, increments it *)
(* and compares it in separate steps; Callers are the threads that may be  *)
(* in it.  The module has no next-state relation of its own: HttpServer    *)
(* composes its actions with those of the server that calls them.          *)
(***************************************************************************)
EXTENDS Naturals

CONSTANTS
    PoolSize,   \* pool_size
    Callers     \* the threads that may call get_io_service()

ASSUME PoolSizeAssumption == PoolSize \in Nat \ {0}

VARIABLES
    runner,     \* the thread in run(): "new", "locked", "joining", "returned"
    spawned,    \* how many pool threads it has started
    isInit,     \* m_is_init
    waiting,    \* a thread waits on m_init_ok
    stopped,    \* the io_services that have been stopped
    exited,     \* the pool threads whose io_service::run() has returned
    next,       \* next_io_service_
    taking,     \* where a caller is in get_io_service(): "out", "read", "inc"
    taken       \* the io_service a caller's last get_io_service() chose

poolVars == <<runner, spawned, isInit, waiting, stopped, exited, next, taking, taken>>
lifeVars == <<runner, spawned, isInit, waiting, stopped, exited>>
dealVars == <<next, taking, taken>>

Service == 0..(PoolSize - 1)

PoolTypeOK ==
    /\ runner \in {"new", "locked", "joining", "returned"}
    /\ spawned \in 0..PoolSize
    /\ isInit \in BOOLEAN /\ waiting \in BOOLEAN
    /\ stopped \subseteq Service /\ exited \subseteq Service
    /\ next \in 0..PoolSize
    /\ taking \in [Callers -> {"out", "read", "inc"}]
    /\ taken \in [Callers -> Service]

PoolInit ==
    /\ runner = "new" /\ spawned = 0 /\ isInit = FALSE /\ waiting = FALSE
    /\ stopped = {} /\ exited = {}
    /\ next = 0
    /\ taking = [c \in Callers |-> "out"] /\ taken = [c \in Callers |-> 0]

-----------------------------------------------------------------------------
(* run()                                                                   *)

RunLocks ==
    /\ runner = "new" /\ runner' = "locked"
    /\ UNCHANGED <<spawned, isInit, waiting, stopped, exited, dealVars>>

RunSpawns ==
    /\ runner = "locked" /\ spawned < PoolSize
    /\ spawned' = spawned + 1
    /\ UNCHANGED <<runner, isInit, waiting, stopped, exited, dealVars>>

(* m_is_init, notify_one and unlock.                                       *)
AllSpawned_OneIsEnough == spawned > 0
AllSpawned == spawned = PoolSize
Notify_Nobody == UNCHANGED waiting
Notify == waiting' = FALSE
RunInitialised ==
    /\ runner = "locked" /\ AllSpawned
    /\ isInit' = TRUE /\ Notify /\ runner' = "joining"
    /\ UNCHANGED <<spawned, stopped, exited, dealVars>>

(* A pool thread's io_service::run() returns when it has been stopped; its *)
(* work object keeps it running until then.                                *)
MayExit_NoWork(i) == i < spawned
MayExit(i) == i < spawned /\ i \in stopped
ThreadExits(i) ==
    /\ MayExit(i) /\ i \notin exited
    /\ exited' = exited \cup {i}
    /\ UNCHANGED <<runner, spawned, isInit, waiting, stopped, dealVars>>

RunReturns ==
    /\ runner = "joining" /\ exited = Service
    /\ runner' = "returned"
    /\ UNCHANGED <<spawned, isInit, waiting, stopped, exited, dealVars>>

-----------------------------------------------------------------------------
(* wait_init(): the predicate is looked at with m_lock held.               *)
LockFree == runner # "locked"

InitWaits ==
    /\ LockFree /\ ~isInit /\ ~waiting
    /\ waiting' = TRUE
    /\ UNCHANGED <<runner, spawned, isInit, stopped, exited, dealVars>>

InitSeen == LockFree /\ ~waiting /\ isInit

(* stop()                                                                  *)
StopAll ==
    /\ stopped' = Service
    /\ UNCHANGED <<runner, spawned, isInit, waiting, exited, dealVars>>

-----------------------------------------------------------------------------
(* get_io_service(), one step per access to next_io_service_.  Indexing    *)
(* io_services_ past its end is undefined: any io_service may come of it.  *)

TakeRead(c) ==
    /\ taking[c] = "out"
    /\ taking' = [taking EXCEPT ![c] = "read"]
    /\ \E i \in Service :
           (next < PoolSize => i = next) /\ taken' = [taken EXCEPT ![c] = i]
    /\ UNCHANGED <<next, lifeVars>>

TakeIncrement(c) ==
    /\ taking[c] = "read"
    /\ taking' = [taking EXCEPT ![c] = "inc"]
    /\ next' = next + 1
    /\ UNCHANGED <<taken, lifeVars>>

Wrap_TooLate == IF next = PoolSize + 1 THEN 0 ELSE next
Wrap == IF next = PoolSize THEN 0 ELSE next
TakeWrap(c) ==
    /\ taking[c] = "inc"
    /\ taking' = [taking EXCEPT ![c] = "out"]
    /\ next' = Wrap
    /\ UNCHANGED <<taken, lifeVars>>

-----------------------------------------------------------------------------
(* One thread at a time is in get_io_service(), and it never indexes       *)
(* io_services_ past its end, although nothing in the pool sees to it.     *)
OneTaker ==
    /\ \A c, d \in Callers : taking[c] # "out" /\ taking[d] # "out" => c = d
    /\ (\A c \in Callers : taking[c] = "out") => next < PoolSize
=============================================================================
