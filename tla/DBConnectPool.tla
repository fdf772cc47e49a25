--------------------------- MODULE DBConnectPool ---------------------------
(***************************************************************************)
(* DBConnectPool: a monitor around a circular buffer of database           *)
(* connections.  getConn() waits on m_empty_cv for a connection and hands  *)
(* it out in a shared_ptr whose deleter gives it back, or closes it when   *)
(* the pool no longer exists.  releaseConn() would wait on m_full_cv while *)
(* the buffer is full; RoomForReturn shows that this wait never blocks, so *)
(* nobody is ever in its wait set and its notifications are left out.      *)
(*                                                                         *)
(* Nothing in the repository uses the pool.  The users modelled are        *)
(* threads that hold at most one connection at a time and let go of it,    *)
(* and an owner that may drop its shared_ptr to the pool at any time; a    *)
(* thread calls getConn() through a shared_ptr of its own.                 *)
(*                                                                         *)
(* m_lock is held over all of getConn() and releaseConn() except while     *)
(* they wait, so an action is a stretch of one of them between two waits.  *)
(***************************************************************************)
EXTENDS Naturals, Sequences, FiniteSets

CONSTANTS
    Threads,   \* the threads using the pool
    N          \* the capacity of m_connPool, all of it connected at the start

ASSUME NAssumption == N \in Nat \ {0}
ASSUME ThreadsAssumption == IsFiniteSet(Threads)

Conn == 1..N
None == 0

VARIABLES
    pool,      \* m_connPool, oldest connection first
    holds,     \* the connection in a thread's shared_ptr, or None
    pc,        \* "idle", "get", "wait", "using", "put"
    emptyCv,   \* the threads waiting on m_empty_cv
    owner,     \* the owner still has its shared_ptr to the pool
    finished   \* the connections closed with PQfinish

vars == <<pool, holds, pc, emptyCv, owner, finished>>

(* The shape of every variable; a thread is in a wait set exactly when it  *)
(* has not been woken.                                                     *)
TypeOK ==
    /\ pool \in Seq(Conn) /\ Len(pool) <= N
    /\ holds \in [Threads -> Conn \cup {None}]
    /\ pc \in [Threads -> {"idle", "get", "wait", "using", "put"}]
    /\ emptyCv \subseteq {t \in Threads : pc[t] = "wait"}
    /\ owner \in BOOLEAN
    /\ finished \subseteq Conn

(* The constructor connects all N or exits the process.                    *)
Init ==
    /\ pool = [i \in 1..N |-> i]
    /\ holds = [t \in Threads |-> None]
    /\ pc = [t \in Threads |-> "idle"]
    /\ emptyCv = {}
    /\ owner = TRUE /\ finished = {}

Pooled == {pool[i] : i \in DOMAIN pool}
Full == Len(pool) = N

(* The pool exists while its owner, a getConn() in progress or a deleter   *)
(* that has locked its weak_ptr holds a shared_ptr to it.                  *)
InPool(t) == pc[t] \in {"get", "wait", "put"}
Exists_OwnerOnly == owner
Exists == owner \/ \E t \in Threads : InPool(t)

Goto(t, where) == pc' = [pc EXCEPT ![t] = where]

(* notify_one() wakes one of the threads waiting, if there is one.         *)
NotifyEmpty_Nobody == UNCHANGED emptyCv
NotifyEmpty ==
    IF emptyCv = {} THEN UNCHANGED emptyCv
    ELSE \E t \in emptyCv : emptyCv' = emptyCv \ {t}

-----------------------------------------------------------------------------
(* getConn()                                                               *)

Get(t) ==
    /\ pc[t] = "idle" /\ owner
    /\ Goto(t, "get")
    /\ UNCHANGED <<pool, holds, emptyCv, owner, finished>>

(* m_empty_cv.wait finds the predicate false and releases m_lock.          *)
GetWaits(t) ==
    /\ pc[t] \in {"get", "wait"} /\ t \notin emptyCv
    /\ pool = <<>>
    /\ Goto(t, "wait") /\ emptyCv' = emptyCv \cup {t}
    /\ UNCHANGED <<pool, holds, owner, finished>>

TakeFront_NotPopped == UNCHANGED pool
TakeFront == pool' = Tail(pool)
GetTakes(t) ==
    /\ pc[t] \in {"get", "wait"} /\ t \notin emptyCv
    /\ pool # <<>>
    /\ holds' = [holds EXCEPT ![t] = Head(pool)] /\ TakeFront
    /\ Goto(t, "using")
    /\ UNCHANGED <<emptyCv, owner, finished>>

-----------------------------------------------------------------------------
(* The deleter of the shared_ptr, and releaseConn().                       *)

(* The last shared_ptr goes away and the weak_ptr to the pool locks.       *)
Put(t) ==
    /\ pc[t] = "using" /\ Exists
    /\ Goto(t, "put")
    /\ UNCHANGED <<pool, holds, emptyCv, owner, finished>>

(* The pool is gone.                                                       *)
PutFinishes_Leaks(t) == UNCHANGED finished
PutFinishes(t) == finished' = finished \cup {holds[t]}
PutWithoutPool(t) ==
    /\ pc[t] = "using" /\ ~Exists
    /\ PutFinishes(t)
    /\ holds' = [holds EXCEPT ![t] = None] /\ Goto(t, "idle")
    /\ UNCHANGED <<pool, emptyCv, owner>>

GivenBack_Null(t) == None
GivenBack(t) == holds[t]

(* The wait for room, push_back and notify.  The deleter's shared_ptr to   *)
(* the pool goes away with it.                                             *)
PutBack(t) ==
    /\ pc[t] = "put" /\ ~Full
    /\ pool' = Append(pool, GivenBack(t))
    /\ holds' = [holds EXCEPT ![t] = None]
    /\ NotifyEmpty
    /\ Goto(t, "idle")
    /\ UNCHANGED <<owner, finished>>

-----------------------------------------------------------------------------
(* A condition variable may wake a thread that nobody notified.            *)
SpuriousWakeup(t) ==
    /\ t \in emptyCv /\ emptyCv' = emptyCv \ {t}
    /\ UNCHANGED <<pool, holds, pc, owner, finished>>

OwnerDrops ==
    /\ owner /\ owner' = FALSE
    /\ UNCHANGED <<pool, holds, pc, emptyCv, finished>>

(* ~DBConnectPool() runs when the last shared_ptr to the pool is gone.     *)
DestroyPool ==
    /\ ~Exists /\ pool # <<>>
    /\ finished' = finished \cup Pooled /\ pool' = <<>>
    /\ UNCHANGED <<holds, pc, emptyCv, owner>>

Over ==
    /\ ~Exists /\ pool = <<>> /\ \A t \in Threads : pc[t] = "idle"
    /\ UNCHANGED vars

-----------------------------------------------------------------------------
GetStep(t) == GetWaits(t) \/ GetTakes(t)
PutStep(t) == Put(t) \/ PutWithoutPool(t) \/ PutBack(t)

Next ==
    \/ \E t \in Threads : Get(t) \/ GetStep(t) \/ PutStep(t) \/ SpuriousWakeup(t)
    \/ OwnerDrops \/ DestroyPool \/ Over

(* A thread inside the pool that is not waiting goes on, a thread does not *)
(* keep its connection for ever, and the destructor runs.  m_lock is not   *)
(* fair: a thread may find the pool empty again each time it is woken.     *)
Fairness ==
    /\ \A t \in Threads : WF_vars(GetStep(t)) /\ WF_vars(PutStep(t))
    /\ WF_vars(DestroyPool)

Spec == Init /\ [][Next]_vars /\ Fairness

-----------------------------------------------------------------------------
(* Properties.                                                             *)

(* Every connection is in exactly one place: once in the buffer, with one  *)
(* thread, or closed; none is lent twice, lost, or used after PQfinish.    *)
Lent == {holds[t] : t \in Threads} \ {None}
OneHome ==
    /\ \A i, j \in DOMAIN pool : pool[i] = pool[j] => i = j
    /\ \A t, u \in Threads : holds[t] = holds[u] /\ holds[t] # None => t = u
    /\ Pooled \cap Lent = {} /\ (Pooled \cup Lent) \cap finished = {}
    /\ Pooled \cup Lent \cup finished = Conn

(* releaseConn() always finds room: a deleter never blocks on m_full_cv,   *)
(* whichever getConn() or releaseConn() calls are in progress.             *)
RoomForReturn == \A t \in Threads : pc[t] = "put" => ~Full

(* No wakeup is lost: while threads wait unnotified, for each connection   *)
(* in the buffer a waiter has been woken that has yet to look.             *)
Woken == {t \in Threads : pc[t] = "wait" /\ t \notin emptyCv}
NoLostWakeup == emptyCv # {} => Len(pool) <= Cardinality(Woken)

(* Once the owner lets go of the pool every connection is closed, the lent *)
(* ones included, however the deleters race with the pool's destructor.    *)
AllFinished == ~owner ~> finished = Conn

(* Who may have a connection when.                                         *)
Where(c) ==
    IF c \in finished THEN "closed"
    ELSE IF c \in Pooled THEN "pool" ELSE "lent"
Lease == INSTANCE ConnLease WITH
             where <- [c \in Conn |-> Where(c)],
             by <- [c \in Conn |-> {t \in Threads : holds[t] = c}]
ImplementsConnLease == Lease!Spec
=============================================================================
