----------------------------- MODULE ConnLease -----------------------------
(***************************************************************************)
(* What the users of a connection pool may rely on: a connection is lent   *)
(* to one thread at a time, comes back to the pool or is closed, and once  *)
(* any connection has been closed none is lent or taken back any more.     *)
(* DBConnectPool implements this.                                          *)
(***************************************************************************)
CONSTANTS Threads, Conn

VARIABLES
    where,   \* for each connection "pool", "lent" or "closed"
    by       \* for each connection the threads it is lent to

vars == <<where, by>>

Init == where = [c \in Conn |-> "pool"] /\ by = [c \in Conn |-> {}]

Open == \A c \in Conn : where[c] # "closed"

Lend(c, t) ==
    /\ Open /\ where[c] = "pool"
    /\ where' = [where EXCEPT ![c] = "lent"] /\ by' = [by EXCEPT ![c] = {t}]

Return(c) ==
    /\ Open /\ where[c] = "lent"
    /\ where' = [where EXCEPT ![c] = "pool"] /\ by' = [by EXCEPT ![c] = {}]

(* The last user of a connection closes it after the pool is gone.         *)
CloseLent(c) ==
    /\ where[c] = "lent"
    /\ where' = [where EXCEPT ![c] = "closed"] /\ by' = [by EXCEPT ![c] = {}]

(* The pool closes all it has.                                             *)
ClosePool ==
    /\ where' = [c \in Conn |-> IF where[c] = "pool" THEN "closed" ELSE where[c]]
    /\ UNCHANGED by

Next ==
    \/ \E c \in Conn : Return(c) \/ CloseLent(c) \/ \E t \in Threads : Lend(c, t)
    \/ ClosePool

Spec == Init /\ [][Next]_vars
=============================================================================
