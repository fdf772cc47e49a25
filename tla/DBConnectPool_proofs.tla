------------------------ MODULE DBConnectPool_proofs ------------------------
(***************************************************************************)
(* Proofs about DBConnectPool, for every number of threads and             *)
(* connections.                                                            *)
(***************************************************************************)
EXTENDS DBConnectPool, TLAPS, SequenceTheorems, FiniteSetTheorems

(* A thread has a connection from the end of getConn() to the end of the   *)
(* deleter, and nobody has closed one while the pool exists.               *)
HoldsInUse == \A t \in Threads : holds[t] # None <=> pc[t] \in {"using", "put"}
OpenWhileExists == Exists => finished = {}

IInv == TypeOK /\ HoldsInUse /\ OpenWhileExists /\ OneHome

USE NAssumption

-----------------------------------------------------------------------------
(* Sequences without duplicates.                                           *)

Elements(s) == {s[i] : i \in DOMAIN s}
Distinct(s) == \A i, j \in DOMAIN s : s[i] = s[j] => i = j

(* push_back adds one element.                                             *)
LEMMA AppendElements ==
    ASSUME NEW s \in Seq(Conn), NEW x \in Conn
    PROVE  /\ Append(s, x) \in Seq(Conn) /\ Len(Append(s, x)) = Len(s) + 1
           /\ Elements(Append(s, x)) = Elements(s) \cup {x}
           /\ Distinct(s) /\ x \notin Elements(s) => Distinct(Append(s, x))
<1> DEFINE r == Append(s, x)
<1>1. /\ r \in Seq(Conn) /\ Len(r) = Len(s) + 1
      /\ DOMAIN r = 1..(Len(s) + 1) /\ DOMAIN s = 1..Len(s) /\ Len(s) \in Nat
      /\ \A i \in 1..Len(s) : r[i] = s[i]
      /\ r[Len(s) + 1] = x
  OBVIOUS
<1> HIDE DEF r
<1>2. Elements(r) = Elements(s) \cup {x}
  <2>1. \A i \in DOMAIN r : r[i] \in Elements(s) \cup {x}
    BY <1>1, SMT DEF Elements
  <2>2. \A i \in DOMAIN s : i \in DOMAIN r /\ r[i] = s[i]
    BY <1>1, SMT
  <2>3. Len(s) + 1 \in DOMAIN r
    BY <1>1, SMT
  <2> QED
    BY <1>1, <2>1, <2>2, <2>3 DEF Elements
<1>3. Distinct(s) /\ x \notin Elements(s) => Distinct(r)
  BY <1>1, SMT DEF Distinct, Elements
<1> QED
  BY <1>1, <1>2, <1>3 DEF r

(* pop_front takes the first one away.                                     *)
LEMMA TailElements ==
    ASSUME NEW s \in Seq(Conn), s # <<>>
    PROVE  /\ Tail(s) \in Seq(Conn) /\ Len(Tail(s)) = Len(s) - 1
           /\ Head(s) \in Elements(s)
           /\ Elements(s) = Elements(Tail(s)) \cup {Head(s)}
           /\ Distinct(s) => Distinct(Tail(s)) /\ Head(s) \notin Elements(Tail(s))
<1> DEFINE r == Tail(s)
<1>1. /\ r \in Seq(Conn) /\ Len(r) = Len(s) - 1 /\ Len(s) \in Nat /\ Len(s) > 0
      /\ DOMAIN r = 1..(Len(s) - 1) /\ DOMAIN s = 1..Len(s)
      /\ \A i \in 1..(Len(s) - 1) : r[i] = s[i + 1]
      /\ Head(s) = s[1]
  BY SMT
<1> HIDE DEF r
<1>2. \A i \in DOMAIN r : i + 1 \in DOMAIN s /\ i + 1 # 1 /\ r[i] = s[i + 1]
  BY <1>1, SMT
<1>3. \A i \in DOMAIN s : i = 1 \/ (i - 1 \in DOMAIN r /\ r[i - 1] = s[i])
  BY <1>1, SMT
<1>4. 1 \in DOMAIN s
  BY <1>1, SMT
<1>5. Elements(s) = Elements(r) \cup {Head(s)}
  <2>1. \A i \in DOMAIN s : s[i] \in Elements(r) \cup {Head(s)}
    BY <1>1, <1>3 DEF Elements
  <2>2. \A i \in DOMAIN r : r[i] \in Elements(s)
    BY <1>2 DEF Elements
  <2>3. Head(s) \in Elements(s)
    BY <1>1, <1>4 DEF Elements
  <2> QED
    BY <2>1, <2>2, <2>3 DEF Elements
<1>6. Distinct(s) => Distinct(r) /\ Head(s) \notin Elements(r)
  <2>1. SUFFICES ASSUME Distinct(s) PROVE Distinct(r) /\ Head(s) \notin Elements(r)
    OBVIOUS
  <2>2. \A i \in DOMAIN r : r[i] # Head(s)
    BY <1>1, <1>2, <1>4, <2>1, SMT DEF Distinct
  <2>3. Distinct(r)
    BY <1>1, <1>2, <2>1, SMT DEF Distinct
  <2> QED
    BY <2>2, <2>3 DEF Elements
<1> QED
  BY <1>1, <1>4, <1>5, <1>6 DEF r, Elements

-----------------------------------------------------------------------------
(* A step that moves no connection.                                        *)
LEMMA NothingMoves == OneHome /\ UNCHANGED <<pool, holds, finished>> => OneHome'
<1> SUFFICES ASSUME OneHome, UNCHANGED <<pool, holds, finished>> PROVE OneHome'
  OBVIOUS
<1>1. Pooled' = Pooled
  BY DEF Pooled
<1>2. Lent' = Lent
  BY DEF Lent
<1> QED
  BY <1>1, <1>2 DEF OneHome

(* Every step keeps the invariant.  Only TakeFront, PutFinishes, PutBack   *)
(* and DestroyPool move connections.                                       *)
LEMMA Inductive == IInv /\ [Next]_vars => IInv'
<1> SUFFICES ASSUME IInv, [Next]_vars PROVE IInv'
  OBVIOUS
<1> USE DEF TypeOK, Conn, None, Goto
<1>1. ASSUME NEW t \in Threads, Get(t) PROVE IInv'
  <2>1. TypeOK'
    BY <1>1 DEF IInv, Get
  <2>2. HoldsInUse'
    BY <1>1 DEF IInv, Get, HoldsInUse
  <2>3. OpenWhileExists'
    BY <1>1 DEF IInv, Get, OpenWhileExists, Exists
  <2>4. OneHome'
    BY <1>1, NothingMoves DEF IInv, Get
  <2> QED
    BY <2>1, <2>2, <2>3, <2>4 DEF IInv
<1>2. ASSUME NEW t \in Threads, GetWaits(t) PROVE IInv'
  <2>1. TypeOK'
    BY <1>2 DEF IInv, GetWaits
  <2>2. HoldsInUse'
    BY <1>2 DEF IInv, GetWaits, HoldsInUse
  <2>3. OpenWhileExists'
    BY <1>2 DEF IInv, GetWaits, OpenWhileExists, Exists, InPool
  <2>4. OneHome'
    BY <1>2, NothingMoves DEF IInv, GetWaits
  <2> QED
    BY <2>1, <2>2, <2>3, <2>4 DEF IInv
<1>3. ASSUME NEW t \in Threads, GetTakes(t) PROVE IInv'
  <2> DEFINE c == Head(pool)
  <2>1. /\ pool' \in Seq(Conn) /\ Len(pool') <= N
        /\ c \in Conn /\ c \in Elements(pool) /\ c \notin Elements(pool')
        /\ Elements(pool) = Elements(pool') \cup {c} /\ Distinct(pool')
    <3>1. pool \in Seq(Conn) /\ pool # <<>> /\ pool' = Tail(pool) /\ Distinct(pool)
      BY <1>3 DEF IInv, GetTakes, TakeFront, OneHome, Distinct
    <3>2. c \in Conn
      BY <3>1
    <3> QED
      BY <3>1, <3>2, TailElements DEF IInv
  <2>2. holds' = [holds EXCEPT ![t] = c] /\ holds[t] = None
    BY <1>3 DEF IInv, GetTakes, HoldsInUse
  <2>3. finished = {}
    BY <1>3 DEF IInv, GetTakes, OpenWhileExists, Exists, InPool
  <2> HIDE DEF c
  <2>4. TypeOK'
    BY <1>3, <2>1, <2>2 DEF IInv, GetTakes
  <2>5. HoldsInUse'
    BY <1>3, <2>1, <2>2 DEF IInv, GetTakes, HoldsInUse
  <2>6. OpenWhileExists'
    BY <1>3, <2>3 DEF GetTakes, OpenWhileExists
  <2>7. Lent' = Lent \cup {c} /\ c \notin Lent
    <3>1. Pooled = Elements(pool)
      BY DEF Pooled, Elements
    <3>2. c \notin Lent
      BY <2>1, <3>1 DEF IInv, OneHome
    <3>3. \A u \in Threads : holds'[u] = IF u = t THEN c ELSE holds[u]
      BY <2>2 DEF IInv
    <3>4. Lent' \subseteq Lent \cup {c}
      BY <3>3 DEF Lent
    <3>5. c \in Lent'
      BY <2>1, <3>3 DEF Lent
    <3>6. Lent \subseteq Lent'
      <4>1. \A u \in Threads : holds[u] # None => u # t /\ holds'[u] = holds[u]
        BY <2>2, <3>3
      <4> QED
        BY <4>1 DEF Lent
    <3> QED
      BY <3>2, <3>4, <3>5, <3>6
  <2>8. OneHome'
    <3>1. \A u, v \in Threads : holds'[u] = holds'[v] /\ holds'[u] # None => u = v
      BY <2>2, <2>7 DEF IInv, OneHome, Lent
    <3>2. /\ Pooled' = Elements(pool') /\ Pooled = Elements(pool)
          /\ finished' = finished
      BY <1>3 DEF Pooled, Elements, GetTakes
    <3> QED
      BY <2>1, <2>3, <2>7, <3>1, <3>2 DEF IInv, OneHome, Distinct
  <2> QED
    BY <2>4, <2>5, <2>6, <2>8 DEF IInv
<1>4. ASSUME NEW t \in Threads, Put(t) PROVE IInv'
  <2>1. TypeOK'
    BY <1>4 DEF IInv, Put
  <2>2. HoldsInUse'
    BY <1>4 DEF IInv, Put, HoldsInUse
  <2>3. OpenWhileExists'
    BY <1>4 DEF IInv, Put, OpenWhileExists
  <2>4. OneHome'
    BY <1>4, NothingMoves DEF IInv, Put
  <2> QED
    BY <2>1, <2>2, <2>3, <2>4 DEF IInv
<1>5. ASSUME NEW t \in Threads, PutWithoutPool(t) PROVE IInv'
  <2> DEFINE c == holds[t]
  <2>1. /\ c \in Conn /\ c \in Lent
        /\ holds' = [holds EXCEPT ![t] = None] /\ finished' = finished \cup {c}
        /\ pool' = pool
    BY <1>5 DEF IInv, PutWithoutPool, PutFinishes, HoldsInUse, Lent
  <2>2. TypeOK'
    BY <1>5, <2>1 DEF IInv, PutWithoutPool
  <2>3. HoldsInUse'
    BY <1>5, <2>1 DEF IInv, PutWithoutPool, HoldsInUse
  <2>4. OpenWhileExists'
    BY <1>5 DEF IInv, PutWithoutPool, OpenWhileExists, Exists, InPool
  <2>5. Lent' = Lent \ {c}
    BY <2>1 DEF IInv, OneHome, Lent
  <2>6. OneHome'
    <3>1. \A u, v \in Threads : holds'[u] = holds'[v] /\ holds'[u] # None => u = v
      BY <2>1 DEF IInv, OneHome
    <3>2. Pooled' = Pooled
      BY <2>1 DEF Pooled
    <3> QED
      BY <2>1, <2>5, <3>1, <3>2 DEF IInv, OneHome
  <2> QED
    BY <2>2, <2>3, <2>4, <2>6 DEF IInv
<1>6. ASSUME NEW t \in Threads, PutBack(t) PROVE IInv'
  <2> DEFINE c == holds[t]
  <2>1. /\ c \in Conn /\ c \in Lent
        /\ holds' = [holds EXCEPT ![t] = None]
        /\ pool' = Append(pool, c) /\ finished' = finished
    BY <1>6 DEF IInv, PutBack, GivenBack, HoldsInUse, Lent
  <2>2. finished = {}
    BY <1>6 DEF IInv, PutBack, OpenWhileExists, Exists, InPool
  <2>3. c \notin Elements(pool) /\ Distinct(pool)
    BY <2>1 DEF IInv, OneHome, Distinct, Elements, Pooled
  <2>4. /\ pool' \in Seq(Conn) /\ Len(pool') <= N
        /\ Elements(pool') = Elements(pool) \cup {c} /\ Distinct(pool')
    <3>1. Len(pool) + 1 <= N
      BY <1>6 DEF IInv, PutBack, Full
    <3> QED
      BY <2>1, <2>3, <3>1, AppendElements DEF IInv
  <2>5. emptyCv' \subseteq emptyCv
    BY <1>6 DEF PutBack, NotifyEmpty
  <2>6. TypeOK'
    BY <1>6, <2>1, <2>4, <2>5 DEF IInv, PutBack
  <2>7. HoldsInUse'
    BY <1>6, <2>1 DEF IInv, PutBack, HoldsInUse
  <2>8. OpenWhileExists'
    BY <2>1, <2>2 DEF OpenWhileExists
  <2>9. Lent' = Lent \ {c}
    BY <2>1 DEF IInv, OneHome, Lent
  <2>10. OneHome'
    <3>1. \A u, v \in Threads : holds'[u] = holds'[v] /\ holds'[u] # None => u = v
      BY <2>1 DEF IInv, OneHome
    <3>2. Pooled' = Elements(pool') /\ Pooled = Elements(pool)
      BY DEF Pooled, Elements
    <3> QED
      BY <2>1, <2>2, <2>4, <2>9, <3>1, <3>2 DEF IInv, OneHome, Distinct
  <2> QED
    BY <2>6, <2>7, <2>8, <2>10 DEF IInv
<1>7. ASSUME NEW t \in Threads, SpuriousWakeup(t) PROVE IInv'
  <2>1. TypeOK'
    BY <1>7 DEF IInv, SpuriousWakeup
  <2>2. HoldsInUse'
    BY <1>7 DEF IInv, SpuriousWakeup, HoldsInUse
  <2>3. OpenWhileExists'
    BY <1>7 DEF IInv, SpuriousWakeup, OpenWhileExists, Exists, InPool
  <2>4. OneHome'
    BY <1>7, NothingMoves DEF IInv, SpuriousWakeup
  <2> QED
    BY <2>1, <2>2, <2>3, <2>4 DEF IInv
<1>8. CASE OwnerDrops
  <2>1. TypeOK' /\ HoldsInUse' /\ OpenWhileExists'
    BY <1>8 DEF IInv, OwnerDrops, HoldsInUse, OpenWhileExists, Exists, InPool
  <2>2. OneHome'
    BY <1>8, NothingMoves DEF IInv, OwnerDrops
  <2> QED
    BY <2>1, <2>2 DEF IInv
<1>9. CASE DestroyPool
  <2>1. TypeOK'
    <3>1. \A i \in DOMAIN pool : pool[i] \in Conn
      BY DEF IInv
    <3>2. Pooled \subseteq Conn
      BY <3>1 DEF Pooled
    <3>3. finished' \subseteq Conn
      BY <1>9, <3>2 DEF IInv, DestroyPool
    <3>4. pool' \in Seq(Conn) /\ Len(pool') <= N
      BY <1>9 DEF DestroyPool
    <3> QED
      BY <1>9, <3>3, <3>4 DEF IInv, DestroyPool
  <2>2. HoldsInUse' /\ OpenWhileExists'
    BY <1>9 DEF IInv, DestroyPool, HoldsInUse, OpenWhileExists, Exists, InPool
  <2>3. Pooled' = {} /\ Lent' = Lent /\ DOMAIN pool' = {} /\ finished' = finished \cup Pooled
    BY <1>9 DEF DestroyPool, Pooled, Lent
  <2>4. OneHome'
    BY <1>9, <2>3 DEF IInv, DestroyPool, OneHome
  <2> QED
    BY <2>1, <2>2, <2>4 DEF IInv
<1>10. CASE UNCHANGED vars
  <2>1. TypeOK' /\ HoldsInUse' /\ OpenWhileExists'
    BY <1>10 DEF IInv, vars, HoldsInUse, OpenWhileExists, Exists, InPool
  <2>2. OneHome'
    BY <1>10, NothingMoves DEF IInv, vars
  <2> QED
    BY <2>1, <2>2 DEF IInv
<1> QED
  BY <1>1, <1>2, <1>3, <1>4, <1>5, <1>6, <1>7, <1>8, <1>9, <1>10
     DEF Next, GetStep, PutStep, Over

(* All connections are in the buffer at first.                             *)
LEMMA Starts == Init => IInv
<1> SUFFICES ASSUME Init PROVE IInv
  OBVIOUS
<1> USE DEF Init, Conn, None
<1>1. pool \in Seq(Conn) /\ Len(pool) = N /\ DOMAIN pool = Conn
  OBVIOUS
<1>2. Pooled = Conn
  BY <1>1 DEF Pooled
<1>3. Lent = {}
  BY DEF Lent
<1>4. OneHome
  BY <1>1, <1>2, <1>3 DEF OneHome
<1> QED
  BY <1>1, <1>4 DEF IInv, TypeOK, HoldsInUse, OpenWhileExists

-----------------------------------------------------------------------------
(* The inductive invariant holds.                                          *)
LEMMA Invariant == Spec => []IInv
BY Starts, Inductive, PTL DEF Spec

(* Every variable keeps its shape: in particular the circular buffer never *)
(* takes more than its capacity and never a null connection.               *)
THEOREM TypeCorrect == Spec => []TypeOK
<1>1. IInv => TypeOK
  BY DEF IInv
<1> QED
  BY Invariant, <1>1, PTL

(* No connection is lent twice, lost, or used after PQfinish, whatever     *)
(* getConn(), the deleters and the destructor do at the same time.         *)
THEOREM ConnectionsHaveOneHome == Spec => []OneHome
<1>1. IInv => OneHome
  BY DEF IInv
<1> QED
  BY Invariant, <1>1, PTL

(* releaseConn() never waits for room: the connection it brings back is    *)
(* one of N and not in the buffer, so N others cannot be there.            *)
THEOREM AlwaysRoom == Spec => []RoomForReturn
<1>1. IInv => RoomForReturn
  <2> SUFFICES ASSUME IInv, NEW t \in Threads, pc[t] = "put", Full PROVE FALSE
    BY DEF RoomForReturn
  <2> DEFINE Others == Conn \ {holds[t]}
  <2>1. holds[t] \in Conn /\ holds[t] \in Lent /\ holds[t] # None
    BY DEF IInv, TypeOK, HoldsInUse, Lent, Conn, None
  <2>2. IsFiniteSet(1..N) /\ Cardinality(1..N) = N
    BY FS_Interval
  <2>3. IsFiniteSet(Others) /\ Cardinality(Others) < N
    <3>1. IsFiniteSet(Conn) /\ Cardinality(Conn) = N
      BY <2>2 DEF Conn
    <3>2. /\ IsFiniteSet(Others)
          /\ Cardinality(Others) = IF holds[t] \in Conn THEN Cardinality(Conn) - 1
                                   ELSE Cardinality(Conn)
      BY <3>1, FS_RemoveElement
    <3>3. Cardinality(Others) = N - 1
      BY <2>1, <3>1, <3>2, Zenon
    <3> QED
      BY <3>2, <3>3
  <2>4. Len(pool) = N /\ DOMAIN pool = 1..N /\ pool \in [1..N -> Conn]
    BY DEF IInv, TypeOK, Full
  <2>5. \A i \in 1..N : pool[i] # holds[t]
    BY <2>1, <2>4 DEF IInv, OneHome, Pooled
  <2>6. pool \in [1..N -> Others]
    BY <2>4, <2>5
  <2>7. PICK i, j \in 1..N : i # j /\ pool[i] = pool[j]
    BY <2>2, <2>3, <2>6, FS_PigeonHole
  <2> QED
    BY <2>4, <2>7 DEF IInv, OneHome
<1> QED
  BY Invariant, <1>1, PTL

-----------------------------------------------------------------------------
(* The threads that have yet to look are finitely many.                    *)
LEMMA WokenIsFinite ==
    IsFiniteSet(Woken) /\ Cardinality(Woken) \in Nat
BY ThreadsAssumption, FS_Subset, FS_CardinalityType DEF Woken

(* A returned connection wakes a waiter, and a waiter that leaves takes a  *)
(* connection with it.                                                     *)
LEMMA NoLostWakeupStep ==
    IInv /\ NoLostWakeup /\ [Next]_vars => NoLostWakeup'
<1> SUFFICES ASSUME IInv, NoLostWakeup, [Next]_vars PROVE NoLostWakeup'
  OBVIOUS
<1> USE DEF TypeOK, Conn, None, Goto
<1>f. /\ IsFiniteSet(Woken) /\ Cardinality(Woken) \in Nat
      /\ IsFiniteSet(Woken') /\ Cardinality(Woken') \in Nat
  <2>1. IsFiniteSet(Woken) /\ Cardinality(Woken) \in Nat
    BY WokenIsFinite
  <2>2. IsFiniteSet(Woken')
    <3>1. Woken' \in SUBSET Threads
      BY DEF Woken
    <3> QED
      BY <3>1, ThreadsAssumption, FS_Subset
  <2>3. Cardinality(Woken') \in Nat
    BY <2>2, FS_CardinalityType
  <2> QED
    BY <2>1, <2>2, <2>3
<1>l. Len(pool) \in Nat
  BY DEF IInv
(* Steps that keep the buffer and do not take anyone out of Woken.         *)
<1>s. ASSUME pool' = pool, emptyCv' \subseteq emptyCv, Woken \subseteq Woken'
      PROVE  NoLostWakeup'
  <2>1. Cardinality(Woken) <= Cardinality(Woken')
    BY <1>f, <1>s, FS_Subset
  <2> QED
    BY <1>f, <1>l, <1>s, <2>1 DEF NoLostWakeup
<1>1. ASSUME NEW t \in Threads, Get(t) \/ Put(t) PROVE NoLostWakeup'
  BY <1>1, <1>s DEF IInv, Get, Put, Woken
<1>2. ASSUME NEW t \in Threads, GetWaits(t) PROVE NoLostWakeup'
  <2>1. Len(pool') = 0
    BY <1>2 DEF GetWaits
  <2> QED
    BY <1>f, <2>1 DEF NoLostWakeup
<1>3. ASSUME NEW t \in Threads, GetTakes(t) PROVE NoLostWakeup'
  <2>1. Len(pool') = Len(pool) - 1 /\ emptyCv' = emptyCv
    BY <1>3 DEF IInv, GetTakes, TakeFront
  <2>2. Woken' = Woken \ {t}
    BY <1>3 DEF IInv, GetTakes, Woken
  <2>3. Cardinality(Woken') >= Cardinality(Woken) - 1
    BY <1>f, <2>2, FS_RemoveElement
  <2> QED
    BY <1>f, <1>l, <2>1, <2>3 DEF NoLostWakeup
<1>4. ASSUME NEW t \in Threads, PutWithoutPool(t) PROVE NoLostWakeup'
  BY <1>4, <1>s DEF IInv, PutWithoutPool, Woken
<1>5. ASSUME NEW t \in Threads, PutBack(t) PROVE NoLostWakeup'
  <2>1. Len(pool') = Len(pool) + 1
    BY <1>5 DEF IInv, PutBack, GivenBack, HoldsInUse
  <2>2. CASE emptyCv = {}
    BY <1>5, <2>2 DEF PutBack, NotifyEmpty, NoLostWakeup
  <2>3. CASE emptyCv # {}
    <3>1. PICK u \in emptyCv : emptyCv' = emptyCv \ {u}
      BY <1>5, <2>3 DEF PutBack, NotifyEmpty
    <3>2. Woken' = Woken \cup {u} /\ u \notin Woken
      BY <1>5, <3>1 DEF IInv, PutBack, Woken
    <3>3. Cardinality(Woken') = Cardinality(Woken) + 1
      BY <1>f, <3>2, FS_AddElement
    <3> QED
      BY <1>f, <1>l, <2>1, <2>3, <3>3 DEF NoLostWakeup
  <2> QED
    BY <2>2, <2>3
<1>6. ASSUME NEW t \in Threads, SpuriousWakeup(t) PROVE NoLostWakeup'
  BY <1>6, <1>s DEF IInv, SpuriousWakeup, Woken
<1>7. CASE OwnerDrops
  BY <1>7, <1>s DEF OwnerDrops, Woken
<1>8. CASE DestroyPool
  <2>1. Len(pool') = 0
    BY <1>8 DEF DestroyPool
  <2> QED
    BY <1>f, <2>1 DEF NoLostWakeup
<1>9. CASE UNCHANGED vars
  BY <1>9, <1>s DEF vars, Woken
<1> QED
  BY <1>1, <1>2, <1>3, <1>4, <1>5, <1>6, <1>7, <1>8, <1>9
     DEF Next, GetStep, PutStep, Over

(* notify_one() loses no wakeup, however many threads wait and however     *)
(* often they are woken for nothing.                                       *)
THEOREM WakeupsNotLost == Spec => []NoLostWakeup
<1>1. Init => NoLostWakeup
  BY DEF Init, NoLostWakeup
<1> QED
  BY Invariant, <1>1, NoLostWakeupStep, PTL DEF Spec

-----------------------------------------------------------------------------
(* The pool implements ConnLease: initial states map to its initial        *)
(* states, and each step to one of its steps or to a stutter.              *)

Users(c) == {t \in Threads : holds[t] = c}
LeaseWhere == [c \in Conn |-> Where(c)]
LeaseBy == [c \in Conn |-> Users(c)]

(* All connections are in the pool and lent to nobody at first.            *)
LEMMA LeaseStarts == Init => Lease!Init
<1> SUFFICES ASSUME Init PROVE Lease!Init
  OBVIOUS
<1>1. DOMAIN pool = Conn /\ \A i \in Conn : pool[i] = i
  BY DEF Init, Conn
<1>2. Pooled = Conn /\ finished = {}
  BY <1>1 DEF Init, Pooled
<1>3. \A c \in Conn : Where(c) = "pool"
  BY <1>2 DEF Where
<1>4. \A c \in Conn : {t \in Threads : holds[t] = c} = {}
  BY DEF Init, Conn, None
<1> QED
  BY <1>3, <1>4 DEF Lease!Init

(* A step that moves one connection only.                                  *)
LEMMA OneMoves ==
    ASSUME NEW c \in Conn,
           \A d \in Conn \ {c} : Where(d)' = Where(d) /\ Users(d)' = Users(d)
    PROVE  /\ LeaseWhere' = [LeaseWhere EXCEPT ![c] = Where(c)']
           /\ LeaseBy' = [LeaseBy EXCEPT ![c] = Users(c)']
<1>1. LeaseWhere' = [d \in Conn |-> Where(d)'] /\ LeaseBy' = [d \in Conn |-> Users(d)']
  BY DEF LeaseWhere, LeaseBy
<1>2. LeaseWhere' = [LeaseWhere EXCEPT ![c] = Where(c)']
  BY <1>1 DEF LeaseWhere
<1>3. LeaseBy' = [LeaseBy EXCEPT ![c] = Users(c)']
  BY <1>1 DEF LeaseBy
<1> QED
  BY <1>2, <1>3

(* A step that moves none is a stutter.                                    *)
LEMMA LeaseStutters ==
    UNCHANGED <<pool, holds, finished>> => UNCHANGED <<LeaseWhere, LeaseBy>>
<1> SUFFICES ASSUME UNCHANGED <<pool, holds, finished>>
             PROVE  UNCHANGED <<LeaseWhere, LeaseBy>>
  OBVIOUS
<1>1. Pooled' = Pooled
  BY DEF Pooled
<1>2. \A c \in Conn : Where(c)' = Where(c) /\ Users(c)' = Users(c)
  BY <1>1 DEF Where, Users
<1> QED
  BY <1>2 DEF LeaseWhere, LeaseBy

(* The abstract actions in terms of the two mapped functions.              *)
LEMMA LeaseSteps ==
    ASSUME NEW c \in Conn
    PROVE  /\ \A t \in Threads :
                  /\ finished = {} /\ Where(c) = "pool"
                  /\ LeaseWhere' = [LeaseWhere EXCEPT ![c] = "lent"]
                  /\ LeaseBy' = [LeaseBy EXCEPT ![c] = {t}]
                  => Lease!Lend(c, t)
           /\ /\ finished = {} /\ Where(c) = "lent"
              /\ LeaseWhere' = [LeaseWhere EXCEPT ![c] = "pool"]
              /\ LeaseBy' = [LeaseBy EXCEPT ![c] = {}]
              => Lease!Return(c)
           /\ /\ Where(c) = "lent"
              /\ LeaseWhere' = [LeaseWhere EXCEPT ![c] = "closed"]
              /\ LeaseBy' = [LeaseBy EXCEPT ![c] = {}]
              => Lease!CloseLent(c)
<1>1. finished = {} => Lease!Open
  BY DEF Lease!Open, Where
<1> QED
  BY <1>1 DEF Lease!Lend, Lease!Return, Lease!CloseLent, LeaseWhere, LeaseBy, Users

(* getConn() lends, releaseConn() returns, the deleter closes what it      *)
(* cannot return and the destructor closes the rest.                       *)
LEMMA LeaseStep ==
    IInv /\ IInv' /\ [Next]_vars => [Lease!Next]_(Lease!vars)
<1> SUFFICES ASSUME IInv, IInv', [Next]_vars PROVE [Lease!Next]_(Lease!vars)
  OBVIOUS
<1> USE DEF Conn, None
<1>s. ASSUME UNCHANGED <<pool, holds, finished>> PROVE [Lease!Next]_(Lease!vars)
  <2>1. UNCHANGED <<LeaseWhere, LeaseBy>>
    BY <1>s, LeaseStutters
  <2> QED
    BY <2>1 DEF Lease!vars, LeaseWhere, LeaseBy, Users
<1>1. ASSUME NEW t \in Threads,
             Get(t) \/ GetWaits(t) \/ Put(t) \/ SpuriousWakeup(t)
      PROVE  [Lease!Next]_(Lease!vars)
  BY <1>1, <1>s DEF Get, GetWaits, Put, SpuriousWakeup
<1>2. ASSUME NEW t \in Threads, GetTakes(t) PROVE Lease!Next
  <2>1. pool \in Seq(Conn) /\ pool # <<>> /\ pool' = Tail(pool) /\ Distinct(pool)
    BY <1>2 DEF IInv, TypeOK, GetTakes, TakeFront, OneHome, Distinct
  <2>2. PICK c \in Conn : c = Head(pool)
    BY <2>1
  <2>3. c \in Elements(pool) /\ c \notin Elements(pool')
        /\ Elements(pool) = Elements(pool') \cup {c}
    BY <2>1, <2>2, TailElements
  <2>4. /\ holds' = [holds EXCEPT ![t] = c] /\ holds[t] = None
        /\ holds \in [Threads -> Conn \cup {None}]
    BY <1>2, <2>2 DEF IInv, TypeOK, GetTakes, HoldsInUse
  <2>5. finished = {} /\ finished' = {}
    BY <1>2 DEF IInv, GetTakes, OpenWhileExists, Exists, InPool
  <2>6. Pooled = Elements(pool) /\ Pooled' = Elements(pool')
    BY DEF Pooled, Elements
  <2>7. Where(c) = "pool" /\ Where(c)' = "lent"
    BY <2>3, <2>5, <2>6 DEF Where
  <2>8. Users(c)' = {t}
    <3>1. \A u \in Threads : holds[u] # c
      BY <2>2, <2>3, <2>6 DEF IInv, OneHome, Lent
    <3> QED
      BY <2>4, <3>1 DEF Users
  <2>9. \A d \in Conn \ {c} : Where(d)' = Where(d) /\ Users(d)' = Users(d)
    BY <2>3, <2>4, <2>5, <2>6 DEF Where, Users
  <2>10. Lease!Lend(c, t)
    BY <2>2, <2>5, <2>7, <2>8, <2>9, OneMoves, LeaseSteps
  <2> QED
    BY <2>2, <2>10 DEF Lease!Next
<1>3. ASSUME NEW t \in Threads, PutWithoutPool(t) PROVE Lease!Next
  <2>c. PICK c \in Conn : c = holds[t]
    BY <1>3 DEF IInv, TypeOK, PutWithoutPool, PutBack, HoldsInUse
  <2>1. /\ holds[t] = c /\ c \in Lent
        /\ holds' = [holds EXCEPT ![t] = None] /\ finished' = finished \cup {c}
        /\ pool' = pool /\ holds \in [Threads -> Conn \cup {None}]
    BY <1>3, <2>c DEF IInv, TypeOK, PutWithoutPool, PutFinishes, HoldsInUse, Lent
  <2>2. Pooled' = Pooled
    BY <2>1 DEF Pooled
  <2>3. Where(c) = "lent" /\ Where(c)' = "closed"
    BY <2>1 DEF IInv, OneHome, Where
  <2>4. Users(c)' = {}
    BY <2>1 DEF IInv, OneHome, Users
  <2>5. \A d \in Conn \ {c} : Where(d)' = Where(d) /\ Users(d)' = Users(d)
    BY <2>1, <2>2 DEF Where, Users
  <2>6. Lease!CloseLent(c)
    BY <2>1, <2>3, <2>4, <2>5, OneMoves, LeaseSteps
  <2> QED
    BY <2>1, <2>6 DEF Lease!Next
<1>4. ASSUME NEW t \in Threads, PutBack(t) PROVE Lease!Next
  <2>c. PICK c \in Conn : c = holds[t]
    BY <1>4 DEF IInv, TypeOK, PutWithoutPool, PutBack, HoldsInUse
  <2>1. /\ holds[t] = c /\ c \in Lent
        /\ holds' = [holds EXCEPT ![t] = None]
        /\ pool' = Append(pool, c) /\ pool \in Seq(Conn)
        /\ holds \in [Threads -> Conn \cup {None}]
    BY <1>4, <2>c DEF IInv, TypeOK, PutBack, GivenBack, HoldsInUse, Lent
  <2>2. finished = {} /\ finished' = {}
    BY <1>4 DEF IInv, PutBack, OpenWhileExists, Exists, InPool
  <2>3. Pooled' = Pooled \cup {c}
    <3>1. Elements(pool') = Elements(pool) \cup {c}
      BY <2>1, AppendElements
    <3> QED
      BY <3>1 DEF Pooled, Elements
  <2>4. Where(c) = "lent" /\ Where(c)' = "pool"
    BY <2>1, <2>2, <2>3 DEF IInv, OneHome, Where
  <2>5. Users(c)' = {}
    BY <2>1 DEF IInv, OneHome, Users
  <2>6. \A d \in Conn \ {c} : Where(d)' = Where(d) /\ Users(d)' = Users(d)
    BY <2>1, <2>2, <2>3 DEF Where, Users
  <2>7. Lease!Return(c)
    BY <2>1, <2>2, <2>4, <2>5, <2>6, OneMoves, LeaseSteps
  <2> QED
    BY <2>1, <2>7 DEF Lease!Next
<1>5. CASE DestroyPool
  <2>1. /\ Pooled' = {} /\ finished' = finished \cup Pooled
        /\ Pooled \cap finished = {} /\ holds' = holds
    BY <1>5 DEF DestroyPool, Pooled, IInv, OneHome
  <2>2. \A d \in Conn : Where(d)' = IF Where(d) = "pool" THEN "closed" ELSE Where(d)
    BY <2>1 DEF Where
  <2>3. \A d \in Conn : {u \in Threads : holds'[u] = d} = {u \in Threads : holds[u] = d}
    BY <2>1
  <2>4. Lease!ClosePool
    BY <2>2, <2>3 DEF Lease!ClosePool
  <2> QED
    BY <2>4 DEF Lease!Next
<1>6. CASE OwnerDrops
  BY <1>6, <1>s DEF OwnerDrops
<1>7. CASE UNCHANGED vars
  BY <1>7, <1>s DEF vars
<1> QED
  BY <1>1, <1>2, <1>3, <1>4, <1>5, <1>6, <1>7 DEF Next, GetStep, PutStep, Over

(* What getConn(), the deleter (DBConnectPool.cpp:39-46), releaseConn()    *)
(* and the destructor do together is what ConnLease allows.                *)
THEOREM PoolImplementsLease == Spec => ImplementsConnLease
BY Invariant, LeaseStarts, LeaseStep, PTL DEF Spec, ImplementsConnLease, Lease!Spec
=============================================================================
