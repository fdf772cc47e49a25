------------------------ MODULE ClientManager_proofs ------------------------
(***************************************************************************)
(* Proofs about ClientManager, for every number of threads, users and      *)
(* requests and every client_interface.                                    *)
(***************************************************************************)
EXTENDS ClientManager, TLAPS

(* Requests in progress have numbers of their own.                         *)
Received == \A t \in Threads : pc[t] # "idle" => req[t] \in 1..requests
OwnNumber ==
    \A t, u \in Threads :
        pc[t] # "idle" /\ pc[u] # "idle" /\ req[t] = req[u] => t = u

(* The client a login may create has not been registered before its insert *)
(* and nothing but the login holds it.                                     *)
Unregistered ==
    \A t \in Threads :
        pc[t] \in {"login", "again", "create", "insert"} => req[t] \notin was
NothingFound == \A t \in Threads : pc[t] = "create" => sc[t] = None

(* A client about to be inserted belongs to the login, init_user_info has  *)
(* succeeded and its timer runs, unless it has already expired.            *)
Inserting ==
    \A t \in Threads : pc[t] = "insert" =>
        /\ sc[t] = req[t] /\ sc[t] \in inited /\ clients[sc[t]].id = id[t]
        /\ now < clients[sc[t]].deadline => clients[sc[t]].waits > 0

(* UNKNOWN_ERROR is only the answer to the login whose own client was not  *)
(* inserted.                                                               *)
NoErrorYet ==
    \A t \in Threads :
        pc[t] \in {"login", "again", "create", "logic"} => code[t] = "SUCCEEDED"
OwnError ==
    \A t \in Threads : pc[t] = "respond" /\ code[t] = "UNKNOWN_ERROR" =>
        sc[t] \in {None, req[t]} /\ req[t] \notin was

ThreadInv ==
    /\ Received /\ OwnNumber /\ Unregistered /\ NothingFound /\ Inserting
    /\ NoErrorYet /\ OwnError /\ ReplyIsTrue

(* Whom a request finds in the table has been registered.                  *)
TableRegistered == \A i \in Ids : table[i] # None => table[i] \in was

IInv == TypeOK /\ ThreadInv /\ TableConsistent /\ TableRegistered /\ Armed

USE InitResultsAssumption, TimeAssumption, RequestsAssumption, IdsAssumption

(* A client object is one of Object, before and after start_timer().       *)
LEMMA ObjectTypes ==
    /\ Blank \in Object
    /\ \A i \in Ids : \A d \in Nat :
           StartTimer([id |-> i, deadline |-> d, waits |-> 0, queued |-> 0]) \in Object
    /\ \A o \in Object : StartTimer(o) \in Object
    /\ \A o \in Object : \A q, w \in Nat :
           [o EXCEPT !.queued = q, !.waits = w] \in Object
<1>1. \A o \in Object : StartTimer(o) \in Object
  BY DEF Object, StartTimer
<1>2. \A i \in Ids : \A d \in Nat :
          [id |-> i, deadline |-> d, waits |-> 0, queued |-> 0] \in Object
  BY DEF Object
<1>3. \A o \in Object : \A q, w \in Nat : [o EXCEPT !.queued = q, !.waits = w] \in Object
  BY DEF Object
<1>4. Blank \in Object
  BY <1>2 DEF Blank
<1> QED
  BY <1>1, <1>2, <1>3, <1>4

-----------------------------------------------------------------------------
(* Every step keeps the shape of the variables.                            *)
LEMMA TypeStep == IInv /\ [Next]_vars => TypeOK'
<1> SUFFICES ASSUME IInv, [Next]_vars PROVE TypeOK'
  OBVIOUS
<1> USE DEF TypeOK, thread, history, Client, None
<1>1. ASSUME NEW t \in Threads, Receive(t) PROVE TypeOK'
  <2>1. PICK i \in Ids : id' = [id EXCEPT ![t] = i]
    BY <1>1 DEF Receive
  <2>2. PICK where \in {"login", "logic", "respond"},
             ec \in {"SUCCEEDED", "JSON_PARSER_ERROR", "JSON_GETVALUE_EXCEPTION"} :
            Goto(t, where) /\ Answer(t, ec)
    BY <1>1 DEF Receive
  <2>3. /\ requests' = requests + 1 /\ requests < MaxRequests
        /\ req' = [req EXCEPT ![t] = requests + 1]
        /\ UNCHANGED <<now, table, clients, sc, reaper, history>>
    BY <1>1 DEF Receive
  <2>4. /\ requests' \in 0..MaxRequests /\ req' \in [Threads -> 0..requests']
        /\ 0..requests \subseteq 0..requests' /\ 1..requests \subseteq 1..requests'
    BY <2>3 DEF IInv
  <2>5. id' \in [Threads -> Ids]
    BY <2>1 DEF IInv
  <2>6. code' \in [Threads -> ErrorCode]
    BY <2>2 DEF IInv, Answer, ErrorCode
  <2>7. pc' \in [Threads -> {"idle", "login", "again", "create", "insert", "logic",
                             "work", "respond"}]
    BY <2>2 DEF IInv, Goto
  <2>8. /\ table' \in [Ids -> 0..requests'] /\ sc' \in [Threads -> 0..requests']
        /\ reaper' \in [Reapers -> 0..requests']
    BY <2>3, <2>4 DEF IInv
  <2> QED
    BY <2>3, <2>4, <2>5, <2>6, <2>7, <2>8 DEF IInv
<1>2. ASSUME NEW t \in Threads, LoginFind(t) PROVE TypeOK'
  BY <1>2 DEF IInv, LoginFind, Goto
<1>3. ASSUME NEW t \in Threads, FindAgain(t) PROVE TypeOK'
  BY <1>3 DEF IInv, FindAgain, Goto
<1>4. ASSUME NEW t \in Threads, LogicFind(t) PROVE TypeOK'
  BY <1>4 DEF IInv, LogicFind, Goto, Answer, ErrorCode
<1>5. ASSUME NEW t \in Threads, Create(t) PROVE TypeOK'
  <2>1. NewClient(t) \in Object
    <3>1. id[t] \in Ids /\ now + Lifetime \in Nat
      BY DEF IInv
    <3> QED
      BY <3>1, ObjectTypes DEF NewClient
  <2>2. clients' \in [Client -> Object]
    BY <1>5, <2>1 DEF IInv, Create
  <2>3. pc' \in [Threads -> {"idle", "login", "again", "create", "insert", "logic",
                             "work", "respond"}]
        /\ sc' \in [Threads -> 0..requests]
    <3>1. req[t] \in 0..requests /\ 0 \in 0..requests
      BY DEF IInv
    <3>2. PICK ec \in InitResults : KeepOrReset(t, ec)
      BY <1>5 DEF Create
    <3>3. PICK where \in {"insert", "respond"}, c \in 0..requests :
              Goto(t, where) /\ sc' = [sc EXCEPT ![t] = c]
      BY <3>1, <3>2 DEF KeepOrReset
    <3> QED
      BY <3>3 DEF IInv, Goto
  <2>4. code' \in [Threads -> ErrorCode]
    BY <1>5 DEF IInv, Create, Answer
  <2>5. inited' \subseteq 1..requests
    <3>1. req[t] \in 1..requests
      BY <1>5 DEF IInv, ThreadInv, Received, Create
    <3> QED
      BY <1>5, <3>1 DEF IInv, Create
  <2> QED
    BY <1>5, <2>2, <2>3, <2>4, <2>5 DEF IInv, Create
<1>6. ASSUME NEW t \in Threads, InsertClient(t) PROVE TypeOK'
  <2>1. sc[t] \in 1..requests
    BY <1>6 DEF IInv, ThreadInv, InsertClient, Inserting, Received
  <2> QED
    BY <1>6, <2>1 DEF IInv, InsertClient, Insert, Register, Goto, Answer, ErrorCode
<1>7. ASSUME NEW t \in Threads, DoSome(t) PROVE TypeOK'
  <2>1. clients' \in [Client -> Object]
    BY <1>7, ObjectTypes DEF IInv, DoSome
  <2> QED
    BY <1>7, <2>1 DEF IInv, DoSome, Goto, Answer, ErrorCode
<1>8. ASSUME NEW t \in Threads, Respond(t) PROVE TypeOK'
  <2>1. Blank.id \in Ids
    BY ObjectTypes DEF Object
  <2>2. code' \in [Threads -> ErrorCode]
    BY <1>8 DEF IInv, Respond, Answer, ErrorCode
  <2>3. req' \in [Threads -> 0..requests] /\ sc' \in [Threads -> 0..requests]
    BY <1>8 DEF IInv, Respond
  <2>4. id' \in [Threads -> Ids]
    BY <1>8, <2>1 DEF IInv, Respond
  <2>5. pc' \in [Threads -> {"idle", "login", "again", "create", "insert", "logic",
                             "work", "respond"}]
    BY <1>8 DEF IInv, Respond, Goto
  <2> QED
    BY <1>8, <2>2, <2>3, <2>4, <2>5 DEF IInv, Respond
<1>9. ASSUME NEW r \in Reapers, ClearClient(r) PROVE TypeOK'
  <2>1. table' \in [Ids -> 0..requests]
    <3>1. PICK i : table' = [table EXCEPT ![i] = 0]
      BY <1>9 DEF ClearClient, Erase
    <3>2. 0 \in 0..requests
      BY DEF IInv
    <3> QED
      BY <3>1, <3>2 DEF IInv
  <2>2. reaper' \in [Reapers -> 0..requests]
    BY <1>9 DEF IInv, ClearClient
  <2> QED
    BY <1>9, <2>1, <2>2 DEF IInv, ClearClient
<1>10. ASSUME NEW r \in Reapers, NEW c \in Client, HandlerLocks(r, c) PROVE TypeOK'
  <2>1. c \in 0..requests
    BY <1>10 DEF IInv, HandlerLocks, Alive
  <2>2. clients' \in [Client -> Object]
    <3>1. clients[c] \in Object /\ clients[c].queued - 1 \in Nat
      BY <1>10 DEF IInv, HandlerLocks, Queued, Object
    <3>2. [clients[c] EXCEPT !.queued = clients[c].queued - 1] \in Object
      BY <3>1 DEF Object
    <3>3. clients' = [clients EXCEPT ![c] = [clients[c] EXCEPT !.queued = clients[c].queued - 1]]
      BY <1>10 DEF HandlerLocks
    <3> QED
      BY <3>2, <3>3 DEF IInv
  <2> QED
    BY <1>10, <2>1, <2>2 DEF IInv, HandlerLocks
<1>11. ASSUME NEW c \in Client, Expire(c) PROVE TypeOK'
  <2>1. clients' \in [Client -> Object]
    <3>1. clients[c] \in Object
      BY DEF IInv
    <3>q. clients[c].queued + clients[c].waits \in Nat
      BY <3>1 DEF Object
    <3>2. [clients[c] EXCEPT !.queued = clients[c].queued + clients[c].waits, !.waits = 0]
             \in Object
      BY <3>1, <3>q, ObjectTypes
    <3>3. clients' = [clients EXCEPT ![c] =
              [clients[c] EXCEPT !.queued = clients[c].queued + clients[c].waits, !.waits = 0]]
      BY <1>11 DEF IInv, Expire
    <3> QED
      BY <3>2, <3>3 DEF IInv
  <2> QED
    BY <1>11, <2>1 DEF IInv, Expire
<1>12. ASSUME NEW c \in Client, Destroyed(c) PROVE TypeOK'
  <2>1. clients' \in [Client -> Object]
    <3>1. clients' = [clients EXCEPT ![c] = [clients[c] EXCEPT !.queued = 0, !.waits = 0]]
      BY <1>12 DEF IInv, Destroyed, Object
    <3>2. clients[c] \in Object
      BY DEF IInv
    <3>3. [clients[c] EXCEPT !.queued = 0, !.waits = 0] \in Object
      BY <3>2, ObjectTypes
    <3> QED
      BY <3>1, <3>3 DEF IInv
  <2> QED
    BY <1>12, <2>1 DEF IInv, Destroyed
<1>13. CASE Tick
  BY <1>13 DEF IInv, Tick
<1>14. CASE UNCHANGED vars
  BY <1>14 DEF IInv, vars
<1> QED
  BY <1>1, <1>2, <1>3, <1>4, <1>5, <1>6, <1>7, <1>8, <1>9, <1>10, <1>11, <1>12,
     <1>13, <1>14 DEF Next, Request, Handler, Over

-----------------------------------------------------------------------------
(* Every step keeps what is said of the threads.                           *)
LEMMA ThreadStep == IInv /\ [Next]_vars => ThreadInv'
<1> SUFFICES ASSUME IInv, [Next]_vars PROVE ThreadInv'
  OBVIOUS
<1> USE DEF TypeOK, thread, history, Client, None, Goto, Answer
(* The step keeps Inserting if what it changes of a client to be inserted  *)
(* leaves it a timer that runs.                                            *)
<1>i. ASSUME UNCHANGED <<req, id, sc, inited>>, now' \in Nat, now' >= now,
             \A u \in Threads : pc'[u] = "insert" =>
                 /\ pc[u] = "insert"
                 /\ clients'[sc[u]].id = clients[sc[u]].id
                 /\ clients'[sc[u]].deadline = clients[sc[u]].deadline
                 /\ \/ clients'[sc[u]].waits >= clients[sc[u]].waits
                    \/ now >= clients[sc[u]].deadline
      PROVE  Inserting'
  <2> SUFFICES ASSUME NEW u \in Threads, pc'[u] = "insert"
               PROVE  /\ sc[u] = req[u] /\ sc[u] \in inited /\ clients'[sc[u]].id = id[u]
                      /\ now' < clients'[sc[u]].deadline => clients'[sc[u]].waits > 0
    BY <1>i DEF Inserting
  <2>1. /\ sc[u] = req[u] /\ sc[u] \in inited
        /\ sc[u] \in Client /\ clients[sc[u]] \in Object
    BY <1>i DEF IInv, ThreadInv, Inserting, Received
  <2>2. clients'[sc[u]] \in Object
    BY <2>1, TypeStep
  <2>3. /\ clients[sc[u]].waits \in Nat /\ clients'[sc[u]].waits \in Nat
        /\ clients[sc[u]].deadline \in Nat
    BY <2>1, <2>2 DEF Object
  <2>4. pc[u] = "insert" /\ clients'[sc[u]].id = id[u]
    BY <1>i DEF IInv, ThreadInv, Inserting
  <2>5. now < clients[sc[u]].deadline => clients[sc[u]].waits > 0
    BY <2>4 DEF IInv, ThreadInv, Inserting
  <2>6. now' < clients'[sc[u]].deadline => clients'[sc[u]].waits > 0
    <3>1. now \in Nat /\ now' \in Nat /\ now' >= now
      BY <1>i DEF IInv
    <3>2. /\ clients'[sc[u]].deadline = clients[sc[u]].deadline
          /\ \/ clients'[sc[u]].waits >= clients[sc[u]].waits
             \/ now >= clients[sc[u]].deadline
      BY <1>i
    <3> HIDE DEF TypeOK
    <3> QED
      BY <2>3, <2>5, <3>1, <3>2
  <2> QED
    BY <2>1, <2>4, <2>6
<1>c. \A u \in Threads : pc[u] = "insert" =>
          sc[u] \in Client /\ clients[sc[u]] \in Object
  BY DEF IInv, ThreadInv, Inserting, Received
<1>1. ASSUME NEW t \in Threads, Receive(t) PROVE ThreadInv'
  <2>0. /\ pc[t] = "idle" /\ requests' = requests + 1
        /\ req' = [req EXCEPT ![t] = requests + 1]
        /\ \E where \in {"login", "logic", "respond"} : pc' = [pc EXCEPT ![t] = where]
        /\ UNCHANGED <<now, clients, sc, was>>
    BY <1>1 DEF Receive
  <2>1. Received' /\ OwnNumber'
    <3>1. \A u \in Threads : u # t =>
              /\ req'[u] = req[u] /\ req[u] # requests + 1 /\ pc'[u] = pc[u]
              /\ pc[u] # "idle" => req[u] \in 1..requests'
      BY <2>0 DEF IInv, ThreadInv, Received
    <3>2. req'[t] = requests + 1 /\ requests + 1 \in 1..requests'
      BY <2>0 DEF IInv
    <3>3. Received'
      BY <3>1, <3>2 DEF Received
    <3>4. OwnNumber'
      BY <3>1, <3>2 DEF IInv, ThreadInv, OwnNumber
    <3> QED
      BY <3>3, <3>4
  <2>2. Unregistered' /\ NothingFound'
    BY <1>1, SMTT(30) DEF IInv, ThreadInv, Unregistered, NothingFound, Receive
  <2>3. Inserting'
    BY <1>1 DEF IInv, ThreadInv, Inserting, Receive
  <2>4. NoErrorYet' /\ OwnError'
    BY <1>1 DEF IInv, ThreadInv, NoErrorYet, OwnError, Receive
  <2>5. ReplyIsTrue'
    BY <1>1 DEF IInv, ThreadInv, ReplyIsTrue, NoErrorYet, Receive
  <2> QED
    BY <2>1, <2>2, <2>3, <2>4, <2>5 DEF ThreadInv
<1>2. ASSUME NEW t \in Threads, LoginFind(t) PROVE ThreadInv'
  <2>1. Received' /\ OwnNumber'
    BY <1>2 DEF IInv, ThreadInv, Received, OwnNumber, LoginFind
  <2>2. Unregistered' /\ NothingFound'
    BY <1>2 DEF IInv, ThreadInv, Unregistered, NothingFound, LoginFind, Found
  <2>3. Inserting'
    BY <1>2 DEF IInv, ThreadInv, Inserting, LoginFind
  <2>4. NoErrorYet' /\ OwnError'
    BY <1>2 DEF IInv, ThreadInv, NoErrorYet, OwnError, LoginFind
  <2>5. ReplyIsTrue'
    BY <1>2 DEF IInv, ThreadInv, ReplyIsTrue, NoErrorYet, LoginFind, Found, TableRegistered
  <2> QED
    BY <2>1, <2>2, <2>3, <2>4, <2>5 DEF ThreadInv
<1>3. ASSUME NEW t \in Threads, FindAgain(t) PROVE ThreadInv'
  <2>1. Received' /\ OwnNumber'
    BY <1>3 DEF IInv, ThreadInv, Received, OwnNumber, FindAgain
  <2>2. Unregistered' /\ NothingFound'
    BY <1>3 DEF IInv, ThreadInv, Unregistered, NothingFound, FindAgain, Found
  <2>3. Inserting'
    BY <1>3 DEF IInv, ThreadInv, Inserting, FindAgain
  <2>4. NoErrorYet' /\ OwnError'
    BY <1>3 DEF IInv, ThreadInv, NoErrorYet, OwnError, FindAgain
  <2>5. ReplyIsTrue'
    BY <1>3 DEF IInv, ThreadInv, ReplyIsTrue, NoErrorYet, FindAgain, Found, TableRegistered
  <2> QED
    BY <2>1, <2>2, <2>3, <2>4, <2>5 DEF ThreadInv
<1>4. ASSUME NEW t \in Threads, LogicFind(t) PROVE ThreadInv'
  <2>1. Received' /\ OwnNumber'
    BY <1>4 DEF IInv, ThreadInv, Received, OwnNumber, LogicFind
  <2>2. Unregistered' /\ NothingFound'
    BY <1>4 DEF IInv, ThreadInv, Unregistered, NothingFound, LogicFind, Found
  <2>3. Inserting'
    BY <1>4 DEF IInv, ThreadInv, Inserting, LogicFind
  <2>4. NoErrorYet' /\ OwnError'
    BY <1>4 DEF IInv, ThreadInv, NoErrorYet, OwnError, LogicFind
  <2>5. ReplyIsTrue'
    BY <1>4 DEF IInv, ThreadInv, ReplyIsTrue, NoErrorYet, LogicFind, Found, TableRegistered
  <2> QED
    BY <2>1, <2>2, <2>3, <2>4, <2>5 DEF ThreadInv
<1>5. ASSUME NEW t \in Threads, Create(t) PROVE ThreadInv'
  <2>0. /\ pc[t] = "create" /\ req[t] \in 1..requests /\ req[t] \in Client
        /\ clients' = [clients EXCEPT ![req[t]] = NewClient(t)]
        /\ UNCHANGED <<now, requests, table, req, id, reaper, was, late>>
    BY <1>5 DEF IInv, ThreadInv, Received, Create
  <2>a. PICK ec \in InitResults :
            /\ code' = [code EXCEPT ![t] = ec]
            /\ inited' = IF ec = "SUCCEEDED" THEN inited \cup {req[t]} ELSE inited
            /\ \/ /\ ec = "SUCCEEDED" /\ pc' = [pc EXCEPT ![t] = "insert"]
                  /\ sc' = [sc EXCEPT ![t] = req[t]]
               \/ /\ ec # "SUCCEEDED" /\ pc' = [pc EXCEPT ![t] = "respond"]
                  /\ sc' = [sc EXCEPT ![t] = None]
    BY <1>5 DEF Create, KeepOrReset
  <2>1. Received' /\ OwnNumber'
    BY <2>0, <2>a DEF IInv, ThreadInv, Received, OwnNumber
  <2>2. Unregistered' /\ NothingFound'
    BY <2>0, <2>a DEF IInv, ThreadInv, Unregistered, NothingFound
  <2>3. Inserting'
    <3> SUFFICES ASSUME NEW u \in Threads, pc'[u] = "insert"
                 PROVE  /\ sc'[u] = req[u] /\ sc'[u] \in inited'
                        /\ clients'[sc'[u]].id = id[u]
                        /\ now < clients'[sc'[u]].deadline => clients'[sc'[u]].waits > 0
      BY <2>0 DEF Inserting
    <3>1. CASE u = t
      BY <2>0, <2>a, <3>1 DEF IInv, NewClient, StartTimer
    <3>2. CASE u # t
      <4>1. pc[u] = "insert" /\ sc'[u] = sc[u]
        BY <2>a, <3>2 DEF IInv
      <4>2. sc[u] = req[u] /\ req[u] # req[t]
        BY <2>0, <3>2, <4>1 DEF IInv, ThreadInv, Inserting, OwnNumber
      <4>3. clients'[sc[u]] = clients[sc[u]]
        BY <2>0, <4>2 DEF IInv
      <4> QED
        BY <2>a, <4>1, <4>2, <4>3 DEF IInv, ThreadInv, Inserting
    <3> QED
      BY <3>1, <3>2
  <2>4. NoErrorYet' /\ OwnError'
    BY <2>0, <2>a, SMTT(30)
       DEF IInv, ThreadInv, NoErrorYet, OwnError, NothingFound, Unregistered
  <2>5. ReplyIsTrue'
    BY <2>0, <2>a DEF IInv, ThreadInv, ReplyIsTrue, NothingFound
  <2> QED
    BY <2>1, <2>2, <2>3, <2>4, <2>5 DEF ThreadInv
<1>6. ASSUME NEW t \in Threads, InsertClient(t) PROVE ThreadInv'
  <2>0. /\ pc[t] = "insert" /\ sc[t] = req[t] /\ req[t] \in 1..requests
        /\ pc' = [pc EXCEPT ![t] = "respond"]
        /\ \/ code' = [code EXCEPT ![t] = "UNKNOWN_ERROR"] /\ was' = was
           \/ code' = [code EXCEPT ![t] = "SUCCEEDED"] /\ was' = was \cup {req[t]}
        /\ UNCHANGED <<now, requests, clients, req, id, sc, inited>>
    BY <1>6 DEF IInv, ThreadInv, Received, Inserting, InsertClient, Insert, Register
  <2>1. Received' /\ OwnNumber'
    BY <2>0 DEF IInv, ThreadInv, Received, OwnNumber
  <2>2. Unregistered' /\ NothingFound'
    BY <2>0 DEF IInv, ThreadInv, Unregistered, NothingFound, OwnNumber
  <2>3. Inserting'
    BY <2>0 DEF IInv, ThreadInv, Inserting
  <2>4. NoErrorYet' /\ OwnError'
    BY <2>0 DEF IInv, ThreadInv, NoErrorYet, OwnError, OwnNumber, Unregistered
  <2>5. ReplyIsTrue'
    <3>1. ReplyIsTrue /\ was \subseteq 1..requests
      BY DEF IInv, ThreadInv
    <3> SUFFICES ASSUME NEW u \in Threads, pc'[u] = "respond"
                 PROVE  /\ code'[u] = "SUCCEEDED" => sc[u] \in was'
                        /\ code'[u] = "UNKNOWN_ERROR" => sc[u] \notin was'
      BY <2>0 DEF ReplyIsTrue
    <3>2. CASE u = t
      BY <2>0, <3>2 DEF IInv, ThreadInv, Unregistered
    <3>3. CASE u # t
      <4>a. pc[u] = "respond" /\ code'[u] = code[u] /\ req[t] # 0
        BY <2>0, <3>3 DEF IInv
      <4>b. req[u] # req[t]
        BY <2>0, <3>3, <4>a DEF IInv, ThreadInv, OwnNumber
      <4>1. pc[u] = "respond" /\ code'[u] = code[u] /\ req[u] # req[t] /\ req[t] # 0
        BY <4>a, <4>b
      <4>2. code[u] = "UNKNOWN_ERROR" => sc[u] # req[t]
        BY <4>1 DEF IInv, ThreadInv, OwnError
      <4> QED
        BY <2>0, <3>1, <4>1, <4>2 DEF ReplyIsTrue
    <3> QED
      BY <3>2, <3>3
  <2> QED
    BY <2>1, <2>2, <2>3, <2>4, <2>5 DEF ThreadInv
<1>7. ASSUME NEW t \in Threads, DoSome(t) PROVE ThreadInv'
  <2>1. Received' /\ OwnNumber'
    BY <1>7 DEF IInv, ThreadInv, Received, OwnNumber, DoSome
  <2>2. Unregistered' /\ NothingFound'
    BY <1>7 DEF IInv, ThreadInv, Unregistered, NothingFound, DoSome
  <2>3. Inserting'
    BY <1>7, <1>i, <1>c, SMTT(30) DEF IInv, DoSome, StartTimer, Object
  <2>4. NoErrorYet' /\ OwnError'
    BY <1>7 DEF IInv, ThreadInv, NoErrorYet, OwnError, DoSome
  <2>5. ReplyIsTrue'
    BY <1>7 DEF IInv, ThreadInv, ReplyIsTrue, NoErrorYet, DoSome
  <2> QED
    BY <2>1, <2>2, <2>3, <2>4, <2>5 DEF ThreadInv
<1>8. ASSUME NEW t \in Threads, Respond(t) PROVE ThreadInv'
  <2>1. Received' /\ OwnNumber'
    BY <1>8 DEF IInv, ThreadInv, Received, OwnNumber, Respond
  <2>2. Unregistered' /\ NothingFound'
    BY <1>8 DEF IInv, ThreadInv, Unregistered, NothingFound, Respond
  <2>3. Inserting'
    BY <1>8 DEF IInv, ThreadInv, Inserting, Respond
  <2>4. NoErrorYet' /\ OwnError'
    BY <1>8 DEF IInv, ThreadInv, NoErrorYet, OwnError, Respond
  <2>5. ReplyIsTrue'
    BY <1>8 DEF IInv, ThreadInv, ReplyIsTrue, NoErrorYet, Respond
  <2> QED
    BY <2>1, <2>2, <2>3, <2>4, <2>5 DEF ThreadInv
(* The other steps leave the threads alone, and do not stop the timer of a *)
(* client that a login is about to insert.                                 *)
<1>s. ASSUME UNCHANGED <<thread, requests, was>>, Inserting' PROVE ThreadInv'
  BY <1>s DEF IInv, ThreadInv, Received, OwnNumber, Unregistered, NothingFound,
     NoErrorYet, OwnError, ReplyIsTrue
<1>9. ASSUME NEW r \in Reapers, ClearClient(r) PROVE ThreadInv'
  BY <1>9, <1>s DEF IInv, ThreadInv, Inserting, ClearClient
<1>10. ASSUME NEW r \in Reapers, NEW c \in Client, HandlerLocks(r, c) PROVE ThreadInv'
  <2>1. Inserting'
    BY <1>10 DEF IInv, ThreadInv, Inserting, HandlerLocks, Object
  <2> QED
    BY <1>10, <1>s, <2>1 DEF HandlerLocks
<1>11. ASSUME NEW c \in Client, Expire(c) PROVE ThreadInv'
  <2>1. Inserting'
    <3>1. /\ now >= clients[c].deadline /\ clients[c].deadline \in Nat
          /\ UNCHANGED <<now, pc, req, id, sc, inited>>
      BY <1>11 DEF IInv, Expire, Object
    <3>2. \A k \in Client :
              /\ clients'[k].id = clients[k].id /\ clients'[k].deadline = clients[k].deadline
              /\ k # c => clients'[k] = clients[k]
      BY <1>11 DEF IInv, Expire, Object
    <3>3. \A u \in Threads : pc[u] = "insert" => clients[sc[u]].waits \in Nat
      BY <1>c DEF Object
    <3>4. \A u \in Threads : pc[u] = "insert" =>
              \/ clients'[sc[u]].waits >= clients[sc[u]].waits
              \/ now >= clients[sc[u]].deadline
      BY <1>c, <3>1, <3>2, <3>3
    <3>5. \A u \in Threads : pc[u] = "insert" =>
              /\ clients'[sc[u]].id = clients[sc[u]].id
              /\ clients'[sc[u]].deadline = clients[sc[u]].deadline
      BY <1>c, <3>2
    <3>6. now' \in Nat /\ now' >= now
      BY <3>1 DEF IInv
    <3> QED
      BY <1>i, <3>1, <3>4, <3>5, <3>6
  <2> QED
    BY <1>11, <1>s, <2>1 DEF Expire
<1>12. ASSUME NEW c \in Client, Destroyed(c) PROVE ThreadInv'
  <2>1. Inserting'
    <3>1. \A u \in Threads : pc[u] = "insert" => sc[u] # c
      BY <1>12 DEF Destroyed, Alive
    <3>2. \A u \in Threads : pc[u] = "insert" => clients'[sc[u]] = clients[sc[u]]
      BY <1>12, <1>c, <3>1 DEF IInv, Destroyed
    <3>3. UNCHANGED <<now, pc, req, id, sc, inited>>
      BY <1>12 DEF Destroyed
    <3>4. \A u \in Threads : pc[u] = "insert" => clients[sc[u]].waits \in Nat
      BY <1>c DEF Object
    <3> QED
      BY <1>i, <3>2, <3>3, <3>4 DEF IInv
  <2> QED
    BY <1>12, <1>s, <2>1 DEF Destroyed
<1>13. CASE Tick
  <2>1. Inserting'
    BY <1>13, <1>i, <1>c DEF IInv, Tick, Object
  <2> QED
    BY <1>13, <1>s, <2>1 DEF Tick
<1>14. CASE UNCHANGED vars
  BY <1>14, <1>s DEF IInv, ThreadInv, Inserting, vars
<1> QED
  BY <1>1, <1>2, <1>3, <1>4, <1>5, <1>6, <1>7, <1>8, <1>9, <1>10, <1>11, <1>12,
     <1>13, <1>14 DEF Next, Request, Handler, Over

-----------------------------------------------------------------------------
(* A client whose timer will still erase it, or is about to.               *)
Covered(c) ==
    \/ clients[c].waits + clients[c].queued > 0
    \/ \E r \in Reapers : reaper[r] = c

TableInv == TableConsistent /\ TableRegistered /\ Armed

(* Every step keeps what is said of the table.                             *)
LEMMA TableStep == IInv /\ [Next]_vars => TableInv'
<1> SUFFICES ASSUME IInv, [Next]_vars PROVE TableInv'
  OBVIOUS
<1> USE DEF TypeOK, thread, history, Client, None
<1>c. /\ \A i \in Ids : table[i] # None =>
             /\ table[i] \in Client /\ clients[table[i]].id = i
             /\ table[i] \in was /\ table[i] \in inited
      /\ \A c \in Client : clients[c] \in Object
                        /\ clients[c].waits \in Nat /\ clients[c].queued \in Nat
  <2>1. \A c \in Client : clients[c] \in Object
    BY DEF IInv
  <2>2. \A o \in Object : o.waits \in Nat /\ o.queued \in Nat
    BY DEF Object
  <2>3. \A i \in Ids : table[i] # None =>
            /\ table[i] \in Client /\ clients[table[i]].id = i
            /\ table[i] \in was /\ table[i] \in inited
    <3> SUFFICES ASSUME NEW i \in Ids, table[i] # None
                 PROVE  /\ table[i] \in Client /\ clients[table[i]].id = i
                        /\ table[i] \in was /\ table[i] \in inited
      OBVIOUS
    <3>1. table[i] \in 0..requests /\ requests \in 0..MaxRequests
      BY DEF IInv
    <3>2. table[i] \in was /\ table[i] \in inited /\ clients[table[i]].id = i
      BY DEF IInv, TableConsistent, TableRegistered
    <3>3. table[i] \in Client
      BY <3>1
    <3> QED
      BY <3>2, <3>3
  <2> QED
    BY <2>1, <2>2, <2>3
<1>k. ASSUME inited \subseteq inited', was \subseteq was', late \subseteq late',
             \A i \in Ids : table'[i] # None => table'[i] = table[i],
             \A c \in Client : \A i \in Ids : table'[i] = c =>
                 clients'[c].id = clients[c].id /\ (Covered(c) => Covered(c)')
      PROVE  TableInv'
  <2>1. TableConsistent' /\ TableRegistered'
    BY <1>k, <1>c DEF TableConsistent, TableRegistered
  <2>2. Armed'
    <3> SUFFICES ASSUME NEW i \in Ids, table'[i] # None, table'[i] \notin late'
                 PROVE  \E c \in Client : table'[i] = c /\ Covered(c)'
      BY DEF Armed, Covered
    <3>1. table'[i] = table[i] /\ table[i] \in Client
      BY <1>k, <1>c
    <3>2. PICK c \in Client : c = table[i]
      BY <3>1
    <3>3. Covered(c)
      BY <1>k, <3>1, <3>2 DEF IInv, Armed, Covered
    <3> QED
      BY <1>k, <3>1, <3>2, <3>3
  <2> QED
    BY <2>1, <2>2 DEF TableInv
<1>u. ASSUME UNCHANGED <<table, clients, reaper, inited, was, late>>
      PROVE  TableInv'
  BY <1>u DEF IInv, TableInv, TableConsistent, TableRegistered, Armed
<1>1. ASSUME NEW t \in Threads,
             Receive(t) \/ LoginFind(t) \/ FindAgain(t) \/ LogicFind(t) \/ Respond(t)
      PROVE  TableInv'
  BY <1>1, <1>u DEF Receive, LoginFind, FindAgain, LogicFind, Respond
<1>2. ASSUME NEW t \in Threads, Create(t) PROVE TableInv'
  <2>1. req[t] \notin was
    BY <1>2 DEF IInv, ThreadInv, Unregistered, Create
  <2>2. /\ clients' = [clients EXCEPT ![req[t]] = NewClient(t)]
        /\ UNCHANGED <<table, reaper, was, late>>
    BY <1>2 DEF Create
  <2>i. inited \subseteq inited'
    BY <1>2 DEF Create
  <2>3. \A c \in Client : \A i \in Ids : table'[i] = c => clients'[c] = clients[c]
    BY <1>c, <2>1, <2>2 DEF IInv
  <2> QED
    BY <1>k, <2>2, <2>i, <2>3 DEF Covered
<1>3. ASSUME NEW t \in Threads, InsertClient(t) PROVE TableInv'
  <2>1. CASE Found(t)
    BY <1>3, <1>u, <2>1 DEF InsertClient, Insert
  <2>2. CASE ~Found(t)
    <3>1. /\ table' = [table EXCEPT ![id[t]] = sc[t]] /\ was' = was \cup {sc[t]}
          /\ late' = IF now >= clients[sc[t]].deadline THEN late \cup {sc[t]} ELSE late
          /\ UNCHANGED <<now, clients, reaper, inited>>
      BY <1>3, <2>2 DEF InsertClient, Insert, Register
    <3>2. /\ sc[t] \in Client /\ sc[t] \in inited /\ clients[sc[t]].id = id[t]
          /\ now < clients[sc[t]].deadline => clients[sc[t]].waits > 0
      BY <1>3 DEF IInv, ThreadInv, Received, Inserting, InsertClient
    <3>3. table'[id[t]] = sc[t] /\ \A i \in Ids : i # id[t] => table'[i] = table[i]
      BY <3>1 DEF IInv
    <3>4. TableConsistent' /\ TableRegistered'
      BY <1>c, <3>1, <3>2, <3>3 DEF TableConsistent, TableRegistered
    <3>5. Armed'
      <4> SUFFICES ASSUME NEW i \in Ids, table'[i] # None, table'[i] \notin late'
                   PROVE  \/ clients[table'[i]].waits + clients[table'[i]].queued > 0
                          \/ \E r \in Reapers : reaper[r] = table'[i]
        BY <3>1 DEF Armed
      <4>1. CASE i = id[t]
        <5>1. clients[sc[t]].deadline \in Nat
          BY <1>c, <3>2 DEF Object
        <5>2. now < clients[sc[t]].deadline
          BY <3>1, <3>3, <4>1, <5>1 DEF IInv
        <5> QED
          BY <1>c, <3>2, <3>3, <4>1, <5>2
      <4>2. CASE i # id[t]
        BY <3>1, <3>3, <4>2 DEF IInv, Armed
      <4> QED
        BY <4>1, <4>2
    <3> QED
      BY <3>4, <3>5 DEF TableInv
  <2> QED
    BY <2>1, <2>2
<1>4. ASSUME NEW t \in Threads, DoSome(t) PROVE TableInv'
  <2>1. /\ clients' = [clients EXCEPT ![sc[t]] = StartTimer(clients[sc[t]])]
        /\ UNCHANGED <<table, reaper, history>>
    BY <1>4 DEF DoSome
  <2>2. \A c \in Client :
            /\ clients'[c].id = clients[c].id /\ clients'[c].queued = clients[c].queued
            /\ clients'[c].waits \in {clients[c].waits, clients[c].waits + 1}
    BY <1>c, <2>1, SMTT(30) DEF IInv, StartTimer, Object
  <2>3. \A c \in Client : Covered(c) => Covered(c)'
    BY <1>c, <2>1, <2>2 DEF Covered
  <2> QED
    BY <1>k, <2>1, <2>2, <2>3
<1>5. ASSUME NEW r \in Reapers, ClearClient(r) PROVE TableInv'
  <2>1. PICK d \in 1..requests : d = reaper[r]
    BY <1>5 DEF IInv, ClearClient
  <2>2. /\ table' = [table EXCEPT ![clients[d].id] = None]
        /\ reaper' = [reaper EXCEPT ![r] = None]
        /\ UNCHANGED <<clients, history>>
    BY <1>5, <2>1 DEF ClearClient, Erase
  <2>3. \A i \in Ids : table'[i] # None => table'[i] = table[i] /\ table[i] # d
    BY <1>c, <2>2 DEF IInv
  <2>4. \A c \in Client : c # d => (Covered(c) => Covered(c)')
    BY <2>1, <2>2 DEF IInv, Covered
  <2> QED
    BY <1>k, <2>2, <2>3, <2>4
<1>6. ASSUME NEW r \in Reapers, NEW d \in Client, HandlerLocks(r, d)
      PROVE  TableInv'
  <2>1. /\ clients' = [clients EXCEPT ![d].queued = clients[d].queued - 1]
        /\ reaper[r] = None /\ reaper' = [reaper EXCEPT ![r] = d]
        /\ UNCHANGED <<table, history>>
    BY <1>6 DEF HandlerLocks
  <2>2. \A c \in Client : clients'[c].id = clients[c].id /\ (c # d => clients'[c] = clients[c])
    BY <1>c, <2>1 DEF IInv, Object
  <2>3. Covered(d)'
    BY <2>1 DEF IInv, Covered
  <2>4. \A c \in Client : c # d => (Covered(c) => Covered(c)')
    BY <2>1, <2>2 DEF IInv, Covered
  <2> QED
    BY <1>k, <2>1, <2>2, <2>3, <2>4
<1>7. ASSUME NEW d \in Client, Expire(d) PROVE TableInv'
  <2>1. /\ clients' = [clients EXCEPT ![d].queued = clients[d].queued + clients[d].waits,
                                      ![d].waits = 0]
        /\ UNCHANGED <<table, reaper, history>>
    BY <1>7 DEF IInv, Expire
  <2>2. \A c \in Client :
            /\ clients'[c].id = clients[c].id
            /\ clients'[c].waits + clients'[c].queued = clients[c].waits + clients[c].queued
    <3> SUFFICES ASSUME NEW c \in Client
                 PROVE  /\ clients'[c].id = clients[c].id
                        /\ clients'[c].waits + clients'[c].queued
                              = clients[c].waits + clients[c].queued
      OBVIOUS
    <3>1. CASE c # d
      <4>1. clients'[c] = clients[c]
        BY <2>1, <3>1 DEF IInv
      <4> QED
        BY <4>1
    <3>2. CASE c = d
      <4>1. clients'[d] = [clients[d] EXCEPT
                !.queued = clients[d].queued + clients[d].waits, !.waits = 0]
        BY <2>1 DEF IInv
      <4>2. /\ clients'[d].id = clients[d].id /\ clients'[d].waits = 0
            /\ clients'[d].queued = clients[d].queued + clients[d].waits
        BY <1>c, <4>1 DEF Object
      <4> QED
        BY <1>c, <3>2, <4>2
    <3> QED
      BY <3>1, <3>2
  <2> QED
    BY <1>k, <2>1, <2>2 DEF Covered
<1>8. ASSUME NEW d \in Client, Destroyed(d) PROVE TableInv'
  <2>1. UNCHANGED <<table, reaper, history>> /\ \A i \in Ids : table[i] # d
    BY <1>8 DEF Destroyed, Alive
  <2>2. \A c \in Client : c # d => clients'[c] = clients[c]
    BY <1>8 DEF IInv, Destroyed
  <2> QED
    BY <1>k, <2>1, <2>2 DEF Covered
<1>9. CASE Tick
  BY <1>9, <1>u DEF Tick
<1>10. CASE UNCHANGED vars
  BY <1>10, <1>u DEF vars
<1> QED
  BY <1>1, <1>2, <1>3, <1>4, <1>5, <1>6, <1>7, <1>8, <1>9, <1>10
     DEF Next, Request, Handler, Over

-----------------------------------------------------------------------------
(* There is nothing at first.                                              *)
LEMMA StartsEmpty == Init => IInv
<1> SUFFICES ASSUME Init PROVE IInv
  OBVIOUS
<1>1. Blank \in Object /\ Blank.id \in Ids
  BY ObjectTypes DEF Object
<1>2. TypeOK
  BY <1>1 DEF Init, TypeOK, Client, None, ErrorCode
<1>3. ThreadInv
  BY DEF Init, ThreadInv, Received, OwnNumber, Unregistered, NothingFound, Inserting,
     NoErrorYet, OwnError, ReplyIsTrue
<1>4. TableConsistent /\ TableRegistered /\ Armed
  BY DEF Init, TableConsistent, TableRegistered, Armed
<1> QED
  BY <1>2, <1>3, <1>4 DEF IInv

(* The inductive invariant holds.                                          *)
LEMMA Invariant == Spec => []IInv
<1>1. IInv /\ [Next]_vars => IInv'
  BY TypeStep, ThreadStep, TableStep DEF IInv, TableInv
<1> QED
  BY StartsEmpty, <1>1, PTL DEF Spec

(* Every variable keeps its shape; nothing refers to a client that has not *)
(* been created by a request (client_manager.cpp:54).                      *)
THEOREM TypeCorrect == Spec => []TypeOK
<1>1. IInv => TypeOK
  BY DEF IInv
<1> QED
  BY Invariant, <1>1, PTL

(* An id leads to a client of that id whose init_user_info has succeeded   *)
(* (client_manager.cpp:60-65), whichever logins race in                    *)
(* insert_client_use_id and whichever timers erase (client_manager.h:77).  *)
THEOREM TableStaysConsistent == Spec => []TableConsistent
<1>1. IInv => TableConsistent
  BY DEF IInv
<1> QED
  BY Invariant, <1>1, PTL

(* Each registered client that was inserted in time has a wait on its      *)
(* timer or a handler that will erase it (client.h:68): m_client does not  *)
(* leak.                                                                   *)
THEOREM ClientsStayArmed == Spec => []Armed
<1>1. IInv => Armed
  BY DEF IInv
<1> QED
  BY Invariant, <1>1, PTL

(* A login that loses a race is told so, and one that is told it succeeded *)
(* has the data of a client that was registered (client_manager.cpp:62).   *)
THEOREM RepliesAreTrue == Spec => []ReplyIsTrue
<1>1. IInv => ReplyIsTrue
  BY DEF IInv, ThreadInv
<1> QED
  BY Invariant, <1>1, PTL

(* A registered client leaves the table by being erased only, never by the *)
(* insert of another (client_manager.h:100).                               *)
THEOREM ClientsNeverReplaced == Spec => NeverReplaced
<1>1. IInv /\ [Next]_vars =>
          \A i \in Ids : table[i] # None => table'[i] \in {None, table[i]}
  <2> SUFFICES ASSUME IInv, [Next]_vars, NEW i \in Ids, table[i] # None
               PROVE  table'[i] \in {None, table[i]}
    OBVIOUS
  <2>1. ASSUME NEW t \in Threads, InsertClient(t) PROVE table'[i] = table[i]
    BY <2>1 DEF IInv, TypeOK, InsertClient, Insert, Register, Found
  <2>2. ASSUME NEW r \in Reapers, ClearClient(r) PROVE table'[i] \in {None, table[i]}
    BY <2>2 DEF IInv, TypeOK, ClearClient, Erase
  <2>3. ASSUME NEW t \in Threads,
               Receive(t) \/ LoginFind(t) \/ FindAgain(t) \/ LogicFind(t) \/ Create(t)
               \/ DoSome(t) \/ Respond(t)
        PROVE  table' = table
    BY <2>3 DEF Receive, LoginFind, FindAgain, LogicFind, Create, DoSome, Respond
  <2>4. ASSUME NEW c \in Client,
               Expire(c) \/ Destroyed(c) \/ \E r \in Reapers : HandlerLocks(r, c)
        PROVE  table' = table
    BY <2>4 DEF Expire, Destroyed, HandlerLocks
  <2>5. CASE Tick \/ UNCHANGED vars
    BY <2>5 DEF Tick, vars
  <2> QED
    BY <2>1, <2>2, <2>3, <2>4, <2>5 DEF Next, Request, Handler, Over
<1> QED
  BY Invariant, <1>1, PTL DEF Spec, NeverReplaced
=============================================================================
