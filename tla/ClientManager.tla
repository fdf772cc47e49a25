--------------------------- MODULE ClientManager ---------------------------
(***************************************************************************)
(* client_manager and its clients: the table m_client of logged-in users,  *)
(* filled by login requests, read by every request and emptied by the      *)
(* clients' two-hour timers.                                               *)
(*                                                                         *)
(* The pool threads call do_some() for the requests of their sessions; the *)
(* threads that run http_server::io_service_ run the timers' handlers.     *)
(* m_lock covers each look into the table, so each of those is one action, *)
(* and nothing between two of them.                                        *)
(*                                                                         *)
(* client_manager is modelled against client_interface, whose              *)
(* init_user_info may return any error code; InitResults says which.  The  *)
(* one implementation there is, client, always returns USER_NOT_EXIST.     *)
(***************************************************************************)
EXTENDS Naturals, FiniteSets

CONSTANTS
    Threads,      \* pool threads handling requests
    Reapers,      \* threads running the timers' handlers
    Ids,          \* UsrID
    InitResults,  \* what init_user_info may return
    Lifetime,     \* the 7200 s of client::timer_, in ticks
    MaxRequests,  \* bound: requests the threads get altogether
    MaxTime       \* bound: from here on the clock only runs for a waiting timer

ErrorCode == {"SUCCEEDED", "USER_NOT_LOGIN", "USER_NOT_EXIST", "JSON_PARSER_ERROR",
              "JSON_GETVALUE_EXCEPTION", "TEST_ERROR_CODE", "UNKNOWN_ERROR"}

ASSUME InitResultsAssumption == InitResults \subseteq ErrorCode
ASSUME TimeAssumption == Lifetime \in Nat /\ MaxTime \in Nat
ASSUME RequestsAssumption == MaxRequests \in Nat
ASSUME IdsAssumption == Ids # {}

(* A client object is named after the request that created it.             *)
Client == 1..MaxRequests
None == 0

VARIABLES
    now,       \* the clock
    requests,  \* how many requests have been received
    table,     \* m_client: the client registered for an id, or None
    clients,   \* of each client object: id_, timer_'s expiry, its waits that
               \* have not expired and its expired waits whose handler is queued
    pc,        \* where a thread is in do_some()
    req,       \* the number of a thread's request
    id,        \* its UsrID
    sc,        \* the shared_ptr sc of a thread, or None
    code,      \* the "errorcode" of a thread's reply
    reaper,    \* the client whose handler a timer thread is running, or None
    inited,    \* history: the clients whose init_user_info returned SUCCEEDED
    was,       \* history: the clients that have ever been registered
    late       \* history: those registered when their timer had already expired

thread  == <<pc, req, id, sc, code>>
history == <<inited, was, late>>
vars == <<now, requests, table, clients, pc, req, id, sc, code, reaper, inited,
          was, late>>

Object == [id : Ids, deadline : Nat, waits : Nat, queued : Nat]
Blank == [id |-> CHOOSE i \in Ids : TRUE, deadline |-> 0, waits |-> 0, queued |-> 0]

(* The shape of every variable; nothing refers to a client object of a     *)
(* request that has not been received.                                     *)
TypeOK ==
    /\ now \in Nat
    /\ requests \in 0..MaxRequests
    /\ table \in [Ids -> 0..requests]
    /\ clients \in [Client -> Object]
    /\ pc \in [Threads -> {"idle", "login", "again", "create", "insert", "logic",
                           "work", "respond"}]
    /\ req \in [Threads -> 0..requests]
    /\ id \in [Threads -> Ids]
    /\ sc \in [Threads -> 0..requests]
    /\ code \in [Threads -> ErrorCode]
    /\ reaper \in [Reapers -> 0..requests]
    /\ inited \subseteq 1..requests
    /\ was \subseteq 1..requests /\ late \subseteq was

Init ==
    /\ now = 0 /\ requests = 0
    /\ table = [i \in Ids |-> None]
    /\ clients = [c \in Client |-> Blank]
    /\ pc = [t \in Threads |-> "idle"]
    /\ req = [t \in Threads |-> 0]
    /\ id = [t \in Threads |-> Blank.id]
    /\ sc = [t \in Threads |-> None]
    /\ code = [t \in Threads |-> "SUCCEEDED"]
    /\ reaper = [r \in Reapers |-> None]
    /\ inited = {} /\ was = {} /\ late = {}

-----------------------------------------------------------------------------
(* A client object exists while m_client, a thread's sc or a handler holds *)
(* a shared_ptr to it.                                                     *)
Alive(c) ==
    \/ \E i \in Ids : table[i] = c
    \/ \E t \in Threads : sc[t] = c
    \/ \E r \in Reapers : reaper[r] = c

Goto(t, where) == pc' = [pc EXCEPT ![t] = where]
Answer(t, ec) == code' = [code EXCEPT ![t] = ec]

(* client::start_timer(): one more async_wait on the client's timer, whose *)
(* expiry stays what the constructor made it.                              *)
StartTimer_None(o) == o
StartTimer(o) == [o EXCEPT !.waits = @ + 1]

-----------------------------------------------------------------------------
(* do_some() on a pool thread.                                             *)

(* The request arrives and its JSON is taken apart.                        *)
Receive(t) ==
    /\ pc[t] = "idle" /\ requests < MaxRequests
    /\ requests' = requests + 1 /\ req' = [req EXCEPT ![t] = requests + 1]
    /\ \E i \in Ids : id' = [id EXCEPT ![t] = i]
    /\ \/ Goto(t, "login") /\ Answer(t, "SUCCEEDED")
       \/ Goto(t, "logic") /\ Answer(t, "SUCCEEDED")
       \/ \E ec \in {"JSON_PARSER_ERROR", "JSON_GETVALUE_EXCEPTION"} :
              Goto(t, "respond") /\ Answer(t, ec)
    /\ UNCHANGED <<now, table, clients, sc, reaper, history>>

Found(t) == table[id[t]] # None

(* find_client_use_id() in process_login, in insert_client_use_id and in   *)
(* process_logic.                                                          *)
LoginFind(t) ==
    /\ pc[t] = "login"
    /\ sc' = [sc EXCEPT ![t] = table[id[t]]]
    /\ Goto(t, IF Found(t) THEN "respond" ELSE "again")
    /\ UNCHANGED <<now, requests, table, clients, req, id, code, reaper, history>>

FindAgain(t) ==
    /\ pc[t] = "again"
    /\ sc' = [sc EXCEPT ![t] = table[id[t]]]
    /\ Goto(t, IF Found(t) THEN "respond" ELSE "create")
    /\ UNCHANGED <<now, requests, table, clients, req, id, code, reaper, history>>

LogicFind(t) ==
    /\ pc[t] = "logic"
    /\ sc' = [sc EXCEPT ![t] = table[id[t]]]
    /\ IF Found(t) THEN Goto(t, "work") /\ UNCHANGED code
                   ELSE Goto(t, "respond") /\ Answer(t, "USER_NOT_LOGIN")
    /\ UNCHANGED <<now, requests, table, clients, req, id, reaper, history>>

(* new client and init_user_info(), which starts the timer whatever it     *)
(* returns.                                                                *)
NewClient(t) ==
    StartTimer([id |-> id[t], deadline |-> now + Lifetime, waits |-> 0, queued |-> 0])

(* What becomes of a new client: on an error sc is reset, which destroys   *)
(* the client and cancels its timer.                                       *)
KeepOrReset_AlwaysKept(t, ec) ==
    Goto(t, "insert") /\ sc' = [sc EXCEPT ![t] = req[t]]
KeepOrReset(t, ec) ==
    \/ ec = "SUCCEEDED" /\ Goto(t, "insert") /\ sc' = [sc EXCEPT ![t] = req[t]]
    \/ ec # "SUCCEEDED" /\ Goto(t, "respond") /\ sc' = [sc EXCEPT ![t] = None]

Create(t) ==
    /\ pc[t] = "create"
    /\ clients' = [clients EXCEPT ![req[t]] = NewClient(t)]
    /\ \E ec \in InitResults :
           /\ KeepOrReset(t, ec)
           /\ Answer(t, ec)
           /\ inited' = IF ec = "SUCCEEDED" THEN inited \cup {req[t]} ELSE inited
    /\ UNCHANGED <<now, requests, table, req, id, reaper, was, late>>

(* insert(): unordered_map::insert leaves an entry that is already there.  *)
Register(t) ==
    /\ table' = [table EXCEPT ![id[t]] = sc[t]]
    /\ was' = was \cup {sc[t]}
    /\ late' = IF now >= clients[sc[t]].deadline THEN late \cup {sc[t]} ELSE late
Insert_Overwrites(t) ==
    Register(t) /\ Answer(t, IF Found(t) THEN "UNKNOWN_ERROR" ELSE "SUCCEEDED")
Insert_AlwaysSucceeds(t) ==
    /\ Answer(t, "SUCCEEDED")
    /\ IF Found(t) THEN UNCHANGED <<table, was, late>> ELSE Register(t)
Insert(t) ==
    IF Found(t)
    THEN Answer(t, "UNKNOWN_ERROR") /\ UNCHANGED <<table, was, late>>
    ELSE Answer(t, "SUCCEEDED") /\ Register(t)
InsertClient(t) ==
    /\ pc[t] = "insert"
    /\ Insert(t)
    /\ Goto(t, "respond")
    /\ UNCHANGED <<now, requests, clients, req, id, sc, reaper, inited>>

(* sc->do_some().                                                          *)
DoSome(t) ==
    /\ pc[t] = "work"
    /\ clients' = [clients EXCEPT ![sc[t]] = StartTimer(@)]
    /\ Answer(t, "TEST_ERROR_CODE") /\ Goto(t, "respond")
    /\ UNCHANGED <<now, requests, table, req, id, sc, reaper, history>>

(* get_session_data() copies the data of sc, if any; do_some() returns and *)
(* its variables go away.                                                  *)
Respond(t) ==
    /\ pc[t] = "respond"
    /\ Goto(t, "idle") /\ Answer(t, "SUCCEEDED")
    /\ sc' = [sc EXCEPT ![t] = None]
    /\ req' = [req EXCEPT ![t] = 0] /\ id' = [id EXCEPT ![t] = Blank.id]
    /\ UNCHANGED <<now, requests, table, clients, reaper, history>>

-----------------------------------------------------------------------------
(* Timers.                                                                 *)

Tick ==
    /\ \/ now < MaxTime
       \/ \E c \in Client : clients[c].waits > 0 /\ now < clients[c].deadline
    /\ now' = now + 1
    /\ UNCHANGED <<requests, table, clients, thread, reaper, history>>

(* timer_ expires: the handler of every wait on it is queued.              *)
Expire(c) ==
    /\ clients[c].waits > 0 /\ now >= clients[c].deadline /\ Alive(c)
    /\ clients' = [clients EXCEPT ![c].queued = @ + clients[c].waits, ![c].waits = 0]
    /\ UNCHANGED <<now, requests, table, thread, reaper, history>>

(* A handler runs and its weak_ptr locks.                                  *)
Queued_Early(c) == clients[c].waits + clients[c].queued > 0
Queued(c) == clients[c].queued > 0
HandlerLocks(r, c) ==
    /\ reaper[r] = None /\ Queued(c) /\ Alive(c)
    /\ clients' = [clients EXCEPT ![c].queued = @ - 1]
    /\ reaper' = [reaper EXCEPT ![r] = c]
    /\ UNCHANGED <<now, requests, table, thread, history>>

(* clear_client(): client_manager::erase() looks at the id only.           *)
Erase_Nothing(i) == UNCHANGED table
Erase(i) == table' = [table EXCEPT ![i] = None]
ClearClient(r) ==
    /\ reaper[r] # None
    /\ Erase(clients[reaper[r]].id)
    /\ reaper' = [reaper EXCEPT ![r] = None]
    /\ UNCHANGED <<now, requests, clients, thread, history>>

(* A client is destroyed: its waits are cancelled and its queued handlers  *)
(* find nothing to lock.                                                   *)
Destroyed(c) ==
    /\ ~Alive(c) /\ clients[c].waits + clients[c].queued > 0
    /\ clients' = [clients EXCEPT ![c].waits = 0, ![c].queued = 0]
    /\ UNCHANGED <<now, requests, table, thread, reaper, history>>

(* All requests of the bound are answered and all clients are gone; a      *)
(* client registered late may stay for good.                               *)
Over ==
    /\ requests = MaxRequests /\ \A t \in Threads : pc[t] = "idle"
    /\ \A i \in Ids : table[i] = None \/ table[i] \in late
    /\ UNCHANGED vars

-----------------------------------------------------------------------------
Request(t) ==
    \/ LoginFind(t) \/ FindAgain(t) \/ LogicFind(t) \/ Create(t)
    \/ InsertClient(t) \/ DoSome(t) \/ Respond(t)

Handler(r) == ClearClient(r) \/ \E c \in Client : HandlerLocks(r, c)

Next ==
    \/ \E t \in Threads : Receive(t) \/ Request(t)
    \/ \E r \in Reapers : Handler(r)
    \/ \E c \in Client : Expire(c) \/ Destroyed(c)
    \/ Tick \/ Over

(* Threads that have work do it, time passes, expired timers complete.     *)
Fairness ==
    /\ \A t \in Threads : WF_vars(Request(t))
    /\ \A r \in Reapers : WF_vars(Handler(r))
    /\ \A c \in Client : WF_vars(Expire(c))
    /\ WF_vars(Tick)

Spec == Init /\ [][Next]_vars /\ Fairness

-----------------------------------------------------------------------------
(* Properties.                                                             *)

(* An id leads to a client that was created for that id and whose          *)
(* init_user_info returned SUCCEEDED (client_manager.cpp:60-65): a client  *)
(* that could not be initialised is never found, whichever logins raced.   *)
TableConsistent ==
    \A i \in Ids : table[i] # None =>
        /\ clients[table[i]].id = i
        /\ table[i] \in inited

(* A registered client always has a timeout coming that will erase it,     *)
(* unless its login took so long that the timer had expired before the     *)
(* insert: m_client does not leak the clients of users who have gone.      *)
Armed ==
    \A i \in Ids : table[i] # None /\ table[i] \notin late =>
        \/ clients[table[i]].waits + clients[table[i]].queued > 0
        \/ \E r \in Reapers : reaper[r] = table[i]

(* A login never pushes out a client another login has registered: all     *)
(* sessions of a user see one client until it is erased.                   *)
NeverReplaced ==
    [][\A i \in Ids : table[i] # None => table'[i] \in {None, table[i]}]_vars

(* When two logins of a user race, the reply tells the truth: data sent    *)
(* with SUCCEEDED belongs to a client that was registered, and             *)
(* UNKNOWN_ERROR only goes to the login whose client was not.              *)
ReplyIsTrue ==
    \A t \in Threads : pc[t] = "respond" =>
        /\ code[t] = "SUCCEEDED" => sc[t] \in was
        /\ code[t] = "UNKNOWN_ERROR" => sc[t] \notin was

(* A registered client does not stay for ever: it is erased in the end     *)
(* (client.h:70), even while logins of the same user keep arriving.        *)
EventuallyCleared ==
    \A c \in Client : \A i \in Ids :
        table[i] = c /\ c \notin late ~> table[i] # c

(* The comment at client_manager.h:86-90: one who has not logged in is     *)
(* logged in, one who has is logged in again, and then the login succeeds. *)
LoginSucceeds ==
    [][\A t \in Threads :
           pc[t] \in {"login", "again", "create", "insert"} /\ pc'[t] = "respond"
           => code'[t] = "SUCCEEDED"]_vars
=============================================================================
