---------------------------- MODULE SessionLife ----------------------------
(***************************************************************************)
(* What one http_session promises to the server that owns it: it is        *)
(* registered at most once, hands requests to the application only between *)
(* its registration and its destruction, and is always destroyed in the    *)
(* end, whatever the client does.  HttpSession implements this.            *)
(***************************************************************************)
EXTENDS Naturals

VARIABLES
    life,    \* "fresh": only the acceptor holds it; "live"; "gone": destroyed
    served   \* how many requests it has handed to http_server::invoke

vars == <<life, served>>

Init == life = "fresh" /\ served = 0

(* http_server::insert puts the accepted session in session_.              *)
Register == life = "fresh" /\ life' = "live" /\ UNCHANGED served

(* The accept failed and OnAccept resets new_session.                      *)
Refuse == life = "fresh" /\ life' = "gone" /\ UNCHANGED served

(* on_message_complete calls http_server::invoke.                          *)
Serve == life = "live" /\ served' = served + 1 /\ UNCHANGED life

(* The last shared_ptr goes away.                                          *)
Release == life = "live" /\ life' = "gone" /\ UNCHANGED served

Next == Register \/ Refuse \/ Serve \/ Release

Spec == Init /\ [][Next]_vars /\ WF_vars(Release)
=============================================================================
