-------------------------- MODULE MC_ClientManager --------------------------
(* The instance of ClientManager for TLC: client_manager with an           *)
(* init_user_info that may fail, with one that does not, and with the one  *)
(* of class client (client.h:38).                                          *)
EXTENDS ClientManager, TLC

AnyInit == {"SUCCEEDED", "USER_NOT_EXIST"}
GoodInit == {"SUCCEEDED"}
ClientInit == {"USER_NOT_EXIST"}

Symmetry == Permutations(Threads) \cup Permutations(Reapers)
=============================================================================
