--------------------------- MODULE MC_HttpServer ---------------------------
(* The instance of HttpServer for TLC.                                     *)
EXTENDS HttpServer
=============================================================================
