-------------------------- MODULE MC_HttpSession --------------------------
(* Small clients for HttpSession.                                          *)
EXTENDS HttpSession

U(kind, last, keep) == [kind |-> kind, last |-> last, keep |-> keep]
H == U("head", FALSE, FALSE)
F == U("frame", FALSE, FALSE)
D == U("data", FALSE, FALSE)
Bad == U("bad", FALSE, FALSE)

(* client/TestClient.cpp: one POST whose body follows in a second packet.  *)
OnePost == <<H, D, U("data", TRUE, TRUE)>>
OneGet == <<U("head", TRUE, FALSE)>>
OneChunked == <<H, F, D, F, D, U("frame", TRUE, TRUE)>>
(* Two messages in a row: with a body and without, in either order.        *)
PostThenGet == <<H, U("data", TRUE, TRUE), U("head", TRUE, TRUE)>>
GetThenPost == <<U("head", TRUE, TRUE), H, U("data", TRUE, FALSE)>>
PostTwice == <<H, U("data", TRUE, TRUE), H, U("data", TRUE, TRUE)>>
CloseThenPost == <<U("head", TRUE, FALSE), H, U("data", TRUE, FALSE)>>
(* Exactly as long as data_ of the runs, longer, and malformed.            *)
JustFits == <<H, H, H, D, D, U("data", TRUE, TRUE)>>
TooLong == <<H, H, H, D, D, D, U("data", TRUE, TRUE)>>
Malformed == <<H, Bad, U("head", TRUE, TRUE)>>
MalformedLong == <<Bad, H, H, H, H, H, U("head", TRUE, TRUE)>>

SingleStreams ==
    {OnePost, OneGet, OneChunked, JustFits, TooLong, Malformed, MalformedLong}
PipelinedStreams == {PostThenGet, GetThenPost, PostTwice, CloseThenPost}
=============================================================================
