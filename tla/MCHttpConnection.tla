-------------------------- MODULE MCHttpConnection --------------------------
(* Instances of HttpConnection for TLC.                                    *)
EXTENDS HttpConnection

Request3(body, uri, bad) == [body |-> body, uri |-> uri, bad |-> bad]

(* A request without a body, one with a body for a handler that may be     *)
(* registered late and fails, and a malformed one.                         *)
Session == <<Request3(0, "a", FALSE), Request3(1, "b", FALSE),
             Request3(0, "a", TRUE)>>

TwoGets == <<Request3(0, "a", FALSE), Request3(0, "b", FALSE)>>

(* A request that is larger than the standing buffer and fits the limit.   *)
LargePost == <<Request3(4, "a", FALSE)>>
=============================================================================
