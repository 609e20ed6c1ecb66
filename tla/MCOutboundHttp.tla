--------------------------- MODULE MCOutboundHttp ---------------------------
(***************************************************************************)
(* Two calls of one request: a GET that relies on the default timeout and  *)
(* a POST as WISDM makes it, with a timeout of its own and accepting any   *)
(* status.  The store keeps one call, so that the cap is reached.          *)
(***************************************************************************)
EXTENDS OutboundHttp

CONSTANTS lookup, submit, r1

MCCall == {lookup, submit}
MCRequestOf == [c \in MCCall |-> r1]
MCMethodOf == [c \in MCCall |-> IF c = lookup THEN "get" ELSE "post"]
MCRequestId == [r \in {r1} |-> r1]
MCEnvironments ==
  [mode : UnsafeRetryMode \cup {"unset"}, retryAttempts : 0 .. 1]
=============================================================================
