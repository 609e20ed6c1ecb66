-------------------------- MODULE MCInboundRequest --------------------------
(***************************************************************************)
(* Two requests that carry the same correlation id: one under interpol/*   *)
(* whose handler makes two calls in sequence, the second accepting any     *)
(* status, and one whose handler makes two calls under Promise.all.        *)
(***************************************************************************)
EXTENDS InboundRequest

CONSTANTS search, details, licenses, vehicles, interpol, roadPolice, sameId

MCCall == {search, details, licenses, vehicles}
MCRequest == {interpol, roadPolice}
MCRequestOf == [c \in MCCall |-> IF c \in {search, details} THEN interpol ELSE roadPolice]
MCRequestId == [r \in MCRequest |-> sameId]
MCMethodOf == [c \in MCCall |-> IF c \in {search, details} THEN "post" ELSE "get"]
MCRouteOf == [r \in MCRequest |-> IF r = interpol THEN "interpol" ELSE "plain"]
MCEnvironments == {[mode |-> "unset", retryAttempts |-> 0]}
=============================================================================
