--------------------------- MODULE RequestContext ---------------------------
(***************************************************************************)
(* The AsyncLocalStorage store that one inbound request carries: the       *)
(* upstream calls settled on its behalf, in the order they settled, cut    *)
(* off at a hard cap.                                                      *)
(***************************************************************************)
EXTENDS Naturals, Sequences

CONSTANT MAX_TRACKED_UPSTREAM_CALLS

ASSUME TrackedCallsAssumption == MAX_TRACKED_UPSTREAM_CALLS \in Nat

\* Mutant of addUpstreamCall: keeps one call more than the cap.
addUpstreamCallPastCap(upstreamCalls, record) ==
  IF Len(upstreamCalls) > MAX_TRACKED_UPSTREAM_CALLS
  THEN upstreamCalls
  ELSE Append(upstreamCalls, record)

addUpstreamCall(upstreamCalls, record) ==
  IF Len(upstreamCalls) >= MAX_TRACKED_UPSTREAM_CALLS
  THEN upstreamCalls
  ELSE Append(upstreamCalls, record)

upstreamTotalMs(upstreamCalls) ==
  LET total[n \in 0 .. Len(upstreamCalls)] ==
        IF n = 0 THEN 0 ELSE total[n - 1] + upstreamCalls[n].durationMs
  IN total[Len(upstreamCalls)]
=============================================================================
