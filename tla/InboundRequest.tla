--------------------------- MODULE InboundRequest ---------------------------
(***************************************************************************)
(* One inbound HTTP request from the middleware to the answer, composed    *)
(* with the outbound calls its handler makes (OutboundHttp): the request   *)
(* context, BasicAuthGuard and the logging interceptors of the route.  The *)
(* INSERTs into the log tables are not waited for and their failures are   *)
(* only logged, so a row here is a row handed to the database.             *)
(*                                                                         *)
(* A handler is abstracted to the calls it may make and to how it makes    *)
(* them: one after another, or all at once under Promise.all.  How it ends *)
(* is left open as far as the code leaves it open: a handler may return    *)
(* although a call failed (some integrations turn an error into an empty   *)
(* answer), throw an HttpException of its own, or let the AxiosError of a  *)
(* failed call through.                                                    *)
(***************************************************************************)
EXTENDS OutboundHttp

CONSTANTS
  Parallel,     \* the requests whose handler uses Promise.all
  RouteOf,      \* RouteOf[r]: "interpol", "ignored" or "plain"
  HttpExceptions \* the statuses handlers throw on their own

ASSUME InboundAssumption ==
  /\ Parallel \subseteq Request
  /\ RouteOf \in [Request -> {"interpol", "ignored", "plain"}]
  /\ HttpExceptions \subseteq 400 .. 599

VARIABLES
  stage,        \* stage[r]: how far r has come
  arrivedAt,    \* arrivedAt[r]: `startedAt` of the logging interceptor
  answer,       \* answer[r]: the status the client received, 0 before that
  requestRows   \* requestRows[r]: the rows written for r into request_logs

inVars == <<stage, arrivedAt, answer, requestRows>>
vars == <<outVars, inVars>>

Stages == {"new", "authenticating", "handling", "answered", "denied"}

\* What Nest puts into the response before the interceptors run.
DefaultStatus == 200

Init ==
  /\ OutInit
  /\ stage = [r \in Request |-> "new"]
  /\ arrivedAt = [r \in Request |-> 0]
  /\ answer = [r \in Request |-> 0]
  /\ requestRows = [r \in Request |-> <<>>]

callsOf(r) == {c \in Call : RequestOf[c] = r}
openCalls(r) == {c \in callsOf(r) : phase[c] \in {"sent", "backoff"}}

-----------------------------------------------------------------------------
(* Before the handler. *)

\* RequestContextMiddleware.use: an empty store, kept for the rest of r.
use(r) ==
  /\ stage[r] = "new"
  /\ stage' = [stage EXCEPT ![r] = "authenticating"]
  /\ upstreamCalls' = [upstreamCalls EXCEPT ![r] = <<>>]
  /\ UNCHANGED <<options, phase, meta, wireVars, settlements, now,
                 arrivedAt, answer, requestRows>>

\* BasicAuthGuard lets r through and the interceptors start their stopwatch.
admit(r) ==
  /\ stage[r] = "authenticating"
  /\ stage' = [stage EXCEPT ![r] = "handling"]
  /\ arrivedAt' = [arrivedAt EXCEPT ![r] = now]
  /\ UNCHANGED <<outVars, answer, requestRows>>

\* BasicAuthGuard rejects r, or looking the user up fails: the interceptors
\* never run.
deny(r) ==
  /\ stage[r] = "authenticating"
  /\ stage' = [stage EXCEPT ![r] = "denied"]
  /\ \E status \in {401, 500} : answer' = [answer EXCEPT ![r] = status]
  /\ UNCHANGED <<outVars, arrivedAt, requestRows>>

-----------------------------------------------------------------------------
(* The handler. *)

\* Mutants of callUpstream: a call before the guard has answered; a sequential
\* handler that does not wait for its previous call.
callUpstreamUnguarded(c) ==
  /\ stage[RequestOf[c]] \in {"authenticating", "handling"}
  /\ RequestOf[c] \in Parallel \/ openCalls(RequestOf[c]) = {}
  /\ request(c)
  /\ UNCHANGED inVars

callUpstreamUnawaited(c) ==
  /\ stage[RequestOf[c]] = "handling"
  /\ request(c)
  /\ UNCHANGED inVars

\* The handler of r makes its next call, or one of its calls under Promise.all.
callUpstream(c) ==
  /\ stage[RequestOf[c]] = "handling"
  /\ RequestOf[c] \in Parallel \/ openCalls(RequestOf[c]) = {}
  /\ request(c)
  /\ UNCHANGED inVars

\* The interceptor of interpol/* is registered twice: for every route through
\* APP_INTERCEPTOR and once more by the controller.
loggingInterceptors(r) ==
  CASE RouteOf[r] = "ignored" -> 0
    [] RouteOf[r] = "interpol" -> 2
    [] OTHER -> 1

\* Mutant of recordedStatus: no fallback for an error without a status.
recordedStatusOrNothing(errorStatus) == errorStatus

\* The status an interceptor writes down for an error that came by.
recordedStatus(errorStatus) ==
  IF errorStatus # NoStatus THEN errorStatus ELSE DefaultStatus

\* Each interceptor of the route hands its row to RequestLoggingService.
record(r, statusCode, failed) ==
  LET row == [statusCode |-> statusCode, failed |-> failed,
              durationMs |-> now - arrivedAt[r],
              upstreamMs |-> upstreamTotalMs(upstreamCalls[r]),
              upstreamCalls |-> upstreamCalls[r]]
  IN requestRows' = [requestRows EXCEPT
                       ![r] = [i \in 1 .. loggingInterceptors(r) |-> row]]

finish(r, status, recorded, failed) ==
  /\ stage' = [stage EXCEPT ![r] = "answered"]
  /\ answer' = [answer EXCEPT ![r] = status]
  /\ record(r, recorded, failed)
  /\ UNCHANGED <<outVars, arrivedAt>>

\* Mutant of return: an await is missing and the answer does not wait.
returnUnawaited(r) ==
  /\ stage[r] = "handling"
  /\ finish(r, DefaultStatus, DefaultStatus, FALSE)

\* The handler returns once nothing it awaits is open; under Promise.all that
\* takes every call to have succeeded.
return(r) ==
  /\ stage[r] = "handling"
  /\ openCalls(r) = {}
  /\ r \in Parallel => \A c \in callsOf(r) : phase[c] = "resolved"
  /\ finish(r, DefaultStatus, DefaultStatus, FALSE)

\* The code of r throws an error of its own while it awaits nothing: an
\* HttpException with its status, or one without a status, answered with 500.
throwOwn(r, errorStatus) ==
  /\ stage[r] = "handling"
  /\ openCalls(r) = {}
  /\ r \in Parallel => \/ \A c \in callsOf(r) : phase[c] = "idle"
                       \/ \A c \in callsOf(r) : phase[c] = "resolved"
  /\ finish(r, IF errorStatus = NoStatus THEN 500 ELSE errorStatus,
            recordedStatus(errorStatus), TRUE)

\* The AxiosError of a failed call reaches Nest, which knows no HttpException in
\* it and answers 500.  Promise.all does not wait for the calls still open.
throwAxios(r) ==
  /\ stage[r] = "handling"
  /\ \E c \in callsOf(r) :
       /\ phase[c] = "rejected"
       /\ \/ r \in Parallel /\ \A d \in callsOf(r) : phase[d] # "idle"
          \/ r \notin Parallel /\ openCalls(r) = {}
       /\ finish(r, 500, recordedStatus(settlements[c][1].statusCode), TRUE)

-----------------------------------------------------------------------------

Next ==
  \/ Tick /\ UNCHANGED inVars
  \/ \E c \in Call :
       \/ callUpstream(c)
       \/ Progress(c) /\ UNCHANGED inVars
  \/ \E r \in Request :
       \/ use(r) \/ admit(r) \/ deny(r)
       \/ return(r) \/ throwAxios(r)
       \/ \E status \in HttpExceptions \cup {NoStatus} : throwOwn(r, status)

\* The event loop runs what is ready: a guard that was asked, a handler that has
\* nothing left to await, a timer that is due.  Nothing is assumed of the third
\* parties.
Fairness ==
  /\ \A r \in Request :
       /\ WF_vars(admit(r) \/ deny(r))
       /\ WF_vars(return(r) \/ throwAxios(r))
  /\ \A c \in Call :
       /\ WF_vars(callUpstream(c))
       /\ WF_vars(TimeOut(c) /\ UNCHANGED inVars)
       /\ WF_vars(retry(c) /\ UNCHANGED inVars)

Spec == Init /\ [][Next]_vars /\ Fairness

-----------------------------------------------------------------------------
(* Properties. *)

Row == [statusCode : Statuses \cup HttpExceptions \cup {DefaultStatus}, failed : BOOLEAN,
        durationMs : 0 .. MaxNow, upstreamMs : Nat, upstreamCalls : Seq(Settlement)]

\* Every variable has its type.
TypeOK ==
  /\ OutTypeOK
  /\ stage \in [Request -> Stages]
  /\ arrivedAt \in [Request -> 0 .. MaxNow]
  /\ answer \in [Request -> HttpExceptions \cup {0, DefaultStatus, 401, 500}]
  /\ requestRows \in [Request -> Seq(Row)]

\* Whatever correlation ids clients send, a row of request_logs blames a request
\* only for calls that were made for it, each exactly as it was reported.
RowsListOwnCalls ==
  \A r \in Request : \A i \in DOMAIN requestRows[r] :
    LET listed == requestRows[r][i].upstreamCalls
    IN \A j \in DOMAIN listed :
         RequestOf[listed[j].call] = r /\ listed[j] = settlements[listed[j].call][1]

\* The row of a handler that makes its calls one after another is complete: when
\* it is written nothing is open, and nothing is reported for the request later.
SequentialRowIsComplete ==
  \A r \in Request \ Parallel : \A i \in DOMAIN requestRows[r] :
    openCalls(r) = {} /\ requestRows[r][i].upstreamCalls = upstreamCalls[r]

\* For such a handler the time waited for third parties is part of the time of
\* the request, so that selfMs means what it says.
SequentialTimesAddUp ==
  \A r \in Request \ Parallel : \A i \in DOMAIN requestRows[r] :
    requestRows[r][i].upstreamMs <= requestRows[r][i].durationMs

\* Nobody is asked anything, and nothing is logged as handled, on behalf of a
\* request the guard has not let through.
NothingBeforeAdmission ==
  \A r \in Request :
    stage[r] \in {"new", "authenticating", "denied"}
      => requestRows[r] = <<>> /\ \A c \in callsOf(r) : sends[c] = 0

\* Every request whose calls have a timeout is answered, although third parties
\* may stay silent and other requests may hang.
RequestIsAnswered ==
  \A r \in Request :
    (\A c \in callsOf(r) : c \in OwnTimeout \/ DefaultTimeoutMs > 0)
      => (stage[r] = "authenticating" ~> stage[r] \in {"answered", "denied"})

\* OBSERVABILITY.md:13-16: durationMs is the "total time the client waited",
\* upstreamMs the "time spent waiting on third party APIs" within it, and selfMs
\* is "durationMs - upstreamMs".
UpstreamTimeWithinDuration ==
  \A r \in Request : \A i \in DOMAIN requestRows[r] :
    requestRows[r][i].upstreamMs <= requestRows[r][i].durationMs
=============================================================================
