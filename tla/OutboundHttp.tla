---------------------------- MODULE OutboundHttp ----------------------------
(***************************************************************************)
(* HttpInstrumentationService: the interceptors installed on every axios   *)
(* instance of the gateway.  A call is one logical request made by an      *)
(* integration on behalf of an inbound request; it is put on the wire once *)
(* per attempt.  The third party is part of the environment: an attempt on *)
(* the wire may be executed at any later moment, or never, whatever the    *)
(* gateway has concluded about it meanwhile.                               *)
(***************************************************************************)
EXTENDS RetryPolicy, RequestContext, FiniteSets

CONSTANTS
  Call,               \* the outbound calls
  Request,            \* the inbound requests
  RequestOf,          \* RequestOf[c]: the request c is made for
  RequestId,          \* RequestId[r]: the correlation id of r; clients may
                      \* choose it, so two requests may carry the same one
  MethodOf,           \* MethodOf[c]: the HTTP method of c
  AcceptsAnyStatus,   \* the calls made with validateStatus: () => true
  OwnTimeout,         \* the calls that set a timeout of their own
  DefaultTimeoutMs,   \* HTTP_DEFAULT_TIMEOUT_MS, where 0 means none
  Environments,       \* the settings of the process environment considered
  RefusedCodes,       \* axios codes of a connection that was never made
  BrokenCodes,        \* axios codes of a connection lost after the request
  Statuses,           \* the HTTP statuses third parties answer with
  MaxRetryAttempts,   \* bound: the largest HTTP_RETRY_ATTEMPTS considered
  MaxNow              \* bound: the last instant of the clock

ASSUME OutboundAssumption ==
  /\ RequestOf \in [Call -> Request]
  /\ DOMAIN RequestId = Request
  /\ MethodOf \in [Call -> SAFE_METHODS \cup UnsafeMethods]
  /\ AcceptsAnyStatus \subseteq Call
  /\ OwnTimeout \subseteq Call
  /\ DefaultTimeoutMs \in Nat
  /\ Environments \subseteq [mode : UnsafeRetryMode \cup {"unset"},
                            retryAttempts : Int]
  /\ \A env \in Environments : toNumber(env.retryAttempts, 2) <= MaxRetryAttempts
  /\ RefusedCodes \subseteq {"ECONNREFUSED", "ETIMEDOUT"}
  /\ BrokenCodes \subseteq {"ECONNRESET", "ERR_BAD_RESPONSE"}
  /\ Statuses \subseteq 200 .. 599
  /\ MaxRetryAttempts \in Nat
  /\ MaxNow \in Nat

VARIABLES
  options,         \* the resolved options, fixed when the process starts
  phase,           \* phase[c]: where the promise chain of c stands
  meta,            \* meta[c]: the CALL_META kept in the axios config
  sends,           \* sends[c]: how often c was really put on the wire
  onTheWire,       \* onTheWire[c]: sends the third party may still execute
  executed,        \* executed[c]: sends the third party has executed
  answered,        \* answered[c]: sends whose whole answer reached the gateway
  settlements,     \* settlements[c]: what onSettled reported, in order
  upstreamCalls,   \* upstreamCalls[r]: the calls in the store of request r
  now              \* Date.now()

wireVars == <<sends, onTheWire, executed, answered>>
logVars == <<settlements, upstreamCalls>>
outVars == <<options, phase, meta, wireVars, logVars, now>>

Phases == {"idle", "sent", "backoff", "resolved", "rejected"}
Settled == {"resolved", "rejected"}

NoError == "none"

\* A record of onSettled.  `error` stands for the error's description.
Settlement == [call : Call, statusCode : Statuses \cup {NoStatus},
               durationMs : 0 .. MaxNow, attempts : 1 .. MaxRetryAttempts + 1,
               timedOut : BOOLEAN, error : ErrorCodes \cup {NoError}]

Options == [unsafeRetryMode : UnsafeRetryMode, retryAttempts : 0 .. MaxRetryAttempts]

resolveHttpInstrumentationOptions(env) ==
  [unsafeRetryMode |-> toUnsafeRetryMode(env.mode),
   retryAttempts |-> toNumber(env.retryAttempts, 2)]

OutInit ==
  /\ \E env \in Environments : options = resolveHttpInstrumentationOptions(env)
  /\ phase = [c \in Call |-> "idle"]
  /\ meta = [c \in Call |-> [attempt |-> 0, startedAt |-> 0]]
  /\ sends = [c \in Call |-> 0]
  /\ onTheWire = [c \in Call |-> {}]
  /\ executed = [c \in Call |-> {}]
  /\ answered = [c \in Call |-> {}]
  /\ settlements = [c \in Call |-> <<>>]
  /\ upstreamCalls = [r \in Request |-> <<>>]
  /\ now = 0

-----------------------------------------------------------------------------
(* The interceptors. *)

\* Mutants of hasTimeout: the default is not applied, or the own one is lost.
hasTimeoutOwnOnly(c) == c \in OwnTimeout
hasTimeoutDefaultOnly(c) == DefaultTimeoutMs > 0

hasTimeout(c) == c \in OwnTimeout \/ DefaultTimeoutMs > 0

\* Mutants of onRequest: CALL_META does not survive the copy axios makes of the
\* config, so that every attempt looks like the first; attempts counted from 0.
onRequestForgetsMeta(c) ==
  /\ meta' = [meta EXCEPT ![c] = [attempt |-> 1, startedAt |-> now]]
  /\ phase' = [phase EXCEPT ![c] = "sent"]
  /\ sends' = [sends EXCEPT ![c] = @ + 1]
  /\ onTheWire' = [onTheWire EXCEPT ![c] = @ \cup {sends[c] + 1}]
  /\ UNCHANGED <<options, executed, answered, logVars, now>>

onRequestFromZero(c) ==
  /\ phase' = [phase EXCEPT ![c] = "sent"]
  /\ sends' = [sends EXCEPT ![c] = @ + 1]
  /\ onTheWire' = [onTheWire EXCEPT ![c] = @ \cup {sends[c] + 1}]
  /\ UNCHANGED <<options, meta, executed, answered, logVars, now>>

\* Each pass through the request interceptor puts the call on the wire; the
\* first also creates CALL_META, which later passes find in the config.
onRequest(c) ==
  /\ meta' = IF meta[c].attempt = 0
             THEN [meta EXCEPT ![c] = [attempt |-> 1, startedAt |-> now]]
             ELSE meta
  /\ phase' = [phase EXCEPT ![c] = "sent"]
  /\ sends' = [sends EXCEPT ![c] = @ + 1]
  /\ onTheWire' = [onTheWire EXCEPT ![c] = @ \cup {sends[c] + 1}]
  /\ UNCHANGED <<options, executed, answered, logVars, now>>

\* Mutant of storeOf: stores kept in a map by correlation id.
storeByRequestId(c) == CHOOSE r \in Request : RequestId[r] = RequestId[RequestOf[c]]

\* The store found through AsyncLocalStorage is the one of the request whose
\* promise chain is running, not one looked up by correlation id.
storeOf(c) == RequestOf[c]

\* Reports the outcome of the whole call: to the log, from where it also goes
\* into integration_call_logs by an INSERT nothing waits for, and into the store
\* of the request the call was made for.
onSettled(c, status, timedOut, error) ==
  LET record == [call |-> c, statusCode |-> status,
                 durationMs |-> now - meta[c].startedAt,
                 attempts |-> meta[c].attempt,
                 timedOut |-> timedOut, error |-> error]
  IN /\ settlements' = [settlements EXCEPT ![c] = Append(@, record)]
     /\ upstreamCalls' = [upstreamCalls EXCEPT
                            ![storeOf(c)] = addUpstreamCall(@, record)]

\* The response interceptor's success path: a status validateStatus accepts.
onResponse(c, status) ==
  /\ phase' = [phase EXCEPT ![c] = "resolved"]
  /\ onSettled(c, status, FALSE, NoError)
  /\ UNCHANGED meta

\* The error path: either the attempt counter moves on and the call backs off
\* before it is sent again, or the call settles and the error is passed on.
onError(c, error) ==
  LET again == shouldRetry(MethodOf[c], options.unsafeRetryMode,
                           options.retryAttempts, error, meta[c].attempt)
  IN \/ /\ again
        /\ meta' = [meta EXCEPT ![c].attempt = @ + 1]
        /\ phase' = [phase EXCEPT ![c] = "backoff"]
        /\ UNCHANGED logVars
     \/ /\ ~again
        /\ phase' = [phase EXCEPT ![c] = "rejected"]
        /\ onSettled(c, error.status, isTimeout(error), error.code)
        /\ UNCHANGED meta

-----------------------------------------------------------------------------
(* Steps. *)

\* An integration makes the call.
request(c) == phase[c] = "idle" /\ onRequest(c)

\* The backoff timer fires and instance.request(config) is issued again.
retry(c) == phase[c] = "backoff" /\ onRequest(c)

\* The third party executes an attempt that reached it.
Execute(c) ==
  /\ \E k \in onTheWire[c] :
       /\ onTheWire' = [onTheWire EXCEPT ![c] = @ \ {k}]
       /\ executed' = [executed EXCEPT ![c] = @ \cup {k}]
  /\ UNCHANGED <<options, phase, meta, sends, answered, logVars, now>>

validateStatus(c, status) == c \in AcceptsAnyStatus \/ status \in 200 .. 299

\* An answer to the current attempt arrives.  A success says the request was
\* carried out; an error status may also come from a gateway in between.
Respond(c, status) ==
  /\ phase[c] = "sent"
  /\ status < 400 => sends[c] \in executed[c]
  /\ answered' = [answered EXCEPT ![c] = @ \cup {sends[c]}]
  /\ \/ validateStatus(c, status) /\ onResponse(c, status)
     \/ /\ ~validateStatus(c, status)
        /\ onError(c, [code |-> IF status >= 500 THEN "ERR_BAD_RESPONSE"
                                               ELSE "ERR_BAD_REQUEST",
                       status |-> status])
  /\ UNCHANGED <<options, sends, onTheWire, executed, now>>

\* The timeout set by onRequest, or by the integration, expires.
TimeOut(c) ==
  /\ phase[c] = "sent"
  /\ hasTimeout(c)
  /\ onError(c, [code |-> "ECONNABORTED", status |-> NoStatus])
  /\ UNCHANGED <<options, wireVars, now>>

\* No connection could be made: the attempt never reached the third party.
Refused(c, code) ==
  /\ phase[c] = "sent"
  /\ sends[c] \in onTheWire[c]
  /\ onError(c, [code |-> code, status |-> NoStatus])
  /\ onTheWire' = [onTheWire EXCEPT ![c] = @ \ {sends[c]}]
  /\ UNCHANGED <<options, sends, executed, answered, now>>

\* The connection is lost after the request was written to it, before an answer
\* or in the middle of one.  Nothing is known about the attempt.
Broken(c, code) ==
  /\ phase[c] = "sent"
  /\ onError(c, [code |-> code, status |-> NoStatus])
  /\ UNCHANGED <<options, wireVars, now>>

Tick ==
  /\ now < MaxNow
  /\ now' = now + 1
  /\ UNCHANGED <<options, phase, meta, wireVars, logVars>>

\* Everything that can happen to a call once it is made.
Progress(c) ==
  \/ retry(c)
  \/ Execute(c)
  \/ \E status \in Statuses : Respond(c, status)
  \/ TimeOut(c)
  \/ \E code \in RefusedCodes : Refused(c, code)
  \/ \E code \in BrokenCodes : Broken(c, code)

OutNext == Tick \/ \E c \in Call : request(c) \/ Progress(c)

\* Timers fire: the timeout of an attempt and the sleep before a retry.
OutFairness == \A c \in Call : WF_outVars(TimeOut(c)) /\ WF_outVars(retry(c))

OutSpec == OutInit /\ [][OutNext]_outVars /\ OutFairness

-----------------------------------------------------------------------------
(* Properties. *)

\* Every variable has its type.
OutTypeOK ==
  /\ options \in Options
  /\ phase \in [Call -> Phases]
  /\ meta \in [Call -> [attempt : 0 .. MaxRetryAttempts + 1, startedAt : 0 .. MaxNow]]
  /\ sends \in [Call -> Nat]
  /\ onTheWire \in [Call -> SUBSET Nat]
  /\ executed \in [Call -> SUBSET Nat]
  /\ answered \in [Call -> SUBSET Nat]
  /\ settlements \in [Call -> Seq(Settlement)]
  /\ upstreamCalls \in [Request -> Seq(Settlement)]
  /\ now \in 0 .. MaxNow

\* However often a call is repeated, its interceptors report it once, when its
\* promise settles, and the report counts the times the call was really put on
\* the wire.  A call reported as answered with success was executed by the third
\* party in the very attempt that is reported.
ReportedOnceAndTruthfully ==
  \A c \in Call :
    /\ Len(settlements[c]) = IF phase[c] \in Settled THEN 1 ELSE 0
    /\ \A i \in DOMAIN settlements[c] :
         LET report == settlements[c][i]
         IN /\ report.attempts = sends[c]
            /\ report.error = NoError /\ report.statusCode < 400
                 => sends[c] \in executed[c]

\* With HTTP_RETRY_UNSAFE_METHODS=never no request that changes something at a
\* third party is carried out there twice, however late an attempt arrives.
NeverModeExecutesOnce ==
  \A c \in Call :
    MethodOf[c] \in UnsafeMethods /\ options.unsafeRetryMode = "never"
      => \A j, k \in executed[c] : j = k

\* What repetition may cure: no answer at all of any call the mode allows to be
\* repeated; for a method that changes nothing, or in the mode "always", also no
\* answer in time or a gateway's word that the service is not there.
repeatable(c, report, mode) ==
  LET unanswered == report.statusCode = NoStatus /\ ~report.timedOut
  IN \/ unanswered /\ mode = "connection-errors-only"
     \/ /\ MethodOf[c] \in SAFE_METHODS \/ mode = "always"
        /\ unanswered \/ report.timedOut \/ report.statusCode \in RETRYABLE_STATUS_CODES

\* OBSERVABILITY.md:125-132: nobody is told of a failure a repetition may cure before
\* every one of the HTTP_RETRY_ATTEMPTS extra attempts was made.
RepeatableIsRepeated ==
  \A c \in Call :
    phase[c] = "rejected" =>
      \A i \in DOMAIN settlements[c] :
        repeatable(c, settlements[c][i], options.unsafeRetryMode)
          => sends[c] = options.retryAttempts + 1

\* Unless the mode is "always", a request that changes something is not put on
\* the wire again once an attempt of it was answered, whatever the answer was.
AnswerIsFinalForUnsafe ==
  \A c \in Call :
    MethodOf[c] \in UnsafeMethods /\ options.unsafeRetryMode # "always"
      => \A k \in answered[c] : k = sends[c]

\* The store of a request lists the calls settled for it and no others, each as
\* it was reported, and is complete up to the cap.
StoreAccountsForRequest ==
  \A r \in Request :
    LET own == {c \in Call : RequestOf[c] = r /\ phase[c] \in Settled}
        stored == {upstreamCalls[r][i] : i \in DOMAIN upstreamCalls[r]}
    IN /\ \A s \in stored : s.call \in own /\ s = settlements[s.call][1]
       /\ Cardinality(stored) = Len(upstreamCalls[r])
       /\ Len(upstreamCalls[r]) = IF Cardinality(own) > MAX_TRACKED_UPSTREAM_CALLS
                                  THEN MAX_TRACKED_UPSTREAM_CALLS ELSE Cardinality(own)

\* The abstract contract: the gateway sees a call as open until it is reported.
Contract == INSTANCE UpstreamContract WITH
  budget <- options.retryAttempts + 1,
  sent <- sends,
  reported <- [c \in Call |-> IF settlements[c] = <<>> THEN 0
                                ELSE settlements[c][1].attempts]

\* Whatever the options, the interceptors implement the contract.
ImplementsContract == Contract!Spec

\* A call that has a timeout, its own or the default one, settles: no third
\* party can keep it, and the request it is made for, open forever.
CallSettles ==
  \A c \in Call :
    c \in OwnTimeout \/ DefaultTimeoutMs > 0
      => (phase[c] = "sent" ~> phase[c] \in Settled)

\* OBSERVABILITY.md:130-131 of the default mode: it "retries only when the
\* upstream never produced a response, so a request cannot be processed twice".
ProcessedOnceByDefault ==
  \A c \in Call :
    MethodOf[c] \in UnsafeMethods /\ options.unsafeRetryMode = "connection-errors-only"
      => \A j, k \in executed[c] : j = k
=============================================================================
