-------------------------- MODULE OutboundHttpProofs --------------------------
(***************************************************************************)
(* Proofs about OutboundHttp, for every set of calls, every environment    *)
(* and every bound: its types, the invariant that ties the attempt counter *)
(* of CALL_META to what was really sent, and what follows from it.         *)
(***************************************************************************)
EXTENDS OutboundHttp, SequenceTheorems, TLAPS

-----------------------------------------------------------------------------
(* The inductive invariant. *)

\* The counter kept in the axios config says how often the call was sent: it is
\* one ahead while the call backs off, and never beyond the budget.
CountsAttempts ==
  \A c \in Call :
    /\ phase[c] = "idle" => meta[c].attempt = 0 /\ sends[c] = 0
    /\ phase[c] # "idle" => sends[c] >= 1
    /\ phase[c] \in {"sent", "resolved", "rejected"} => meta[c].attempt = sends[c]
    /\ phase[c] = "backoff" => meta[c].attempt = sends[c] + 1
    /\ meta[c].attempt <= options.retryAttempts + 1
    /\ meta[c].startedAt <= now

\* Third parties only see what was sent.
WireIsSent ==
  \A c \in Call : onTheWire[c] \cup executed[c] \cup answered[c] \subseteq 1 .. sends[c]

\* In the mode "never" a request that changes something has one attempt.
OneAttemptInNever ==
  \A c \in Call :
    MethodOf[c] \in UnsafeMethods /\ options.unsafeRetryMode = "never"
      => meta[c].attempt <= 1

\* Unless the mode is "always", an answered attempt of it was the last one.
AnsweredIsSettled ==
  \A c \in Call :
    MethodOf[c] \in UnsafeMethods /\ options.unsafeRetryMode # "always"
      => \A k \in answered[c] : k = sends[c] /\ phase[c] \in Settled

IInv ==
  /\ OutTypeOK
  /\ CountsAttempts
  /\ WireIsSent
  /\ ReportedOnceAndTruthfully
  /\ OneAttemptInNever
  /\ AnsweredIsSettled

-----------------------------------------------------------------------------
(* Lemmas. *)

\* No method is both safe and unsafe, and a repetition keeps to the budget: the
\* decision of shouldRetry, as the steps below need it.
LEMMA RetryKeepsBudget ==
  ASSUME NEW method, NEW mode, NEW retryAttempts \in Nat, NEW error, NEW attempt \in Nat,
         shouldRetry(method, mode, retryAttempts, error, attempt)
  PROVE  attempt + 1 <= retryAttempts + 1
  BY DEF shouldRetry

\* An unsafe method is repeated in no mode but the two that allow it.
LEMMA NeverMeansNever ==
  ASSUME NEW method \in UnsafeMethods, NEW retryAttempts, NEW error, NEW attempt
  PROVE  ~shouldRetry(method, "never", retryAttempts, error, attempt)
  BY DEF shouldRetry, UnsafeMethods, SAFE_METHODS

\* A failure that carries a response is final for an unsafe method.
LEMMA ResponseIsFinal ==
  ASSUME NEW method \in UnsafeMethods, NEW mode, mode # "always",
         NEW retryAttempts, NEW error, error.status # NoStatus, NEW attempt
  PROVE  ~shouldRetry(method, mode, retryAttempts, error, attempt)
  BY DEF shouldRetry, noResponse, UnsafeMethods, SAFE_METHODS

\* The store of a request stays a sequence of reports.
LEMMA StoreTyped ==
  ASSUME NEW s \in Seq(Settlement), NEW record \in Settlement
  PROVE  addUpstreamCall(s, record) \in Seq(Settlement)
  BY DEF addUpstreamCall

\* What onSettled appends is a well-typed report of the attempts really made.
LEMMA SettleTyped ==
  ASSUME OutTypeOK, CountsAttempts, NEW c \in Call, phase[c] = "sent",
         NEW status \in Statuses \cup {NoStatus}, NEW timedOut \in BOOLEAN,
         NEW error \in ErrorCodes \cup {NoError}, onSettled(c, status, timedOut, error)
  PROVE  /\ upstreamCalls' \in [Request -> Seq(Settlement)]
         /\ \E report \in Settlement :
              /\ report.attempts = sends[c]
              /\ report.statusCode = status
              /\ report.error = error
              /\ settlements' = [settlements EXCEPT ![c] = Append(@, report)]
<1> DEFINE report == [call |-> c, statusCode |-> status,
                      durationMs |-> now - meta[c].startedAt,
                      attempts |-> meta[c].attempt,
                      timedOut |-> timedOut, error |-> error]
<1>1. now - meta[c].startedAt \in 0 .. MaxNow
  BY OutboundAssumption DEF OutTypeOK, CountsAttempts
<1>2. meta[c].attempt \in 1 .. MaxRetryAttempts + 1 /\ meta[c].attempt = sends[c]
  BY OutboundAssumption DEF OutTypeOK, CountsAttempts
<1>3. report \in Settlement
  BY <1>1, <1>2 DEF Settlement
<1>4. /\ settlements' = [settlements EXCEPT ![c] = Append(@, report)]
      /\ upstreamCalls' = [upstreamCalls EXCEPT
                             ![RequestOf[c]] = addUpstreamCall(@, report)]
  BY DEF onSettled, storeOf
<1>5. upstreamCalls' \in [Request -> Seq(Settlement)]
  <2>1. RequestOf[c] \in Request /\ upstreamCalls \in [Request -> Seq(Settlement)]
    BY OutboundAssumption DEF OutTypeOK
  <2>2. addUpstreamCall(upstreamCalls[RequestOf[c]], report) \in Seq(Settlement)
    BY <1>3, <2>1, StoreTyped
  <2> QED BY <1>4, <2>1, <2>2
<1> QED BY <1>2, <1>3, <1>4, <1>5

-----------------------------------------------------------------------------
(* The handlers preserve the invariant. *)

\* A pass through the request interceptor.
LEMMA SendPreserves ==
  ASSUME IInv, NEW c \in Call, phase[c] \in {"idle", "backoff"}, onRequest(c)
  PROVE  IInv'
<1> USE DEF IInv
<1>1. OutTypeOK'
  BY OutboundAssumption, SMTT(60) DEF OutTypeOK, onRequest, Options, Phases, logVars
<1>2. CountsAttempts'
  <2>1. /\ sends' = [sends EXCEPT ![c] = @ + 1]
        /\ phase' = [phase EXCEPT ![c] = "sent"]
        /\ options' = options /\ now' = now
    BY DEF onRequest
  <2>2. meta'[c].attempt = sends[c] + 1 /\ meta'[c].startedAt <= now
    BY DEF OutTypeOK, CountsAttempts, onRequest
  <2>3. meta'[c].attempt <= options.retryAttempts + 1
    BY OutboundAssumption DEF OutTypeOK, CountsAttempts, onRequest, Options
  <2>4. \A d \in Call \ {c} : meta'[d] = meta[d]
    BY DEF OutTypeOK, onRequest
  <2> QED BY <2>1, <2>2, <2>3, <2>4 DEF OutTypeOK, CountsAttempts
<1>3. WireIsSent'
  BY DEF OutTypeOK, WireIsSent, onRequest
<1>4. ReportedOnceAndTruthfully'
  BY DEF OutTypeOK, ReportedOnceAndTruthfully, onRequest, Settled, logVars
<1>5. OneAttemptInNever'
  BY DEF OutTypeOK, OneAttemptInNever, onRequest
<1>6. AnsweredIsSettled'
  BY DEF OutTypeOK, AnsweredIsSettled, onRequest, Settled, CountsAttempts, WireIsSent
<1> QED BY <1>1, <1>2, <1>3, <1>4, <1>5, <1>6

\* What a failed attempt may leave on the wire.  A failure with a response has
\* reached the gateway, one without a response has not.
FailureOnWire(c, error) ==
  /\ options' = options /\ sends' = sends /\ executed' = executed /\ now' = now
  /\ onTheWire' \in [Call -> SUBSET Nat]
  /\ \A d \in Call : onTheWire'[d] \subseteq onTheWire[d]
  /\ \/ answered' = answered
     \/ /\ error.status # NoStatus
        /\ answered' = [answered EXCEPT ![c] = @ \cup {sends[c]}]

\* The error path.
LEMMA ErrorPreserves ==
  ASSUME IInv, NEW c \in Call, phase[c] = "sent",
         NEW error \in AxiosError(Statuses), onError(c, error), FailureOnWire(c, error)
  PROVE  IInv'
<1> DEFINE unchanged == options' = options /\ sends' = sends /\ executed' = executed /\ now' = now
<1>a. /\ OutTypeOK /\ CountsAttempts /\ WireIsSent
      /\ ReportedOnceAndTruthfully /\ OneAttemptInNever /\ AnsweredIsSettled
  BY DEF IInv
<1>b. unchanged /\ onTheWire' \in [Call -> SUBSET Nat]
  BY DEF FailureOnWire
<1> DEFINE again == shouldRetry(MethodOf[c], options.unsafeRetryMode,
                                options.retryAttempts, error, meta[c].attempt)
<1>0. sends[c] \in Nat \ {0} /\ meta[c].attempt = sends[c]
  <2>1. sends[c] >= 1 /\ meta[c].attempt = sends[c]
    BY <1>a DEF CountsAttempts
  <2>2. sends[c] \in Nat
    BY <1>a DEF OutTypeOK
  <2> QED BY <2>1, <2>2
<1>2. answered' \in [Call -> SUBSET Nat] /\ \A d \in Call :
        answered'[d] = answered[d] \/ (d = c /\ answered'[d] = answered[d] \cup {sends[d]})
  <2>1. answered \in [Call -> SUBSET Nat]
    BY <1>a DEF OutTypeOK
  <2>2. answered' = answered \/ answered' = [answered EXCEPT ![c] = @ \cup {sends[c]}]
    BY DEF FailureOnWire
  <2> QED BY <1>0, <2>1, <2>2
<1>1. WireIsSent'
  <2>1. ASSUME NEW d \in Call
        PROVE  onTheWire'[d] \cup executed'[d] \cup answered'[d] \subseteq 1 .. sends'[d]
    <3>1. onTheWire[d] \cup executed[d] \cup answered[d] \subseteq 1 .. sends[d]
      BY <1>a DEF WireIsSent
    <3>2. onTheWire'[d] \subseteq onTheWire[d] /\ executed' = executed /\ sends' = sends
      BY DEF FailureOnWire
    <3> QED BY <1>0, <1>2, <3>1, <3>2
  <2> QED BY <2>1 DEF WireIsSent
<1>3. \A d \in Call \ {c} : answered'[d] = answered[d]
  BY <1>2
<1>4. CASE again
  <2>1. /\ meta' = [meta EXCEPT ![c].attempt = @ + 1]
        /\ phase' = [phase EXCEPT ![c] = "backoff"]
        /\ settlements' = settlements /\ upstreamCalls' = upstreamCalls
    BY <1>4 DEF onError, logVars
  <2>2. meta[c].attempt <= options.retryAttempts /\ options.retryAttempts \in 0 .. MaxRetryAttempts
    BY <1>4, <1>a DEF shouldRetry, OutTypeOK, Options
  <2>3. OutTypeOK'
    <3>1. meta' \in [Call -> [attempt : 0 .. MaxRetryAttempts + 1, startedAt : 0 .. MaxNow]]
      <4>1. meta \in [Call -> [attempt : 0 .. MaxRetryAttempts + 1, startedAt : 0 .. MaxNow]]
        BY <1>a DEF OutTypeOK
      <4>2. meta[c].attempt + 1 \in 0 .. MaxRetryAttempts + 1
        BY <1>0, <2>2, OutboundAssumption
      <4> QED BY <2>1, <4>1, <4>2
    <3>2. phase' \in [Call -> Phases]
      BY <1>a, <2>1 DEF OutTypeOK, Phases
    <3> QED BY <1>a, <1>b, <1>2, <2>1, <3>1, <3>2 DEF OutTypeOK
  <2>4. CountsAttempts'
    BY SMTT(60), <1>a, <1>b, <2>1, <2>2, OutboundAssumption DEF OutTypeOK, CountsAttempts
  <2>5. ReportedOnceAndTruthfully'
    BY <1>a, <1>b, <2>1 DEF OutTypeOK, ReportedOnceAndTruthfully, Settled
  <2>6. OneAttemptInNever'
    <3>1. ~(MethodOf[c] \in UnsafeMethods /\ options.unsafeRetryMode = "never")
      BY <1>4, NeverMeansNever
    <3> QED BY <1>a, <1>b, <2>1, <3>1 DEF OutTypeOK, OneAttemptInNever
  <2>7. AnsweredIsSettled'
    <3>1. CASE MethodOf[c] \in UnsafeMethods /\ options.unsafeRetryMode # "always"
      <4>1. answered' = answered
        BY <1>4, <3>1, ResponseIsFinal DEF FailureOnWire
      <4>2. answered[c] = {}
        BY <1>a, <3>1 DEF AnsweredIsSettled, Settled
      <4> QED BY <1>a, <1>b, <2>1, <4>1, <4>2 DEF OutTypeOK, AnsweredIsSettled, Settled
    <3>2. CASE ~(MethodOf[c] \in UnsafeMethods /\ options.unsafeRetryMode # "always")
      BY <1>3, <1>a, <1>b, <2>1, <3>2 DEF OutTypeOK, AnsweredIsSettled, Settled
    <3> QED BY <3>1, <3>2
  <2> QED BY <1>1, <2>3, <2>4, <2>5, <2>6, <2>7 DEF IInv
<1>5. CASE ~again
  <2>1. /\ meta' = meta
        /\ phase' = [phase EXCEPT ![c] = "rejected"]
        /\ onSettled(c, error.status, isTimeout(error), error.code)
    BY <1>5 DEF onError
  <2>2. /\ error.status \in Statuses \cup {NoStatus}
        /\ isTimeout(error) \in BOOLEAN
        /\ error.code \in ErrorCodes
    BY DEF AxiosError, isTimeout
  <2>3. /\ upstreamCalls' \in [Request -> Seq(Settlement)]
        /\ \E report \in Settlement :
             /\ report.attempts = sends[c]
             /\ report.statusCode = error.status
             /\ report.error = error.code
             /\ settlements' = [settlements EXCEPT ![c] = Append(@, report)]
    BY SMTT(60), <1>a, <2>1, <2>2, SettleTyped
  <2>4. PICK report \in Settlement :
             /\ report.attempts = sends[c]
             /\ report.error = error.code
             /\ settlements' = [settlements EXCEPT ![c] = Append(@, report)]
    BY <2>3
  <2>5. report.error # NoError
    BY <2>2, <2>4 DEF ErrorCodes, NoError
  <2>6. OutTypeOK'
    BY <1>a, <1>b, <1>2, <2>1, <2>3, <2>4 DEF OutTypeOK, Phases
  <2>7. CountsAttempts'
    BY <1>a, <1>b, <2>1 DEF OutTypeOK, CountsAttempts
  <2>8. ReportedOnceAndTruthfully'
    <3>1. settlements[c] = <<>>
      <4>1. settlements[c] \in Seq(Settlement)
        BY <1>a DEF OutTypeOK
      <4>2. Len(settlements[c]) = 0
        BY <1>a DEF ReportedOnceAndTruthfully, Settled
      <4> QED BY <4>1, <4>2, EmptySeq
    <3>2. settlements'[c] = <<report>>
      BY <1>a, <2>4, <3>1 DEF OutTypeOK
    <3>3. \A d \in Call \ {c} : settlements'[d] = settlements[d] /\ phase'[d] = phase[d]
      BY <1>a, <2>1, <2>4 DEF OutTypeOK
    <3>4. phase'[c] \in Settled
      BY <1>a, <2>1 DEF OutTypeOK, Settled
    <3> QED BY <1>a, <1>b, <2>4, <2>5, <3>2, <3>3, <3>4 DEF ReportedOnceAndTruthfully
  <2>9. OneAttemptInNever'
    BY <1>a, <1>b, <2>1 DEF OneAttemptInNever
  <2>10. AnsweredIsSettled'
    <3>1. phase \in [Call -> Phases]
      BY <1>a DEF OutTypeOK
    <3> QED BY <1>2, <1>a, <1>b, <2>1, <3>1 DEF AnsweredIsSettled, Settled
  <2> QED BY <1>1, <2>6, <2>7, <2>8, <2>9, <2>10 DEF IInv
<1> QED BY <1>4, <1>5

\* The success path: what it reports is the attempt that was answered.
LEMMA ResponsePreserves ==
  ASSUME IInv, NEW c \in Call, phase[c] = "sent", NEW status \in Statuses,
         status < 400 => sends[c] \in executed[c], onResponse(c, status),
         answered' = [answered EXCEPT ![c] = @ \cup {sends[c]}],
         UNCHANGED <<options, sends, onTheWire, executed, now>>
  PROVE  IInv'
<1>a. /\ OutTypeOK /\ CountsAttempts /\ WireIsSent
      /\ ReportedOnceAndTruthfully /\ OneAttemptInNever /\ AnsweredIsSettled
  BY DEF IInv
<1>b. /\ meta' = meta
      /\ phase' = [phase EXCEPT ![c] = "resolved"]
      /\ onSettled(c, status, FALSE, NoError)
  BY DEF onResponse
<1>c. /\ upstreamCalls' \in [Request -> Seq(Settlement)]
      /\ \E report \in Settlement :
           /\ report.attempts = sends[c]
           /\ report.statusCode = status
           /\ report.error = NoError
           /\ settlements' = [settlements EXCEPT ![c] = Append(@, report)]
  <2>1. status \in Statuses \cup {NoStatus} /\ NoError \in ErrorCodes \cup {NoError}
    OBVIOUS
  <2>2. PICK timedOut \in BOOLEAN : onSettled(c, status, timedOut, NoError)
    BY <1>b, Zenon
  <2> QED BY <1>a, <2>1, <2>2, SettleTyped
<1>1. PICK report \in Settlement :
        /\ report.attempts = sends[c]
        /\ report.statusCode = status
        /\ settlements' = [settlements EXCEPT ![c] = Append(@, report)]
  BY <1>c
<1>2. upstreamCalls' \in [Request -> Seq(Settlement)]
  BY <1>c
<1>3. sends[c] \in 1 .. sends[c] /\ sends[c] \in Nat
  <2>1. sends[c] \in Nat
    BY <1>a DEF OutTypeOK
  <2>2. sends[c] >= 1
    BY <1>a DEF CountsAttempts
  <2> QED BY <2>1, <2>2
<1>4. OutTypeOK'
  <2>1. answered' \in [Call -> SUBSET Nat] /\ phase' \in [Call -> Phases]
    BY <1>a, <1>b, <1>3 DEF OutTypeOK, Phases
  <2>2. settlements' \in [Call -> Seq(Settlement)]
    BY <1>a, <1>1 DEF OutTypeOK
  <2> QED BY <1>a, <1>b, <1>2, <2>1, <2>2 DEF OutTypeOK
<1>5. CountsAttempts'
  BY <1>a, <1>b DEF OutTypeOK, CountsAttempts
<1>6. WireIsSent'
  <2>1. answered \in [Call -> SUBSET Nat]
    BY <1>a DEF OutTypeOK
  <2> QED BY <1>a, <1>3, <2>1 DEF WireIsSent
<1>7. ReportedOnceAndTruthfully'
  <2>1. settlements[c] = <<>>
    <3>1. settlements[c] \in Seq(Settlement)
      BY <1>a DEF OutTypeOK
    <3>2. Len(settlements[c]) = 0
      BY <1>a DEF ReportedOnceAndTruthfully, Settled
    <3> QED BY <3>1, <3>2, EmptySeq
  <2>2. settlements'[c] = <<report>>
    BY <1>a, <1>1, <2>1 DEF OutTypeOK
  <2>3. \A d \in Call \ {c} : settlements'[d] = settlements[d] /\ phase'[d] = phase[d]
    BY <1>a, <1>b, <1>1 DEF OutTypeOK
  <2>4. phase'[c] \in Settled
    BY <1>a, <1>b DEF OutTypeOK, Settled
  <2> QED BY <1>a, <1>1, <2>2, <2>3, <2>4 DEF ReportedOnceAndTruthfully
<1>8. OneAttemptInNever'
  BY <1>a, <1>b DEF OneAttemptInNever
<1>9. AnsweredIsSettled'
  <2>1. phase \in [Call -> Phases] /\ answered \in [Call -> SUBSET Nat]
    BY <1>a DEF OutTypeOK
  <2> QED BY <1>a, <1>b, <2>1 DEF AnsweredIsSettled, Settled
<1> QED BY <1>4, <1>5, <1>6, <1>7, <1>8, <1>9 DEF IInv

\* A third party carries out an attempt, however late.
LEMMA ExecutePreserves ==
  ASSUME IInv, NEW c \in Call, Execute(c)
  PROVE  IInv'
<1>a. /\ OutTypeOK /\ CountsAttempts /\ WireIsSent
      /\ ReportedOnceAndTruthfully /\ OneAttemptInNever /\ AnsweredIsSettled
  BY DEF IInv
<1>1. PICK k \in onTheWire[c] :
        /\ onTheWire' = [onTheWire EXCEPT ![c] = @ \ {k}]
        /\ executed' = [executed EXCEPT ![c] = @ \cup {k}]
  BY DEF Execute
<1>2. UNCHANGED <<options, phase, meta, sends, answered, settlements, upstreamCalls, now>>
  BY DEF Execute, logVars
<1>3. /\ onTheWire \in [Call -> SUBSET Nat] /\ executed \in [Call -> SUBSET Nat]
  BY <1>a DEF OutTypeOK
<1>4. OutTypeOK'
  <2>1. onTheWire' \in [Call -> SUBSET Nat] /\ executed' \in [Call -> SUBSET Nat]
    BY <1>1, <1>3
  <2> QED BY <1>a, <1>2, <2>1 DEF OutTypeOK
<1>5. CountsAttempts' /\ OneAttemptInNever' /\ AnsweredIsSettled'
  BY <1>a, <1>2 DEF CountsAttempts, OneAttemptInNever, AnsweredIsSettled
<1>6. WireIsSent'
  BY <1>a, <1>1, <1>2, <1>3 DEF WireIsSent
<1>7. ReportedOnceAndTruthfully'
  <2>1. \A d \in Call : executed[d] \subseteq executed'[d]
    BY <1>1, <1>3
  <2> QED BY <1>a, <1>2, <2>1 DEF ReportedOnceAndTruthfully
<1> QED BY <1>4, <1>5, <1>6, <1>7 DEF IInv

\* Time passes.
LEMMA TickPreserves ==
  ASSUME IInv, Tick
  PROVE  IInv'
<1>1. /\ now' = now + 1 /\ now < MaxNow
      /\ UNCHANGED <<options, phase, meta, sends, onTheWire, executed, answered,
                     settlements, upstreamCalls>>
  BY DEF Tick, wireVars, logVars
<1>2. OutTypeOK'
  BY <1>1, OutboundAssumption DEF IInv, OutTypeOK
<1>3. CountsAttempts'
  <2>1. now \in Nat /\ \A c \in Call : meta[c].startedAt \in Nat
    BY OutboundAssumption DEF IInv, OutTypeOK
  <2> QED BY <1>1, <2>1 DEF IInv, CountsAttempts
<1>4. WireIsSent' /\ ReportedOnceAndTruthfully' /\ OneAttemptInNever' /\ AnsweredIsSettled'
  BY <1>1 DEF IInv, WireIsSent, ReportedOnceAndTruthfully, OneAttemptInNever, AnsweredIsSettled
<1> QED BY <1>2, <1>3, <1>4 DEF IInv

-----------------------------------------------------------------------------
(* The invariant. *)

\* A process that has just started satisfies the invariant.
LEMMA InvariantInitially == OutInit => IInv
<1> SUFFICES ASSUME OutInit PROVE IInv
  OBVIOUS
<1>1. OutTypeOK
  <2>1. options \in Options
    <3>1. PICK env \in Environments : options = resolveHttpInstrumentationOptions(env)
      BY DEF OutInit
    <3>2. toNumber(env.retryAttempts, 2) \in 0 .. MaxRetryAttempts
      <4>1. env.retryAttempts \in Int /\ toNumber(env.retryAttempts, 2) <= MaxRetryAttempts
        BY OutboundAssumption
      <4> QED BY <4>1 DEF toNumber
    <3>3. toUnsafeRetryMode(env.mode) \in UnsafeRetryMode
      BY DEF toUnsafeRetryMode, UnsafeRetryMode
    <3> QED BY <3>1, <3>2, <3>3 DEF Options, resolveHttpInstrumentationOptions
  <2>2. <<>> \in Seq(Settlement)
    BY EmptySeq
  <2> QED BY <2>1, <2>2, OutboundAssumption DEF OutInit, OutTypeOK, Phases
<1>2. options.retryAttempts \in Nat
  BY <1>1, OutboundAssumption DEF OutTypeOK, Options
<1>3. CountsAttempts /\ OneAttemptInNever
  BY <1>2 DEF OutInit, CountsAttempts, OneAttemptInNever
<1>4. WireIsSent /\ AnsweredIsSettled
  BY DEF OutInit, WireIsSent, AnsweredIsSettled
<1>5. ReportedOnceAndTruthfully
  <2>1. Len(<<>>) = 0 /\ DOMAIN <<>> = {}
    BY EmptySeq
  <2> QED BY <2>1 DEF OutInit, ReportedOnceAndTruthfully, Settled
<1> QED BY <1>1, <1>3, <1>4, <1>5 DEF IInv

\* The failures of an attempt, one per way it can fail.
LEMMA FailurePreserves ==
  ASSUME IInv, NEW c \in Call, phase[c] = "sent", NEW code \in ErrorCodes,
         onError(c, [code |-> code, status |-> NoStatus]),
         UNCHANGED <<options, sends, executed, answered, now>>,
         \/ onTheWire' = onTheWire
         \/ onTheWire' = [onTheWire EXCEPT ![c] = @ \ {sends[c]}]
  PROVE  IInv'
<1> DEFINE error == [code |-> code, status |-> NoStatus]
<1>1. error \in AxiosError(Statuses)
  BY DEF AxiosError
<1>2. onTheWire \in [Call -> SUBSET Nat]
  BY DEF IInv, OutTypeOK
<1>3. FailureOnWire(c, error)
  BY <1>2 DEF FailureOnWire
<1> QED BY <1>1, <1>3, ErrorPreserves

\* Every step of the interceptors, of the third parties and of the clock keeps it.
LEMMA InvariantStep == IInv /\ [OutNext]_outVars => IInv'
<1> SUFFICES ASSUME IInv, [OutNext]_outVars PROVE IInv'
  OBVIOUS
<1>1. CASE Tick
  BY <1>1, TickPreserves
<1>2. ASSUME NEW c \in Call, request(c) \/ retry(c) PROVE IInv'
  BY <1>2, SendPreserves DEF request, retry
<1>3. ASSUME NEW c \in Call, Execute(c) PROVE IInv'
  BY <1>3, ExecutePreserves
<1>4. ASSUME NEW c \in Call, NEW status \in Statuses, Respond(c, status) PROVE IInv'
  <2> DEFINE code == IF status >= 500 THEN "ERR_BAD_RESPONSE" ELSE "ERR_BAD_REQUEST"
             error == [code |-> code, status |-> status]
  <2>1. /\ phase[c] = "sent"
        /\ status < 400 => sends[c] \in executed[c]
        /\ answered' = [answered EXCEPT ![c] = @ \cup {sends[c]}]
        /\ onResponse(c, status) \/ onError(c, error)
        /\ UNCHANGED <<options, sends, onTheWire, executed, now>>
    BY <1>4 DEF Respond
  <2>2. CASE onResponse(c, status)
    BY <2>1, <2>2, ResponsePreserves
  <2>3. CASE onError(c, error)
    <3>1. error \in AxiosError(Statuses)
      BY DEF AxiosError, ErrorCodes
    <3>2. error.status # NoStatus
      BY OutboundAssumption DEF NoStatus
    <3>3. onTheWire \in [Call -> SUBSET Nat]
      BY DEF IInv, OutTypeOK
    <3>4. FailureOnWire(c, error)
      BY <2>1, <3>2, <3>3 DEF FailureOnWire
    <3> QED BY <2>1, <2>3, <3>1, <3>4, ErrorPreserves
  <2> QED BY <2>1, <2>2, <2>3
<1>5. ASSUME NEW c \in Call, TimeOut(c) PROVE IInv'
  <2>1. "ECONNABORTED" \in ErrorCodes
    BY DEF ErrorCodes
  <2> QED BY <1>5, <2>1, FailurePreserves DEF TimeOut, wireVars
<1>6. ASSUME NEW c \in Call, NEW code \in RefusedCodes, Refused(c, code) PROVE IInv'
  <2>1. code \in ErrorCodes
    BY OutboundAssumption DEF ErrorCodes
  <2> QED BY <1>6, <2>1, FailurePreserves DEF Refused
<1>7. ASSUME NEW c \in Call, NEW code \in BrokenCodes, Broken(c, code) PROVE IInv'
  <2>1. code \in ErrorCodes
    BY OutboundAssumption DEF ErrorCodes
  <2> QED BY <1>7, <2>1, FailurePreserves DEF Broken, wireVars
<1>8. CASE UNCHANGED outVars
  BY <1>8 DEF outVars, wireVars, logVars, IInv, OutTypeOK, CountsAttempts, WireIsSent,
     ReportedOnceAndTruthfully, OneAttemptInNever, AnsweredIsSettled
<1> QED BY <1>1, <1>2, <1>3, <1>4, <1>5, <1>6, <1>7, <1>8 DEF OutNext, Progress

\* The invariant holds in every reachable state of HttpInstrumentationService.
THEOREM Invariance == OutSpec => []IInv
  BY InvariantInitially, InvariantStep, PTL DEF OutSpec

-----------------------------------------------------------------------------
(* What follows from it. *)

\* Type correctness, for every set of calls and every bound.
THEOREM TypesCorrect == OutSpec => []OutTypeOK
<1>1. IInv => OutTypeOK
  BY DEF IInv
<1> QED BY <1>1, Invariance, PTL

\* A call is reported once, when it settles, with the attempts really made.
THEOREM ReportsCorrect == OutSpec => []ReportedOnceAndTruthfully
<1>1. IInv => ReportedOnceAndTruthfully
  BY DEF IInv
<1> QED BY <1>1, Invariance, PTL

\* HTTP_RETRY_UNSAFE_METHODS=never keeps its promise: whatever the number of
\* retries configured, and however late third parties are, nothing that changes
\* something is executed twice.
THEOREM NeverExecutesTwice == OutSpec => []NeverModeExecutesOnce
<1>1. IInv => NeverModeExecutesOnce
  <2> SUFFICES ASSUME IInv, NEW c \in Call,
                      MethodOf[c] \in UnsafeMethods, options.unsafeRetryMode = "never",
                      NEW j \in executed[c], NEW k \in executed[c]
               PROVE  j = k
    BY DEF NeverModeExecutesOnce
  <2>1. meta[c].attempt <= 1
    BY DEF IInv, OneAttemptInNever
  <2>2. sends[c] \in Nat /\ phase[c] \in Phases
    BY DEF IInv, OutTypeOK
  <2>3. sends[c] <= 1
    BY <2>1, <2>2 DEF IInv, CountsAttempts, Phases
  <2>4. executed[c] \subseteq 1 .. sends[c]
    BY DEF IInv, WireIsSent
  <2> QED BY <2>2, <2>3, <2>4
<1> QED BY <1>1, Invariance, PTL

\* Outside the mode "always", an answer ends an unsafe call, error or not.
THEOREM AnswersAreFinal == OutSpec => []AnswerIsFinalForUnsafe
<1>1. IInv => AnswerIsFinalForUnsafe
  BY DEF IInv, AnsweredIsSettled, AnswerIsFinalForUnsafe
<1> QED BY <1>1, Invariance, PTL

-----------------------------------------------------------------------------
(* No repetition is left out. *)

\* A step of a call that does not reject it says nothing new about failures.
LEMMA NoNewRejection ==
  ASSUME IInv, RepeatableIsRepeated, NEW c \in Call, options' = options,
         \A d \in Call \ {c} : /\ phase'[d] = phase[d] /\ sends'[d] = sends[d]
                              /\ settlements'[d] = settlements[d],
         phase'[c] # "rejected"
  PROVE  RepeatableIsRepeated'
  BY DEF RepeatableIsRepeated, repeatable

\* A call that fails is rejected only with its budget spent, if repeating may help.
LEMMA RejectedWithBudgetSpent ==
  ASSUME IInv, RepeatableIsRepeated, NEW c \in Call, phase[c] = "sent",
         NEW error \in AxiosError(Statuses), error.code # "ERR_CANCELED",
         onError(c, error), UNCHANGED <<options, sends>>
  PROVE  RepeatableIsRepeated'
<1> DEFINE again == shouldRetry(MethodOf[c], options.unsafeRetryMode,
                                options.retryAttempts, error, meta[c].attempt)
<1>a. OutTypeOK /\ CountsAttempts /\ ReportedOnceAndTruthfully
  BY DEF IInv
<1>1. /\ phase \in [Call -> Phases] /\ settlements \in [Call -> Seq(Settlement)]
      /\ settlements[c] = <<>>
  <2>1. Len(settlements[c]) = 0
    BY <1>a DEF ReportedOnceAndTruthfully, Settled
  <2> QED BY <1>a, <2>1, EmptySeq DEF OutTypeOK
<1>2. /\ sends[c] \in Nat /\ options.retryAttempts \in Nat
      /\ meta[c].attempt = sends[c] /\ sends[c] <= options.retryAttempts + 1
  BY <1>a, OutboundAssumption DEF OutTypeOK, CountsAttempts, Options
<1>3. CASE again
  <2>1. /\ phase' = [phase EXCEPT ![c] = "backoff"]
        /\ settlements' = settlements
    BY <1>3 DEF onError, logVars
  <2> QED BY <1>1, <2>1, NoNewRejection
<1>4. CASE ~again
  <2> DEFINE report == [call |-> c, statusCode |-> error.status,
                        durationMs |-> now - meta[c].startedAt,
                        attempts |-> meta[c].attempt,
                        timedOut |-> isTimeout(error), error |-> error.code]
  <2>1. /\ phase' = [phase EXCEPT ![c] = "rejected"]
        /\ settlements' = [settlements EXCEPT ![c] = Append(@, report)]
    BY <1>4 DEF onError, onSettled
  <2>2. report.statusCode = error.status /\ report.timedOut = isTimeout(error)
    OBVIOUS
  <2> HIDE DEF report
  <2>3. /\ settlements'[c] = <<report>>
        /\ \A d \in Call \ {c} : settlements'[d] = settlements[d] /\ phase'[d] = phase[d]
    BY <1>1, <2>1
  <2>4. ASSUME repeatable(c, report, options.unsafeRetryMode)
       PROVE  sends[c] = options.retryAttempts + 1
    <3>1. ~(sends[c] <= options.retryAttempts)
      BY <1>2, <1>4, <2>2, <2>4 DEF repeatable, shouldRetry, transient, noResponse
    <3> QED BY <1>2, <3>1
  <2>5. ASSUME NEW d \in Call, phase'[d] = "rejected", NEW i \in DOMAIN settlements'[d],
               repeatable(d, settlements'[d][i], options'.unsafeRetryMode)
        PROVE  sends'[d] = options'.retryAttempts + 1
    <3>1. CASE d = c
      <4>1. settlements'[c][i] = report
        BY <2>3, <2>5, <3>1
      <4>2. repeatable(c, report, options.unsafeRetryMode)
        BY <2>5, <3>1, <4>1 DEF repeatable
      <4> QED BY <2>4, <3>1, <4>2
    <3>2. CASE d # c
      <4>1. phase[d] = "rejected" /\ i \in DOMAIN settlements[d]
        BY <2>3, <2>5, <3>2
      <4>2. repeatable(d, settlements[d][i], options.unsafeRetryMode)
        BY <2>3, <2>5, <3>2 DEF repeatable
      <4> QED BY <4>1, <4>2 DEF RepeatableIsRepeated
    <3> QED BY <3>1, <3>2
  <2> QED BY <2>5 DEF RepeatableIsRepeated
<1> QED BY <1>3, <1>4

\* Every step keeps to it.
LEMMA RepeatedStep ==
  IInv /\ RepeatableIsRepeated /\ [OutNext]_outVars => RepeatableIsRepeated'
<1> SUFFICES ASSUME IInv, RepeatableIsRepeated, [OutNext]_outVars PROVE RepeatableIsRepeated'
  OBVIOUS
<1>a. /\ phase \in [Call -> Phases] /\ sends \in [Call -> Nat]
      /\ settlements \in [Call -> Seq(Settlement)]
  BY DEF IInv, OutTypeOK
<1>1. ASSUME UNCHANGED <<options, phase, sends, settlements>> PROVE RepeatableIsRepeated'
  BY <1>1 DEF RepeatableIsRepeated, repeatable
<1>2. CASE Tick
  BY <1>1, <1>2 DEF Tick, wireVars, logVars
<1>3. ASSUME NEW c \in Call, request(c) \/ retry(c) PROVE RepeatableIsRepeated'
  <2>1. /\ phase' = [phase EXCEPT ![c] = "sent"] /\ sends' = [sends EXCEPT ![c] = @ + 1]
        /\ settlements' = settlements /\ options' = options
    BY <1>3 DEF request, retry, onRequest, logVars
  <2> QED BY <1>a, <2>1, NoNewRejection
<1>4. ASSUME NEW c \in Call, Execute(c) PROVE RepeatableIsRepeated'
  BY <1>1, <1>4 DEF Execute, logVars
<1>5. ASSUME NEW c \in Call, phase[c] = "sent", NEW error \in AxiosError(Statuses),
             error.code # "ERR_CANCELED", onError(c, error), UNCHANGED <<options, sends>>
      PROVE  RepeatableIsRepeated'
  BY <1>5, RejectedWithBudgetSpent
<1>6. ASSUME NEW c \in Call, NEW status \in Statuses, Respond(c, status)
      PROVE  RepeatableIsRepeated'
  <2> DEFINE error == [code |-> IF status >= 500 THEN "ERR_BAD_RESPONSE" ELSE "ERR_BAD_REQUEST",
                       status |-> status]
  <2>1. /\ phase[c] = "sent"
        /\ onResponse(c, status) \/ onError(c, error)
        /\ UNCHANGED <<options, sends>>
    BY <1>6 DEF Respond
  <2>2. CASE onResponse(c, status)
    <3>1. /\ phase' = [phase EXCEPT ![c] = "resolved"]
          /\ \A d \in Call \ {c} : settlements'[d] = settlements[d]
      BY <1>a, <2>2 DEF onResponse, onSettled
    <3> QED BY <1>a, <2>1, <3>1, NoNewRejection
  <2>3. CASE onError(c, error)
    <3>1. error \in AxiosError(Statuses) /\ error.code # "ERR_CANCELED"
      BY DEF AxiosError, ErrorCodes
    <3> QED BY <1>5, <2>1, <2>3, <3>1
  <2> QED BY <2>1, <2>2, <2>3
<1>7. ASSUME NEW c \in Call, NEW code \in ErrorCodes \ {"ERR_CANCELED"}, phase[c] = "sent",
             onError(c, [code |-> code, status |-> NoStatus]), UNCHANGED <<options, sends>>
      PROVE  RepeatableIsRepeated'
  <2>1. [code |-> code, status |-> NoStatus] \in AxiosError(Statuses)
    BY DEF AxiosError
  <2> QED BY <1>5, <1>7, <2>1
<1>8. ASSUME NEW c \in Call,
             \/ TimeOut(c)
             \/ \E code \in RefusedCodes : Refused(c, code)
             \/ \E code \in BrokenCodes : Broken(c, code)
      PROVE  RepeatableIsRepeated'
  <2>1. {"ECONNABORTED"} \cup RefusedCodes \cup BrokenCodes \subseteq ErrorCodes \ {"ERR_CANCELED"}
    BY OutboundAssumption DEF ErrorCodes
  <2> QED BY <1>7, <1>8, <2>1 DEF TimeOut, Refused, Broken, wireVars
<1>9. CASE UNCHANGED outVars
  BY <1>1, <1>9 DEF outVars, wireVars, logVars
<1> QED BY <1>2, <1>3, <1>4, <1>6, <1>8, <1>9 DEF OutNext, Progress

\* A failure that may pass is passed on only after all the attempts the settings allow:
\* shouldRetry and the counter it is given leave none of them out.
THEOREM RepetitionsAreMade == OutSpec => []RepeatableIsRepeated
<1>1. OutInit => RepeatableIsRepeated
  BY DEF OutInit, RepeatableIsRepeated
<1> QED BY <1>1, RepeatedStep, Invariance, PTL DEF OutSpec

-----------------------------------------------------------------------------
(* The interceptors implement the contract of UpstreamContract. *)

\* What a call has reported, as the contract sees it.
reportedBy(c) == IF settlements[c] = <<>> THEN 0 ELSE settlements[c][1].attempts

\* A call that has not settled has reported nothing.
LEMMA OpenReportsNothing ==
  ASSUME IInv, NEW c \in Call, phase[c] \notin Settled
  PROVE  settlements[c] = <<>>
<1>1. settlements[c] \in Seq(Settlement)
  BY DEF IInv, OutTypeOK
<1>2. Len(settlements[c]) = 0
  BY DEF IInv, ReportedOnceAndTruthfully
<1> QED BY <1>1, <1>2, EmptySeq

\* Putting a call on the wire keeps to the budget.
LEMMA SendImplements ==
  ASSUME IInv, NEW c \in Call, phase[c] \in {"idle", "backoff"}, onRequest(c)
  PROVE  Contract!Send(c)
<1>1. settlements[c] = <<>>
  BY OpenReportsNothing DEF Settled
<1>2. sends[c] < options.retryAttempts + 1
  <2>1. /\ phase[c] = "idle" => sends[c] = 0
        /\ phase[c] = "backoff" => meta[c].attempt = sends[c] + 1
        /\ meta[c].attempt <= options.retryAttempts + 1
    BY DEF IInv, CountsAttempts
  <2>2. sends[c] \in Nat /\ options.retryAttempts \in Nat
    BY OutboundAssumption DEF IInv, OutTypeOK, Options
  <2> QED BY <2>1, <2>2
<1>3. /\ sends' = [sends EXCEPT ![c] = @ + 1]
      /\ UNCHANGED <<options, executed, settlements>>
  BY DEF onRequest, logVars
<1> QED BY <1>1, <1>2, <1>3 DEF Contract!Send

\* The error path closes the call or changes nothing the contract sees; so does
\* the success path.
LEMMA SettleImplements ==
  ASSUME IInv, NEW c \in Call, phase[c] = "sent",
         NEW status \in Statuses \cup {NoStatus}, NEW timedOut \in BOOLEAN,
         NEW error \in ErrorCodes \cup {NoError}, onSettled(c, status, timedOut, error),
         UNCHANGED <<options, sends, executed>>
  PROVE  Contract!Close(c)
<1>1. settlements[c] = <<>>
  BY OpenReportsNothing DEF Settled
<1>2. OutTypeOK /\ CountsAttempts
  BY DEF IInv
<1>3. PICK report \in Settlement :
        /\ report.attempts = sends[c]
        /\ settlements' = [settlements EXCEPT ![c] = Append(@, report)]
  BY <1>2, SettleTyped
<1>4. settlements \in [Call -> Seq(Settlement)]
  BY DEF IInv, OutTypeOK
<1>5. settlements'[c] = <<report>> /\ \A d \in Call \ {c} : settlements'[d] = settlements[d]
  BY <1>1, <1>3, <1>4
<1>6. settlements'[c] # <<>> /\ settlements'[c][1] = report
  BY <1>5
<1>7. [d \in Call |-> reportedBy(d)']
        = [[d \in Call |-> reportedBy(d)] EXCEPT ![c] = sends[c]]
  <2>1. reportedBy(c)' = sends[c]
    BY <1>3, <1>6 DEF reportedBy
  <2>2. \A d \in Call \ {c} : reportedBy(d)' = reportedBy(d)
    BY <1>5 DEF reportedBy
  <2> QED BY <2>1, <2>2
<1>8. sends[c] > 0
  <2>1. sends[c] \in Nat /\ sends[c] >= 1
    BY <1>2 DEF OutTypeOK, CountsAttempts
  <2> QED BY <2>1
<1> QED BY <1>1, <1>7, <1>8 DEF Contract!Close, reportedBy

\* onError either leaves the contract alone or closes the call.
LEMMA ErrorImplements ==
  ASSUME IInv, NEW c \in Call, phase[c] = "sent", NEW error \in AxiosError(Statuses),
         onError(c, error), UNCHANGED <<options, sends, executed>>
  PROVE  Contract!Close(c) \/ UNCHANGED Contract!vars
<1>1. CASE UNCHANGED logVars
  BY <1>1 DEF logVars, Contract!vars
<1>2. CASE onSettled(c, error.status, isTimeout(error), error.code)
  <2>1. /\ error.status \in Statuses \cup {NoStatus}
        /\ isTimeout(error) \in BOOLEAN
        /\ error.code \in ErrorCodes \cup {NoError}
    BY DEF AxiosError, isTimeout
  <2> QED BY <1>2, <2>1, SettleImplements
<1> QED BY <1>1, <1>2 DEF onError

\* Every step is a step of the contract or invisible to it.
LEMMA ContractStep == IInv /\ [OutNext]_outVars => [Contract!Next]_Contract!vars
<1> SUFFICES ASSUME IInv, [OutNext]_outVars PROVE [Contract!Next]_Contract!vars
  OBVIOUS
<1>1. CASE Tick
  BY <1>1 DEF Tick, wireVars, logVars, Contract!vars
<1>2. ASSUME NEW c \in Call, request(c) \/ retry(c) PROVE Contract!Next
  BY <1>2, SendImplements DEF request, retry, Contract!Next
<1>3. ASSUME NEW c \in Call, Execute(c) PROVE [Contract!Next]_Contract!vars
  <2>1. PICK k \in onTheWire[c] : executed' = [executed EXCEPT ![c] = @ \cup {k}]
    BY <1>3 DEF Execute
  <2>2. UNCHANGED <<options, sends, settlements>>
    BY <1>3 DEF Execute, logVars
  <2>3. executed \in [Call -> SUBSET Nat] /\ k \in 1 .. sends[c]
    BY DEF IInv, OutTypeOK, WireIsSent
  <2>4. CASE k \in executed[c]
    <3>1. executed' = executed
      BY <2>1, <2>3, <2>4
    <3> QED BY <2>2, <3>1 DEF Contract!vars
  <2>5. CASE k \notin executed[c]
    <3>1. Contract!Execute(c)
      BY <2>1, <2>2, <2>3, <2>5 DEF Contract!Execute
    <3> QED BY <3>1 DEF Contract!Next
  <2> QED BY <2>4, <2>5
<1>4. ASSUME NEW c \in Call, NEW status \in Statuses, Respond(c, status)
      PROVE  [Contract!Next]_Contract!vars
  <2> DEFINE error == [code |-> IF status >= 500 THEN "ERR_BAD_RESPONSE" ELSE "ERR_BAD_REQUEST",
                       status |-> status]
  <2>1. /\ phase[c] = "sent"
        /\ onResponse(c, status) \/ onError(c, error)
        /\ UNCHANGED <<options, sends, executed>>
    BY <1>4 DEF Respond
  <2>2. CASE onResponse(c, status)
    <3>1. PICK timedOut \in BOOLEAN : onSettled(c, status, timedOut, NoError)
      BY <2>2, Zenon DEF onResponse
    <3>2. status \in Statuses \cup {NoStatus} /\ NoError \in ErrorCodes \cup {NoError}
      OBVIOUS
    <3> QED BY <2>1, <3>1, <3>2, SettleImplements DEF Contract!Next
  <2>3. CASE onError(c, error)
    <3>1. error \in AxiosError(Statuses)
      BY DEF AxiosError, ErrorCodes
    <3> QED BY <2>1, <2>3, <3>1, ErrorImplements DEF Contract!Next
  <2> QED BY <2>1, <2>2, <2>3
<1>5. ASSUME NEW c \in Call, NEW code \in ErrorCodes, phase[c] = "sent",
             onError(c, [code |-> code, status |-> NoStatus]),
             UNCHANGED <<options, sends, executed>>
      PROVE  [Contract!Next]_Contract!vars
  <2>1. [code |-> code, status |-> NoStatus] \in AxiosError(Statuses)
    BY DEF AxiosError
  <2> QED BY <1>5, <2>1, ErrorImplements DEF Contract!Next
<1>6. ASSUME NEW c \in Call,
             \/ TimeOut(c)
             \/ \E code \in RefusedCodes : Refused(c, code)
             \/ \E code \in BrokenCodes : Broken(c, code)
      PROVE  [Contract!Next]_Contract!vars
  <2>1. /\ "ECONNABORTED" \in ErrorCodes
        /\ RefusedCodes \subseteq ErrorCodes /\ BrokenCodes \subseteq ErrorCodes
    BY OutboundAssumption DEF ErrorCodes
  <2> QED BY <1>5, <1>6, <2>1 DEF TimeOut, Refused, Broken, wireVars
<1>7. CASE UNCHANGED outVars
  BY <1>7 DEF outVars, wireVars, logVars, Contract!vars
<1> QED BY <1>1, <1>2, <1>3, <1>4, <1>6, <1>7 DEF OutNext, Progress

\* With every setting of the options, the instrumentation implements the
\* contract the other components rely on.
THEOREM InstrumentationImplementsContract == OutSpec => ImplementsContract
<1>1. OutInit => Contract!Init
  <2> SUFFICES ASSUME OutInit PROVE Contract!Init
    OBVIOUS
  <2>1. options.retryAttempts + 1 \in Nat \ {0}
    <3>1. options.retryAttempts \in Nat
      BY InvariantInitially, OutboundAssumption DEF IInv, OutTypeOK, Options
    <3> QED BY <3>1
  <2> QED BY <2>1 DEF OutInit, Contract!Init
<1> QED BY <1>1, InvariantInitially, Invariance, ContractStep, PTL
    DEF OutSpec, ImplementsContract, Contract!Spec
=============================================================================
