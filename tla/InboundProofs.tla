----------------------------- MODULE InboundProofs -----------------------------
(***************************************************************************)
(* Proofs about InboundRequest, for every set of requests and calls, every *)
(* assignment of calls to requests and every bound: composing requests     *)
(* with the calls made for them takes nothing away from what OutboundHttp  *)
(* guarantees, and the rows of request_logs are right.                     *)
(***************************************************************************)
EXTENDS InboundRequest, RequestStoreProofs

-----------------------------------------------------------------------------
(* The inductive invariant. *)

Admitted == {"handling", "answered"}

\* The types of the variables InboundRequest adds.
InTypes ==
  /\ stage \in [Request -> Stages]
  /\ arrivedAt \in [Request -> 0 .. MaxNow]
  /\ answer \in [Request -> HttpExceptions \cup {0, DefaultStatus, 401, 500}]
  /\ requestRows \in [Request -> Seq(Row)]

\* Calls are made for requests the guard has let through.
CallsAreAdmitted ==
  \A c \in Call : phase[c] # "idle" => stage[RequestOf[c]] \in Admitted

\* Rows are written by the step that answers.
RowsWithTheAnswer ==
  \A r \in Request : stage[r] # "answered" => requestRows[r] = <<>>

\* A handler that makes its calls one after another has at most one open, and
\* none once it has answered; its rows then stay equal to the store.
OneAtATime ==
  \A r \in Request \ Parallel : \A c, d \in openCalls(r) : c = d

ClosedWhenAnswered ==
  \A r \in Request \ Parallel :
    stage[r] = "answered" =>
      /\ openCalls(r) = {}
      /\ \A i \in DOMAIN requestRows[r] : requestRows[r][i].upstreamCalls = upstreamCalls[r]

\* What a row lists are the reports of calls settled for its request.
RowsListReports ==
  \A r \in Request : \A i \in DOMAIN requestRows[r] :
    LET listed == requestRows[r][i].upstreamCalls
    IN \A j \in DOMAIN listed :
         listed[j].call \in settledFor(r) /\ listed[j] = settlements[listed[j].call][1]

ArrivedInThePast == \A r \in Request : arrivedAt[r] <= now

\* The times reported so far lie one after another between the arrival of the
\* request and the start of the call that is open, if there is one.
TimesFit ==
  \A r \in Request \ Parallel :
    stage[r] \in Admitted =>
      /\ arrivedAt[r] + upstreamTotalMs(upstreamCalls[r]) <= now
      /\ \A c \in openCalls(r) :
           arrivedAt[r] + upstreamTotalMs(upstreamCalls[r]) <= meta[c].startedAt

InboundInv ==
  /\ IInv /\ StoreInv
  /\ InTypes
  /\ CallsAreAdmitted
  /\ RowsWithTheAnswer
  /\ OneAtATime
  /\ ClosedWhenAnswered
  /\ RowsListReports
  /\ ArrivedInThePast
  /\ TimesFit
  /\ SequentialTimesAddUp

-----------------------------------------------------------------------------
(* Lemmas. *)

\* The total of a store is a time.
LEMMA StoreTotalTyped ==
  ASSUME NEW calls \in Seq(Settlement)
  PROVE  upstreamTotalMs(calls) \in Nat
<1>1. \A call \in Settlement : call.durationMs \in Nat
  BY DEF Settlement
<1> QED BY <1>1, TotalIsTime

\* One report more adds its duration, unless the cap keeps it out.
LEMMA StoreTotalGrows ==
  ASSUME NEW calls \in Seq(Settlement), NEW report \in Settlement
  PROVE  upstreamTotalMs(addUpstreamCall(calls, report))
           \in {upstreamTotalMs(calls), upstreamTotalMs(calls) + report.durationMs}
<1>1. \A call \in Settlement : call.durationMs \in Nat
  BY DEF Settlement
<1> QED BY <1>1, TotalOfAppend DEF addUpstreamCall

\* A request none of whose calls has settled has an empty store.
LEMMA NothingSettledNothingStored ==
  ASSUME OutTypeOK, StoreInv, NEW r \in Request, \A c \in callsOf(r) : phase[c] \notin Settled
  PROVE  upstreamCalls[r] = <<>>
<1>1. settledFor(r) = {}
  BY DEF settledFor, callsOf
<1>2. Cardinality(settledFor(r)) = 0
  BY <1>1, FS_EmptySet
<1>3. Len(upstreamCalls[r]) = 0
  BY <1>2, TrackedCallsAssumption DEF StoreInv, StoreCounts
<1>4. upstreamCalls[r] \in Seq(Settlement)
  BY DEF OutTypeOK
<1> QED BY <1>3, <1>4, EmptySeq

\* A settled call has exactly one report.
LEMMA SettledHasReport ==
  ASSUME OutTypeOK, ReportedOnceAndTruthfully, NEW c \in Call, phase[c] \in Settled
  PROVE  settlements[c][1] \in Settlement /\ Len(settlements[c]) = 1
<1>1. Len(settlements[c]) = 1 /\ settlements[c] \in Seq(Settlement)
  BY DEF OutTypeOK, ReportedOnceAndTruthfully
<1> QED BY <1>1

\* What a call may become in a step that does not make it: it is not made, and it
\* is not reopened; its start and the reports of settled calls stay what they are.
CallsGoOn ==
  /\ now <= now'
  /\ \A c \in Call :
       /\ phase'[c] = "idle" <=> phase[c] = "idle"
       /\ phase'[c] \in {"sent", "backoff"} => phase[c] \in {"sent", "backoff"}
       /\ meta'[c].startedAt = meta[c].startedAt

\* The interceptors, the third parties and the clock only let calls go on.
LEMMA ProgressGoesOn ==
  ASSUME OutTypeOK, CountsAttempts,
         Tick \/ (\E c \in Call : Progress(c)) \/ UNCHANGED outVars
  PROVE  CallsGoOn
<1>0. /\ phase \in [Call -> Phases] /\ now \in Nat
      /\ meta \in [Call -> [attempt : 0 .. MaxRetryAttempts + 1, startedAt : 0 .. MaxNow]]
  BY OutboundAssumption DEF OutTypeOK
<1>1. CASE Tick \/ UNCHANGED outVars
  BY <1>0, <1>1 DEF Tick, outVars, CallsGoOn
<1>2. ASSUME NEW c \in Call, retry(c) PROVE CallsGoOn
  <2>1. meta[c].attempt # 0
    <3>1. meta[c].attempt = sends[c] + 1 /\ sends[c] \in Nat
      BY <1>2 DEF retry, CountsAttempts, OutTypeOK
    <3> QED BY <3>1
  <2>2. meta' = meta /\ phase' = [phase EXCEPT ![c] = "sent"] /\ now' = now /\ phase[c] = "backoff"
    BY <1>2, <2>1 DEF retry, onRequest
  <2> QED BY <1>0, <2>2 DEF CallsGoOn
<1>3. ASSUME NEW c \in Call, Execute(c) PROVE CallsGoOn
  BY <1>0, <1>3 DEF Execute, CallsGoOn
<1>4. ASSUME NEW c \in Call, phase[c] = "sent", now' = now,
             \/ \E status \in Statuses : onResponse(c, status)
             \/ \E error \in AxiosError(Statuses) : onError(c, error)
      PROVE  CallsGoOn
  <2>1. \E next \in {"backoff", "resolved", "rejected"} : phase' = [phase EXCEPT ![c] = next]
    BY <1>4 DEF onResponse, onError
  <2>2. meta' = meta \/ meta' = [meta EXCEPT ![c].attempt = @ + 1]
    BY <1>4 DEF onResponse, onError
  <2>3. \A d \in Call : meta'[d].startedAt = meta[d].startedAt
    BY <1>0, <2>2
  <2> QED BY <1>0, <1>4, <2>1, <2>3 DEF CallsGoOn
<1>5. ASSUME NEW c \in Call, NEW status \in Statuses, Respond(c, status) PROVE CallsGoOn
  <2>1. phase[c] = "sent" /\ now' = now
    BY <1>5 DEF Respond
  <2>2. [code |-> IF status >= 500 THEN "ERR_BAD_RESPONSE" ELSE "ERR_BAD_REQUEST",
         status |-> status] \in AxiosError(Statuses)
    BY DEF AxiosError, ErrorCodes
  <2> QED BY <1>4, <1>5, <2>1, <2>2 DEF Respond
<1>6. ASSUME NEW c \in Call,
             \/ TimeOut(c)
             \/ \E code \in RefusedCodes : Refused(c, code)
             \/ \E code \in BrokenCodes : Broken(c, code)
      PROVE  CallsGoOn
  <2>1. /\ "ECONNABORTED" \in ErrorCodes
        /\ RefusedCodes \subseteq ErrorCodes /\ BrokenCodes \subseteq ErrorCodes
    BY OutboundAssumption DEF ErrorCodes
  <2>2. \A code \in ErrorCodes : [code |-> code, status |-> NoStatus] \in AxiosError(Statuses)
    BY DEF AxiosError
  <2> QED BY <1>4, <1>6, <2>1, <2>2 DEF TimeOut, Refused, Broken
<1> QED BY <1>1, <1>2, <1>3, <1>5, <1>6 DEF Progress

-----------------------------------------------------------------------------
(* The composition adds nothing the instrumentation would not do. *)

\* Emptying the store of a request that arrives changes nothing: no call was made
\* for it, so the store is empty.  Every other step either is a step of
\* OutboundHttp or leaves its variables alone.
LEMMA StepOfInstrumentation ==
  ASSUME InboundInv, [Next]_vars
  PROVE  [OutNext]_outVars
<1>1. CASE Tick \/ (\E c \in Call : callUpstream(c) \/ Progress(c))
  BY <1>1 DEF callUpstream, OutNext
<1>2. ASSUME NEW r \in Request, use(r) PROVE UNCHANGED outVars
  <2>1. \A c \in callsOf(r) : phase[c] = "idle"
    BY <1>2 DEF use, InboundInv, CallsAreAdmitted, Admitted, callsOf
  <2>2. upstreamCalls[r] = <<>>
    BY <2>1, NothingSettledNothingStored DEF InboundInv, IInv, Settled
  <2>3. upstreamCalls \in [Request -> Seq(Settlement)]
    BY DEF InboundInv, IInv, OutTypeOK
  <2>4. upstreamCalls' = upstreamCalls
    BY <1>2, <2>2, <2>3 DEF use
  <2> QED BY <1>2, <2>4 DEF use, outVars, logVars, wireVars
<1>3. ASSUME NEW r \in Request, admit(r) \/ deny(r) PROVE UNCHANGED outVars
  BY <1>3 DEF admit, deny
<1>4. ASSUME NEW r \in Request,
             \/ return(r) \/ throwAxios(r)
             \/ \E status \in HttpExceptions \cup {NoStatus} : throwOwn(r, status)
      PROVE  UNCHANGED outVars
  BY <1>4 DEF return, throwAxios, throwOwn, finish
<1>5. CASE UNCHANGED vars
  BY <1>5 DEF vars
<1> QED BY <1>1, <1>2, <1>3, <1>4, <1>5 DEF Next

-----------------------------------------------------------------------------
(* The steps preserve the invariant. *)

\* What holds of the outbound calls is kept by every step.
LEMMA OutboundPart ==
  ASSUME InboundInv, [Next]_vars
  PROVE  IInv' /\ StoreInv'
<1>1. [OutNext]_outVars
  BY StepOfInstrumentation
<1> QED BY <1>1, InvariantStep, StoresStep DEF InboundInv

\* Reports of settled calls are final, and what has settled stays settled.
LEMMA ReportsAreFinal ==
  ASSUME InboundInv, [Next]_vars, NEW r \in Request
  PROVE  /\ settledFor(r) \subseteq settledFor(r)'
         /\ \A c \in settledFor(r) : settlements'[c] = settlements[c]
<1>1. [OutNext]_outVars /\ OutTypeOK /\ CountsAttempts
  BY StepOfInstrumentation DEF InboundInv, IInv
<1>2. CASE Quiet
  BY <1>2 DEF Quiet, settledFor
<1>3. ASSUME NEW c \in Call, Settles(c)
      PROVE  /\ settledFor(r) \subseteq settledFor(r)'
             /\ \A d \in settledFor(r) : settlements'[d] = settlements[d]
  <2>1. PICK end \in Settled : phase' = [phase EXCEPT ![c] = end]
    BY <1>3 DEF Settles
  <2>2. \A d \in Call : phase[d] \in Settled => d # c
    BY <1>3 DEF Settles, Settled
  <2>3. \A d \in Call \ {c} : settlements'[d] = settlements[d] /\ phase'[d] = phase[d]
    BY <1>1, <1>3 DEF Settles, OutTypeOK
  <2> QED BY <2>2, <2>3 DEF settledFor
<1> QED BY <1>1, <1>2, <1>3, StepSettlesOrNot

\* The rows that are there stay right.
LEMMA RowsStayRight ==
  ASSUME InboundInv, [Next]_vars, requestRows' = requestRows
  PROVE  RowsListReports'
<1> SUFFICES ASSUME NEW r \in Request, NEW i \in DOMAIN requestRows[r],
                    NEW j \in DOMAIN requestRows[r][i].upstreamCalls
             PROVE  LET entry == requestRows[r][i].upstreamCalls[j]
                    IN entry.call \in settledFor(r)' /\ entry = settlements'[entry.call][1]
  BY DEF RowsListReports
<1> DEFINE entry == requestRows[r][i].upstreamCalls[j]
<1>1. entry.call \in settledFor(r) /\ entry = settlements[entry.call][1]
  BY DEF InboundInv, RowsListReports
<1> QED BY <1>1, ReportsAreFinal

\* The clock, the third parties and the interceptors, while no request moves.
LEMMA InstrumentationStep ==
  ASSUME InboundInv, Tick \/ (\E c \in Call : Progress(c)) \/ UNCHANGED outVars, UNCHANGED inVars
  PROVE  InboundInv'
<1>0. /\ OutTypeOK /\ CountsAttempts /\ StoreInv /\ CallsGoOn /\ [Next]_vars
      /\ UNCHANGED <<stage, arrivedAt, answer, requestRows>>
  <2>1. OutTypeOK /\ CountsAttempts /\ StoreInv
    BY DEF InboundInv, IInv
  <2>2. [Next]_vars
    BY DEF Next, vars
  <2> QED BY <2>1, <2>2, ProgressGoesOn DEF inVars
<1>1. IInv' /\ StoreInv' /\ RowsListReports'
  BY <1>0, OutboundPart, RowsStayRight
<1>2. InTypes' /\ RowsWithTheAnswer' /\ SequentialTimesAddUp'
  BY <1>0 DEF InboundInv, InTypes, RowsWithTheAnswer, SequentialTimesAddUp
<1>3. CallsAreAdmitted' /\ ArrivedInThePast'
  <2>1. now \in Nat /\ now' \in Nat /\ arrivedAt \in [Request -> 0 .. MaxNow]
    BY <1>1, OutboundAssumption DEF InboundInv, IInv, OutTypeOK, InTypes
  <2> QED BY <1>0, <2>1, OutboundAssumption
          DEF InboundInv, CallsAreAdmitted, ArrivedInThePast, CallsGoOn
<1>4. \A r \in Request : openCalls(r)' \subseteq openCalls(r)
  BY <1>0 DEF openCalls, callsOf, CallsGoOn
<1>5. OneAtATime'
  BY <1>4 DEF InboundInv, OneAtATime
<1>6. Quiet \/ \E c \in Call : Settles(c)
  <2>1. [OutNext]_outVars
    BY <1>0, StepOfInstrumentation
  <2> QED BY <1>0, <2>1, StepSettlesOrNot
<1>7. ClosedWhenAnswered'
  <2> SUFFICES ASSUME NEW r \in Request \ Parallel, stage[r] = "answered"
               PROVE  /\ openCalls(r)' = {}
                      /\ upstreamCalls'[r] = upstreamCalls[r]
    BY <1>0 DEF InboundInv, ClosedWhenAnswered
  <2>1. openCalls(r) = {}
    BY DEF InboundInv, ClosedWhenAnswered
  <2>2. CASE Quiet
    BY <1>4, <2>1, <2>2 DEF Quiet
  <2>3. ASSUME NEW c \in Call, Settles(c) PROVE upstreamCalls'[r] = upstreamCalls[r]
    <3>1. RequestOf[c] # r
      BY <2>1, <2>3 DEF Settles, openCalls, callsOf
    <3> QED BY <1>0, <2>3, <3>1 DEF Settles, OutTypeOK
  <2> QED BY <1>4, <1>6, <2>1, <2>2, <2>3
<1>8. TimesFit'
  <2> SUFFICES ASSUME NEW r \in Request \ Parallel, stage[r] \in Admitted
               PROVE  /\ arrivedAt[r] + upstreamTotalMs(upstreamCalls'[r]) <= now'
                      /\ \A c \in openCalls(r)' :
                           arrivedAt[r] + upstreamTotalMs(upstreamCalls'[r]) <= meta'[c].startedAt
    BY <1>0 DEF TimesFit
  <2> DEFINE total == upstreamTotalMs(upstreamCalls[r])
             later == upstreamTotalMs(upstreamCalls'[r])
  <2>1. /\ arrivedAt[r] + total <= now
        /\ \A c \in openCalls(r) : arrivedAt[r] + total <= meta[c].startedAt
    BY DEF InboundInv, TimesFit
  <2>2. \A c \in openCalls(r)' : c \in openCalls(r) /\ meta'[c].startedAt = meta[c].startedAt
    BY <1>0, <1>4 DEF CallsGoOn, openCalls, callsOf
  <2>3. /\ arrivedAt[r] \in Nat /\ now \in Nat /\ now <= now' /\ now' \in Nat
        /\ \A c \in Call : meta[c].startedAt \in Nat
    <3>1. now' \in 0 .. MaxNow
      BY <1>1 DEF IInv, OutTypeOK
    <3> QED BY <1>0, <3>1, OutboundAssumption DEF InboundInv, InTypes, OutTypeOK, CallsGoOn
  <2>4. upstreamCalls[r] \in Seq(Settlement) /\ upstreamCalls \in [Request -> Seq(Settlement)]
    BY <1>0 DEF OutTypeOK
  <2>5. total \in Nat
    BY <2>4, StoreTotalTyped
  <2>6. ASSUME Quiet
        PROVE  /\ arrivedAt[r] + later <= now'
               /\ \A d \in openCalls(r)' : arrivedAt[r] + later <= meta'[d].startedAt
    <3>1. later = total
      BY <2>6 DEF Quiet
    <3> HIDE DEF total, later
    <3> QED BY <2>1, <2>2, <2>3, <2>5, <3>1
  <2>7. ASSUME NEW c \in Call, Settles(c)
        PROVE  /\ arrivedAt[r] + later <= now'
               /\ \A d \in openCalls(r)' : arrivedAt[r] + later <= meta'[d].startedAt
    <3>1. PICK report \in Settlement :
            /\ report.durationMs = now - meta[c].startedAt
            /\ upstreamCalls' = [upstreamCalls EXCEPT
                                   ![RequestOf[c]] = addUpstreamCall(@, report)]
      BY <2>7 DEF Settles
    <3>3. CASE RequestOf[c] # r
      <4>1. later = total
        BY <2>4, <3>1, <3>3
      <4> HIDE DEF total, later
      <4> QED BY <2>1, <2>2, <2>3, <2>5, <4>1
    <3>4. CASE RequestOf[c] = r
      <4>1. c \in openCalls(r)
        BY <2>7, <3>4 DEF Settles, openCalls, callsOf
      <4>2. openCalls(r)' = {}
        <5>1. c \notin openCalls(r)'
          BY <1>0, <2>7 DEF Settles, Settled, OutTypeOK, openCalls
        <5> QED BY <1>4, <4>1, <5>1 DEF InboundInv, OneAtATime
      <4>3. later \in {total, total + report.durationMs}
        <5>1. upstreamCalls'[r] = addUpstreamCall(upstreamCalls[r], report)
          BY <2>4, <3>1, <3>4
        <5> QED BY <2>4, <5>1, StoreTotalGrows
      <4>4. arrivedAt[r] + total <= meta[c].startedAt
        BY <2>1, <4>1
      <4> HIDE DEF total, later
      <4> QED BY <2>1, <2>3, <2>5, <3>1, <4>2, <4>3, <4>4
    <3> QED BY <3>3, <3>4
  <2> QED BY <1>6, <2>6, <2>7
<1> QED BY <1>1, <1>2, <1>3, <1>5, <1>7, <1>8 DEF InboundInv

\* The handler makes a call: it starts now, after everything reported so far.
LEMMA CallStep ==
  ASSUME InboundInv, NEW c \in Call, callUpstream(c)
  PROVE  InboundInv'
<1>0. /\ stage[RequestOf[c]] = "handling" /\ phase[c] = "idle"
      /\ RequestOf[c] \in Parallel \/ openCalls(RequestOf[c]) = {}
      /\ UNCHANGED <<stage, arrivedAt, answer, requestRows, settlements, upstreamCalls, now>>
  BY DEF callUpstream, request, onRequest, inVars, logVars
<1>1. /\ OutTypeOK /\ CountsAttempts /\ RequestOf \in [Call -> Request]
      /\ phase \in [Call -> Phases]
      /\ meta \in [Call -> [attempt : 0 .. MaxRetryAttempts + 1, startedAt : 0 .. MaxNow]]
  BY OutboundAssumption DEF InboundInv, IInv, OutTypeOK
<1>2. /\ phase' = [phase EXCEPT ![c] = "sent"]
      /\ meta' = [meta EXCEPT ![c] = [attempt |-> 1, startedAt |-> now]]
  BY <1>0, <1>1 DEF callUpstream, request, onRequest, CountsAttempts
<1>3. IInv' /\ StoreInv' /\ RowsListReports'
  <2>1. [Next]_vars
    BY DEF Next
  <2> QED BY <1>0, <2>1, OutboundPart, RowsStayRight
<1>4. InTypes' /\ RowsWithTheAnswer' /\ ArrivedInThePast' /\ SequentialTimesAddUp'
  BY <1>0 DEF InboundInv, InTypes, RowsWithTheAnswer, ArrivedInThePast, SequentialTimesAddUp
<1>5. CallsAreAdmitted'
  BY <1>0, <1>1, <1>2 DEF InboundInv, CallsAreAdmitted, Admitted
<1>6. \A r \in Request : openCalls(r)' \subseteq openCalls(r) \cup {d \in {c} : RequestOf[c] = r}
  BY <1>1, <1>2 DEF openCalls, callsOf
<1>7. OneAtATime'
  BY <1>0, <1>6 DEF InboundInv, OneAtATime
<1>8. ClosedWhenAnswered'
  BY <1>0, <1>6 DEF InboundInv, ClosedWhenAnswered
<1>9. TimesFit'
  BY <1>0, <1>1, <1>2, <1>6 DEF InboundInv, TimesFit, openCalls, callsOf
<1> QED BY <1>3, <1>4, <1>5, <1>7, <1>8, <1>9 DEF InboundInv

\* A request arrives, and the guard lets it through or not.
LEMMA ArrivalStep ==
  ASSUME InboundInv, NEW r \in Request, use(r) \/ admit(r) \/ deny(r)
  PROVE  InboundInv'
<1>0. /\ stage[r] \in {"new", "authenticating"} /\ requestRows' = requestRows
      /\ \/ /\ stage' = [stage EXCEPT ![r] = "authenticating"]
            /\ UNCHANGED <<arrivedAt, answer>>
         \/ /\ stage' = [stage EXCEPT ![r] = "handling"]
            /\ arrivedAt' = [arrivedAt EXCEPT ![r] = now]
            /\ answer' = answer
         \/ /\ stage' = [stage EXCEPT ![r] = "denied"]
            /\ \E status \in {401, 500} : answer' = [answer EXCEPT ![r] = status]
            /\ arrivedAt' = arrivedAt
  BY DEF use, admit, deny
<1>1. [Next]_vars
  BY DEF Next
<1>2. UNCHANGED <<phase, meta, settlements, now>>
  BY DEF use, admit, deny, outVars, logVars
<1>3. IInv' /\ StoreInv' /\ RowsListReports'
  BY <1>0, <1>1, OutboundPart, RowsStayRight
<1>4. /\ InTypes /\ OutTypeOK /\ StoreInv /\ stage \in [Request -> Stages]
      /\ arrivedAt \in [Request -> 0 .. MaxNow]
  BY DEF InboundInv, IInv, InTypes
<1>5. \A c \in callsOf(r) : phase[c] = "idle"
  BY <1>0 DEF InboundInv, CallsAreAdmitted, Admitted, callsOf
<1>6. upstreamCalls[r] = <<>> /\ upstreamCalls' = upstreamCalls
  <2>1. upstreamCalls[r] = <<>>
    BY <1>4, <1>5, NothingSettledNothingStored DEF Settled
  <2>2. upstreamCalls \in [Request -> Seq(Settlement)]
    BY <1>4 DEF OutTypeOK
  <2> QED BY <2>1, <2>2 DEF use, admit, deny, outVars, logVars
<1>7. requestRows[r] = <<>>
  BY <1>0 DEF InboundInv, RowsWithTheAnswer
<1>8. InTypes'
  <2>1. stage' \in [Request -> Stages]
    BY <1>0, <1>4 DEF Stages
  <2>2. arrivedAt' \in [Request -> 0 .. MaxNow]
    BY ZenonT(60), <1>0, <1>4 DEF OutTypeOK
  <2>3. answer' \in [Request -> HttpExceptions \cup {0, DefaultStatus, 401, 500}]
    <3>1. answer \in [Request -> HttpExceptions \cup {0, DefaultStatus, 401, 500}]
      BY <1>4 DEF InTypes
    <3>2. CASE \E status \in {401, 500} : answer' = [answer EXCEPT ![r] = status]
      BY <3>1, <3>2
    <3> QED BY <1>0, <3>1, <3>2
  <2> QED BY <1>0, <1>4, <2>1, <2>2, <2>3 DEF InTypes
<1>9. CallsAreAdmitted'
  <2>1. \A c \in Call : phase[c] # "idle" => RequestOf[c] # r
    BY <1>5 DEF callsOf
  <2>2. \A q \in Request \ {r} : stage'[q] = stage[q]
    BY <1>0, <1>4
  <2> QED BY <1>2, <2>1, <2>2, OutboundAssumption DEF InboundInv, CallsAreAdmitted
<1>10. RowsWithTheAnswer'
  BY <1>0, <1>4, <1>7 DEF InboundInv, RowsWithTheAnswer
<1>11. \A q \in Request : openCalls(q)' = openCalls(q)
  BY <1>2 DEF openCalls, callsOf
<1>12. openCalls(r) = {}
  BY <1>5 DEF openCalls, callsOf
<1>13. OneAtATime'
  BY <1>11 DEF InboundInv, OneAtATime
<1>14. ClosedWhenAnswered'
  BY <1>0, <1>4, <1>6, <1>7, <1>11 DEF InboundInv, ClosedWhenAnswered
<1>15. TimesFit'
  <2> SUFFICES ASSUME NEW q \in Request \ Parallel, stage'[q] \in Admitted
               PROVE  /\ arrivedAt'[q] + upstreamTotalMs(upstreamCalls[q]) <= now
                      /\ \A c \in openCalls(q) :
                           arrivedAt'[q] + upstreamTotalMs(upstreamCalls[q]) <= meta[c].startedAt
    BY <1>2, <1>6, <1>11 DEF TimesFit
  <2>1. CASE q = r
    <3>1. arrivedAt'[r] = now
      BY <1>0, <1>4, <2>1 DEF Admitted
    <3>2. upstreamTotalMs(upstreamCalls[q]) = 0
      BY <1>6, <2>1, TotalOfNone
    <3>3. now \in Nat
      BY <1>4, OutboundAssumption DEF OutTypeOK
    <3> QED BY <1>12, <2>1, <3>1, <3>2, <3>3
  <2>2. CASE q # r
    <3>1. arrivedAt'[q] = arrivedAt[q] /\ stage'[q] = stage[q]
      BY <1>0, <1>4, <2>2
    <3> QED BY <3>1 DEF InboundInv, TimesFit
  <2> QED BY <2>1, <2>2
<1>16. SequentialTimesAddUp' /\ ArrivedInThePast'
  <2>1. now \in Nat
    BY <1>4, OutboundAssumption DEF OutTypeOK
  <2>2. ArrivedInThePast'
    BY <1>0, <1>2, <1>4, <2>1 DEF InboundInv, ArrivedInThePast
  <2> QED BY <1>0, <2>2 DEF InboundInv, SequentialTimesAddUp
<1> QED BY <1>3, <1>8, <1>9, <1>10, <1>13, <1>14, <1>15, <1>16 DEF InboundInv

\* The request is answered: every interceptor of the route writes down the store
\* as it is, with the times as they are.
LEMMA FinishStep ==
  ASSUME InboundInv, NEW r \in Request, stage[r] = "handling",
         r \notin Parallel => openCalls(r) = {},
         NEW status \in HttpExceptions \cup {DefaultStatus, 500},
         NEW recorded \in Statuses \cup HttpExceptions \cup {DefaultStatus},
         NEW failed \in BOOLEAN, finish(r, status, recorded, failed), [Next]_vars
  PROVE  InboundInv'
<1> DEFINE row == [statusCode |-> recorded, failed |-> failed,
                   durationMs |-> now - arrivedAt[r],
                   upstreamMs |-> upstreamTotalMs(upstreamCalls[r]),
                   upstreamCalls |-> upstreamCalls[r]]
           rows == [i \in 1 .. loggingInterceptors(r) |-> row]
<1>0. /\ stage' = [stage EXCEPT ![r] = "answered"]
      /\ answer' = [answer EXCEPT ![r] = status]
      /\ requestRows' = [requestRows EXCEPT ![r] = rows]
      /\ UNCHANGED <<phase, meta, settlements, upstreamCalls, now, arrivedAt>>
  BY DEF finish, record, outVars, logVars
<1>1. /\ InTypes /\ OutTypeOK /\ StoreInv /\ stage \in [Request -> Stages]
      /\ arrivedAt \in [Request -> 0 .. MaxNow] /\ requestRows \in [Request -> Seq(Row)]
      /\ now \in 0 .. MaxNow /\ upstreamCalls[r] \in Seq(Settlement)
  BY DEF InboundInv, IInv, InTypes, OutTypeOK
<1>2. IInv' /\ StoreInv'
  BY OutboundPart
<1>3. loggingInterceptors(r) \in Nat
  BY DEF loggingInterceptors
<1>4. row \in Row
  <2>1. now - arrivedAt[r] \in 0 .. MaxNow
    BY <1>1, OutboundAssumption DEF InboundInv, ArrivedInThePast
  <2>2. upstreamTotalMs(upstreamCalls[r]) \in Nat
    BY <1>1, StoreTotalTyped
  <2> QED BY <1>1, <2>1, <2>2 DEF Row
<1>5. /\ rows \in Seq(Row) /\ DOMAIN rows = 1 .. loggingInterceptors(r)
      /\ \A i \in DOMAIN rows : rows[i] = row
  <2> HIDE DEF row
  <2> QED BY <1>3, <1>4
<1>6. /\ requestRows'[r] = rows /\ \A q \in Request \ {r} : requestRows'[q] = requestRows[q]
      /\ stage'[r] = "answered" /\ \A q \in Request \ {r} : stage'[q] = stage[q]
  <2> HIDE DEF rows
  <2> QED BY <1>0, <1>1
<1> HIDE DEF rows
<1>7. InTypes'
  <2>1. stage' \in [Request -> Stages]
    BY <1>0, <1>1 DEF Stages
  <2>2. answer' \in [Request -> HttpExceptions \cup {0, DefaultStatus, 401, 500}]
    BY <1>0, <1>1 DEF InTypes
  <2>3. requestRows' \in [Request -> Seq(Row)]
    BY <1>0, <1>1, <1>5
  <2> QED BY <1>0, <1>1, <2>1, <2>2, <2>3 DEF InTypes
<1>8. CallsAreAdmitted'
  BY <1>0, <1>6, OutboundAssumption DEF InboundInv, CallsAreAdmitted, Admitted
<1>9. RowsWithTheAnswer' /\ ArrivedInThePast'
  BY <1>0, <1>6 DEF InboundInv, RowsWithTheAnswer, ArrivedInThePast
<1>10. \A q \in Request : openCalls(q)' = openCalls(q)
  BY <1>0 DEF openCalls, callsOf
<1>11. OneAtATime'
  BY <1>10 DEF InboundInv, OneAtATime
<1>12. ClosedWhenAnswered'
  <2> SUFFICES ASSUME NEW q \in Request \ Parallel, stage'[q] = "answered"
               PROVE  /\ openCalls(q) = {}
                      /\ \A i \in DOMAIN requestRows'[q] :
                           requestRows'[q][i].upstreamCalls = upstreamCalls[q]
    BY <1>0, <1>10 DEF ClosedWhenAnswered
  <2>1. CASE q = r
    <3>1. row.upstreamCalls = upstreamCalls[r]
      OBVIOUS
    <3>2. openCalls(r) = {}
      BY <2>1
    <3> HIDE DEF row
    <3>3. \A i \in DOMAIN requestRows'[r] : requestRows'[r][i] = row
      BY <1>5, <1>6
    <3> QED BY <2>1, <3>1, <3>2, <3>3
  <2>2. CASE q # r
    BY <1>6, <2>2 DEF InboundInv, ClosedWhenAnswered
  <2> QED BY <2>1, <2>2
<1>13. RowsListReports'
  <2>1. StoreLists(r)
    BY DEF InboundInv, StoreInv
  <2>2. \A q \in Request : settledFor(q)' = settledFor(q)
    BY <1>0 DEF settledFor
  <2> QED BY SMTT(60), <1>0, <1>5, <1>6, <2>1, <2>2 DEF InboundInv, RowsListReports, StoreLists
<1>14. TimesFit'
  BY <1>0, <1>6, <1>10 DEF InboundInv, TimesFit, Admitted
<1>15. SequentialTimesAddUp'
  <2>1. r \notin Parallel => row.upstreamMs <= row.durationMs
    <3>1. r \notin Parallel => arrivedAt[r] + upstreamTotalMs(upstreamCalls[r]) <= now
      BY DEF InboundInv, TimesFit, Admitted
    <3>2. upstreamTotalMs(upstreamCalls[r]) \in Nat /\ now \in Nat /\ arrivedAt[r] \in Nat
      BY <1>1, StoreTotalTyped, OutboundAssumption
    <3> QED BY <3>1, <3>2
  <2> HIDE DEF row
  <2> SUFFICES ASSUME NEW q \in Request \ Parallel, NEW i \in DOMAIN requestRows'[q]
               PROVE  requestRows'[q][i].upstreamMs <= requestRows'[q][i].durationMs
    BY DEF SequentialTimesAddUp
  <2>2. CASE q = r
    BY ZenonT(60), <1>5, <1>6, <2>1, <2>2
  <2>3. CASE q # r
    BY <1>6, <2>3 DEF InboundInv, SequentialTimesAddUp
  <2> QED BY <2>2, <2>3
<1> QED BY <1>2, <1>7, <1>8, <1>9, <1>11, <1>12, <1>13, <1>14, <1>15 DEF InboundInv

\* What the interceptors write down for an error is a status.
LEMMA RecordedIsStatus ==
  ASSUME NEW status \in Statuses \cup HttpExceptions \cup {NoStatus}
  PROVE  recordedStatus(status) \in Statuses \cup HttpExceptions \cup {DefaultStatus}
  BY DEF recordedStatus

\* Every step keeps the invariant.
LEMMA InboundStep == InboundInv /\ [Next]_vars => InboundInv'
<1> SUFFICES ASSUME InboundInv, [Next]_vars PROVE InboundInv'
  OBVIOUS
<1>1. CASE (Tick \/ \E c \in Call : Progress(c)) /\ UNCHANGED inVars
  BY <1>1, InstrumentationStep
<1>2. CASE UNCHANGED vars
  BY <1>2, InstrumentationStep DEF vars
<1>3. ASSUME NEW c \in Call, callUpstream(c) PROVE InboundInv'
  BY <1>3, CallStep
<1>4. ASSUME NEW r \in Request, use(r) \/ admit(r) \/ deny(r) PROVE InboundInv'
  BY <1>4, ArrivalStep
<1>5. DefaultStatus \in HttpExceptions \cup {DefaultStatus, 500}
  OBVIOUS
<1>6. ASSUME NEW r \in Request, return(r) PROVE InboundInv'
  <2>1. /\ stage[r] = "handling" /\ openCalls(r) = {}
        /\ finish(r, DefaultStatus, DefaultStatus, FALSE)
    BY <1>6 DEF return
  <2>2. PICK failed \in BOOLEAN : finish(r, DefaultStatus, DefaultStatus, failed)
    BY <2>1, Zenon
  <2> QED BY <1>5, <2>1, <2>2, FinishStep
<1>7. ASSUME NEW r \in Request, NEW status \in HttpExceptions \cup {NoStatus}, throwOwn(r, status)
      PROVE  InboundInv'
  <2>1. /\ stage[r] = "handling" /\ openCalls(r) = {}
        /\ finish(r, IF status = NoStatus THEN 500 ELSE status, recordedStatus(status), TRUE)
    BY <1>7 DEF throwOwn
  <2>2. PICK failed \in BOOLEAN :
          finish(r, IF status = NoStatus THEN 500 ELSE status, recordedStatus(status), failed)
    BY <2>1, Zenon
  <2>3. (IF status = NoStatus THEN 500 ELSE status) \in HttpExceptions \cup {DefaultStatus, 500}
    OBVIOUS
  <2>4. recordedStatus(status) \in Statuses \cup HttpExceptions \cup {DefaultStatus}
    BY RecordedIsStatus
  <2> QED BY <2>1, <2>2, <2>3, <2>4, FinishStep
<1>8. ASSUME NEW r \in Request, throwAxios(r) PROVE InboundInv'
  <2>1. PICK c \in callsOf(r) :
          /\ phase[c] = "rejected"
          /\ r \notin Parallel => openCalls(r) = {}
          /\ finish(r, 500, recordedStatus(settlements[c][1].statusCode), TRUE)
    BY <1>8 DEF throwAxios
  <2>2. PICK failed \in BOOLEAN :
          finish(r, 500, recordedStatus(settlements[c][1].statusCode), failed)
    BY <2>1, Zenon
  <2>3. settlements[c][1] \in Settlement
    BY <2>1, SettledHasReport DEF callsOf, Settled, InboundInv, IInv
  <2>4. recordedStatus(settlements[c][1].statusCode)
          \in Statuses \cup HttpExceptions \cup {DefaultStatus}
    BY <2>3, RecordedIsStatus DEF Settlement
  <2>5. stage[r] = "handling" /\ 500 \in HttpExceptions \cup {DefaultStatus, 500}
    BY <1>8 DEF throwAxios
  <2> QED BY <2>1, <2>2, <2>4, <2>5, FinishStep
<1> QED BY <1>1, <1>2, <1>3, <1>4, <1>6, <1>7, <1>8 DEF Next

\* Before any request has arrived it holds.
LEMMA InboundInitially == Init => InboundInv
<1> SUFFICES ASSUME Init PROVE InboundInv
  OBVIOUS
<1>1. IInv /\ StoreInv
  BY InvariantInitially, StoresInitially DEF Init
<1>2. \A c \in Call : phase[c] = "idle"
  BY DEF Init, OutInit
<1>3. now = 0 /\ \A r \in Request : upstreamCalls[r] = <<>>
  BY DEF Init, OutInit
<1>4. <<>> \in Seq(Row) /\ DOMAIN <<>> = {}
  BY EmptySeq
<1>5. InTypes
  BY <1>4, OutboundAssumption DEF Init, InTypes, Stages
<1>6. CallsAreAdmitted /\ RowsWithTheAnswer /\ ArrivedInThePast
  BY <1>2, <1>3 DEF Init, CallsAreAdmitted, RowsWithTheAnswer, ArrivedInThePast
<1>7. \A r \in Request : openCalls(r) = {} /\ stage[r] = "new" /\ requestRows[r] = <<>>
  BY <1>2 DEF openCalls, callsOf, Init
<1>8. OneAtATime /\ ClosedWhenAnswered /\ RowsListReports /\ TimesFit /\ SequentialTimesAddUp
  BY <1>4, <1>7 DEF OneAtATime, ClosedWhenAnswered, RowsListReports, TimesFit, Admitted,
     SequentialTimesAddUp
<1> QED BY <1>1, <1>5, <1>6, <1>8 DEF InboundInv

-----------------------------------------------------------------------------
(* Results. *)

\* The invariant holds in every reachable state.
THEOREM InboundInvariance == Spec => []InboundInv
  BY InboundInitially, InboundStep, PTL DEF Spec

\* Requests and their guards only ever drive the instrumentation as OutboundHttp
\* allows it: the composition refines it step by step.
THEOREM InboundDrivesInstrumentation == Spec => OutInit /\ [][OutNext]_outVars
<1>1. Init => OutInit
  BY DEF Init
<1>2. InboundInv /\ [Next]_vars => [OutNext]_outVars
  BY StepOfInstrumentation
<1> QED BY <1>1, <1>2, InboundInvariance, PTL DEF Spec

\* Type correctness, for every number of requests and calls.
THEOREM InboundTypesCorrect == Spec => []TypeOK
<1>1. InboundInv => TypeOK
  BY DEF InboundInv, IInv, InTypes, TypeOK
<1> QED BY <1>1, InboundInvariance, PTL

\* What AsyncLocalStorage is for: no row of request_logs lists a call made for
\* another request, whatever the requests are called and however they interleave.
THEOREM RowsBlameTheRightRequest == Spec => []RowsListOwnCalls
<1>1. InboundInv => RowsListOwnCalls
  BY DEF InboundInv, RowsListReports, RowsListOwnCalls, settledFor
<1> QED BY <1>1, InboundInvariance, PTL

\* The row of a handler that awaits each call before the next is complete.
THEOREM SequentialRowsAreComplete == Spec => []SequentialRowIsComplete
<1>1. InboundInv => SequentialRowIsComplete
  <2> SUFFICES ASSUME InboundInv, NEW r \in Request \ Parallel, NEW i \in DOMAIN requestRows[r]
               PROVE  openCalls(r) = {} /\ requestRows[r][i].upstreamCalls = upstreamCalls[r]
    BY DEF SequentialRowIsComplete
  <2>1. stage[r] = "answered"
    <3>1. DOMAIN <<>> = {}
      BY EmptySeq
    <3> QED BY <3>1 DEF InboundInv, RowsWithTheAnswer
  <2> QED BY <2>1 DEF InboundInv, ClosedWhenAnswered
<1> QED BY <1>1, InboundInvariance, PTL

\* For such a handler selfMs = durationMs - upstreamMs is never negative,
\* whatever third parties do and however often calls are repeated.
THEOREM SequentialTimesDoAddUp == Spec => []SequentialTimesAddUp
<1>1. InboundInv => SequentialTimesAddUp
  BY DEF InboundInv
<1> QED BY <1>1, InboundInvariance, PTL

\* A request the guard has not let through costs no third party a call and
\* leaves no row of a handled request.
THEOREM NothingIsAskedUnadmitted == Spec => []NothingBeforeAdmission
<1>1. InboundInv => NothingBeforeAdmission
  <2> SUFFICES ASSUME InboundInv, NEW r \in Request,
                      stage[r] \in {"new", "authenticating", "denied"}
               PROVE  requestRows[r] = <<>> /\ \A c \in callsOf(r) : sends[c] = 0
    BY DEF NothingBeforeAdmission
  <2>1. requestRows[r] = <<>>
    BY DEF InboundInv, RowsWithTheAnswer
  <2>2. \A c \in callsOf(r) : phase[c] = "idle"
    BY DEF InboundInv, CallsAreAdmitted, Admitted, callsOf
  <2> QED BY <2>1, <2>2 DEF InboundInv, IInv, CountsAttempts, callsOf
<1> QED BY <1>1, InboundInvariance, PTL

\* In the composed system, too, what the interceptors promise holds.
THEOREM PromisesHoldInContext ==
  Spec => [](ReportedOnceAndTruthfully /\ StoreAccountsForRequest)
<1>1. InboundInv => ReportedOnceAndTruthfully /\ StoreAccountsForRequest
  BY StoreInvSuffices DEF InboundInv, IInv
<1> QED BY <1>1, InboundInvariance, PTL
=============================================================================
