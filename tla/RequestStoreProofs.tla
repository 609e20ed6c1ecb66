-------------------------- MODULE RequestStoreProofs --------------------------
(***************************************************************************)
(* Proofs about the store of a request: what upstreamTotalMs computes, and *)
(* that the store lists the calls settled for its request, each once, up   *)
(* to the cap, for every set of calls and requests and every cap.          *)
(***************************************************************************)
EXTENDS OutboundHttpProofs, FiniteSetTheorems

-----------------------------------------------------------------------------
(* The total of upstreamTotalMs. *)

\* What is to be shown of every natural number holds if no number is the least
\* for which it fails: the form of induction the lemmas below use.
LEMMA NoLeastFailure ==
  ASSUME NEW Failing \in SUBSET Nat,
         \A n \in Failing : \E m \in Failing : m < n
  PROVE  Failing = {}
<1> SUFFICES ASSUME Failing # {} PROVE FALSE
  OBVIOUS
<1>1. \E n \in Failing : \A m \in Failing : <<m, n>> \notin OpToRel(<, Nat)
  BY NatLessThanWellFounded, WFMin
<1>2. PICK n \in Failing : \A m \in Failing : <<m, n>> \notin OpToRel(<, Nat)
  BY <1>1
<1>3. PICK m \in Failing : m < n
  OBVIOUS
<1>4. <<m, n>> \in OpToRel(<, Nat)
  BY <1>3 DEF OpToRel
<1> QED BY <1>2, <1>4

\* The function upstreamTotalMs defines by recursion.
AddsUp(f, calls, last) ==
  f = [n \in 0 .. last |-> IF n = 0 THEN 0 ELSE f[n - 1] + calls[n].durationMs]

\* There is such a function, and its values are times.
LEMMA TotalExists ==
  ASSUME NEW Timed, \A call \in Timed : call.durationMs \in Nat,
         NEW calls \in Seq(Timed), NEW last \in 0 .. Len(calls)
  PROVE  \E f \in [0 .. last -> Nat] : AddsUp(f, calls, last)
<1> DEFINE Failing == {n \in 0 .. Len(calls) : \A f \in [0 .. n -> Nat] : ~AddsUp(f, calls, n)}
<1>0. Len(calls) \in Nat
  OBVIOUS
<1>1. ASSUME NEW n \in Failing PROVE \E m \in Failing : m < n
  <2>1. n \in 0 .. Len(calls) /\ \A f \in [0 .. n -> Nat] : ~AddsUp(f, calls, n)
    OBVIOUS
  <2>2. n # 0
    <3>1. SUFFICES ASSUME n = 0 PROVE FALSE
      OBVIOUS
    <3> DEFINE f == [k \in 0 .. 0 |-> 0]
    <3>2. f \in [0 .. n -> Nat] /\ AddsUp(f, calls, n)
      BY <3>1 DEF AddsUp
    <3> QED BY <2>1, <3>2
  <2>3. n - 1 \in 0 .. Len(calls) /\ n - 1 < n
    BY <1>0, <2>1, <2>2
  <2>4. SUFFICES ASSUME n - 1 \notin Failing PROVE FALSE
    BY <2>3
  <2>5. PICK f \in [0 .. n - 1 -> Nat] : AddsUp(f, calls, n - 1)
    BY <2>3, <2>4
  <2> DEFINE g == [k \in 0 .. n |-> IF k = n THEN f[n - 1] + calls[n].durationMs ELSE f[k]]
  <2>6. calls[n].durationMs \in Nat
    BY <1>0, <2>1, <2>2
  <2>7. g \in [0 .. n -> Nat]
    BY <1>0, <2>1, <2>2, <2>6
  <2>8. \A k \in 0 .. n : g[k] = IF k = 0 THEN 0 ELSE g[k - 1] + calls[k].durationMs
    <3>1. \A k \in 0 .. n - 1 : f[k] = IF k = 0 THEN 0 ELSE f[k - 1] + calls[k].durationMs
      BY <2>5 DEF AddsUp
    <3>2. \A k \in 0 .. n - 1 : g[k] = f[k]
      BY <1>0, <2>1, <2>2
    <3>3. g[n] = f[n - 1] + calls[n].durationMs
      BY <1>0, <2>1, <2>2
    <3>4. \A k \in 0 .. n : k = n \/ (k \in 0 .. n - 1 /\ (k = 0 \/ k - 1 \in 0 .. n - 1))
      BY <1>0, <2>1, <2>2
    <3>5. n - 1 \in 0 .. n - 1
      BY <1>0, <2>1, <2>2
    <3> HIDE DEF g
    <3> QED BY <2>2, <3>1, <3>2, <3>3, <3>4, <3>5
  <2>9. AddsUp(g, calls, n)
    <3>1. g = [k \in 0 .. n |-> g[k]]
      OBVIOUS
    <3> HIDE DEF g
    <3> QED BY <2>8, <3>1 DEF AddsUp
  <2> HIDE DEF g
  <2> QED BY <2>1, <2>7, <2>9
<1>2. Failing \in SUBSET Nat
  BY <1>0
<1> HIDE DEF Failing
<1>3. Failing = {}
  BY <1>1, <1>2, NoLeastFailure
<1> QED BY <1>3 DEF Failing

SameCalls(calls, others, last) == \A n \in 1 .. last : calls[n] = others[n]

\* Two such functions agree as far as both go and the calls are the same.
LEMMA TotalIsUnique ==
  ASSUME NEW calls, NEW others, NEW last \in Nat, NEW further \in Nat, last <= further,
         SameCalls(calls, others, last),
         NEW f, AddsUp(f, calls, last), NEW g, AddsUp(g, others, further)
  PROVE  \A n \in 0 .. last : f[n] = g[n]
<1> DEFINE Failing == {n \in 0 .. last : f[n] # g[n]}
<1>1. ASSUME NEW n \in Failing PROVE \E m \in Failing : m < n
  <2>1. n \in 0 .. last /\ n \in 0 .. further /\ f[n] # g[n]
    OBVIOUS
  <2>2. f[n] = IF n = 0 THEN 0 ELSE f[n - 1] + calls[n].durationMs
    BY <2>1 DEF AddsUp
  <2>3. g[n] = IF n = 0 THEN 0 ELSE g[n - 1] + others[n].durationMs
    BY <2>1 DEF AddsUp
  <2>4. n # 0
    BY <2>1, <2>2, <2>3
  <2>5. n - 1 \in 0 .. last /\ n - 1 < n /\ calls[n] = others[n]
    BY <2>1, <2>4 DEF SameCalls
  <2>6. f[n - 1] # g[n - 1]
    BY <2>1, <2>2, <2>3, <2>4, <2>5
  <2> QED BY <2>5, <2>6
<1>2. Failing \in SUBSET Nat
  OBVIOUS
<1> HIDE DEF Failing
<1>3. Failing = {}
  BY <1>1, <1>2, NoLeastFailure
<1> QED BY <1>3 DEF Failing

\* What upstreamTotalMs returns is the last value of that function.
LEMMA TotalIsLast ==
  ASSUME NEW Timed, \A call \in Timed : call.durationMs \in Nat,
         NEW calls \in Seq(Timed)
  PROVE  \E f \in [0 .. Len(calls) -> Nat] :
            AddsUp(f, calls, Len(calls)) /\ upstreamTotalMs(calls) = f[Len(calls)]
<1> DEFINE total == CHOOSE f : AddsUp(f, calls, Len(calls))
<1>1. Len(calls) \in 0 .. Len(calls)
  OBVIOUS
<1>2. PICK f \in [0 .. Len(calls) -> Nat] : AddsUp(f, calls, Len(calls))
  BY <1>1, TotalExists
<1>3. AddsUp(total, calls, Len(calls))
  BY <1>2
<1>4. total \in [0 .. Len(calls) -> Nat]
  <2>1. \A n \in 0 .. Len(calls) : total[n] = f[n]
    <3> HIDE DEF total
    <3> QED BY <1>1, <1>2, <1>3, TotalIsUnique DEF SameCalls
  <2>2. total = [n \in 0 .. Len(calls) |-> total[n]]
    <3> HIDE DEF total
    <3> QED BY <1>3 DEF AddsUp
  <2> HIDE DEF total
  <2> QED BY <2>1, <2>2
<1>5. upstreamTotalMs(calls) = total[Len(calls)]
  BY DEF upstreamTotalMs, AddsUp
<1> HIDE DEF total
<1> QED BY <1>3, <1>4, <1>5

\* It is a time.
LEMMA TotalIsTime ==
  ASSUME NEW Timed, \A call \in Timed : call.durationMs \in Nat,
         NEW calls \in Seq(Timed)
  PROVE  upstreamTotalMs(calls) \in Nat
<1>1. PICK f \in [0 .. Len(calls) -> Nat] : upstreamTotalMs(calls) = f[Len(calls)]
  BY TotalIsLast
<1>2. Len(calls) \in 0 .. Len(calls)
  OBVIOUS
<1> QED BY <1>1, <1>2

\* The total of an empty store.
LEMMA TotalOfNone == upstreamTotalMs(<<>>) = 0
<1> DEFINE Timed == [durationMs : Nat]
<1>1. <<>> \in Seq(Timed) /\ Len(<<>>) = 0
  OBVIOUS
<1>2. PICK f \in [0 .. 0 -> Nat] : AddsUp(f, <<>>, 0) /\ upstreamTotalMs(<<>>) = f[0]
  BY <1>1, TotalIsLast
<1>3. f[0] = 0
  BY <1>2 DEF AddsUp
<1> QED BY <1>2, <1>3

\* One more call adds its time.
LEMMA TotalOfAppend ==
  ASSUME NEW Timed, \A call \in Timed : call.durationMs \in Nat,
         NEW calls \in Seq(Timed), NEW call \in Timed
  PROVE  upstreamTotalMs(Append(calls, call)) = upstreamTotalMs(calls) + call.durationMs
<1> DEFINE more == Append(calls, call)
<1>1. /\ more \in Seq(Timed) /\ Len(more) = Len(calls) + 1 /\ Len(calls) \in Nat
      /\ \A n \in 1 .. Len(calls) : calls[n] = more[n]
      /\ more[Len(calls) + 1] = call
  OBVIOUS
<1> HIDE DEF more
<1>2. PICK f \in [0 .. Len(calls) -> Nat] :
         AddsUp(f, calls, Len(calls)) /\ upstreamTotalMs(calls) = f[Len(calls)]
  BY TotalIsLast
<1>3. PICK g \in [0 .. Len(more) -> Nat] :
         AddsUp(g, more, Len(more)) /\ upstreamTotalMs(more) = g[Len(more)]
  BY <1>1, TotalIsLast
<1>4. \A n \in 0 .. Len(calls) : f[n] = g[n]
  <2> DEFINE last == Len(calls)
             further == Len(more)
  <2>1. AddsUp(f, calls, last) /\ AddsUp(g, more, further)
    BY <1>2, <1>3
  <2>2. last \in Nat /\ further \in Nat /\ last <= further
    BY <1>1
  <2>3. SameCalls(calls, more, last)
    BY <1>1 DEF SameCalls
  <2> HIDE DEF last, further
  <2>4. \A n \in 0 .. last : f[n] = g[n]
    BY <2>1, <2>2, <2>3, TotalIsUnique
  <2> QED BY <2>4 DEF last
<1>5. g[Len(more)] = g[Len(calls)] + call.durationMs
  BY <1>1, <1>3 DEF AddsUp
<1> QED BY <1>1, <1>2, <1>3, <1>4, <1>5 DEF more

-----------------------------------------------------------------------------
(* What a step of OutNext does to the log and to the stores. *)

\* A step that reports nothing and settles nothing.
Quiet ==
  /\ UNCHANGED <<settlements, upstreamCalls>>
  /\ \A c \in Call : phase'[c] \in Settled <=> phase[c] \in Settled

\* The step in which c settles: one report, handed to the log and to the store
\* of the request c was made for.
Settles(c) ==
  /\ phase[c] = "sent"
  /\ \E end \in Settled : phase' = [phase EXCEPT ![c] = end]
  /\ UNCHANGED <<meta, now>>
  /\ \E report \in Settlement :
       /\ report.call = c
       /\ report.durationMs = now - meta[c].startedAt
       /\ settlements' = [settlements EXCEPT ![c] = Append(@, report)]
       /\ upstreamCalls' = [upstreamCalls EXCEPT
                              ![RequestOf[c]] = addUpstreamCall(@, report)]

\* onSettled is that step, on either path.
LEMMA SettledSettles ==
  ASSUME OutTypeOK, CountsAttempts, NEW c \in Call, phase[c] = "sent",
         NEW end \in Settled, phase' = [phase EXCEPT ![c] = end],
         NEW status \in Statuses \cup {NoStatus}, NEW timedOut \in BOOLEAN,
         NEW error \in ErrorCodes \cup {NoError}, onSettled(c, status, timedOut, error),
         UNCHANGED <<meta, now>>
  PROVE  Settles(c)
<1> DEFINE report == [call |-> c, statusCode |-> status,
                      durationMs |-> now - meta[c].startedAt,
                      attempts |-> meta[c].attempt,
                      timedOut |-> timedOut, error |-> error]
<1>1. now - meta[c].startedAt \in 0 .. MaxNow
  BY OutboundAssumption DEF OutTypeOK, CountsAttempts
<1>2. meta[c].attempt \in 1 .. MaxRetryAttempts + 1
  BY OutboundAssumption DEF OutTypeOK, CountsAttempts
<1>3. report \in Settlement /\ report.call = c /\ report.durationMs = now - meta[c].startedAt
  BY <1>1, <1>2 DEF Settlement
<1>4. /\ settlements' = [settlements EXCEPT ![c] = Append(@, report)]
      /\ upstreamCalls' = [upstreamCalls EXCEPT
                             ![RequestOf[c]] = addUpstreamCall(@, report)]
  BY DEF onSettled, storeOf
<1> HIDE DEF report
<1> QED BY <1>3, <1>4 DEF Settles

\* The error path settles the call or is quiet.
LEMMA ErrorSettlesOrNot ==
  ASSUME OutTypeOK, CountsAttempts, NEW c \in Call, phase[c] = "sent",
         NEW error \in AxiosError(Statuses), onError(c, error), now' = now
  PROVE  Quiet \/ Settles(c)
<1>1. CASE /\ phase' = [phase EXCEPT ![c] = "backoff"]
           /\ UNCHANGED logVars
  BY <1>1 DEF Quiet, logVars, OutTypeOK, Settled
<1>2. CASE /\ phase' = [phase EXCEPT ![c] = "rejected"]
           /\ onSettled(c, error.status, isTimeout(error), error.code)
           /\ UNCHANGED meta
  <2>1. /\ error.status \in Statuses \cup {NoStatus}
        /\ isTimeout(error) \in BOOLEAN
        /\ error.code \in ErrorCodes \cup {NoError}
    BY DEF AxiosError, isTimeout
  <2>2. "rejected" \in Settled
    BY DEF Settled
  <2> QED BY <1>2, <2>1, <2>2, SettledSettles
<1> QED BY <1>1, <1>2 DEF onError

\* So every step settles one call or none.
LEMMA StepSettlesOrNot ==
  ASSUME OutTypeOK, CountsAttempts, [OutNext]_outVars
  PROVE  Quiet \/ \E c \in Call : Settles(c)
<1>1. CASE Tick \/ UNCHANGED outVars
  BY <1>1 DEF Tick, outVars, logVars, Quiet
<1>2. ASSUME NEW c \in Call, request(c) \/ retry(c) PROVE Quiet
  BY <1>2 DEF request, retry, onRequest, logVars, Quiet, OutTypeOK, Settled
<1>3. ASSUME NEW c \in Call, Execute(c) PROVE Quiet
  BY <1>3 DEF Execute, logVars, Quiet
<1>4. ASSUME NEW c \in Call, NEW status \in Statuses, Respond(c, status)
      PROVE  Quiet \/ Settles(c)
  <2> DEFINE error == [code |-> IF status >= 500 THEN "ERR_BAD_RESPONSE" ELSE "ERR_BAD_REQUEST",
                       status |-> status]
  <2>1. phase[c] = "sent" /\ now' = now /\ (onResponse(c, status) \/ onError(c, error))
    BY <1>4 DEF Respond
  <2>2. CASE onResponse(c, status)
    <3>1. PICK timedOut \in BOOLEAN : onSettled(c, status, timedOut, NoError)
      BY <2>2, Zenon DEF onResponse
    <3>2. /\ status \in Statuses \cup {NoStatus} /\ NoError \in ErrorCodes \cup {NoError}
          /\ "resolved" \in Settled /\ phase' = [phase EXCEPT ![c] = "resolved"]
          /\ UNCHANGED meta
      BY <2>2 DEF onResponse, Settled
    <3> QED BY <2>1, <3>1, <3>2, SettledSettles
  <2>3. CASE onError(c, error)
    <3>1. error \in AxiosError(Statuses)
      BY DEF AxiosError, ErrorCodes
    <3> QED BY <2>1, <2>3, <3>1, ErrorSettlesOrNot
  <2> QED BY <2>1, <2>2, <2>3
<1>5. ASSUME NEW c \in Call, NEW code \in ErrorCodes, phase[c] = "sent",
             onError(c, [code |-> code, status |-> NoStatus]), now' = now
      PROVE  Quiet \/ Settles(c)
  <2>1. [code |-> code, status |-> NoStatus] \in AxiosError(Statuses)
    BY DEF AxiosError
  <2> QED BY <1>5, <2>1, ErrorSettlesOrNot
<1>6. ASSUME NEW c \in Call,
             \/ TimeOut(c)
             \/ \E code \in RefusedCodes : Refused(c, code)
             \/ \E code \in BrokenCodes : Broken(c, code)
      PROVE  Quiet \/ Settles(c)
  <2>1. /\ "ECONNABORTED" \in ErrorCodes
        /\ RefusedCodes \subseteq ErrorCodes /\ BrokenCodes \subseteq ErrorCodes
    BY OutboundAssumption DEF ErrorCodes
  <2> QED BY <1>5, <1>6, <2>1 DEF TimeOut, Refused, Broken
<1> QED BY <1>1, <1>2, <1>3, <1>4, <1>6 DEF OutNext, Progress

-----------------------------------------------------------------------------
(* The stores. *)

settledFor(r) == {c \in Call : RequestOf[c] = r /\ phase[c] \in Settled}

\* The store of r holds the reports of calls settled for r, no call twice.
StoreLists(r) ==
  /\ \A i \in DOMAIN upstreamCalls[r] :
       LET entry == upstreamCalls[r][i]
       IN entry.call \in settledFor(r) /\ entry = settlements[entry.call][1]
  /\ \A i, j \in DOMAIN upstreamCalls[r] :
       upstreamCalls[r][i].call = upstreamCalls[r][j].call => i = j

\* Only finitely many calls have settled, and the store has one entry for each
\* unless the cap cut it off.
StoreCounts(r) ==
  /\ IsFiniteSet(settledFor(r))
  /\ Len(upstreamCalls[r]) = IF Cardinality(settledFor(r)) > MAX_TRACKED_UPSTREAM_CALLS
                             THEN MAX_TRACKED_UPSTREAM_CALLS
                             ELSE Cardinality(settledFor(r))

StoreInv == \A r \in Request : StoreLists(r) /\ StoreCounts(r)

\* No call has settled when the process starts.
LEMMA StoresInitially == OutInit => StoreInv
<1> SUFFICES ASSUME OutInit, NEW r \in Request PROVE StoreLists(r) /\ StoreCounts(r)
  BY DEF StoreInv
<1>1. upstreamCalls[r] = <<>> /\ settledFor(r) = {}
  BY DEF OutInit, settledFor, Settled
<1>2. Len(<<>>) = 0 /\ DOMAIN <<>> = {}
  BY EmptySeq
<1>3. StoreLists(r)
  BY <1>1, <1>2 DEF StoreLists
<1>4. IsFiniteSet({}) /\ Cardinality({}) = 0
  BY FS_EmptySet
<1>5. StoreCounts(r)
  BY <1>1, <1>2, <1>4, TrackedCallsAssumption DEF StoreCounts
<1> QED BY <1>3, <1>5

\* The request of the call that settles.
LEMMA OwnStoreStep ==
  ASSUME OutTypeOK, ReportedOnceAndTruthfully, StoreInv, NEW c \in Call, Settles(c),
         NEW r \in Request, r = RequestOf[c]
  PROVE  (StoreLists(r) /\ StoreCounts(r))'
<1>1. PICK report \in Settlement :
        /\ report.call = c
        /\ settlements' = [settlements EXCEPT ![c] = Append(@, report)]
        /\ upstreamCalls' = [upstreamCalls EXCEPT
                               ![RequestOf[c]] = addUpstreamCall(@, report)]
  BY DEF Settles
<1>2. PICK end \in Settled : phase' = [phase EXCEPT ![c] = end]
  BY DEF Settles
<1>3. /\ phase \in [Call -> Phases] /\ settlements \in [Call -> Seq(Settlement)]
      /\ upstreamCalls[r] \in Seq(Settlement) /\ upstreamCalls \in [Request -> Seq(Settlement)]
  BY DEF OutTypeOK
<1>4. phase[c] \notin Settled /\ settlements[c] = <<>>
  <2>1. phase[c] \notin Settled
    BY DEF Settles, Settled
  <2>2. Len(settlements[c]) = 0
    BY <2>1 DEF ReportedOnceAndTruthfully
  <2> QED BY <1>3, <2>1, <2>2, EmptySeq
<1>5. /\ settlements'[c] = <<report>>
      /\ \A d \in Call \ {c} : settlements'[d] = settlements[d]
  BY <1>1, <1>3, <1>4
<1>6. settledFor(r)' = settledFor(r) \cup {c} /\ c \notin settledFor(r)
  BY <1>2, <1>3, <1>4 DEF settledFor
<1>7. upstreamCalls'[r] = addUpstreamCall(upstreamCalls[r], report)
  BY <1>1, <1>3
<1>8. StoreLists(r) /\ StoreCounts(r)
  BY DEF StoreInv
<1>9. /\ IsFiniteSet(settledFor(r)')
      /\ Cardinality(settledFor(r)') = Cardinality(settledFor(r)) + 1
      /\ Cardinality(settledFor(r)) \in Nat
  <2>1. IsFiniteSet(settledFor(r))
    BY <1>8 DEF StoreCounts
  <2> QED BY <1>6, <2>1, FS_AddElement, FS_CardinalityType
<1>10. \A i \in DOMAIN upstreamCalls[r] :
         LET entry == upstreamCalls[r][i]
         IN /\ entry.call \in settledFor(r)' /\ entry.call # c
            /\ entry = settlements'[entry.call][1]
  <2> TAKE i \in DOMAIN upstreamCalls[r]
  <2> DEFINE entry == upstreamCalls[r][i]
  <2>1. entry.call \in settledFor(r) /\ entry = settlements[entry.call][1]
    BY <1>8 DEF StoreLists
  <2>2. entry.call \in Call \ {c}
    BY <1>6, <2>1 DEF settledFor
  <2> QED BY <1>5, <1>6, <2>1, <2>2
<1>11. CASE Len(upstreamCalls[r]) >= MAX_TRACKED_UPSTREAM_CALLS
  <2>1. upstreamCalls'[r] = upstreamCalls[r]
    BY <1>7, <1>11 DEF addUpstreamCall
  <2>2. StoreLists(r)'
    BY <1>8, <1>10, <2>1 DEF StoreLists
  <2>3. StoreCounts(r)'
    BY <1>8, <1>9, <1>11, <2>1, TrackedCallsAssumption DEF StoreCounts
  <2> QED BY <2>2, <2>3
<1>12. CASE ~(Len(upstreamCalls[r]) >= MAX_TRACKED_UPSTREAM_CALLS)
  <2>1. upstreamCalls'[r] = Append(upstreamCalls[r], report)
    BY <1>7, <1>12 DEF addUpstreamCall
  <2>2. /\ Len(upstreamCalls'[r]) = Len(upstreamCalls[r]) + 1
        /\ DOMAIN upstreamCalls'[r] = 1 .. Len(upstreamCalls[r]) + 1
        /\ DOMAIN upstreamCalls[r] = 1 .. Len(upstreamCalls[r])
        /\ Len(upstreamCalls[r]) \in Nat
        /\ \A i \in DOMAIN upstreamCalls[r] : upstreamCalls'[r][i] = upstreamCalls[r][i]
        /\ upstreamCalls'[r][Len(upstreamCalls[r]) + 1] = report
    BY <1>3, <2>1
  <2>3. \A i \in DOMAIN upstreamCalls'[r] :
          i \in DOMAIN upstreamCalls[r] \/ i = Len(upstreamCalls[r]) + 1
    BY <2>2
  <2>4. c \in settledFor(r)' /\ report = settlements'[report.call][1]
    BY <1>1, <1>5, <1>6
  <2>5. \A i \in DOMAIN upstreamCalls'[r] :
          LET entry == upstreamCalls'[r][i]
          IN entry.call \in settledFor(r)' /\ entry = settlements'[entry.call][1]
    BY SMTT(60), <1>1, <1>10, <2>2, <2>3, <2>4
  <2>6. ASSUME NEW i \in DOMAIN upstreamCalls'[r], NEW j \in DOMAIN upstreamCalls'[r],
               upstreamCalls'[r][i].call = upstreamCalls'[r][j].call
        PROVE  i = j
    <3>1. CASE i \in DOMAIN upstreamCalls[r] /\ j \in DOMAIN upstreamCalls[r]
      BY <1>8, <2>2, <2>6, <3>1 DEF StoreLists
    <3>2. CASE i = Len(upstreamCalls[r]) + 1 \/ j = Len(upstreamCalls[r]) + 1
      BY <1>1, <1>10, <2>2, <2>3, <2>6, <3>2
    <3> QED BY <2>3, <3>1, <3>2
  <2>7. StoreLists(r)'
    BY <2>5, <2>6 DEF StoreLists
  <2>8. StoreCounts(r)'
    BY <1>8, <1>9, <1>12, <2>2, TrackedCallsAssumption DEF StoreCounts
  <2> QED BY <2>7, <2>8
<1> QED BY <1>11, <1>12

\* The other requests.
LEMMA OtherStoreStep ==
  ASSUME OutTypeOK, StoreInv, NEW r \in Request,
         upstreamCalls'[r] = upstreamCalls[r],
         \A c \in Call : RequestOf[c] = r =>
           /\ settlements'[c] = settlements[c]
           /\ phase'[c] \in Settled <=> phase[c] \in Settled
  PROVE  (StoreLists(r) /\ StoreCounts(r))'
<1>1. StoreLists(r) /\ StoreCounts(r)
  BY DEF StoreInv
<1>2. settledFor(r)' = settledFor(r)
  BY DEF settledFor
<1>3. \A c \in settledFor(r) : settlements'[c] = settlements[c]
  BY DEF settledFor
<1>4. StoreLists(r)'
  BY <1>1, <1>2, <1>3 DEF StoreLists
<1>5. StoreCounts(r)'
  BY <1>1, <1>2 DEF StoreCounts
<1> QED BY <1>4, <1>5

\* Every step keeps the stores.
LEMMA StoresStep == IInv /\ StoreInv /\ [OutNext]_outVars => StoreInv'
<1> SUFFICES ASSUME IInv, StoreInv, [OutNext]_outVars, NEW r \in Request
             PROVE  (StoreLists(r) /\ StoreCounts(r))'
  BY DEF StoreInv
<1>1. OutTypeOK /\ CountsAttempts /\ ReportedOnceAndTruthfully
  BY DEF IInv
<1>2. CASE Quiet
  BY <1>1, <1>2, OtherStoreStep DEF Quiet
<1>3. ASSUME NEW c \in Call, Settles(c) PROVE (StoreLists(r) /\ StoreCounts(r))'
  <2>1. CASE r = RequestOf[c]
    BY <1>1, <1>3, <2>1, OwnStoreStep
  <2>2. CASE r # RequestOf[c]
    <3>1. \A d \in Call : RequestOf[d] = r =>
            /\ settlements'[d] = settlements[d]
            /\ phase'[d] \in Settled <=> phase[d] \in Settled
      BY <1>1, <1>3, <2>2 DEF Settles, OutTypeOK
    <3>2. upstreamCalls'[r] = upstreamCalls[r]
      BY <1>1, <1>3, <2>2 DEF Settles, OutTypeOK
    <3> QED BY <1>1, <3>1, <3>2, OtherStoreStep
  <2> QED BY <2>1, <2>2
<1> QED BY <1>1, <1>2, <1>3, StepSettlesOrNot

\* The invariant gives the property: different entries are different records.
LEMMA StoreInvSuffices == OutTypeOK /\ StoreInv => StoreAccountsForRequest
<1> SUFFICES ASSUME OutTypeOK, StoreInv, NEW r \in Request
             PROVE  LET own == settledFor(r)
                        stored == {upstreamCalls[r][i] : i \in DOMAIN upstreamCalls[r]}
                    IN /\ \A s \in stored : s.call \in own /\ s = settlements[s.call][1]
                       /\ Cardinality(stored) = Len(upstreamCalls[r])
                       /\ Len(upstreamCalls[r]) = IF Cardinality(own) > MAX_TRACKED_UPSTREAM_CALLS
                                                  THEN MAX_TRACKED_UPSTREAM_CALLS
                                                  ELSE Cardinality(own)
  BY DEF StoreAccountsForRequest, settledFor
<1> DEFINE stored == {upstreamCalls[r][i] : i \in DOMAIN upstreamCalls[r]}
           n == Len(upstreamCalls[r])
           listing == [i \in 1 .. n |-> upstreamCalls[r][i]]
<1>1. StoreLists(r) /\ StoreCounts(r)
  BY DEF StoreInv
<1>2. DOMAIN upstreamCalls[r] = 1 .. n /\ n \in Nat
  BY DEF OutTypeOK
<1>3. listing \in Bijection(1 .. n, stored)
  <2>1. listing \in [1 .. n -> stored]
    BY <1>2
  <2>2. \A s \in stored : \E i \in 1 .. n : listing[i] = s
    BY <1>2
  <2>3. \A i, j \in 1 .. n : listing[i] = listing[j] => i = j
    BY <1>1, <1>2 DEF StoreLists
  <2> QED BY <2>1, <2>2, <2>3 DEF Bijection, Injection, Surjection, IsInjective
<1>4. Cardinality(stored) = n
  <2> HIDE DEF stored, n, listing
  <2>1. ExistsBijection(1 .. n, stored)
    BY <1>3 DEF ExistsBijection
  <2> QED BY <1>2, <2>1, FS_CountingElements
<1> QED BY <1>1, <1>4 DEF StoreLists, StoreCounts

\* Whatever happens in whatever order to the calls of all requests, the store of
\* each request accounts for the calls settled for it, one entry each, and for
\* no others.
THEOREM StoresAccount == OutSpec => []StoreAccountsForRequest
<1>1. OutInit => IInv /\ StoreInv
  BY InvariantInitially, StoresInitially
<1>2. (IInv /\ StoreInv) /\ [OutNext]_outVars => (IInv /\ StoreInv)'
  BY InvariantStep, StoresStep
<1>3. IInv /\ StoreInv => StoreAccountsForRequest
  BY StoreInvSuffices DEF IInv
<1> QED BY <1>1, <1>2, <1>3, PTL DEF OutSpec
=============================================================================
