-------------------------- MODULE WisdmRecordsProofs --------------------------
(***************************************************************************)
(* Proofs about what INTERPOL holds, for any number of operators, any      *)
(* lists of records and any settings: nothing is removed there that nobody *)
(* asked to have removed, and an initialization nobody interferes with     *)
(* leaves exactly its list.                                                *)
(***************************************************************************)
EXTENDS WisdmInitProofs

-----------------------------------------------------------------------------
(* Nothing is removed unless it was asked for. *)

\* What entitles r to have an operation that removes records carried out.
entitled(r, operation) ==
  /\ operation = "FinalizeInit" =>
       /\ body[r].confirm
       /\ \/ body[r].kind = "finalize"
          \/ /\ body[r].kind = "initialize" /\ body[r].finalize
             /\ accepted[r] = 1 .. Len(body[r].records)
  /\ operation = "Clear" => body[r].kind = "clear" /\ body[r].confirm
  /\ operation = "Delete" => body[r].kind = "delete"

\* Every attempt on the wire was sent by a request entitled to it.
WireEntitled ==
  \A a \in wire :
    /\ called(a.request) /\ entitled(a.request, a.operation)
    /\ a.operation = "Delete" => a.record = 1

\* So is what a request waits for, and an initialization under way is confirmed.
StepEntitled ==
  \A r \in Request :
    /\ running(r) => /\ attempt[r] >= 1 /\ entitled(r, step[r])
                     /\ body[r].kind = "initialize" => body[r].confirm
    /\ reply[r] = "finalized" => body[r].kind = "initialize"

AskedInv == IInv /\ WireEntitled /\ StepEntitled /\ NothingLostUnlessAsked

-----------------------------------------------------------------------------
(* An initialization nobody interferes with. *)

\* No attempt is ever sent twice.
NoRepetition == options.unsafeRetryMode = "never" \/ options.retryAttempts = 0

solo(r) == \A q \in Request \ {r} : ~called(q)

\* The only attempt r makes at an operation that is not about one record.
theOne(r, operation) ==
  [request |-> r, operation |-> operation, record |-> 1, attempt |-> 1]

\* The live records are the ones inserted for r.
LiveAreInserted(r) ==
  \A k \in Key : store[k] = "live" <=> \E i \in accepted[r] : body[r].records[i] = k

\* How far an initialization has come, as INTERPOL sees it: nothing is live once
\* StartInit is answered, then what was inserted, and no inserted record can be
\* inserted again; FinalizeInit leaves no mark.
SoloOK(r) ==
  /\ step[r] = "StartInit" =>
       /\ accepted[r] = {}
       /\ wire \subseteq {theOne(r, "StartInit")}
       /\ answer[r] = "ok" => wire = {} /\ \A k \in Key : store[k] # "live"
  /\ step[r] = "Create" =>
       /\ accepted[r] \subseteq 1 .. next[r]
       /\ \A a \in wire : /\ a.request = r /\ a.operation = "Create"
                          /\ a.record <= next[r] /\ a.record \notin accepted[r]
       /\ LiveAreInserted(r)
  /\ step[r] = "FinalizeInit" =>
       /\ wire \subseteq {theOne(r, "FinalizeInit")}
       /\ LiveAreInserted(r)
       /\ answer[r] = "ok" => wire = {} /\ \A k \in Key : store[k] # "marked"
  /\ reply[r] = "finalized" =>
       /\ wire = {} /\ LiveAreInserted(r) /\ \A k \in Key : store[k] # "marked"

SoloInv ==
  NoRepetition =>
    /\ \A r \in Request : attempt[r] <= 1
    /\ \A a \in wire : a.attempt = 1
    /\ \A r \in Request : step[r] = "new" => accepted[r] = {}
    /\ \A r \in Request : body[r].kind = "initialize" /\ solo(r) => SoloOK(r)

RecordsInv == AskedInv /\ SoloInv

-----------------------------------------------------------------------------
(* What a step of the gateway on behalf of r may be. *)

\* The handler of r ends.
Ends(r) ==
  \E told \in Replies :
    /\ end(r, told)
    /\ told = "badRequest" => step[r] = "new"
    /\ told = "finalized" => /\ step[r] = "FinalizeInit" /\ answer[r] = "ok"
                             /\ body[r].kind = "initialize"

\* When the handler of r may call an operation.
ReadyFor(r, operation) ==
  /\ step[r] = "new" /\ body[r].kind = "initialize" => operation = "StartInit"
  /\ operation = "StartInit" =>
       step[r] = "new" /\ body[r].kind = "initialize" /\ body[r].confirm
  /\ operation = "Create" =>
       \/ step[r] = "new" /\ body[r].kind # "initialize"
       \/ step[r] = "StartInit" /\ answer[r] = "ok" /\ next'[r] = next[r]
       \/ step[r] = "Create" /\ next'[r] = next[r] + 1
  /\ operation = "FinalizeInit" =>
       \/ step[r] = "new" /\ body[r].kind = "finalize" /\ body[r].confirm
       \/ step[r] = "Create" /\ body[r].kind = "initialize" /\ body[r].finalize
  /\ operation = "Clear" => body[r].kind = "clear" /\ body[r].confirm
  /\ operation = "Delete" => body[r].kind = "delete"

Calls(r) ==
  /\ step[r] # "done"
  /\ \E operation \in Operations :
       /\ call(r, operation, IF operation = "Create" THEN next'[r] ELSE 1)
       /\ ReadyFor(r, operation)

\* The call r waits for is sent again.
Resends(r) ==
  /\ running(r) /\ ~NoRepetition
  /\ send(r, step[r], IF step[r] = "Create" THEN next[r] ELSE 1, attempt[r] + 1)
  /\ UNCHANGED <<step, reply, next>>

\* What a step on behalf of r leaves alone.
KeepsOthers(r) ==
  /\ UNCHANGED <<options, body, store, accepted>>
  /\ \A q \in Request \ {r} : next'[q] = next[q]

GatewayMoves(r) == KeepsOthers(r) /\ (Ends(r) \/ Calls(r) \/ Resends(r))

\* The first step of a handler.
LEMMA StartMoves ==
  ASSUME IInv, NEW r \in Request, Start(r)
  PROVE  GatewayMoves(r)
<1>1. step[r] = "new"
  BY DEF Start, initializeRecords, finalizeInit, clearAllRecords, bulkCreate,
         createRecord, updateRecord, deleteRecord, extendRetention, begins
<1>2. UNCHANGED <<runVars, store, accepted>>
  BY DEF Start, initializeRecords, finalizeInit, clearAllRecords, bulkCreate,
         createRecord, updateRecord, deleteRecord, extendRetention
<1>3. KeepsOthers(r)
  BY <1>2 DEF KeepsOthers, runVars
<1>4. next'[r] = 1
  BY <1>1, <1>2 DEF IInv, CountOK, runVars
<1>5. \/ end(r, "badRequest")
      \/ \E operation \in Operations :
           /\ call(r, operation, 1)
           /\ body[r].kind = "initialize" => operation = "StartInit"
           /\ operation = "StartInit" => body[r].kind = "initialize" /\ body[r].confirm
           /\ operation = "FinalizeInit" => body[r].kind = "finalize" /\ body[r].confirm
           /\ operation = "Clear" => body[r].kind = "clear" /\ body[r].confirm
           /\ operation # "Delete"
  BY Zenon DEF Start, initializeRecords, finalizeInit, clearAllRecords, bulkCreate,
         createRecord, updateRecord, deleteRecord, extendRetention, begins, confirmed, Operations
<1>6. CASE end(r, "badRequest")
  BY <1>1, <1>3, <1>6 DEF GatewayMoves, Ends, Replies
<1>7. ASSUME NEW operation \in Operations, call(r, operation, 1),
             body[r].kind = "initialize" => operation = "StartInit",
             operation = "StartInit" => body[r].kind = "initialize" /\ body[r].confirm,
             operation = "FinalizeInit" => body[r].kind = "finalize" /\ body[r].confirm,
             operation = "Clear" => body[r].kind = "clear" /\ body[r].confirm,
             operation # "Delete"
      PROVE  GatewayMoves(r)
  <2>1. ReadyFor(r, operation)
    BY <1>1, <1>7 DEF ReadyFor
  <2>2. Calls(r)
    BY <1>1, <1>4, <1>7, <2>1 DEF Calls
  <2> QED BY <1>3, <2>2 DEF GatewayMoves
<1> QED BY <1>5, <1>6, <1>7

\* What a handler does when a call of it closes.
LEMMA ResumeMoves ==
  ASSUME IInv, NEW r \in Request, running(r), NEW outcome,
         outcome = "ok" => answer[r] = "ok", resume(r, outcome)
  PROVE  GatewayMoves(r)
<1>1. /\ UNCHANGED <<options, body, store, accepted>>
      /\ step[r] # "new" /\ step[r] # "done" /\ next \in [Request -> Nat \ {0}] /\ StepOK(r)
  BY DEF resume, IInv, TypeOK, running, Operations
<1>2. ASSUME NEW told \in Replies, told \notin {"badRequest", "finalized"}, end(r, told),
             KeepsOthers(r)
      PROVE  GatewayMoves(r)
  BY <1>2 DEF GatewayMoves, Ends
<1>3. ASSUME NEW operation \in Operations, ReadyFor(r, operation), KeepsOthers(r),
             call(r, operation, IF operation = "Create" THEN next'[r] ELSE 1)
      PROVE  GatewayMoves(r)
  BY <1>1, <1>3 DEF GatewayMoves, Calls
<1>4. keepCounts => KeepsOthers(r) /\ next'[r] = next[r]
  BY <1>1 DEF keepCounts, KeepsOthers
<1>5. keepCounts /\ end(r, passOn(outcome)) => GatewayMoves(r)
  <2>1. passOn(outcome) \in {"unavailable", "ok", "notOk"}
    BY DEF passOn
  <2> QED BY <1>2, <1>4, <2>1 DEF Replies
<1>6. CASE step[r] = "StartInit" /\ afterStartInit(r, outcome)
  <2>1. CASE mapBaseResponse(outcome) /\ call(r, "Create", 1)
    <3>1. next'[r] = next[r] /\ next[r] = 1 /\ KeepsOthers(r)
      BY <1>4, <1>6 DEF afterStartInit, IInv, CountOK
    <3>2. ReadyFor(r, "Create")
      BY <1>6, <2>1, <3>1 DEF ReadyFor, mapBaseResponse
    <3> QED BY <1>3, <2>1, <3>1, <3>2 DEF Operations
  <2>2. CASE \E told \in {"unavailable", "rejected"} : end(r, told)
    BY <1>2, <1>4, <1>6, <2>2 DEF afterStartInit, Replies
  <2> QED BY <1>6, <2>1, <2>2, Zenon DEF afterStartInit
<1>7. CASE step[r] = "Create" /\ afterCreate(r, outcome)
  <2>1. CASE end(r, passOn(outcome)) /\ keepCounts
    BY <1>5, <2>1
  <2>2. CASE body[r].kind \notin {"create", "update"} /\ afterInsert(r, outcome)
    <3> DEFINE ok == mapBaseResponse(outcome)
               anyFailed == ~ok \/ failures[r] # {}
               stop == isLast(r) \/ (~ok /\ body[r].stopOnError)
    <3>1. \/ stop /\ afterInserts(r, anyFailed) /\ UNCHANGED next
          \/ ~stop /\ next' = [next EXCEPT ![r] = @ + 1] /\ call(r, "Create", next[r] + 1)
      BY <2>2 DEF afterInsert
    <3>2. KeepsOthers(r)
      BY <1>1, <3>1 DEF KeepsOthers
    <3>3. CASE ~stop /\ next' = [next EXCEPT ![r] = @ + 1] /\ call(r, "Create", next[r] + 1)
      <4>1. next'[r] = next[r] + 1
        BY <1>1, <3>3
      <4>2. ReadyFor(r, "Create")
        BY <1>1, <1>7, <4>1 DEF ReadyFor
      <4> QED BY <1>3, <3>2, <3>3, <4>1, <4>2 DEF Operations
    <3>4. CASE afterInserts(r, anyFailed)
      <4>1. \/ \E told \in {"inserted", "incomplete", "prepared"} : end(r, told)
            \/ /\ body[r].kind = "initialize" /\ body[r].finalize
               /\ call(r, "FinalizeInit", 1)
        BY <3>4, Zenon DEF afterInserts
      <4>2. CASE \E told \in {"inserted", "incomplete", "prepared"} : end(r, told)
        BY <1>2, <3>2, <4>2 DEF Replies
      <4>3. CASE /\ body[r].kind = "initialize" /\ body[r].finalize
                 /\ call(r, "FinalizeInit", 1)
        <5>1. ReadyFor(r, "FinalizeInit")
          BY <1>1, <1>7, <4>3 DEF ReadyFor
        <5> QED BY <1>3, <3>2, <4>3, <5>1 DEF Operations
      <4> QED BY <4>1, <4>2, <4>3
    <3> QED BY <3>1, <3>3, <3>4
  <2> QED BY <1>7, <2>1, <2>2 DEF afterCreate
<1>8. CASE step[r] = "FinalizeInit" /\ afterFinalizeInit(r, outcome)
  <2>1. CASE body[r].kind = "finalize" /\ end(r, passOn(outcome))
    BY <1>5, <1>8, <2>1 DEF afterFinalizeInit
  <2>2. CASE /\ body[r].kind = "initialize"
             /\ end(r, CASE outcome = "thrown" -> "unavailable"
                         [] mapBaseResponse(outcome) -> "finalized"
                         [] OTHER -> "notFinalized")
    <3>1. CASE outcome = "ok"
      <4>1. end(r, "finalized") /\ "finalized" \in Replies
        BY <2>2, <3>1 DEF mapBaseResponse, Replies
      <4>2. answer[r] = "ok" /\ KeepsOthers(r)
        BY <1>4, <1>8, <3>1 DEF afterFinalizeInit
      <4> QED BY <1>8, <2>2, <4>1, <4>2 DEF GatewayMoves, Ends
    <3>2. CASE outcome # "ok"
      <4>1. end(r, "unavailable") \/ end(r, "notFinalized")
        BY <2>2, <3>2 DEF mapBaseResponse
      <4>2. KeepsOthers(r)
        BY <1>4, <1>8 DEF afterFinalizeInit
      <4> QED BY <1>2, <4>1, <4>2 DEF Replies
    <3> QED BY <3>1, <3>2
  <2> QED BY <1>8, <2>1, <2>2 DEF afterFinalizeInit
<1>9. CASE step[r] = "Search" /\ afterSearch(r, outcome)
  <2>0. KeepsOthers(r)
    BY <1>4, <1>9 DEF afterSearch
  <2>1. CASE call(r, IF body[r].kind = "delete" THEN "Delete" ELSE "ChangeRetentionDate", 1)
    <3>1. CASE body[r].kind = "delete"
      <4>1. ReadyFor(r, "Delete") /\ call(r, "Delete", 1)
        BY <1>1, <2>1, <3>1 DEF ReadyFor
      <4> QED BY <1>3, <2>0, <4>1 DEF Operations
    <3>2. CASE body[r].kind # "delete"
      <4>1. ReadyFor(r, "ChangeRetentionDate") /\ call(r, "ChangeRetentionDate", 1)
        BY <1>1, <2>1, <3>2 DEF ReadyFor
      <4> QED BY <1>3, <2>0, <4>1 DEF Operations
    <3> QED BY <3>1, <3>2
  <2>2. CASE \E told \in {"unavailable", "notFound", "badGateway"} : end(r, told)
    BY <1>2, <2>0, <2>2 DEF Replies
  <2> QED BY <1>9, <2>1, <2>2, Zenon DEF afterSearch
<1>10. CASE /\ step[r] \in {"Clear", "Delete", "ChangeRetentionDate"}
            /\ end(r, passOn(outcome))
            /\ keepCounts
  BY <1>5, <1>10
<1> QED BY <1>6, <1>7, <1>8, <1>9, <1>10 DEF resume

\* A failure without a response.
LEMMA FailMoves ==
  ASSUME IInv, StepEntitled, NEW r \in Request, NEW code, fail(r, code)
  PROVE  GatewayMoves(r)
<1> DEFINE error == [code |-> code, status |-> NoStatus]
           again == shouldRetry("post", options.unsafeRetryMode,
                                options.retryAttempts, error, attempt[r])
<1>1. running(r)
  BY DEF fail
<1>2. CASE again /\ send(r, step[r], IF step[r] = "Create" THEN next[r] ELSE 1, attempt[r] + 1)
             /\ UNCHANGED <<runVars, step, reply, store, accepted>>
  <2>1. options.unsafeRetryMode # "never"
    BY <1>2 DEF shouldRetry, SAFE_METHODS
  <2>2. attempt[r] <= options.retryAttempts
    BY <1>2 DEF shouldRetry
  <2>3. attempt[r] >= 1 /\ attempt[r] \in Nat /\ options.retryAttempts \in Nat
    BY <1>1, WisdmAssumption DEF StepEntitled, IInv, TypeOK
  <2>4. ~NoRepetition
    BY <2>1, <2>2, <2>3 DEF NoRepetition
  <2>5. Resends(r) /\ KeepsOthers(r)
    BY <1>1, <1>2, <2>4 DEF Resends, KeepsOthers, runVars
  <2> QED BY <2>5 DEF GatewayMoves
<1>3. CASE resume(r, "thrown")
  BY <1>1, <1>3, ResumeMoves
<1> QED BY <1>2, <1>3, Zenon DEF fail

\* Every step is a move of the gateway, an execution, a restart, or nothing.
LEMMA StepShape ==
  ASSUME IInv, StepEntitled, [Next]_vars
  PROVE  \/ \E r \in Request : GatewayMoves(r)
         \/ \E a \in wire : Execute(a)
         \/ Restart
         \/ UNCHANGED vars
<1>1. ASSUME NEW r \in Request, Start(r) \/ Respond(r) \/ GatewayError(r) \/ Broken(r) \/ TimeOut(r)
      PROVE  GatewayMoves(r)
  <2>1. CASE Start(r)
    BY <2>1, StartMoves
  <2>2. CASE Respond(r) \/ GatewayError(r)
    BY <2>2, ResumeMoves DEF Respond, GatewayError
  <2>3. CASE Broken(r) \/ TimeOut(r)
    BY <2>3, FailMoves DEF Broken, TimeOut
  <2> QED BY <1>1, <2>1, <2>2, <2>3
<1> QED BY <1>1 DEF Next

\* What such a move does to the control variables.
LEMMA MoveEffect ==
  ASSUME IInv, NEW r \in Request, GatewayMoves(r)
  PROVE  /\ \A q \in Request \ {r} : /\ step'[q] = step[q] /\ reply'[q] = reply[q]
                                     /\ attempt'[q] = attempt[q] /\ answer'[q] = answer[q]
                                     /\ next'[q] = next[q]
         /\ \A q \in Request : called(q) => called(q)'
         /\ UNCHANGED <<options, body, store, accepted>>
<1>1. ControlTyped /\ KeepsOthers(r) /\ StepOK(r)
  BY DEF IInv, TypeOK, ControlTyped, WireTyped, GatewayMoves
<1>2. CASE Ends(r)
  <2>1. PICK told \in Replies : end(r, told) /\ (told = "badRequest" => step[r] = "new")
    BY <1>2 DEF Ends
  <2>2. /\ step' = [step EXCEPT ![r] = "done"] /\ reply' = [reply EXCEPT ![r] = told]
        /\ attempt' = [attempt EXCEPT ![r] = 0] /\ answer' = [answer EXCEPT ![r] = "none"]
    BY <2>1 DEF end
  <2> QED BY <1>1, <2>1, <2>2 DEF ControlTyped, KeepsOthers, called
<1>3. CASE Calls(r)
  <2>1. PICK operation \in Operations :
          call(r, operation, IF operation = "Create" THEN next'[r] ELSE 1)
    BY <1>3 DEF Calls
  <2>2. /\ step' = [step EXCEPT ![r] = operation] /\ reply' = reply
        /\ attempt' = [attempt EXCEPT ![r] = 1] /\ answer' = [answer EXCEPT ![r] = "none"]
    BY <2>1 DEF call, send
  <2>3. operation # "new"
    BY DEF Operations
  <2> QED BY <1>1, <2>2, <2>3 DEF ControlTyped, KeepsOthers, called
<1>4. CASE Resends(r)
  BY <1>1, <1>4 DEF Resends, send, ControlTyped, KeepsOthers, called
<1> QED BY <1>1, <1>2, <1>3, <1>4 DEF GatewayMoves, KeepsOthers

-----------------------------------------------------------------------------
(* Nothing is removed unasked: the steps. *)

\* What entitles a request to an operation does not go away: it concerns what it
\* asked for, and that INTERPOL has inserted the whole list.
LEMMA StaysEntitled ==
  ASSUME IInv, IInv', body' = body, NEW r \in Request, accepted[r] \subseteq accepted'[r],
         NEW operation, entitled(r, operation)
  PROVE  entitled(r, operation)'
<1>1. accepted'[r] \subseteq 1 .. Len(body[r].records)
  BY DEF IInv, CountOK
<1> QED BY <1>1 DEF entitled

\* So what may remove a record stays what may remove it.
LEMMA StaysAsked ==
  ASSUME IInv, IInv', body' = body, NEW k \in InitiallyHeld,
         \A q \in Request : accepted[q] \subseteq accepted'[q] /\ (called(q) => called(q)'),
         \E q \in Request : called(q) /\ mayRemove(q, k)
  PROVE  (\E q \in Request : called(q) /\ mayRemove(q, k))'
<1>1. PICK q \in Request : called(q) /\ mayRemove(q, k)
  OBVIOUS
<1>2. accepted'[q] \subseteq 1 .. Len(body[q].records)
  BY DEF IInv, CountOK
<1>3. mayRemove(q, k)'
  BY <1>1, <1>2 DEF mayRemove
<1> QED BY <1>1, <1>3

\* The gateway sends what it is entitled to.
LEMMA MoveKeepsAsked ==
  ASSUME AskedInv, IInv', NEW r \in Request, GatewayMoves(r)
  PROVE  AskedInv'
<1>1. /\ \A q \in Request \ {r} : /\ step'[q] = step[q] /\ reply'[q] = reply[q]
                                  /\ attempt'[q] = attempt[q]
      /\ \A q \in Request : called(q) => called(q)'
      /\ UNCHANGED <<options, body, store, accepted>>
  BY MoveEffect DEF AskedInv
<1>2. ControlTyped /\ StepOK(r) /\ WireEntitled /\ StepEntitled /\ IInv
  BY DEF AskedInv, IInv, TypeOK, ControlTyped, WireTyped
<1>3. \A q \in Request, operation \in Operations : entitled(q, operation) <=> entitled(q, operation)'
  BY <1>1 DEF entitled
<1>4. \A a \in wire : a.request \in Request /\ a.operation \in Operations
  BY <1>2 DEF ControlTyped, WireTyped
<1>5. NothingLostUnlessAsked'
  BY <1>1, <1>2, StaysAsked DEF AskedInv, NothingLostUnlessAsked
<1>6. \A a \in wire : /\ called(a.request)' /\ entitled(a.request, a.operation)'
                      /\ a.operation = "Delete" => a.record = 1
  BY <1>1, <1>2, <1>3, <1>4 DEF WireEntitled
<1>7. CASE Ends(r)
  <2>1. PICK told \in Replies :
          /\ end(r, told)
          /\ told = "finalized" => body[r].kind = "initialize"
    BY <1>7 DEF Ends
  <2>2. wire' = wire /\ step'[r] = "done" /\ reply'[r] = told
    BY <1>2, <2>1 DEF end, ControlTyped
  <2>3. WireEntitled'
    BY <1>6, <2>2 DEF WireEntitled
  <2>4. StepEntitled'
    BY <1>1, <1>2, <1>3, <2>1, <2>2 DEF StepEntitled, running, Operations
  <2> QED BY <1>5, <2>3, <2>4 DEF AskedInv
<1>8. CASE Calls(r)
  <2>1. PICK operation \in Operations :
          /\ call(r, operation, IF operation = "Create" THEN next'[r] ELSE 1)
          /\ ReadyFor(r, operation)
    BY <1>8 DEF Calls
  <2>2. /\ step'[r] = operation /\ reply' = reply /\ attempt'[r] = 1
        /\ \E i : /\ wire' = wire \cup {[request |-> r, operation |-> operation,
                                         record |-> i, attempt |-> 1]}
                  /\ operation = "Delete" => i = 1
    BY <1>2, <2>1 DEF call, send, ControlTyped
  <2>3. entitled(r, operation)'
    <3>1. operation = "FinalizeInit" /\ body[r].kind = "initialize"
            => accepted'[r] = 1 .. Len(body'[r].records)
      BY <1>1, <2>2 DEF IInv, FinalizeOK
    <3>2. body[r].kind = "initialize" /\ operation = "FinalizeInit" => body[r].confirm
      <4>1. body[r].kind = "initialize" /\ operation = "FinalizeInit" => step[r] = "Create"
        BY <2>1 DEF ReadyFor
      <4>2. step[r] = "Create" => running(r)
        BY DEF running, Operations
      <4> QED BY <1>2, <4>1, <4>2 DEF StepEntitled
    <3> QED BY <1>1, <2>1, <3>1, <3>2 DEF ReadyFor, entitled
  <2>4. called(r)'
    <3>1. reply'[r] # "badRequest"
      BY <1>2, <1>8, <2>2 DEF StepOK, Calls
    <3>2. operation # "new"
      BY DEF Operations
    <3> QED BY <2>2, <3>1, <3>2 DEF called
  <2>5. WireEntitled'
    <3>1. PICK i : /\ wire' = wire \cup {[request |-> r, operation |-> operation,
                                         record |-> i, attempt |-> 1]}
                   /\ operation = "Delete" => i = 1
      BY <2>2
    <3> QED BY <1>6, <2>3, <2>4, <3>1 DEF WireEntitled
  <2>6. body[r].kind = "initialize" => body[r].confirm
    <3>1. step[r] = "new" => (body[r].kind = "initialize" => body[r].confirm)
      BY <2>1 DEF ReadyFor
    <3>2. step[r] # "new" => running(r)
      BY <1>2, <1>8 DEF running, ControlTyped, Calls
    <3> QED BY <1>2, <3>1, <3>2 DEF StepEntitled
  <2>7. StepEntitled'
    <3>1. attempt'[r] >= 1
      BY <2>2
    <3> QED BY <1>1, <1>2, <1>3, <2>2, <2>3, <2>6, <3>1 DEF StepEntitled, running
  <2> QED BY <1>5, <2>5, <2>7 DEF AskedInv
<1>9. CASE Resends(r)
  <2>1. /\ step' = step /\ reply' = reply /\ running(r) /\ attempt'[r] = attempt[r] + 1
        /\ \E i : /\ wire' = wire \cup {[request |-> r, operation |-> step[r],
                                         record |-> i, attempt |-> attempt[r] + 1]}
                  /\ step[r] = "Delete" => i = 1
    BY <1>2, <1>9 DEF Resends, send, ControlTyped
  <2>2. entitled(r, step[r])' /\ called(r)'
    <3>1. entitled(r, step[r]) /\ called(r)
      BY <1>2, <2>1 DEF StepEntitled, running, called, StepOK, Operations
    <3> QED BY <1>1, <2>1, <3>1 DEF entitled
  <2>3. WireEntitled'
    <3>1. PICK i : /\ wire' = wire \cup {[request |-> r, operation |-> step[r],
                                         record |-> i, attempt |-> attempt[r] + 1]}
                   /\ step[r] = "Delete" => i = 1
      BY <2>1
    <3>2. \A a \in wire' : a \in wire \/ (a.request = r /\ a.operation = step[r] /\ a.record = i)
      BY <3>1
    <3>3. \A a \in wire' : /\ called(a.request)' /\ entitled(a.request, a.operation)'
                           /\ a.operation = "Delete" => a.record = 1
      BY <1>6, <2>1, <2>2, <3>1, <3>2 DEF entitled
    <3> QED BY <3>3 DEF WireEntitled
  <2>4. StepEntitled'
    <3>1. attempt'[r] >= 1
      <4>1. attempt[r] \in Nat
        BY <1>2, WisdmAssumption DEF ControlTyped
      <4> QED BY <2>1, <4>1
    <3> QED BY <1>1, <1>2, <1>3, <2>1, <3>1 DEF StepEntitled, running
  <2> QED BY <1>5, <2>3, <2>4 DEF AskedInv
<1> QED BY <1>7, <1>8, <1>9 DEF GatewayMoves

\* Whatever INTERPOL carries out, the request that sent it was entitled to it.
LEMMA ExecuteKeepsAsked ==
  ASSUME AskedInv, IInv', NEW a \in wire, Execute(a)
  PROVE  AskedInv'
<1> DEFINE r == a.request
           key == body[r].records[a.record]
<1>1. /\ UNCHANGED <<options, body, step, reply, attempt>> /\ wire' = wire \ {a}
      /\ \/ UNCHANGED <<store, accepted>>
         \/ /\ store' = effect(a.operation, key)
            /\ accepted' = IF a.operation = "Create"
                           THEN [accepted EXCEPT ![r] = @ \cup {a.record}] ELSE accepted
  BY DEF Execute, runVars
<1>2. IInv /\ WireEntitled /\ StepEntitled /\ NothingLostUnlessAsked
  BY DEF AskedInv
<1>3. /\ r \in Request /\ a.operation \in Operations
      /\ \A b \in wire : b.request \in Request
      /\ accepted \in [Request -> SUBSET Nat] /\ store \in [Key -> RecordStates]
  BY <1>2 DEF IInv, TypeOK
<1>4. \A q \in Request : accepted[q] \subseteq accepted'[q]
  BY <1>1, <1>3
<1>5. \A q \in Request : called(q) <=> called(q)'
  BY <1>1 DEF called
<1>6. WireEntitled'
  BY <1>1, <1>2, <1>3, <1>4, <1>5, StaysEntitled DEF WireEntitled
<1>7. StepEntitled'
  <2> SUFFICES ASSUME NEW q \in Request
               PROVE  /\ running(q) => /\ attempt[q] >= 1 /\ entitled(q, step[q])'
                                       /\ body[q].kind = "initialize" => body[q].confirm
                      /\ reply[q] = "finalized" => body[q].kind = "initialize"
    BY <1>1 DEF StepEntitled, running, entitled
  <2>1. running(q) => entitled(q, step[q])
    BY <1>2 DEF StepEntitled
  <2>2. running(q) => entitled(q, step[q])'
    <3>1. ASSUME NEW operation, entitled(q, operation) PROVE entitled(q, operation)'
      BY <1>1, <1>2, <1>4, <3>1, StaysEntitled
    <3> QED BY <1>1, <2>1, <3>1 DEF entitled
  <2> QED BY <1>2, <2>2 DEF StepEntitled
<1>8. NothingLostUnlessAsked'
  <2> SUFFICES ASSUME NEW k \in InitiallyHeld, store'[k] = "absent"
               PROVE  (\E q \in Request : called(q) /\ mayRemove(q, k))'
    BY DEF NothingLostUnlessAsked
  <2>1. CASE store[k] = "absent"
    <3>1. \E q \in Request : called(q) /\ mayRemove(q, k)
      BY <1>2, <2>1 DEF NothingLostUnlessAsked
    <3> QED BY <1>1, <1>2, <1>4, <1>5, <3>1, StaysAsked
  <2>2. CASE store[k] # "absent"
    <3>1. store' = effect(a.operation, key) /\ k \in Key
      BY <1>1, <2>2, WisdmAssumption
    <3>2. \/ a.operation \in {"FinalizeInit", "Clear"}
          \/ a.operation = "Delete" /\ key = k
      BY <1>3, <2>2, <3>1 DEF effect, Operations
    <3>3. called(r) /\ entitled(r, a.operation) /\ (a.operation = "Delete" => a.record = 1)
      BY <1>2 DEF WireEntitled
    <3>4. mayRemove(r, k)
      BY <3>2, <3>3 DEF mayRemove, entitled
    <3> QED BY <1>1, <1>2, <1>3, <1>4, <1>5, <3>3, <3>4, StaysAsked
  <2> QED BY <2>1, <2>2
<1> QED BY <1>6, <1>7, <1>8 DEF AskedInv

\* A restart takes no attempt off the wire and entitles nobody to anything.
LEMMA RestartKeepsAsked ==
  ASSUME AskedInv, IInv', Restart
  PROVE  AskedInv'
<1>1. /\ step' = [r \in Request |-> IF running(r) THEN "done" ELSE step[r]]
      /\ reply' = [r \in Request |-> IF running(r) THEN "lost" ELSE reply[r]]
      /\ UNCHANGED <<options, body, wire, store, accepted>>
  BY DEF Restart, runVars
<1>2. IInv /\ WireEntitled /\ StepEntitled /\ NothingLostUnlessAsked
  BY DEF AskedInv
<1>3. \A q \in Request : /\ ~running(q)'
                         /\ called(q) => called(q)'
                         /\ reply'[q] = "finalized" => reply[q] = "finalized"
  BY <1>1 DEF called, running, Operations
<1>4. \A b \in wire : b.request \in Request
  BY <1>2 DEF IInv, TypeOK
<1>5. WireEntitled'
  BY <1>1, <1>2, <1>3, <1>4 DEF WireEntitled, entitled
<1>6. StepEntitled'
  BY <1>1, <1>2, <1>3 DEF StepEntitled
<1>7. NothingLostUnlessAsked'
  BY <1>1, <1>2, <1>3, StaysAsked DEF NothingLostUnlessAsked
<1> QED BY <1>5, <1>6, <1>7 DEF AskedInv

\* Every step keeps what is known of who may remove records.
LEMMA AskedStep == AskedInv /\ [Next]_vars => AskedInv'
<1> SUFFICES ASSUME AskedInv, [Next]_vars PROVE AskedInv'
  OBVIOUS
<1>1. IInv' /\ IInv /\ StepEntitled
  BY InvariantStep DEF AskedInv
<1>2. CASE UNCHANGED vars
  <2>1. UNCHANGED <<options, body, step, reply, attempt, wire, store, accepted>>
    BY <1>2 DEF vars, runVars, callVars
  <2>2. WireEntitled' /\ StepEntitled'
    BY <2>1 DEF AskedInv, WireEntitled, StepEntitled, called, running, entitled
  <2>3. NothingLostUnlessAsked'
    BY <2>1 DEF AskedInv, NothingLostUnlessAsked, called, mayRemove
  <2> QED BY <1>1, <2>2, <2>3 DEF AskedInv
<1> QED BY <1>1, <1>2, StepShape, MoveKeepsAsked, ExecuteKeepsAsked, RestartKeepsAsked

\* At first nobody has asked for anything.
LEMMA AskedInitially == Init => AskedInv
<1> SUFFICES ASSUME Init PROVE AskedInv
  OBVIOUS
<1>1. wire = {} /\ \A r \in Request : step[r] = "new" /\ reply[r] = "none"
  BY DEF Init
<1>2. WireEntitled /\ StepEntitled
  BY <1>1 DEF WireEntitled, StepEntitled, running, Operations
<1>3. NothingLostUnlessAsked
  BY WisdmAssumption DEF Init, NothingLostUnlessAsked
<1> QED BY <1>2, <1>3, InvariantInitially DEF AskedInv

\* Nothing INTERPOL held disappears unless a clear, a finalize, a delete of that
\* record or a completed initialization was asked for and confirmed, however many
\* operators work at once and however late their attempts are carried out.
THEOREM NothingIsLostUnasked == Spec => []NothingLostUnlessAsked
<1>1. AskedInv => NothingLostUnlessAsked
  BY DEF AskedInv
<1> QED BY <1>1, AskedInitially, AskedStep, PTL DEF Spec

-----------------------------------------------------------------------------
(* An initialization nobody interferes with: the steps. *)

\* Nobody but r has anything on the wire, and r only once it has called.
LEMMA WireOfSolo ==
  ASSUME WireTyped, WireEntitled, NEW r \in Request, solo(r)
  PROVE  /\ \A a \in wire : a.request = r
         /\ step[r] = "new" => wire = {}
  BY DEF WireTyped, WireEntitled, solo, called

\* Where an initialization stands depends on these variables only.
LEMMA SoloKept ==
  ASSUME NEW r \in Request, SoloOK(r), UNCHANGED <<body, store, accepted>>, wire' = wire,
         step'[r] = step[r], answer'[r] = answer[r], next'[r] = next[r],
         reply'[r] = reply[r]
  PROVE  SoloOK(r)'
  BY DEF SoloOK, LiveAreInserted, theOne

\* The call r makes next.
LEMMA CallKeepsSolo ==
  ASSUME RecordsInv, AskedInv', NoRepetition, NEW r \in Request, GatewayMoves(r), Calls(r),
         body[r].kind = "initialize", solo(r)
  PROVE  SoloOK(r)'
<1>1. /\ IInv /\ IInv' /\ WireEntitled /\ SoloOK(r) /\ StepOK(r) /\ ControlTyped
      /\ \A q \in Request : step[q] = "new" => accepted[q] = {}
  BY DEF RecordsInv, AskedInv, SoloInv, IInv, TypeOK, ControlTyped, WireTyped
<1>2. UNCHANGED <<options, body, store, accepted>>
  BY DEF GatewayMoves, KeepsOthers
<1>3. PICK operation \in Operations :
        /\ call(r, operation, IF operation = "Create" THEN next'[r] ELSE 1)
        /\ ReadyFor(r, operation)
  BY DEF Calls
<1>4. /\ step'[r] = operation /\ answer'[r] = "none" /\ reply'[r] = "none"
      /\ wire' = wire \cup {[request |-> r, operation |-> operation,
                             record |-> IF operation = "Create" THEN next'[r] ELSE 1,
                             attempt |-> 1]}
  BY <1>1, <1>3 DEF call, send, ControlTyped, StepOK, Calls
<1>5. CASE operation = "StartInit"
  <2>1. wire = {} /\ accepted[r] = {}
    BY <1>1, <1>3, <1>5, WireOfSolo DEF ReadyFor, ControlTyped
  <2> QED BY <1>2, <1>4, <1>5, <2>1 DEF SoloOK, theOne
<1>6. CASE operation = "Create"
  <2>1. \/ step[r] = "StartInit" /\ answer[r] = "ok" /\ next'[r] = next[r]
        \/ step[r] = "Create" /\ next'[r] = next[r] + 1
    BY <1>3, <1>6 DEF ReadyFor
  <2>2. next[r] \in Nat \ {0}
    BY <1>1 DEF IInv, TypeOK
  <2>3. CASE step[r] = "StartInit" /\ answer[r] = "ok" /\ next'[r] = next[r]
    <3>1. wire = {} /\ accepted[r] = {} /\ \A k \in Key : store[k] # "live"
      BY <1>1, <2>3 DEF SoloOK
    <3>2. LiveAreInserted(r)'
      BY <1>2, <3>1 DEF LiveAreInserted
    <3>3. \A a \in wire' : /\ a.request = r /\ a.operation = "Create"
                           /\ a.record <= next'[r] /\ a.record \notin accepted'[r]
      BY <1>2, <1>4, <1>6, <2>2, <2>3, <3>1
    <3> QED BY <1>2, <1>4, <1>6, <3>1, <3>2, <3>3 DEF SoloOK
  <2>4. CASE step[r] = "Create" /\ next'[r] = next[r] + 1
    <3>1. /\ accepted[r] \subseteq 1 .. next[r] /\ LiveAreInserted(r)
          /\ \A a \in wire : /\ a.request = r /\ a.operation = "Create"
                             /\ a.record <= next[r] /\ a.record \notin accepted[r]
      BY <1>1, <2>4 DEF SoloOK
    <3>2. LiveAreInserted(r)'
      BY <1>2, <3>1 DEF LiveAreInserted
    <3>3. \A a \in wire : a.record \in Nat
      BY <1>1 DEF ControlTyped, WireTyped
    <3>4. \A a \in wire' : /\ a.request = r /\ a.operation = "Create"
                           /\ a.record <= next'[r] /\ a.record \notin accepted'[r]
      BY <1>2, <1>4, <1>6, <2>2, <2>4, <3>1, <3>3
    <3>5. accepted'[r] \subseteq 1 .. next'[r]
      BY <1>2, <2>2, <2>4, <3>1
    <3> QED BY <1>4, <1>6, <3>2, <3>4, <3>5 DEF SoloOK
  <2> QED BY <2>1, <2>3, <2>4
<1>7. CASE operation = "FinalizeInit"
  <2>1. step[r] = "Create"
    BY <1>3, <1>7 DEF ReadyFor
  <2>2. accepted[r] = 1 .. Len(body[r].records)
    BY <1>1, <1>2, <1>4, <1>7 DEF IInv, FinalizeOK
  <2>3. /\ LiveAreInserted(r)
        /\ \A a \in wire : a.request = r /\ a.operation = "Create" /\ a.record \notin accepted[r]
    BY <1>1, <2>1 DEF SoloOK
  <2>4. \A a \in wire : a.operation = "Create" => a.record \in 1 .. Len(body[a.request].records)
    BY <1>1 DEF IInv, WireOK
  <2>5. wire = {}
    BY <2>2, <2>3, <2>4
  <2>6. LiveAreInserted(r)'
    BY <1>2, <2>3 DEF LiveAreInserted
  <2> QED BY <1>4, <1>7, <2>5, <2>6 DEF SoloOK, theOne
<1>8. CASE operation \notin {"StartInit", "Create", "FinalizeInit"}
  BY <1>4, <1>8 DEF SoloOK
<1> QED BY <1>5, <1>6, <1>7, <1>8

\* A move of the gateway.
LEMMA MoveKeepsSolo ==
  ASSUME RecordsInv, AskedInv', NEW r \in Request, GatewayMoves(r)
  PROVE  SoloInv'
<1>1. /\ \A q \in Request \ {r} : /\ step'[q] = step[q] /\ reply'[q] = reply[q]
                                  /\ attempt'[q] = attempt[q] /\ answer'[q] = answer[q]
                                  /\ next'[q] = next[q]
      /\ \A q \in Request : called(q) => called(q)'
      /\ UNCHANGED <<options, body, store, accepted>>
  BY MoveEffect DEF RecordsInv, AskedInv
<1>2. ControlTyped /\ StepOK(r) /\ SoloInv
  BY DEF RecordsInv, AskedInv, IInv, TypeOK, ControlTyped, WireTyped
<1> SUFFICES ASSUME NoRepetition
             PROVE  /\ \A q \in Request : attempt'[q] <= 1
                    /\ \A a \in wire' : a.attempt = 1
                    /\ \A q \in Request : step'[q] = "new" => accepted[q] = {}
                    /\ \A q \in Request : body[q].kind = "initialize" /\ solo(q)' => SoloOK(q)'
  BY <1>1 DEF SoloInv, NoRepetition
<1>3. /\ \A q \in Request : attempt[q] <= 1
      /\ \A a \in wire : a.attempt = 1
      /\ \A q \in Request : step[q] = "new" => accepted[q] = {}
      /\ \A q \in Request : body[q].kind = "initialize" /\ solo(q) => SoloOK(q)
  BY <1>2 DEF SoloInv
<1>4. \A q \in Request : solo(q)' => solo(q)
  BY <1>1 DEF solo
<1>5. CASE Ends(r)
  <2>1. PICK told \in Replies :
          /\ end(r, told)
          /\ told = "finalized" => /\ step[r] = "FinalizeInit" /\ answer[r] = "ok"
                                   /\ body[r].kind = "initialize"
    BY <1>5 DEF Ends
  <2>2. wire' = wire /\ step'[r] = "done" /\ reply'[r] = told /\ attempt'[r] = 0
    BY <1>2, <2>1 DEF end, ControlTyped
  <2>3. ASSUME NEW q \in Request, body[q].kind = "initialize", solo(q)'
        PROVE  SoloOK(q)'
    <3>1. SoloOK(q)
      BY <1>3, <1>4, <2>3
    <3>2. CASE q = r
      <4>1. told = "finalized" =>
              wire = {} /\ LiveAreInserted(r) /\ \A k \in Key : store[k] # "marked"
        BY <2>1, <3>1, <3>2 DEF SoloOK
      <4>2. LiveAreInserted(r) => LiveAreInserted(r)'
        BY <1>1 DEF LiveAreInserted
      <4> QED BY <1>1, <2>2, <3>2, <4>1, <4>2 DEF SoloOK
    <3>3. CASE q # r
      BY <1>1, <2>2, <3>1, <3>3, SoloKept
    <3> QED BY <3>2, <3>3
  <2> QED BY <1>1, <1>3, <2>2, <2>3
<1>6. CASE Calls(r)
  <2>1. PICK operation \in Operations :
          call(r, operation, IF operation = "Create" THEN next'[r] ELSE 1)
    BY <1>6 DEF Calls
  <2>2. /\ step'[r] = operation /\ reply' = reply /\ attempt'[r] = 1
        /\ \E i : wire' = wire \cup {[request |-> r, operation |-> operation,
                                       record |-> i, attempt |-> 1]}
    BY <1>2, <2>1 DEF call, send, ControlTyped
  <2>3. called(r)'
    <3>1. operation # "new"
      BY DEF Operations
    <3> QED BY <1>2, <1>6, <2>2, <3>1 DEF called, StepOK, Calls
  <2>4. ASSUME NEW q \in Request, body[q].kind = "initialize", solo(q)'
        PROVE  SoloOK(q)'
    <3>1. q = r
      BY <2>3, <2>4 DEF solo
    <3>2. solo(r)
      BY <1>4, <2>4, <3>1
    <3> QED BY <1>6, <2>4, <3>1, <3>2, CallKeepsSolo
  <2>5. \A a \in wire' : a.attempt = 1
    BY <1>3, <2>2
  <2>6. \A q \in Request : step'[q] = "new" => accepted[q] = {}
    BY <1>1, <1>3, <2>2 DEF Operations
  <2> QED BY <1>1, <1>3, <2>2, <2>4, <2>5, <2>6
<1> QED BY <1>5, <1>6 DEF GatewayMoves, Resends

\* INTERPOL carries out an attempt of an initialization that has the field to
\* itself, or refuses it.
LEMMA ExecuteKeepsSolo ==
  ASSUME RecordsInv, AskedInv', NEW a \in wire, Execute(a)
  PROVE  SoloInv'
<1> DEFINE r == a.request
           i == a.record
           key == body[r].records[i]
           awaited == /\ a.operation = step[r]
                      /\ a.operation = "Create" => a.record = next[r]
                      /\ a.attempt = attempt[r]
<1>1. /\ UNCHANGED <<options, body, next, step, reply, attempt>> /\ wire' = wire \ {a}
      /\ \/ a.operation = "Search" /\ UNCHANGED <<store, accepted>>
         \/ /\ store' = effect(a.operation, key)
            /\ accepted' = IF a.operation = "Create"
                           THEN [accepted EXCEPT ![r] = @ \cup {i}] ELSE accepted
         \/ /\ UNCHANGED <<store, accepted>> /\ answer' = [answer EXCEPT ![r] = "error"]
  BY DEF Execute, runVars
<1>2. /\ ControlTyped /\ IInv /\ WireOK /\ WireEntitled /\ SoloInv
      /\ accepted \in [Request -> SUBSET Nat] /\ store \in [Key -> RecordStates]
  BY DEF RecordsInv, AskedInv, IInv, TypeOK, ControlTyped, WireTyped
<1>3. r \in Request /\ a.operation \in Operations /\ i \in Nat
  BY <1>2 DEF ControlTyped, WireTyped
<1> SUFFICES ASSUME NoRepetition
             PROVE  /\ \A q \in Request : attempt[q] <= 1
                    /\ \A b \in wire' : b.attempt = 1
                    /\ \A q \in Request : step[q] = "new" => accepted'[q] = {}
                    /\ \A q \in Request : body[q].kind = "initialize" /\ solo(q) => SoloOK(q)'
  BY <1>1 DEF SoloInv, NoRepetition, solo, called
<1>4. /\ \A q \in Request : attempt[q] <= 1
      /\ \A b \in wire : b.attempt = 1
      /\ \A q \in Request : step[q] = "new" => accepted[q] = {}
      /\ \A q \in Request : body[q].kind = "initialize" /\ solo(q) => SoloOK(q)
  BY <1>2 DEF SoloInv
<1>5. \A q \in Request : step[q] = "new" => accepted'[q] = {}
  <2>1. step[r] # "new"
    BY <1>2 DEF WireEntitled, called
  <2>2. \A q \in Request \ {r} : accepted'[q] = accepted[q]
    BY <1>1, <1>2
  <2> QED BY <1>4, <2>1, <2>2
<1>6. ASSUME body[r].kind = "initialize", solo(r) PROVE SoloOK(r)'
  <2>1. SoloOK(r) /\ \A b \in wire : b.request = r
    BY <1>2, <1>3, <1>4, <1>6, WireOfSolo DEF ControlTyped
  <2>2. CASE a.operation = "StartInit" /\ step[r] = "StartInit"
    <3>1. wire' = {} /\ accepted' = accepted /\ accepted[r] = {}
      BY <1>1, <2>1, <2>2 DEF SoloOK
    <3>2. answer'[r] = "ok" => \A k \in Key : store'[k] # "live"
      <4>1. CASE store' = effect("StartInit", key)
        BY <1>2, <4>1 DEF effect
      <4>2. CASE answer' = [answer EXCEPT ![r] = "error"]
        BY <1>2, <1>3, <4>2 DEF ControlTyped
      <4> QED BY <1>1, <2>2, <4>1, <4>2
    <3>3. reply[r] # "finalized"
      BY <2>1, <3>1 DEF SoloOK
    <3> QED BY <1>1, <2>2, <3>1, <3>2, <3>3 DEF SoloOK
  <2>3. CASE a.operation = "FinalizeInit" /\ step[r] = "FinalizeInit"
    <3>1. wire' = {} /\ accepted' = accepted /\ LiveAreInserted(r)
      BY <1>1, <2>1, <2>3 DEF SoloOK
    <3>2. LiveAreInserted(r)' /\ (answer'[r] = "ok" => \A k \in Key : store'[k] # "marked")
      <4>1. CASE store' = effect("FinalizeInit", key)
        <5>1. \A k \in Key : /\ store'[k] = "live" <=> store[k] = "live"
                             /\ store'[k] # "marked"
          BY <1>2, <4>1 DEF effect
        <5> QED BY <1>1, <3>1, <5>1 DEF LiveAreInserted
      <4>2. CASE UNCHANGED store /\ answer' = [answer EXCEPT ![r] = "error"]
        BY <1>1, <1>2, <1>3, <3>1, <4>2 DEF ControlTyped, LiveAreInserted
      <4> QED BY <1>1, <2>3, <4>1, <4>2
    <3>3. reply[r] # "finalized"
      BY <2>1 DEF SoloOK
    <3> QED BY <1>1, <2>3, <3>1, <3>2, <3>3 DEF SoloOK
  <2>4. CASE a.operation = "Create" /\ step[r] = "Create"
    <3>1. /\ accepted[r] \subseteq 1 .. next[r] /\ LiveAreInserted(r)
          /\ \A b \in wire : /\ b.request = r /\ b.operation = "Create"
                             /\ b.record <= next[r] /\ b.record \notin accepted[r]
      BY <2>1, <2>4 DEF SoloOK
    <3>2. i \in 1 .. Len(body[r].records) /\ key \in Key
      <4>1. i \in 1 .. Len(body[r].records)
        BY <1>2, <2>4 DEF WireOK
      <4>2. body[r].records \in Seq(Key)
        BY <1>2, <1>3 DEF IInv, TypeOK, Body
      <4> QED BY <4>1, <4>2
    <3>3. next[r] \in Nat
      BY <1>2, <1>3 DEF IInv, TypeOK
    <3>4. reply[r] # "finalized"
      BY <2>1 DEF SoloOK
    <3>5. CASE UNCHANGED <<store, accepted>>
      <4>1. LiveAreInserted(r)'
        BY <1>1, <3>1, <3>5 DEF LiveAreInserted
      <4> QED BY <1>1, <2>4, <3>1, <3>4, <3>5, <4>1 DEF SoloOK
    <3>6. CASE store' = effect("Create", key) /\ accepted' = [accepted EXCEPT ![r] = @ \cup {i}]
      <4>1. accepted'[r] = accepted[r] \cup {i} /\ store' = [store EXCEPT ![key] = "live"]
        BY <1>2, <1>3, <3>6 DEF effect
      <4>2. LiveAreInserted(r)'
        BY <1>1, <1>2, <3>1, <3>2, <4>1 DEF LiveAreInserted
      <4>3. \A b \in wire' : b.record # i
        <5> SUFFICES ASSUME NEW b \in wire, b.record = i PROVE b = a
          BY <1>1
        <5>1. /\ b.request = a.request /\ b.operation = a.operation
              /\ b.attempt = a.attempt /\ b.record = a.record
          BY <1>4, <3>1
        <5> QED BY <1>2, <5>1 DEF ControlTyped, WireTyped
      <4>4. accepted'[r] \subseteq 1 .. next[r]
        <5>1. i <= next[r]
          BY <3>1
        <5> QED BY <3>1, <3>2, <3>3, <4>1, <5>1
      <4> QED BY <1>1, <2>4, <3>1, <3>4, <4>1, <4>2, <4>3, <4>4 DEF SoloOK
    <3> QED BY <1>1, <2>4, <3>5, <3>6
  <2>5. CASE step[r] \notin {"StartInit", "Create", "FinalizeInit"}
    BY <1>1, <2>1, <2>5 DEF SoloOK
  <2> QED BY <2>1, <2>2, <2>3, <2>4, <2>5 DEF SoloOK, theOne
<1>7. \A q \in Request : body[q].kind = "initialize" /\ solo(q) => q = r
  BY <1>2, <1>3 DEF WireEntitled, solo
<1> QED BY <1>1, <1>4, <1>5, <1>6, <1>7

\* A restart ends every handler; what was finalized stays.
LEMMA RestartKeepsSolo ==
  ASSUME RecordsInv, Restart
  PROVE  SoloInv'
<1>1. /\ step' = [r \in Request |-> IF running(r) THEN "done" ELSE step[r]]
      /\ reply' = [r \in Request |-> IF running(r) THEN "lost" ELSE reply[r]]
      /\ attempt' = [r \in Request |-> 0]
      /\ UNCHANGED <<options, body, next, wire, store, accepted>>
  BY DEF Restart, runVars
<1>2. \A q \in Request : /\ called(q) => called(q)'
                         /\ step'[q] \in {"StartInit", "Create", "FinalizeInit"} => FALSE
                         /\ step'[q] = "new" => step[q] = "new"
                         /\ reply'[q] = "finalized" => reply[q] = "finalized"
  BY <1>1 DEF called, running, Operations
<1>3. \A q \in Request : solo(q)' => solo(q)
  BY <1>2 DEF solo
<1>4. \A q \in Request : SoloOK(q) => SoloOK(q)'
  BY <1>1, <1>2 DEF SoloOK, LiveAreInserted
<1> QED BY <1>1, <1>2, <1>3, <1>4 DEF RecordsInv, SoloInv, NoRepetition

\* Every step keeps what is known of a run that is alone.
LEMMA RecordsStep == RecordsInv /\ [Next]_vars => RecordsInv'
<1> SUFFICES ASSUME RecordsInv, [Next]_vars PROVE RecordsInv'
  OBVIOUS
<1>1. AskedInv' /\ IInv /\ StepEntitled
  BY AskedStep DEF RecordsInv, AskedInv
<1>2. CASE UNCHANGED vars
  <2>1. UNCHANGED <<options, body, next, step, reply, attempt, answer, wire, store, accepted>>
    BY <1>2 DEF vars, runVars, callVars
  <2>2. \A q \in Request : SoloOK(q) => SoloOK(q)'
    BY <2>1, SoloKept
  <2> QED BY <1>1, <2>1, <2>2 DEF RecordsInv, SoloInv, NoRepetition, solo, called
<1> QED BY <1>1, <1>2, StepShape, MoveKeepsSolo, ExecuteKeepsSolo, RestartKeepsSolo DEF RecordsInv

\* At first no run has begun.
LEMMA RecordsInitially == Init => RecordsInv
<1> SUFFICES ASSUME Init PROVE RecordsInv
  OBVIOUS
<1>1. /\ wire = {} /\ \A r \in Request : /\ step[r] = "new" /\ reply[r] = "none"
                                         /\ attempt[r] = 0 /\ accepted[r] = {}
  BY DEF Init
<1>2. SoloInv
  BY <1>1 DEF SoloInv, SoloOK
<1> QED BY <1>2, AskedInitially DEF RecordsInv

\* The invariant holds in every reachable state.
THEOREM RecordsInvariance == Spec => []RecordsInv
BY RecordsInitially, RecordsStep, PTL DEF Spec

\* Where no attempt is sent twice, an initialization that reports success and was
\* the only one to call INTERPOL leaves its list there, searchable, and nothing
\* else, for every list and whatever was held before.
THEOREM SoloLeavesItsRecords == Spec => []SoloRunLeavesItsRecords
<1>1. RecordsInv => SoloRunLeavesItsRecords
  <2> SUFFICES ASSUME RecordsInv, NEW r \in Request, reply[r] = "finalized", solo(r), NoRepetition
               PROVE  /\ held = {body[r].records[i] : i \in DOMAIN body[r].records}
                      /\ \A k \in held : store[k] = "live"
    BY DEF SoloRunLeavesItsRecords, solo, NoRepetition
  <2>1. body[r].kind = "initialize" /\ body[r].records \in Seq(Key) /\ store \in [Key -> RecordStates]
    BY DEF RecordsInv, AskedInv, StepEntitled, IInv, TypeOK, Body
  <2>2. LiveAreInserted(r) /\ \A k \in Key : store[k] # "marked"
    BY <2>1 DEF RecordsInv, SoloInv, SoloOK
  <2>3. accepted[r] = DOMAIN body[r].records
    BY <2>1 DEF RecordsInv, AskedInv, IInv, FinalizeOK
  <2>4. \A k \in Key : k \in held <=> store[k] = "live"
    BY <2>1, <2>2 DEF held, RecordStates
  <2>5. \A k \in held : k \in Key
    BY DEF held
  <2>6. \A i \in DOMAIN body[r].records : body[r].records[i] \in Key
    BY <2>1
  <2> QED BY <2>2, <2>3, <2>4, <2>5, <2>6 DEF LiveAreInserted
<1> QED BY <1>1, RecordsInvariance, PTL
=============================================================================
