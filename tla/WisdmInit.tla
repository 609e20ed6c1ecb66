------------------------------ MODULE WisdmInit ------------------------------
(***************************************************************************)
(* WisdmService and WisdmIntegration: the operations that insert and       *)
(* remove the country's records at INTERPOL, among them the two-phase      *)
(* re-initialization StartInit, inserts, FinalizeInit.  Requests of        *)
(* several operators interleave at every await; the gateway keeps nothing  *)
(* between them and takes no lock.                                         *)
(*                                                                         *)
(* An upstream call is taken at the level of UpstreamContract: it is sent  *)
(* once per attempt, each attempt may be executed by INTERPOL at any later *)
(* moment or never, and the call closes with an answer or a failure.  All  *)
(* calls are POSTs with validateStatus: () => true.  The bodies have       *)
(* passed the DTOs, after which toRecordParams cannot throw any more.      *)
(***************************************************************************)
EXTENDS RetryPolicy, Sequences, FiniteSets

CONSTANTS
  Request,           \* the inbound requests
  Key,               \* the record identities: cleaned DIN and document type
  BodiesOf,          \* BodiesOf[r]: the validated bodies r may come with
  InitiallyHeld,     \* the records INTERPOL holds at the start
  Environments,      \* the settings of the process environment considered
  MaxRetryAttempts   \* bound: the largest HTTP_RETRY_ATTEMPTS considered

Kinds == {"initialize", "bulk", "create", "update", "delete", "extend", "clear", "finalize"}
NoRecords == {"clear", "finalize"}

\* A body; the fields a kind has no use for are empty or FALSE.
Body == [kind : Kinds, records : Seq(Key), stopOnError : BOOLEAN,
         finalize : BOOLEAN, confirm : BOOLEAN]

ASSUME WisdmAssumption ==
  /\ BodiesOf \in [Request -> SUBSET Body]
  /\ \A r \in Request : \A b \in BodiesOf[r] :
       b.kind \notin NoRecords => b.records # <<>>
  /\ InitiallyHeld \subseteq Key
  /\ Environments \subseteq [mode : UnsafeRetryMode \cup {"unset"},
                            retryAttempts : Int, defaultTimeoutMs : Int]
  /\ \A env \in Environments : toNumber(env.retryAttempts, 2) <= MaxRetryAttempts
  /\ MaxRetryAttempts \in Nat

VARIABLES
  options,     \* the resolved HTTP options, fixed when the process starts
  body,        \* body[r]: what r asks for
  step,        \* step[r]: the operation r waits for, "new" before, "done" after
  next,        \* next[r]: the index of the record r is working on
  succeeded,   \* succeeded[r], failures[r]: the records bulkCreate has counted
  failures,
  reply,       \* reply[r]: what the client of r was told
  attempt,     \* attempt[r]: the attempt of the current call
  answer,      \* answer[r]: INTERPOL's answer to that attempt, once executed
  wire,        \* the attempts INTERPOL may still execute
  store,       \* store[k]: what INTERPOL holds of k
  accepted     \* history: accepted[r], the records of r that INTERPOL inserted

runVars == <<options, body, next, succeeded, failures>>
callVars == <<attempt, answer, wire>>
vars == <<runVars, step, reply, callVars, store, accepted>>

RecordStates == {"absent", "live", "marked"}
Operations == {"StartInit", "Create", "FinalizeInit", "Clear", "Search", "Delete",
               "ChangeRetentionDate"}
Answers == {"ok", "error", "noAnswer"}
Replies == {"none", "badRequest", "notFound", "badGateway", "unavailable", "lost",
            "rejected", "incomplete", "prepared", "finalized", "notFinalized",
            "inserted", "ok", "notOk"}

\* Mutant of WISDM_TIMEOUT_DEFAULT_MS: 0 is no timeout of its own for axios.
noTimeoutMs == 0

WISDM_TIMEOUT_DEFAULT_MS == 60000

Init ==
  /\ \E env \in Environments :
       options = [unsafeRetryMode |-> toUnsafeRetryMode(env.mode),
                  retryAttempts |-> toNumber(env.retryAttempts, 2),
                  defaultTimeoutMs |-> toNumber(env.defaultTimeoutMs, 15000)]
  /\ body \in {b \in [Request -> UNION {BodiesOf[r] : r \in Request}] :
                \A r \in Request : b[r] \in BodiesOf[r]}
  /\ step = [r \in Request |-> "new"]
  /\ next = [r \in Request |-> 1]
  /\ succeeded = [r \in Request |-> {}]
  /\ failures = [r \in Request |-> {}]
  /\ reply = [r \in Request |-> "none"]
  /\ attempt = [r \in Request |-> 0]
  /\ answer = [r \in Request |-> "none"]
  /\ wire = {}
  /\ store = [k \in Key |-> IF k \in InitiallyHeld THEN "live" ELSE "absent"]
  /\ accepted = [r \in Request |-> {}]

running(r) == step[r] \in Operations
called(r) == step[r] # "new" /\ reply[r] # "badRequest"
held == {k \in Key : store[k] # "absent"}

-----------------------------------------------------------------------------
(* Calls. *)

\* Puts the n-th attempt at `operation`, about the i-th record of r, on the wire.
send(r, operation, i, n) ==
  /\ attempt' = [attempt EXCEPT ![r] = n]
  /\ answer' = [answer EXCEPT ![r] = "none"]
  /\ wire' = wire \cup {[request |-> r, operation |-> operation,
                         record |-> i, attempt |-> n]}

call(r, operation, i) ==
  /\ send(r, operation, i, 1)
  /\ step' = [step EXCEPT ![r] = operation]
  /\ UNCHANGED reply

\* The request is answered; it calls nothing any more.
end(r, told) ==
  /\ reply' = [reply EXCEPT ![r] = told]
  /\ step' = [step EXCEPT ![r] = "done"]
  /\ attempt' = [attempt EXCEPT ![r] = 0]
  /\ answer' = [answer EXCEPT ![r] = "none"]
  /\ UNCHANGED wire

\* Mutant of mapBaseResponse: whatever arrives with a readable body is `ok`.
mapBaseResponseLenient(outcome) == outcome # "thrown"

\* `ok` of a response: its status, SOAP fault, functional error and result code.
mapBaseResponse(outcome) == outcome = "ok"

\* The answer of a handler that passes the outcome of its call on.
passOn(outcome) ==
  CASE outcome = "thrown" -> "unavailable"
    [] mapBaseResponse(outcome) -> "ok"
    [] OTHER -> "notOk"

-----------------------------------------------------------------------------
(* The handlers up to their first await. *)

begins(r, kind) == step[r] = "new" /\ body[r].kind = kind

\* The handlers that destroy records ask for an explicit confirmation.
confirmed(r, operation) ==
  \/ body[r].confirm /\ call(r, operation, 1)
  \/ ~body[r].confirm /\ end(r, "badRequest")

initializeRecords(r) ==
  begins(r, "initialize") /\ confirmed(r, "StartInit") /\ UNCHANGED <<runVars, store, accepted>>

finalizeInit(r) ==
  begins(r, "finalize") /\ confirmed(r, "FinalizeInit") /\ UNCHANGED <<runVars, store, accepted>>

clearAllRecords(r) ==
  begins(r, "clear") /\ confirmed(r, "Clear") /\ UNCHANGED <<runVars, store, accepted>>

bulkCreate(r) ==
  begins(r, "bulk") /\ call(r, "Create", 1) /\ UNCHANGED <<runVars, store, accepted>>

createRecord(r) ==
  begins(r, "create") /\ call(r, "Create", 1) /\ UNCHANGED <<runVars, store, accepted>>

\* CreateOrUpdateRecord again; refused where the fields given do not make an update.
updateRecord(r) ==
  /\ begins(r, "update")
  /\ call(r, "Create", 1) \/ end(r, "badRequest")
  /\ UNCHANGED <<runVars, store, accepted>>

\* Deleting and extending need the DocumentId, which resolveDocumentId looks up.
deleteRecord(r) ==
  begins(r, "delete") /\ call(r, "Search", 1) /\ UNCHANGED <<runVars, store, accepted>>

extendRetention(r) ==
  begins(r, "extend") /\ call(r, "Search", 1) /\ UNCHANGED <<runVars, store, accepted>>

-----------------------------------------------------------------------------
(* What the handlers do when a call closes, up to the next await.  The      *)
(* outcome is INTERPOL's answer, "error" also for an HTTP error status, or  *)
(* "thrown" for the ServiceUnavailableException of a transport failure.     *)

keepCounts == UNCHANGED <<next, succeeded, failures>>

afterStartInit(r, outcome) ==
  /\ \/ mapBaseResponse(outcome) /\ call(r, "Create", 1)
     \/ ~mapBaseResponse(outcome)
        /\ end(r, IF outcome = "thrown" THEN "unavailable" ELSE "rejected")
  /\ keepCounts

\* Mutants of afterInserts: finalize in spite of failures; finalize unasked.
afterInsertsDespiteFailures(r, anyFailed) ==
  \/ body[r].kind = "bulk" /\ end(r, "inserted")
  \/ /\ body[r].kind = "initialize"
     /\ \/ ~body[r].finalize /\ end(r, "prepared")
        \/ body[r].finalize /\ call(r, "FinalizeInit", 1)

afterInsertsUnasked(r, anyFailed) ==
  \/ body[r].kind = "bulk" /\ end(r, "inserted")
  \/ /\ body[r].kind = "initialize"
     /\ \/ anyFailed /\ end(r, "incomplete")
        \/ ~anyFailed /\ call(r, "FinalizeInit", 1)

\* bulkCreate has returned: to the client, or to initializeRecords.
afterInserts(r, anyFailed) ==
  \/ body[r].kind = "bulk" /\ end(r, "inserted")
  \/ /\ body[r].kind = "initialize"
     /\ \/ anyFailed /\ end(r, "incomplete")
        \/ ~anyFailed /\ ~body[r].finalize /\ end(r, "prepared")
        \/ ~anyFailed /\ body[r].finalize /\ call(r, "FinalizeInit", 1)

\* Mutant of isLast: the loop runs one record too far.
isLastOffByOne(r) == next[r] > Len(body[r].records)

isLast(r) == next[r] = Len(body[r].records)

\* One turn of the loop in bulkCreate, which also counts what was thrown.
afterInsert(r, outcome) ==
  LET ok == mapBaseResponse(outcome)
      anyFailed == ~ok \/ failures[r] # {}
      stop == isLast(r) \/ (~ok /\ body[r].stopOnError)
  IN /\ succeeded' = IF ok THEN [succeeded EXCEPT ![r] = @ \cup {next[r]}] ELSE succeeded
     /\ failures' = IF ok THEN failures ELSE [failures EXCEPT ![r] = @ \cup {next[r]}]
     /\ \/ stop /\ afterInserts(r, anyFailed) /\ UNCHANGED next
        \/ /\ ~stop
           /\ next' = [next EXCEPT ![r] = @ + 1]
           /\ call(r, "Create", next[r] + 1)

afterCreate(r, outcome) ==
  \/ body[r].kind \in {"create", "update"} /\ end(r, passOn(outcome)) /\ keepCounts
  \/ body[r].kind \notin {"create", "update"} /\ afterInsert(r, outcome)

afterFinalizeInit(r, outcome) ==
  /\ \/ body[r].kind = "finalize" /\ end(r, passOn(outcome))
     \/ /\ body[r].kind = "initialize"
        /\ end(r, CASE outcome = "thrown" -> "unavailable"
                    [] mapBaseResponse(outcome) -> "finalized"
                    [] OTHER -> "notFinalized")
  /\ keepCounts

\* resolveDocumentId throws unless the search found the record.
afterSearch(r, outcome) ==
  /\ \/ mapBaseResponse(outcome)
        /\ call(r, IF body[r].kind = "delete" THEN "Delete" ELSE "ChangeRetentionDate", 1)
     \/ ~mapBaseResponse(outcome)
        /\ end(r, CASE outcome = "thrown" -> "unavailable"
                    [] outcome = "noAnswer" -> "notFound"
                    [] OTHER -> "badGateway")
  /\ keepCounts

resume(r, outcome) ==
  /\ \/ step[r] = "StartInit" /\ afterStartInit(r, outcome)
     \/ step[r] = "Create" /\ afterCreate(r, outcome)
     \/ step[r] = "FinalizeInit" /\ afterFinalizeInit(r, outcome)
     \/ step[r] = "Search" /\ afterSearch(r, outcome)
     \/ /\ step[r] \in {"Clear", "Delete", "ChangeRetentionDate"}
        /\ end(r, passOn(outcome))
        /\ keepCounts
  /\ UNCHANGED <<options, body, store, accepted>>

-----------------------------------------------------------------------------
(* INTERPOL and the network. *)

\* What an operation does to the records when INTERPOL carries it out.
effect(operation, key) ==
  CASE operation = "StartInit" ->
         [k \in Key |-> IF store[k] = "absent" THEN "absent" ELSE "marked"]
    [] operation = "FinalizeInit" ->
         [k \in Key |-> IF store[k] = "marked" THEN "absent" ELSE store[k]]
    [] operation = "Clear" -> [k \in Key |-> "absent"]
    [] operation = "Create" -> [store EXCEPT ![key] = "live"]
    [] operation = "Delete" -> [store EXCEPT ![key] = "absent"]
    [] OTHER -> store

\* INTERPOL carries out an attempt, or refuses it for reasons of its own (the
\* DIN is already present, a code is not authorized).  Its answer only matters
\* while the request still waits for this very attempt; an attempt nobody waits
\* for may as well stay on the wire for ever as be refused.
Execute(a) ==
  LET r == a.request
      key == body[r].records[a.record]
      awaited == /\ a.operation = step[r]
                 /\ a.operation = "Create" => a.record = next[r]
                 /\ a.attempt = attempt[r]
      answerWith(given) ==
        answer' = IF awaited THEN [answer EXCEPT ![r] = given] ELSE answer
  IN /\ a \in wire
     /\ wire' = wire \ {a}
     /\ \/ /\ a.operation = "Search"
           /\ store[key] = "absent"
           /\ answerWith("noAnswer")
           /\ UNCHANGED <<store, accepted>>
        \/ /\ a.operation \in {"Search", "Delete", "ChangeRetentionDate"} => store[key] # "absent"
           /\ store' = effect(a.operation, key)
           /\ accepted' = IF a.operation = "Create"
                          THEN [accepted EXCEPT ![r] = @ \cup {a.record}] ELSE accepted
           /\ answerWith("ok")
        \/ awaited /\ answerWith("error") /\ UNCHANGED <<store, accepted>>
     /\ UNCHANGED <<runVars, step, reply, attempt>>

\* The answer arrives.
Respond(r) ==
  running(r) /\ answer[r] # "none" /\ resume(r, answer[r])

\* Something between the gateway and INTERPOL answers with an error status, or
\* the answer cannot be read as a result: a response too, but never `ok`.
GatewayError(r) == running(r) /\ resume(r, "error")

\* The call fails without a response: it is sent again, or throws.
fail(r, code) ==
  /\ running(r)
  /\ LET error == [code |-> code, status |-> NoStatus]
         again == shouldRetry("post", options.unsafeRetryMode,
                              options.retryAttempts, error, attempt[r])
     IN \/ /\ again
           /\ send(r, step[r], IF step[r] = "Create" THEN next[r] ELSE 1, attempt[r] + 1)
           /\ UNCHANGED <<runVars, step, reply, store, accepted>>
        \/ ~again /\ resume(r, "thrown")

Broken(r) == fail(r, "ECONNRESET")

\* The timeout of the call, or else HTTP_DEFAULT_TIMEOUT_MS, which may be 0 too.
TimeOut(r) ==
  /\ WISDM_TIMEOUT_DEFAULT_MS > 0 \/ options.defaultTimeoutMs > 0
  /\ fail(r, "ECONNABORTED")

\* The gateway process dies and comes up again: nothing of its requests is
\* persisted, but attempts already sent are not called back.
Restart ==
  /\ \E r \in Request : running(r)
  /\ step' = [r \in Request |-> IF running(r) THEN "done" ELSE step[r]]
  /\ reply' = [r \in Request |-> IF running(r) THEN "lost" ELSE reply[r]]
  /\ attempt' = [r \in Request |-> 0]
  /\ answer' = [r \in Request |-> "none"]
  /\ UNCHANGED <<runVars, wire, store, accepted>>

-----------------------------------------------------------------------------

Start(r) ==
  \/ initializeRecords(r) \/ finalizeInit(r) \/ clearAllRecords(r)
  \/ bulkCreate(r) \/ createRecord(r) \/ updateRecord(r)
  \/ deleteRecord(r) \/ extendRetention(r)

Next ==
  \/ \E r \in Request :
       Start(r) \/ Respond(r) \/ GatewayError(r) \/ Broken(r) \/ TimeOut(r)
  \/ \E a \in wire : Execute(a)
  \/ Restart

\* Timers fire; nothing is assumed of INTERPOL or the network.
Fairness == \A r \in Request : WF_vars(TimeOut(r))

Spec == Init /\ [][Next]_vars /\ Fairness

-----------------------------------------------------------------------------
(* Properties. *)

\* Every variable has its type.
TypeOK ==
  /\ options \in [unsafeRetryMode : UnsafeRetryMode,
                  retryAttempts : 0 .. MaxRetryAttempts, defaultTimeoutMs : Nat]
  /\ body \in [Request -> Body] /\ \A r \in Request : body[r] \in BodiesOf[r]
  /\ step \in [Request -> Operations \cup {"new", "done"}]
  /\ next \in [Request -> Nat \ {0}]
  /\ succeeded \in [Request -> SUBSET Nat]
  /\ failures \in [Request -> SUBSET Nat]
  /\ \A r \in Request : next[r] > 1 => next[r] <= Len(body[r].records)
  /\ reply \in [Request -> Replies]
  /\ attempt \in [Request -> 0 .. MaxRetryAttempts + 1]
  /\ answer \in [Request -> Answers \cup {"none"}]
  /\ wire \subseteq [request : Request, operation : Operations,
                      record : Nat, attempt : 1 .. MaxRetryAttempts + 1]
  /\ store \in [Key -> RecordStates]
  /\ accepted \in [Request -> SUBSET Nat]

\* An initialization sends FinalizeInit, and so deletes whatever was not
\* re-inserted, only after INTERPOL has inserted every record of its list, with
\* retries, timeouts and other operators' requests in between.
FinalizeOnlyWhenComplete ==
  \A r \in Request :
    body[r].kind = "initialize"
      /\ (step[r] = "FinalizeInit" \/ reply[r] \in {"finalized", "notFinalized"})
      => accepted[r] = 1 .. Len(body[r].records)

\* What bulkCreate counts as inserted INTERPOL has inserted, and nothing is left
\* uncounted: up to the end, or up to the first failure if it was to stop there.
ReportIsTrue ==
  \A r \in Request :
    /\ succeeded[r] \subseteq accepted[r]
    /\ reply[r] \in {"inserted", "incomplete", "prepared", "finalized", "notFinalized"}
         => LET counted == succeeded[r] \cup failures[r]
                total == Len(body[r].records)
            IN /\ succeeded[r] \cap failures[r] = {}
               /\ \/ counted = 1 .. total
                  \/ /\ body[r].stopOnError
                     /\ \E i \in 1 .. total : failures[r] = {i} /\ counted = 1 .. i

\* What allows a request to remove record k.
mayRemove(r, k) ==
  \/ body[r].kind \in {"clear", "finalize"} /\ body[r].confirm
  \/ body[r].kind = "delete" /\ body[r].records[1] = k
  \/ /\ body[r].kind = "initialize" /\ body[r].confirm /\ body[r].finalize
     /\ accepted[r] = 1 .. Len(body[r].records)

\* A record disappears from INTERPOL only if somebody confirmed that he wants it:
\* a clear, a finalize or a delete, or an initialization that was told to
\* finalize and got its whole list inserted.  An initialization that failed or
\* only prepared, and a restart in the middle, leave everything searchable.
NothingLostUnlessAsked ==
  \A k \in InitiallyHeld :
    store[k] = "absent" => \E r \in Request : called(r) /\ mayRemove(r, k)

\* Where no attempt is ever sent twice, an initialization that reports success
\* and was the only request to call INTERPOL leaves exactly its list there.
SoloRunLeavesItsRecords ==
  \A r \in Request :
    /\ reply[r] = "finalized"
    /\ \A q \in Request \ {r} : ~called(q)
    /\ options.unsafeRetryMode = "never" \/ options.retryAttempts = 0
    => /\ held = {body[r].records[i] : i \in DOMAIN body[r].records}
       /\ \A k \in held : store[k] = "live"

\* Every request that has called INTERPOL is answered, or lost with the process,
\* although INTERPOL and the network may stay silent.
RequestEnds == \A r \in Request : running(r) ~> step[r] = "done"

\* Wisdm.service.ts:272, told to the operator when StartInit is not `ok`:
\* "InitAllRecords was rejected by INTERPOL; no records were touched."
NoRecordsTouched ==
  \A r \in Request :
    reply[r] = "rejected" /\ (\A q \in Request \ {r} : ~called(q))
      => \A k \in InitiallyHeld : store[k] = "live"

\* Wisdm.service.ts:292, told to the operator of an aborted run: "FinalizeInit was
\* skipped; the previous records remain in INTERPOL SLTD."
AbortLeavesPreviousData ==
  [][\A r \in Request : reply[r] # "incomplete" /\ reply'[r] = "incomplete"
                          => InitiallyHeld \subseteq held]_vars
=============================================================================
