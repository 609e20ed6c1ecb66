# TLA+ models of the ms-services gateway

ms-services is a NestJS gateway. A client sends it one HTTP request; it checks
who is asking, asks one or several third parties (registers, INTERPOL, tax
office, PKI and so on) over axios, maps the answers and logs what happened. It
owns two kinds of state: what lives in the memory of a process while a request
is handled, and the tables of its PostgreSQL database (users, request log,
permissions). A MySQL database with displacement data is only read. The state that hurts when it
is wrong belongs to others: the national records at INTERPOL WISDM, the
profiles at the PKI. So the questions worth asking are about *calls*: how often
is one carried out, what does the gateway believe about it, and what does it
tell its client.

Paths below are relative to the repository's root; all models are translated
from the TypeScript sources.

## 1. Inventory

| Component | State | Operations | Talks to |
|---|---|---|---|
| Outbound HTTP instrumentation (`Infrustructure/Http`) | `CALL_META` in each axios config (attempt, startedAt); options read once at start | `onRequest`, `onError`, `onSettled`, `shouldRetry` | every integration; third parties; request context |
| Request context (`Core/Logging/RequestContext.ts`, middleware) | one `RequestStore` per request in AsyncLocalStorage: correlation id, upstream calls (cap 50) | `create`, `run`, `addUpstreamCall`, `upstreamTotalMs` | instrumentation writes, interceptor reads |
| Inbound pipeline (`API/`) | none of its own; the order middleware, guard, interceptor(s), controller | `BasicAuthGuard.canActivate`, `intercept`, `record` | auth service, services, request log |
| Request log (`Core/Logging/RequestLogging.service.ts`) | tables `request_logs`, `integration_call_logs` | `createLog`, `createIntegrationLog`, not awaited, errors swallowed | database |
| WISDM (`Core/Wisdm`, `WisdmIntegration`) | none in the gateway; the records at INTERPOL | create, bulk, update, extend, delete, clear, initialize, finalize, and reads | INTERPOL over SOAP |
| Boot (`Database/Migrations`, the order of Nest's hooks) | the schema, the row of the default user | create tables, columns and indexes, seed or overwrite the default user | PostgreSQL |
| RBAC (`modules/permissions`, `modules/auth`, `modules/api-clients`) | `permissions`, `api_clients`, their join table | scan controllers and insert what is missing; list a client's permissions | PostgreSQL; its two guards are bound to no route |
| Basic authentication (`Core/Auth`) | reads `users` | look up, compare | guard |
| Esign (`Core/Esign`, `PkiClientIntegration`) | none; profiles at the PKI | create (with a new random password), revoke, find | PKI |
| Interpol search, persons (MCS), civil acts, tax, revenue committee | none | pure rules, then one or two calls, then mapping and filtering | one third party each |
| Road police | none | two calls under `Promise.all` | road police |
| Cadastre, Ktak, Sekt, registers, Ministry of Justice, Investigative Committee | none | one call, mapped | one third party each |
| Artsakh | none | two reads of a MySQL database | MySQL |

How a request flows: `RequestContextMiddleware` opens a store and runs the rest
inside it; `BasicAuthGuard` asks the user table; `ProtectedRequestLogging`
starts its stopwatch (a request refused by the guard never reaches it); the
controller calls a service, the service one or more integrations, each with an
axios instance that carries the two interceptors of
`HttpInstrumentationService`. Each settled call is logged and appended to the
store; when the handler ends, the interceptor hands one row to the request log.

What is hard here:

* **Retries against third parties that are late.** A connection lost or timed
  out says nothing about whether the request was carried out, now or later.
* **Interleaving at every `await`.** Requests share nothing in the gateway, but
  they share INTERPOL's records, and clients may choose the same correlation id.
* **Two-phase re-initialization.** StartInit marks all records for removal,
  FinalizeInit removes those not inserted again. A failure, a crash or another
  operator in between is where records get lost.
* **Promise.all.** The handler ends at the first failure; the other calls go on
  and settle when the row is already written.
* **Several instances starting at once**, and crashes during the start
  (migration, default user, permission scan).
* **Boundaries of pure rules**: ages, birth dates, DIN cleaning, thresholds.

What makes each component correct, in one line each: instrumentation - every
call is reported once and truthfully, and is repeated only where its mode allows
it; context - a request lists its own calls and no others; pipeline - nothing
happens before admission, every request is answered, a row is complete; WISDM -
nothing is removed unless somebody asked for it and reports are true; boot -
any interleaving and crash leads to usable tables and the intended password;
RBAC - each permission exists once; esign - the profile and the password told to
the client belong together; pure rules - they agree with their definition at
every boundary. `PROJECT.json` lists the hazards behind these at their lines.

## 2. Modules

| Module | What it is |
|---|---|
| `RetryPolicy` | pure: `shouldRetry` and its options. An AxiosError is its `code` and the status of its response |
| `RequestContext` | pure: the store of a request, its cap and its sum |
| `OutboundHttp` | state machine of the interceptors, extends the two above; the third party and the network are part of it |
| `UpstreamContract` | abstract specification of an outbound call, implemented by `OutboundHttp` |
| `InboundRequest` | middleware, guard, interceptors and handlers, extends (composes with) `OutboundHttp` |
| `WisdmInit` | the WISDM operations that change records, several operators, INTERPOL, restarts |
| `Boot` | several instances that start against one database, with crashes; the permissions they need and the credentials they accept |
| `EsignProfile` | create, revoke and find at the PKI over retried POSTs; extends `RetryPolicy` |
| `Flow` | what a handler does between its awaits: ask, return, throw |
| `SoapAnswer` | pure: an XML answer of INTERPOL and its result codes |
| `WisdmRules` | pure: DTOs, validators and normalizations of WISDM |
| `WisdmSoap` | pure: what WISDM operations send, and what they make of the answers; extends the three above |
| `InterpolSearch` | pure: the searches, details, notices and images of INTERPOL |
| `PersonSearch` | pure: persons of MCS, civil acts of children, with the filters by age |
| `Registers` | pure: the lookups in the registers of other agencies |
| `Gateway` | state machine of one request through any of these handlers, extends the pure modules |
| `MC...` | instances for TLC |
| `OutboundHttpProofs`, `WisdmInitProofs`, `BootProofs`, `EsignProofs` | theorems and proofs about one module each |
| `RequestStoreProofs`, `InboundProofs` | the store of a request, and requests composed with their calls; each extends the proofs before it |
| `WisdmRecordsProofs` | what INTERPOL still holds; extends `WisdmInitProofs` |
| `GatewayProofs` | the handlers, one after the other, and `Gateway` |

`UpstreamContract` is the interface between the halves: `OutboundHttp` is shown
to implement it, and `WisdmInit` takes its calls at that level (sent once per
attempt, executed at any later moment or never, closed once), using only
`shouldRetry` from the instrumentation. `EsignProfile` does the same with the PKI
at the other end. `Gateway` looks at one request from its body to its reply, and
leaves to the others what requests, attempts and instances do to each other.

### OutboundHttp and the code

| Code (`HttpInstrumentation.service.ts`) | Model |
|---|---|
| `config[CALL_META]` | `meta[c]` |
| where the promise chain of a call stands | `phase[c]`: idle, sent, backoff, resolved, rejected |
| `onRequest` | `onRequest`, by `request` (first time) and `retry` (from the error path) |
| `onError`, with `shouldRetry` | `onError`, in one step up to the backoff sleep |
| `onSettled` | `onSettled`: one more of `settlements[c]`, one more of `upstreamCalls[r]` |
| `storage.getStore()` | `storeOf(c)` |
| axios and the third party | `Execute`, `Respond`, `TimeOut`, `Refused`, `Broken` |

`sends`, `onTheWire`, `executed`, `answered` are the truth outside the gateway:
an attempt sent stays on the wire until the third party executes it, whatever
the gateway concludes meanwhile. A success is only answered to an attempt that
was executed; an error status may come from something in between. Abstracted:
the length of the backoff, keep-alive agents, the sanitized URL, the logger. A numeric
setting is an integer, negative where it is not set or no number, so that its default
holds (`toNumber`; `wisdm` has such an environment).

### InboundRequest and the code

`use`, `admit`, `deny` are the middleware and the guard; `callUpstream` is a call
a handler makes, when it awaits nothing else or under Promise.all;
`return`, `throwOwn`, `throwAxios` end the handler and write the rows
(`requestRows[r]`), one per interceptor that wraps the route. How a handler ends
is left as open as the services leave it: some integrations turn a failed call
into an empty answer, some throw an HttpException, some let the AxiosError
through, which Nest answers with 500.

### WisdmInit and the code

| Code | Model |
|---|---|
| the `await` a handler is at | `step[r]` with `next[r]`, the index in the loop of `bulkCreate` |
| `succeeded`, `failures` of `bulkCreate` | the same, as sets of indices |
| what the client is told | `reply[r]` |
| handlers up to their first call | `initializeRecords`, `bulkCreate`, ... (`Start`) |
| the code after an `await` | `afterStartInit`, `afterInsert`, `afterInserts`, ... (`resume`) |
| `WisdmIntegration.call` | `call`, `Respond`, `GatewayError`, `Broken`, `TimeOut` |
| INTERPOL | `store[k]`: absent, live or marked; `effect`, `Execute` |

`accepted[r]` is a history variable: the records of `r` that INTERPOL inserted.
Abstractions: a record is its identity (cleaned DIN and type); an answer is
`ok`, a refusal or "no answer"; a refused connection is covered by `Broken`,
after which an attempt may also never be executed; the backoff is merged into
the repeated send; a refusal of an attempt nobody waits for is the same as an
attempt that stays on the wire. A late Delete is executed for the record that
carries the identity then, although its DocumentId may be of an older one: the
model removes more than INTERPOL would. After the DTOs `toRecordParams` cannot
throw for a create, so a run cannot end in the middle of its loop. Whether the
fields of an update make an update is a choice. The operations that only read
are in `WisdmSoap`: they change nothing.

### Boot and the code

| Code | Model |
|---|---|
| providers, `onModuleInit`, `onApplicationBootstrap`, `listen` | `phase[i]`: down, check, create, seed, find, insert, serving |
| `sequelize.sync()` (`auth.module.ts`), `migrate*Table` (`AuthDbMigration.service.ts`) | `SchemaObjects` in the order of the statements, `object[i]` the one in turn |
| `CREATE ... IF NOT EXISTS` | two steps, `Check` and `Create`: PostgreSQL looks first and the unique indexes of its catalog refuse the loser of a race |
| `ALTER TABLE ... ADD COLUMN IF NOT EXISTS` | one step: it locks the table first |
| `seedDefaultUser` | `upsert` of the row under that username |
| `ensurePermissionsExist` | `FindPermissions` (the await of `findAll`), `InsertPermissions` (`bulkCreate`) |
| any error in these, or a stop from outside | `conflict`, `Crash`; `Start` again, maybe with another environment |

Instances may run different builds, so `RoutesOf[i]` is a parameter. `company`,
`conflicted` and `seededSince` are history variables that the properties need: who
was about while this process ran, why the last one ended, which credentials have
been seeded since. A bcrypt hash is the password it was made of; the tables of
sequelize with their indexes are one object each; the columns added to
`request_logs` are one statement, its indexes one object.

### EsignProfile and the code

| Code | Model |
|---|---|
| a call of the controller | `receive`: the DTO, the configuration check, the password drawn, the body built |
| `postSoap` and the error interceptor | `phase[c]`: idle, ready, sent, settled; `send`, `onError` with `shouldRetry` |
| the axios config that a retry reuses | `body[c]` |
| `createUser`, `parseRevokeUserResponse`, `parseFindUserResponse` | the same, in `replyTo` |
| the PKI (EJBCA) | `profiles[s]`, `Execute`, `acceptable`, `effect`; external |
| a proxy, a page, a fault with any status | `Page`, `Respond` |

`disturbed` is a history variable: the calls whose profile another call may have
changed since they were received, so that nothing can be promised of them any
more. A late attempt of a call that has long been answered stays on the wire and
counts as such a disturbance for calls received later.

### The pure modules and `Gateway`

Every handler is an operator of a request and of the answers it has received so
far, written with `Flow`: it asks for a call, returns, or throws an exception of
some HTTP status. `Gateway` runs it from one await to the next: `Receive` until the
first call, `Resume` with an answer or without one. Data are abstracted to what
the rules tell apart: a field of a WISDM body is absent, null, empty, blank, no
string, a text of some length, a day relative to today, a month or a country code;
a DIN is its document and the characters cleaning keeps and drops; a date of birth
is its distance from today in years, months and days; an XML answer is its tags, its
payload and the form that has (none, plain, escaped, broken); an answer of a
register is its status, its outcome and what is at the path the code reads. What may
come back is given for each request and each of its calls (`AnswersTo(r, n)`), so that
an answer can be about what was asked. `keep`, the filter of an array, and
`upstreamTotalMs` are recursive functions, about which the prover can reason.
Renamed fields are left out where nothing depends on them.

## 3. Runs

| Run | Instance | States | Shows |
|---|---|---|---|
| `outbound` | one GET on the default timeout and one POST with its own, every mode and "unset", no retry or one, all kinds of failures, a clock, a store of one call | 130,343 | reports are single and true, the retry rules hold in both directions (nothing repeated that must not be, nothing given up that should be repeated), the store is right up to its cap, the contract is implemented, every call settles |
| `outbound_twice` | the same | violated | a POST carried out twice in the default mode |
| `inbound` | two requests with the same correlation id, two calls each, one handler sequential, one under Promise.all | 214,728 | rows list own calls only and are complete for sequential handlers, whose times add up; nothing happens before admission; a request whose calls have timeouts is answered |
| `inbound_times` | the same | violated | `upstreamMs` above `durationMs` under Promise.all |
| `wisdm` | two operators, one record held, lists of up to two records, eight kinds of requests, retries and restarts | 261,735 | FinalizeInit only after all inserts; true reports; nothing removed unasked; a run on its own leaves exactly its list; every request ends |
| `wisdm_rejected` | the same | violated | "no records were touched", although all were marked |
| `wisdm_aborted` | two operators who both initialize and finalize | violated | "the previous records remain", although they are gone |
| `boot` | two builds that share one route, two passwords of one user and another user, one crash | 128,441 | who serves has permissions and credentials; only company makes a start fail; in the end all serve |
| `esign` | two calls about one citizen, every mode, no retry or one, no URL | 41,930 | what clients were told was done and stays true until somebody else interferes; no call stays open |
| `gateway` | 2,526 requests, each a valid one varied in a few fields or in its configuration, and every kind of answer | 27,976 | see below |
| `interpol_score` | the same | violated | a score that is no number sent as 0, the widest search |
| `wisdm_update` | the same | violated | a record reported as done, some of whose fields were never sent |

The properties of `gateway`, one for each place where a wrong rule does harm:
`SentDatesConsistent` (two checks of the dates, before and after normalization),
`OkMeansAccepted` (the verdict on an answer of INTERPOL, spread over five
places of it), `ActsOnTheFoundRecord` (what is deleted, extended or shown is what
a successful search found), `OwnRecordReadsBack` (writing and reading agree on
element names that recur, up to the entities that are escaped and never decoded),
`CriteriaKept` (texts, date, ages, score and number of records go along as given;
what `Number()` makes 0 of is `interpol_score`),
`PersonsFit` (age and sex as the first document that states them has it, a birth date
that cannot be read being age 0) and `ChildrenUnderSixteen` (ages on the birthday,
stated without reference to the code's way of computing an age),
`OutageIsNoFinding` (no answer, or a failing status, is not shown as a result;
an error that comes with status 200 is, see below),
`EmployersDisclosed` (which employers, positions and amounts leave the gateway)
and `ActivityAsAsked`.

Why the bounds are enough to be worth something: with one retry the counter
meets its budget while a late first attempt is still on the wire, and the
theorems say the same of any number of retries; a cap of one call is exceeded by
two. The clock has two instants, so that a call can take time or none; `inbound`
runs without retries because what retries do to a call is settled by `outbound`.
A sequential handler needs two calls to have a settled one behind it while
another is open, and Promise.all needs two to leave one behind. In `wisdm` a list
of two records has a first and a last insert, either of which can fail; one retry
gives every call a late twin; the second operator has the three requests that
change what *all* records are, and the first every other. In `boot` two instances are
enough for every race there is, since each statement has one winner; a crash can
come after any statement; the proofs say the same of any number of instances and
crashes, so the run is there for the liveness. In `esign` one citizen is enough,
because calls about different ones do not meet. In `gateway` the values lie on both
sides of each boundary in the code (lengths 25 and 26, 40 and 41 characters, yesterday,
today and tomorrow, the birthday and the days beside it, 0 and none), and a request
makes at most two calls. `MaxRetryAttempts`, `MaxCrashes` and
`MaxNow` are the bounds of the models; the numbers of requests, calls and records
are those of the instance.

All runs say `CHECK_DEADLOCK FALSE`: when all requests are answered and nothing
is left on the wire the system rests, and a call to a silent third party without
any timeout really hangs. That they do not get stuck otherwise is what
`CallSettles`, `RequestIsAnswered`, `RequestEnds`, `EveryInstanceServes` and
`EsignCallSettles` say.

**Fairness.** Node's timers fire and the event loop runs what is ready: weak
fairness of `TimeOut` and `retry`, in `InboundRequest` also of the guard's
verdict and of a handler that awaits nothing any more. In `WisdmInit` only
`TimeOut`. Nothing is assumed of third parties, the network or the clients:
liveness holds although nobody ever answers. In `wisdm` one environment has
`HTTP_DEFAULT_TIMEOUT_MS=0`, so that the answer depends on WISDM's own timeout. In
`Boot` every statement ends and a process that is down is started again (weak
fairness of `Run(i)`), as container platforms do; crashes are bounded, not fair. In
`EsignProfile` what is ready is sent, and timers fire; the PKI owes nothing.
`Gateway` has no fairness: its properties are about what is sent and told.

### Disagreements met on the way

1. `OBSERVABILITY.md:130-131` says the default retry mode cannot process a
   request twice; a connection lost after the request was written can
   (`outbound_twice`).
2. `Interpol.service.ts:105-108` says that a score is an integer and that anything else
   is rejected rather than coerced, so that nobody widens a search by accident; blanks,
   `false` and `[]` are numbers to JavaScript and become 0, the widest search
   (`interpol_score`; ages alike).
3. `OBSERVABILITY.md:13-16` makes `upstreamMs` a part of `durationMs`; under
   Promise.all it can exceed it (`inbound_times`).
4. `Wisdm.service.ts:272` tells an operator that no records were touched when an
   error status came from something in between (`wisdm_rejected`).
5. `Wisdm.service.ts:292` tells an operator that the previous records remain
   although another operator's finalize has removed them (`wisdm_aborted`).
6. `ENDPOINTS.md:1010-1016` lists the optional fields of a WISDM record; reference
   numbers and the retention date among them are accepted, and an update may even
   consist of nothing else, but no element is made of them (`wisdm_update`).

Smaller ones, which no run is about:

* `OBSERVABILITY.md:39` promises one row per request; the interceptor is registered for
  every route and once more for `interpol/*`, whose requests leave two.
* `ENDPOINTS.md:12-17` requires permissions of every endpoint, and 743 and the like a
  permission guard; only `BasicAuthGuard` is bound to any route.
* An error of JSON-RPC, or an answer that calls itself failed, that comes with status
  200 is told as nothing found. No document says what should become of it.
* `xmlEscape` escapes what is sent in a record and nothing decodes what is read of one
  (`firstTagValue`): `A & B` comes back as `A &amp; B`, and it is for the client to
  decode it. A text like a tag (`a <b`), given back in plain `xmlData`, makes the whole
  payload look escaped; it is decoded, and the field is lost.
* An escaped `xmlData` is understood in SLTD and WISDM answers; in a nominal search it
  reads as a success without hits.
* The schema operations of WISDM ignore `resultOtherCode`, and take a missing code
  for a success; the others do neither.
* Functional errors are looked for in all of `xmlData`: a stored record whose text
  reads "not found" turns its own retrieval into an error. The models assume there
  is none.
* `ENDPOINTS.md` speaks of country codes of 2 or 3 letters; the rule wants 3 digits.
* The filter by age of MCS is skipped when its maximum is 0; a person whose first birth
  date cannot be read counts as 0 years old, also when a later document has one that can.
* The comments of the MCS integration (58, 91) promise an empty array on errors; it
  throws 500, and `OutageIsNoFinding` relies on that.
* A search of the population register without any criterion asks for all addresses;
  an unknown kind of number at the cadastre is taken for a certificate number.
* What is not configured is found out at the start (clients with certificates, tax),
  at the call (Ktak, PKI, Investigative Committee, obligations), or never (cadastre,
  Ekeng). A directory at the first place of a certificate hides the second.
* `createUser` hands out the password also when the PKI answered 200 with a fault or
  something in between with a page: the `data` beside it tells. A page without a SOAP
  body reads as an empty list of profiles.
* `SearchDocument` answered by an HTTP 500 with the code for "no answer" is told as 404.
* A username with blanks around it is seeded as it is and trimmed at login; renaming
  the user leaves the old account valid; empty credentials are never accepted (the
  models assume non-empty ones).
* The branch for stored plaintext passwords (`Auth.service.ts:28`) waits for an error
  of bcrypt, which answers false for a string that is no hash.

## 4. Proofs

Every invariant and every action property that a passing run checks is also a
theorem. The theorems hold for every set of calls, requests, records and operators,
every list, every setting and every bound. They rest on the named assumptions of
the modules only:

* `TrackedCallsAssumption`, `OutboundAssumption`, `WisdmAssumption`,
  `BootAssumption` and `EsignAssumption` give the constants their types, say that
  the bodies of requests about records name at least one (the DTOs reject an empty
  list), and that no environment has an empty username or password.
* `RequestsAssumption` of `Gateway`: a request goes to a route there is, and what its
  body says is a number or a day is one. Nothing else is assumed of bodies, queries
  or environments.
* `AnswersAssumption` of `Gateway`: an answer has a status, what the code reads as an
  array is one, a date of birth is one distance from today, one text that is no date, or none, and INTERPOL repeats
  outside of `xmlData` the result code it gives inside.

**OutboundHttpProofs.** `ReportedOnceAndTruthfully` is not inductive: nothing in
it says that the counter in the axios config, which is what the report copies,
agrees with what was sent. `CountsAttempts` adds that (equal while sent and once
settled, one ahead during a backoff, within the budget), `WireIsSent` that third
parties see only what was sent, `OneAttemptInNever` and `AnsweredIsSettled` what
the mode adds. With these in `IInv` one lemma per step (`SendPreserves`,
`ErrorPreserves`, `ResponsePreserves`, `ExecutePreserves`, `TickPreserves`) gives
`Invariance`, and from it:

* `TypesCorrect`, `ReportsCorrect` - the type invariant and the reports;
* `NeverExecutesTwice` - one attempt at most, so one execution;
* `AnswersAreFinal` - no unsafe request is sent again after an answer;
* `RepetitionsAreMade` - no call is given up on what a repetition may cure before its
  budget is spent: only the step that rejects a call matters, and there
  `CountsAttempts` ties the counter `shouldRetry` looks at to the attempts made;
* `InstrumentationImplementsContract` - every step maps to a step of
  `UpstreamContract` or to a stutter (a backoff).

**WisdmInitProofs.** That FinalizeInit is sent only when everything was inserted
depends on the counts of the loop, and these on the answers not yet looked at.
`IInv` says, for a request at its i-th insert, that exactly the records before it
are counted and that an answer `ok` waiting for it means record i is in
`accepted` (`CountOK`); `FinalizeOK` and `ReportOK` carry this over to what is
reported after the loop; `StepOK` says which request can be at which step, and
`WireOK` that late attempts are about records of their list. From `Invariance`
follow `TypesCorrect`, `FinalizesOnlyWhenComplete` and `ReportsAreTrue`.

**BootProofs.** That an instance which serves finds all its permissions is not
inductive, because what it inserts is what it missed at an earlier moment:
`MissingIsAllThatIsMissing` says that the rest of its routes was there already, and
that permissions are never removed does the rest. `OwnRowStays` says where the row
with an instance's own credentials must be as long as nobody has seeded the same
name since, also before it serves. That starts are repeatable needs
`RaceNeedsCompany`: what a process has seen to be absent and then finds there was
made by another one, whose presence `company` has recorded. One lemma per action
(`CheckPreserves`, `CreatePreserves` and so on) gives `Invariance`, and from it
follow `TypesCorrect`, `RoutesHavePermissions`, `CredentialsAccepted` and
`StartsAreRepeatable`, for any number of instances and builds.

**EsignProofs.** That an answer holds depends on what is still on the wire: a late
attempt of the same call may be carried out after the client was told.
`WireIsOwn` says that every attempt of a call carries the body of that call, so that
carrying it out again changes nothing; `WireIsUndisturbed` that nobody else's
attempt is about the profile of an undisturbed call; `ToldIsSo` extends the
promise from what was told to what the PKI has answered but the gateway not yet
received. A late revoke after a revoke is a fault that changes nothing. From
`Invariance` follow `TypesCorrect` (attempts within the budget), `AnswersHold` and
`SuccessesAreReal`, for any number of calls and citizens and any budget.

**RequestStoreProofs.** The store of a request is written by every call that settles
for it. `StoreInv` says that each entry is the report of a call settled for that
request, that no call has two, and that there are as many as have settled, up to the
cap. It is inductive together with the `IInv` of `OutboundHttp`, because a call that
settles had no report before. A step of the instrumentation settles one call
(`Settles`) or none (`Quiet`), and these two cases are all the proof needs to look at.
The result is `StoresAccount`. `TotalOfAppend` says what the recursive sum does when a
report is appended. It needs induction, and the library's theorems about that take an
operator as a parameter; `NoLeastFailure`, which says that a set of numbers without a
least element is empty, says the same of a set and can be cited.

**InboundProofs.** A request drives its calls only as `OutboundHttp` allows it
(`InboundDrivesInstrumentation`: `InboundRequest` refines `OutboundHttp` step by step),
so that everything proved of the instrumentation holds in the composed system
(`PromisesHoldInContext`). To that `InboundInv` adds what the pipeline contributes:
`CallsAreAdmitted`, `RowsWithTheAnswer` (rows are written by the step that answers),
`RowsListReports` (what a row lists stays what the call reported), `OneAtATime` and
`ClosedWhenAnswered` for sequential handlers. `TimesFit` is what makes
`SequentialTimesAddUp` inductive: the times reported so far end before the open call
started, so that its own time can be added without passing the clock. From it follow
`InboundTypesCorrect`, `RowsBlameTheRightRequest`, `SequentialRowsAreComplete`,
`SequentialTimesDoAddUp` and `NothingIsAskedUnadmitted`.

**WisdmRecordsProofs.** `NothingLostUnlessAsked` is about a removal that may be carried
out long after the request that asked for it has ended. `WireEntitled` therefore says
of every attempt still on the wire that its request is entitled to it: confirmed, of the
right kind and, for the FinalizeInit of an initialization, with everything inserted.
`StepEntitled` says it of what a request waits for, which the next attempt copies.
For `SoloRunLeavesItsRecords`, `SoloOK` follows an initialization nobody interferes with
through INTERPOL: nothing is live once StartInit is answered, then exactly what was
inserted, and FinalizeInit leaves no mark; with attempts that are never repeated
nothing is on the wire afterwards. The results are `NothingIsLostUnasked` and
`SoloLeavesItsRecords`.

**GatewayProofs.** A request is at one of seven places (`Stands`): ended at once, waiting
for the first answer, ended after it, waiting for the second or ended after that, and
the same for two calls at once. `GatewayInv` says that the state is what the handler
makes of the answers so far. That these are all the places is what `Orderly` says of
a handler: it asks for one call or two, goes on only from an answer it can go on from,
and claims a success only if INTERPOL's answer confirms it. It is proved handler by
handler, for twelve operations of WISDM, six of INTERPOL and those of the registers.
From `GatewayInvariance` follow `CallsAndRepliesFit` (the type invariant),
`OkHasInterpolsWord` and `OutagesAreNotFindings` (of calls without an answer or with a
failing status). The others
need a lemma about the operators behind one operation as well: what
`compareWisdmDates` and the normalization leave of three dates (`SentDatesFit`); that
each element is read from where it was written and decoding gives the value back
(`RecordsReadBack`); the second call
names what the first answer showed (`ActsOnWhatItFound`); every criterion goes along
unchanged, and none that was not given (`CriteriaGoAlong`); `calculateAge` and
`isAtLeastAge` agree with the calendar, and `firstGiven` with the first document that
has the field (`ToldPersonsWereAskedFor`, `ChildrenAreUnderSixteen`); a span of days counts from its
first to its last (`ActivityIsAsAsked`); `OnlyActualEmployersDisclosed`. What `keep`
leaves of a list for every length (`KeptElements`, `KeptAlike`) is proved by the least
counterexample, as above.

**Only model-checked:** the liveness properties (`CallSettles`, `RequestIsAnswered`,
`RequestEnds`, `EveryInstanceServes`, `EsignCallSettles`), since the prover handles
neither fairness nor ENABLED; and the six statements that do not hold.

## 5. Not modelled

* Swagger and the documentation of the DTOs, which decides nothing.
* AdminJS (commented out of `AppModule`) and the verification of signatures
  (commented out of `APIModule`). The RBAC guards protect no route, and nothing
  calls the methods that list a client's permissions.
* The length of the backoff, keep-alive agents, TLS agents and certificates beyond
  whether they can be read; XML as text; the wording of messages; the renaming of
  fields nothing depends on; SQL and the pool of the MySQL database, to which every
  start also connects.
* The truncation of logged payloads, and an INSERT into the log that fails (a
  correlation id above 64 characters or a path above 1024 are enough): the row is
  lost and nothing else happens. That every row reaches the table is promised
  nowhere.
* The status that a row records against the one the client gets, for an error
  without a `status` (`ProtectedRequestLogging.interceptor.ts:71`): no document says
  what it must be.

## 6. Plan

Done, in the order of the plan: `RetryPolicy`, `RequestContext`, `OutboundHttp`,
`UpstreamContract`, `InboundRequest`, `WisdmInit`; `EsignProfile`; `Boot`, with the
permissions in it, since they belong to one start; `WisdmRules` and `WisdmSoap`;
`InterpolSearch`, `PersonSearch`, `Registers`, composed in `Gateway`; eight modules
of proofs, which state every invariant and action property of the passing runs.

Still to come: a proof that `WisdmInit` and `EsignProfile` implement
`UpstreamContract` for each of their calls, as `OutboundHttp` does; an abstract
specification of the records at INTERPOL (searchable, removed on demand) that `WisdmInit`
implements.
