---------------------------- MODULE EsignProfile ----------------------------
(***************************************************************************)
(* EsignService and PkiClientIntegration: profiles created, revoked and    *)
(* found at the PKI (EJBCA) by POSTs that go through the retries of        *)
(* HttpInstrumentationService.  The PKI belongs to the environment: it may *)
(* carry out an attempt at any later moment, or never.                     *)
(***************************************************************************)
EXTENDS RetryPolicy, FiniteSets

CONSTANTS
  Call,             \* the calls made to the esign controller
  Ssn,              \* the citizens they are about
  Settings,         \* settings of the process: mode, retryAttempts, baseUrl
  FaultStatuses,    \* the HTTP statuses a SOAP fault may come with
  PageStatuses,     \* the statuses of a page of something in between
  MaxRetryAttempts  \* bound: the largest HTTP_RETRY_ATTEMPTS considered

ASSUME EsignAssumption ==
  /\ Settings \subseteq [mode : UnsafeRetryMode, retryAttempts : 0 .. MaxRetryAttempts,
                         baseUrl : BOOLEAN]
  /\ FaultStatuses \subseteq 200 .. 599
  /\ PageStatuses \subseteq 200 .. 599
  /\ MaxRetryAttempts \in Nat

VARIABLES
  settings,   \* fixed when the process starts
  phase,      \* phase[c]: where call c stands
  request,    \* request[c]: what was asked
  password,   \* password[c]: the password createUser has drawn
  body,       \* body[c]: the SOAP body in the axios config
  attempt,    \* attempt[c]: how often it was sent
  onTheWire,  \* the attempts the PKI may still carry out
  result,     \* result[c]: what came of the current attempt at the PKI
  done,       \* the calls the PKI has carried out, once or more often
  profiles,   \* profiles[s]: the end entity of s at the PKI
  reply,      \* reply[c]: what the client gets
  disturbed   \* history: calls whose profile another call may have changed
              \* since they were received

callVars == <<settings, request, password, body>>
pkiVars == <<profiles, done>>
esignVars == <<callVars, phase, attempt, onTheWire, result, pkiVars, reply, disturbed>>

Nothing == [kind |-> "nothing"]
NoProfile == [status |-> "none"]
NoPassword == <<>>

\* CreateEsignProfileDto and RevokeEsignProfileDto; 0 and 1 are the defaults of
\* a revocation that names no reason and does not say whether to delete.
CreateEsignProfileDto == [kind : {"create"}, ssn : Ssn]
RevokeEsignProfileDto == [kind : {"revoke"}, ssn : Ssn, deleteUser : {0, 1}]
FindEsignProfile == [kind : {"find"}, ssn : Ssn]
Requests == CreateEsignProfileDto \cup RevokeEsignProfileDto \cup FindEsignProfile

\* Random and long enough never to be drawn twice: the call and a counter.
Password == {NoPassword} \cup (Call \X {1, 2})
generatePassword(c) == <<c, 1>>

Profile == {NoProfile} \cup [status : {"new", "revoked"}, password : Password]

Body ==
  [kind : {"editUser"}, username : Ssn, password : Password, status : {"new"}]
    \cup [kind : {"revokeUser"}, username : Ssn, deleteUser : {0, 1}]
    \cup [kind : {"findUser"}, username : Ssn]

EsignInit ==
  /\ settings \in Settings
  /\ phase = [c \in Call |-> "idle"]
  /\ request = [c \in Call |-> Nothing]
  /\ password = [c \in Call |-> NoPassword]
  /\ body = [c \in Call |-> Nothing]
  /\ attempt = [c \in Call |-> 0]
  /\ onTheWire = {}
  /\ result = [c \in Call |-> Nothing]
  /\ done = {}
  /\ profiles = [s \in Ssn |-> NoProfile]
  /\ reply = [c \in Call |-> Nothing]
  /\ disturbed = {}

-----------------------------------------------------------------------------
(* The bodies. *)

\* An upsert: status 40 makes the end entity new, whatever it was.
buildEditUserSoap(r, p) ==
  [kind |-> "editUser", username |-> r.ssn, password |-> p, status |-> "new"]

buildRevokeUserSoap(r) ==
  [kind |-> "revokeUser", username |-> r.ssn, deleteUser |-> r.deleteUser]

buildFindUserSoap(r) == [kind |-> "findUser", username |-> r.ssn]

-----------------------------------------------------------------------------
(* Replies to an answer of status 2xx, whose envelope carries `answer`. *)

createUser(c, answer) == [kind |-> "password", password |-> password[c], data |-> answer.kind]

\* Mutant of parseRevokeUserResponse: whatever is no fault is a success.
parseRevokeUserResponseLenient(answer) ==
  IF answer.kind = "fault" THEN [kind |-> "raw"] ELSE [kind |-> "success"]

\* A response with something in it, but no `return`, is a success; all else is passed
\* on as it came, a response with nothing in it included.
parseRevokeUserResponse(answer) ==
  IF answer.kind = "revokeUserResponse" THEN [kind |-> "success"] ELSE [kind |-> "raw"]

normalizeFindUserResult(profile) == IF profile = NoProfile THEN {} ELSE {profile}

\* A page without a SOAP body has no return either, and reads as an empty list.
parseFindUserResponse(answer) ==
  CASE answer.kind = "fault" -> [kind |-> "fault"]
    [] answer.kind = "findUserResponse" ->
         [kind |-> "list", list |-> normalizeFindUserResult(answer.return)]
    [] OTHER -> [kind |-> "list", list |-> {}]

replyTo(c, answer) ==
  CASE request[c].kind = "create" -> createUser(c, answer)
    [] request[c].kind = "revoke" -> parseRevokeUserResponse(answer)
    [] OTHER -> parseFindUserResponse(answer)

-----------------------------------------------------------------------------
(* Steps of the gateway. *)

changes(d) == request[d].kind \in {"create", "revoke"}

\* The calls about the citizen of c, besides c, that have been received.
others(c) ==
  {d \in Call \ {c} : request[d] # Nothing /\ request[d].ssn = request[c].ssn}

settle(c, r) ==
  /\ phase' = [phase EXCEPT ![c] = "settled"]
  /\ reply' = [reply EXCEPT ![c] = r]

\* A call comes in.  Without ESIGN_PKI_API_URL it ends with a 500 at once.
receive(c) ==
  /\ phase[c] = "idle"
  /\ \E r \in Requests :
       LET p == IF r.kind = "create" THEN generatePassword(c) ELSE NoPassword
       IN /\ request' = [request EXCEPT ![c] = r]
          /\ IF settings.baseUrl
             THEN /\ password' = [password EXCEPT ![c] = p]
                  /\ body' = [body EXCEPT ![c] =
                       CASE r.kind = "create" -> buildEditUserSoap(r, p)
                         [] r.kind = "revoke" -> buildRevokeUserSoap(r)
                         [] OTHER -> buildFindUserSoap(r)]
                  /\ phase' = [phase EXCEPT ![c] = "ready"]
                  /\ UNCHANGED reply
             ELSE UNCHANGED <<password, body>> /\ settle(c, [kind |-> "error"])
          /\ disturbed' = disturbed \cup
               {d \in {c} : \E m \in onTheWire : m.body.kind # "findUser"
                                                   /\ m.body.username = r.ssn}
  /\ UNCHANGED <<settings, attempt, onTheWire, result, pkiVars>>

\* Mutant of postSoap: the body is built anew for every attempt.
postSoapRebuilt(c) ==
  LET b == IF request[c].kind = "create"
           THEN buildEditUserSoap(request[c], <<c, attempt[c] + 1>>) ELSE body[c]
  IN onTheWire' = onTheWire \cup {[call |-> c, attempt |-> attempt[c] + 1, body |-> b]}

postSoap(c) ==
  onTheWire' = onTheWire \cup {[call |-> c, attempt |-> attempt[c] + 1, body |-> body[c]]}

\* The first attempt, or the next one after the backoff: the body is the one in
\* the axios config.
send(c) ==
  /\ phase[c] = "ready"
  /\ phase' = [phase EXCEPT ![c] = "sent"]
  /\ attempt' = [attempt EXCEPT ![c] = @ + 1]
  /\ postSoap(c)
  /\ result' = [result EXCEPT ![c] = Nothing]
  /\ disturbed' = IF changes(c) THEN disturbed \cup others(c) ELSE disturbed
  /\ UNCHANGED <<callVars, pkiVars, reply>>

onError(c, error) ==
  IF shouldRetry("post", settings.mode, settings.retryAttempts, error, attempt[c])
  THEN phase' = [phase EXCEPT ![c] = "ready"] /\ UNCHANGED reply
  ELSE settle(c, [kind |-> "error"])

\* An answer arrives; axios rejects all but a status of 2xx.
answered(c, status, answer) ==
  /\ phase[c] = "sent"
  /\ IF status \in 200 .. 299
     THEN settle(c, replyTo(c, answer))
     ELSE onError(c, [code |-> IF status >= 500 THEN "ERR_BAD_RESPONSE" ELSE "ERR_BAD_REQUEST",
                      status |-> status])
  /\ UNCHANGED <<callVars, attempt, onTheWire, result, pkiVars, disturbed>>

\* The timeout postSoap sets, in milliseconds; 0 would be none.
noTimeoutMs == 0
TIMEOUT_MS == 30000

TimeOut(c) ==
  /\ phase[c] = "sent" /\ TIMEOUT_MS > 0
  /\ onError(c, [code |-> "ECONNABORTED", status |-> NoStatus])
  /\ UNCHANGED <<callVars, attempt, onTheWire, result, pkiVars, disturbed>>

Refused(c) ==
  /\ phase[c] = "sent"
  /\ \E m \in onTheWire :
       /\ m.call = c /\ m.attempt = attempt[c]
       /\ onTheWire' = onTheWire \ {m}
  /\ onError(c, [code |-> "ECONNREFUSED", status |-> NoStatus])
  /\ UNCHANGED <<callVars, attempt, result, pkiVars, disturbed>>

Broken(c) ==
  /\ phase[c] = "sent"
  /\ onError(c, [code |-> "ECONNRESET", status |-> NoStatus])
  /\ UNCHANGED <<callVars, attempt, onTheWire, result, pkiVars, disturbed>>

-----------------------------------------------------------------------------
(* The PKI. *)

\* What an attempt makes of the profile, if it is accepted at all.
effect(b, profile) ==
  CASE b.kind = "editUser" -> [status |-> b.status, password |-> b.password]
    [] b.kind = "revokeUser" /\ b.deleteUser = 1 -> NoProfile
    [] b.kind = "revokeUser" /\ b.deleteUser = 0 -> [profile EXCEPT !.status = "revoked"]
    [] OTHER -> profile

\* Only what exists can be revoked, and only once.
acceptable(b, profile) ==
  b.kind = "revokeUser" =>
    /\ profile # NoProfile
    /\ b.deleteUser = 0 => profile.status # "revoked"

outcome(b, profile) ==
  CASE b.kind = "editUser" -> [kind |-> "editUserResponse"]
    [] b.kind = "revokeUser" -> [kind |-> "revokeUserResponse"]
    [] OTHER -> [kind |-> "findUserResponse", return |-> profile]

Execute ==
  \E m \in onTheWire :
    LET s == m.body.username
        ok == acceptable(m.body, profiles[s])
    IN /\ onTheWire' = onTheWire \ {m}
       /\ profiles' = IF ok THEN [profiles EXCEPT ![s] = effect(m.body, @)] ELSE profiles
       /\ done' = IF ok THEN done \cup {m.call} ELSE done
       /\ result' = IF m.attempt = attempt[m.call]
                    THEN [result EXCEPT ![m.call] =
                           IF ok THEN outcome(m.body, profiles[s]) ELSE [kind |-> "fault"]]
                    ELSE result
       /\ UNCHANGED <<callVars, phase, attempt, reply, disturbed>>

\* The ways to write an answer: the parser makes '' of an element with nothing in it.
written(answer) ==
  IF answer.kind = "revokeUserResponse" THEN {answer, [kind |-> "emptyRevokeUserResponse"]}
  ELSE {answer}

Respond(c) ==
  /\ result[c] # Nothing
  /\ \E status \in IF result[c].kind = "fault" THEN FaultStatuses ELSE {200},
       answer \in written(result[c]) : answered(c, status, answer)

\* Something in between answers, whether or not the PKI does the work.
Page(c) == \E status \in PageStatuses : answered(c, status, [kind |-> "page"])

Step(c) ==
  \/ receive(c)
  \/ send(c)
  \/ Respond(c)
  \/ Page(c)
  \/ TimeOut(c)
  \/ Refused(c)
  \/ Broken(c)

EsignNext == Execute \/ \E c \in Call : Step(c)

\* Timers fire, and what is ready is sent.
EsignFairness == \A c \in Call : WF_esignVars(send(c)) /\ WF_esignVars(TimeOut(c))

EsignSpec == EsignInit /\ [][EsignNext]_esignVars

FairEsignSpec == EsignSpec /\ EsignFairness

-----------------------------------------------------------------------------
(* Properties. *)

Message == [call : Call, attempt : 1 .. MaxRetryAttempts + 1, body : Body]

Result ==
  [kind : {"editUserResponse", "revokeUserResponse", "fault"}]
    \cup [kind : {"findUserResponse"}, return : Profile]

Reply ==
  [kind : {"error", "raw", "success", "fault"}]
    \cup [kind : {"list"}, list : SUBSET Profile]
    \cup [kind : {"password"}, password : Password,
          data : {"editUserResponse", "fault", "page"}]

\* Each variable has its type; in particular nothing is sent more often than the
\* settings allow.
EsignTypeOK ==
  /\ settings \in Settings
  /\ phase \in [Call -> {"idle", "ready", "sent", "settled"}]
  /\ request \in [Call -> Requests \cup {Nothing}]
  /\ password \in [Call -> Password]
  /\ body \in [Call -> Body \cup {Nothing}]
  /\ attempt \in [Call -> 0 .. settings.retryAttempts + 1]
  /\ result \in [Call -> Result \cup {Nothing}]
  /\ reply \in [Call -> Reply \cup {Nothing}]
  /\ onTheWire \subseteq Message
  /\ done \subseteq Call
  /\ profiles \in [Ssn -> Profile]
  /\ disturbed \subseteq Call

\* What a client was told stays true, late attempts of the same call included,
\* until another call changes that profile: the password handed out is the one
\* at the PKI, and what was reported revoked is revoked.
AnswerHolds ==
  \A c \in Call \ disturbed :
    /\ reply[c].kind = "password" /\ reply[c].data = "editUserResponse" =>
         profiles[request[c].ssn] = [status |-> "new", password |-> reply[c].password]
    /\ reply[c].kind = "success" =>
         IF request[c].deleteUser = 1
         THEN profiles[request[c].ssn] = NoProfile
         ELSE profiles[request[c].ssn].status = "revoked"

\* A success, or a password that comes with the PKI's own answer, is told only
\* of a call the PKI has carried out: no fault and no page in between can pass
\* for one.
SuccessWasCarriedOut ==
  \A c \in Call :
    \/ reply[c].kind = "success"
    \/ reply[c].kind = "password" /\ reply[c].data = "editUserResponse"
    => c \in done

\* The PKI cannot keep a call open.
EsignCallSettles == \A c \in Call : phase[c] = "sent" ~> phase[c] = "settled"
=============================================================================
