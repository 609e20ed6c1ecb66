----------------------------- MODULE EsignProofs -----------------------------
(***************************************************************************)
(* Proofs about EsignProfile, for any number of calls and citizens, every  *)
(* retry mode and budget, and every fault and page in between.             *)
(***************************************************************************)
EXTENDS EsignProfile, TLAPS

-----------------------------------------------------------------------------
(* The inductive invariant. *)

\* What c is to send says what it was asked, and never changes.
BodyIsAsked ==
  \A c \in Call :
    /\ phase[c] = "idle" => request[c] = Nothing /\ body[c] = Nothing
    /\ phase[c] # "idle" => request[c] \in Requests
    /\ phase[c] \in {"ready", "sent"} => body[c] # Nothing
    /\ body[c] # Nothing =>
         /\ phase[c] # "idle"
         /\ request[c].kind = "create" =>
              body[c] = buildEditUserSoap(request[c], password[c]) /\ password[c] \in Password
         /\ request[c].kind = "revoke" => body[c] = buildRevokeUserSoap(request[c])
         /\ request[c].kind = "find" => body[c] = buildFindUserSoap(request[c])

\* What is on the wire was sent by its call, with its body.
WireIsOwn ==
  \A m \in onTheWire :
    /\ m.call \in Call /\ m.attempt \in 1 .. attempt[m.call]
    /\ body[m.call] # Nothing /\ m.body = body[m.call]

\* A call that is to be sent has not used up its attempts.
WithinBudget ==
  \A c \in Call :
    /\ phase[c] = "idle" => attempt[c] = 0
    /\ phase[c] = "ready" => attempt[c] <= settings.retryAttempts

\* A result is of the kind of its call, and good ones are of what was done.
ResultIsOfCall ==
  \A c \in Call :
    /\ result[c] = Nothing
       \/ /\ body[c] # Nothing
          /\ \/ result[c] = [kind |-> "fault"]
             \/ request[c].kind = "create" /\ result[c] = [kind |-> "editUserResponse"]
             \/ request[c].kind = "revoke" /\ result[c] = [kind |-> "revokeUserResponse"]
             \/ /\ request[c].kind = "find"
                /\ \E p \in Profile : result[c] = [kind |-> "findUserResponse", return |-> p]
    /\ result[c].kind \in {"editUserResponse", "revokeUserResponse"} => c \in done

\* A profile about which an undisturbed call was told something is only touched by
\* that call's own attempts.
WireIsUndisturbed ==
  \A c \in Call \ disturbed : \A m \in onTheWire :
    request[c] # Nothing /\ m.body.username = request[c].ssn /\ m.body.kind # "findUser"
      => m.call = c

\* What has come back of an undisturbed call, or was told of it, is so.
ToldIsSo ==
  \A c \in Call \ disturbed :
    /\ \/ result[c].kind = "editUserResponse"
       \/ reply[c].kind = "password" /\ reply[c].data = "editUserResponse"
       => profiles[request[c].ssn] = [status |-> "new", password |-> password[c]]
    /\ \/ result[c].kind = "revokeUserResponse"
       \/ reply[c].kind = "success"
       => IF request[c].deleteUser = 1
          THEN profiles[request[c].ssn] = NoProfile
          ELSE profiles[request[c].ssn].status = "revoked"

\* What is told is told of a call that was received.
ReplyIsOfCall ==
  \A c \in Call :
    /\ reply[c].kind = "success" => request[c].kind = "revoke" /\ body[c] # Nothing
    /\ reply[c].kind = "password" =>
         /\ request[c].kind = "create" /\ body[c] # Nothing
         /\ reply[c].password = password[c]

IInv ==
  /\ EsignTypeOK
  /\ BodyIsAsked
  /\ WireIsOwn
  /\ WithinBudget
  /\ ResultIsOfCall
  /\ WireIsUndisturbed
  /\ ToldIsSo
  /\ ReplyIsOfCall
  /\ SuccessWasCarriedOut

-----------------------------------------------------------------------------
(* Lemmas. *)

\* The budget is a number, and no setting exceeds the bound.
LEMMA SettingsAreTyped ==
  ASSUME NEW s \in Settings
  PROVE  /\ s.retryAttempts \in 0 .. MaxRetryAttempts
         /\ MaxRetryAttempts \in Nat
         /\ s.baseUrl \in BOOLEAN
  BY EsignAssumption

\* A repetition keeps to the budget.
LEMMA RetryKeepsBudget ==
  ASSUME NEW method, NEW mode, NEW retryAttempts \in Nat, NEW error, NEW n \in Nat,
         shouldRetry(method, mode, retryAttempts, error, n)
  PROVE  n <= retryAttempts
  BY DEF shouldRetry

\* Something was asked, or nothing.
LEMMA NothingIsNoRequest ==
  /\ Nothing \notin Requests
  /\ Nothing \notin Body
  /\ Nothing \notin Result
  /\ Nothing \notin Reply
  BY DEF Nothing, Requests, CreateEsignProfileDto, RevokeEsignProfileDto, FindEsignProfile, Body,
         Result, Reply

\* A body is of the kind it was built as, and about the citizen that was asked
\* for.
LEMMA BodiesAreTyped ==
  ASSUME NEW r \in Requests, NEW p \in Password
  PROVE  /\ r.ssn \in Ssn
         /\ r.kind = "create" => buildEditUserSoap(r, p) \in Body
         /\ r.kind = "revoke" => buildRevokeUserSoap(r) \in Body /\ r.deleteUser \in {0, 1}
         /\ r.kind = "find" => buildFindUserSoap(r) \in Body
         /\ r.kind \in {"create", "revoke", "find"}
  BY DEF Requests, CreateEsignProfileDto, RevokeEsignProfileDto, FindEsignProfile, Body,
         buildEditUserSoap, buildRevokeUserSoap, buildFindUserSoap

\* What an accepted attempt does to a profile.
LEMMA Effects ==
  ASSUME NEW b \in Body, NEW profile \in Profile, acceptable(b, profile)
  PROVE  /\ effect(b, profile) \in Profile
         /\ b.kind = "editUser" => effect(b, profile) = [status |-> "new", password |-> b.password]
         /\ b.kind = "findUser" => effect(b, profile) = profile
         /\ b.kind = "revokeUser" =>
              IF b.deleteUser = 1 THEN effect(b, profile) = NoProfile
              ELSE effect(b, profile).status = "revoked"
<1>1. CASE b.kind = "editUser"
  BY <1>1 DEF effect, Body, Profile
<1>2. CASE b.kind = "findUser"
  BY <1>2 DEF effect, Body, Profile
<1>3. CASE b.kind = "revokeUser" /\ b.deleteUser = 1
  BY <1>3 DEF effect, Body, Profile
<1>4. CASE b.kind = "revokeUser" /\ b.deleteUser = 0
  <2>1. profile \in [status : {"new", "revoked"}, password : Password]
    BY <1>4 DEF acceptable, Profile
  <2>2. effect(b, profile) = [profile EXCEPT !.status = "revoked"]
    BY <1>4 DEF effect
  <2> QED BY <1>4, <2>1, <2>2 DEF Profile
<1> QED BY <1>1, <1>2, <1>3, <1>4 DEF Body

\* What has been revoked cannot be revoked once more.
LEMMA RevokedStays ==
  ASSUME NEW b \in Body, b.kind = "revokeUser", NEW profile,
         IF b.deleteUser = 1 THEN profile = NoProfile ELSE profile.status = "revoked"
  PROVE  ~acceptable(b, profile)
  BY DEF acceptable, Body

-----------------------------------------------------------------------------
(* The steps preserve the invariant. *)

\* Before any call nothing is on the wire.
LEMMA InitEstablishes ==
  ASSUME EsignInit
  PROVE  IInv
<1>1. settings \in Settings /\ settings.retryAttempts \in 0 .. MaxRetryAttempts
      /\ 0 \in 0 .. settings.retryAttempts + 1
  BY SettingsAreTyped DEF EsignInit
<1>2. EsignTypeOK
  BY <1>1 DEF EsignInit, EsignTypeOK, Password, Profile
<1>3. BodyIsAsked /\ WireIsOwn /\ WithinBudget /\ WireIsUndisturbed
  BY DEF EsignInit, BodyIsAsked, WireIsOwn, WithinBudget, WireIsUndisturbed
<1>4. ResultIsOfCall /\ ToldIsSo /\ ReplyIsOfCall /\ SuccessWasCarriedOut
  BY DEF EsignInit, ResultIsOfCall, ToldIsSo, ReplyIsOfCall, SuccessWasCarriedOut, Nothing
<1> QED BY <1>2, <1>3, <1>4 DEF IInv

\* A failed attempt: sent again after a backoff, or told to the client as an error.
LEMMA ErrorPreserves ==
  ASSUME IInv, NEW c \in Call, phase[c] = "sent", NEW error, onError(c, error),
         onTheWire' \subseteq onTheWire, UNCHANGED <<callVars, attempt, result, pkiVars, disturbed>>
  PROVE  IInv'
<1> USE DEF IInv
<1>1. /\ phase' \in [Call -> {"idle", "ready", "sent", "settled"}]
      /\ phase'[c] \in {"ready", "settled"}
      /\ \A d \in Call \ {c} : phase'[d] = phase[d]
  BY DEF onError, settle, EsignTypeOK
<1>2. /\ reply' \in [Call -> Reply \cup {Nothing}]
      /\ \A d \in Call : reply'[d] = reply[d] \/ reply'[d] = [kind |-> "error"]
  BY DEF onError, settle, EsignTypeOK, Reply
<1>3. phase'[c] = "ready" => attempt[c] <= settings.retryAttempts
  <2>1. attempt[c] \in Nat /\ settings.retryAttempts \in Nat
    BY SettingsAreTyped DEF EsignTypeOK
  <2> QED BY <2>1, RetryKeepsBudget DEF onError, settle, EsignTypeOK
<1>4. EsignTypeOK'
  BY <1>1, <1>2 DEF EsignTypeOK, callVars, pkiVars
<1>5. BodyIsAsked'
  BY <1>1 DEF BodyIsAsked, callVars, buildEditUserSoap, buildRevokeUserSoap, buildFindUserSoap
<1>6. WireIsOwn' /\ WithinBudget' /\ WireIsUndisturbed'
  BY <1>1, <1>3 DEF WireIsOwn, WithinBudget, WireIsUndisturbed, callVars
<1>7. ResultIsOfCall'
  BY DEF ResultIsOfCall, callVars, pkiVars
<1>8. ToldIsSo' /\ ReplyIsOfCall' /\ SuccessWasCarriedOut'
  BY <1>2 DEF ToldIsSo, ReplyIsOfCall, SuccessWasCarriedOut, callVars, pkiVars
<1> QED BY <1>4, <1>5, <1>6, <1>7, <1>8

\* What may be received as the answer to a call.
AnswerTo(c, answer) ==
  \/ result[c] # Nothing /\ answer \in written(result[c])
  \/ answer = [kind |-> "page"]

\* What a client is told of an answer.
LEMMA Replies ==
  ASSUME IInv, NEW c \in Call, phase[c] = "sent", NEW answer,
         AnswerTo(c, answer)
  PROVE  /\ replyTo(c, answer) \in Reply
         /\ replyTo(c, answer).kind = "success" =>
              request[c].kind = "revoke" /\ result[c].kind = "revokeUserResponse"
         /\ replyTo(c, answer).kind = "password" =>
              /\ request[c].kind = "create"
              /\ replyTo(c, answer).password = password[c]
              /\ replyTo(c, answer).data = "editUserResponse"
                   => result[c].kind = "editUserResponse"
<1> USE DEF IInv
<1>1. request[c] \in Requests /\ body[c] # Nothing /\ password[c] \in Password
  BY DEF BodyIsAsked, EsignTypeOK
<1>2. \/ answer = result[c] /\ answer # Nothing
      \/ /\ result[c] # Nothing /\ result[c].kind = "revokeUserResponse"
         /\ answer = [kind |-> "emptyRevokeUserResponse"]
      \/ answer = [kind |-> "page"]
  BY DEF AnswerTo, written
<1>3. CASE request[c].kind = "create"
  <2>1. answer.kind \in {"editUserResponse", "fault", "page"}
    BY <1>2, <1>3 DEF ResultIsOfCall
  <2>2. replyTo(c, answer) = [kind |-> "password", password |-> password[c], data |-> answer.kind]
    BY <1>3 DEF replyTo, createUser
  <2>3. answer.kind = "editUserResponse" => result[c].kind = "editUserResponse"
    BY <1>2
  <2> QED BY <1>1, <1>3, <2>1, <2>2, <2>3 DEF Reply
<1>4. CASE request[c].kind = "revoke"
  <2>1. replyTo(c, answer) = parseRevokeUserResponse(answer)
    BY <1>4 DEF replyTo
  <2>2. answer.kind = "revokeUserResponse" => result[c].kind = "revokeUserResponse"
    BY <1>2
  <2>3. \/ replyTo(c, answer) = [kind |-> "success"] /\ answer.kind = "revokeUserResponse"
        \/ replyTo(c, answer) = [kind |-> "raw"]
    BY <2>1 DEF parseRevokeUserResponse
  <2>4. CASE replyTo(c, answer) = [kind |-> "success"] /\ answer.kind = "revokeUserResponse"
    BY <1>4, <2>2, <2>4 DEF Reply
  <2>5. CASE replyTo(c, answer) = [kind |-> "raw"]
    BY <2>5 DEF Reply
  <2> QED BY <2>3, <2>4, <2>5
<1>5. CASE request[c].kind = "find"
  <2>1. answer = [kind |-> "page"] \/ (answer = result[c] /\ answer # Nothing)
    <3>1. CASE result[c] = Nothing
      BY <1>2, <3>1
    <3>2. CASE result[c] = [kind |-> "fault"]
      BY <1>2, <3>2
    <3>3. ASSUME NEW p \in Profile, result[c] = [kind |-> "findUserResponse", return |-> p]
          PROVE  answer = [kind |-> "page"] \/ (answer = result[c] /\ answer # Nothing)
      BY <1>2, <3>3
    <3>4. \/ result[c] = Nothing \/ result[c] = [kind |-> "fault"]
          \/ \E p \in Profile : result[c] = [kind |-> "findUserResponse", return |-> p]
      BY <1>5 DEF ResultIsOfCall
    <3> QED BY <3>1, <3>2, <3>3, <3>4
  <2>2. replyTo(c, answer) = parseFindUserResponse(answer)
    BY <1>5 DEF replyTo
  <2>3. CASE answer.kind = "findUserResponse"
    <3>1. answer.return \in Profile
      <4>1. answer = result[c] /\ result[c] # Nothing
        BY <2>1, <2>3
      <4>2. PICK p \in Profile : result[c] = [kind |-> "findUserResponse", return |-> p]
        BY <1>5, <2>3, <4>1 DEF ResultIsOfCall
      <4> QED BY <4>1, <4>2
    <3>2. parseFindUserResponse(answer)
            = [kind |-> "list", list |-> normalizeFindUserResult(answer.return)]
      BY <2>3 DEF parseFindUserResponse
    <3>3. normalizeFindUserResult(answer.return) \in SUBSET Profile
      BY <3>1 DEF normalizeFindUserResult
    <3> QED BY <2>2, <3>2, <3>3 DEF Reply
  <2>4. CASE answer.kind = "fault"
    BY <2>2, <2>4 DEF parseFindUserResponse, Reply
  <2>5. CASE answer.kind = "page"
    <3>1. parseFindUserResponse(answer) = [kind |-> "list", list |-> {}]
      BY <2>5 DEF parseFindUserResponse
    <3> QED BY <2>2, <3>1 DEF Reply
  <2>6. answer.kind \in {"findUserResponse", "fault", "page"}
    <3>1. CASE answer = [kind |-> "page"]
      BY <3>1
    <3>2. CASE answer = result[c] /\ answer # Nothing
      <4>1. \/ result[c] = [kind |-> "fault"]
            \/ \E p \in Profile : result[c] = [kind |-> "findUserResponse", return |-> p]
        BY <1>5, <3>2 DEF ResultIsOfCall
      <4>2. CASE result[c] = [kind |-> "fault"]
        BY <3>2, <4>2
      <4>3. ASSUME NEW p \in Profile, result[c] = [kind |-> "findUserResponse", return |-> p]
            PROVE  answer.kind = "findUserResponse"
        BY <3>2, <4>3
      <4> QED BY <4>1, <4>2, <4>3
    <3> QED BY <2>1, <3>1, <3>2
  <2> QED BY <1>5, <2>2, <2>3, <2>4, <2>5, <2>6, BodiesAreTyped DEF parseFindUserResponse
<1>6. request[c].kind \in {"create", "revoke", "find"}
  BY <1>1, BodiesAreTyped
<1> QED BY <1>3, <1>4, <1>5, <1>6

\* An answer of status 2xx.
LEMMA SuccessPreserves ==
  ASSUME IInv, NEW c \in Call, phase[c] = "sent", NEW answer,
         AnswerTo(c, answer),
         settle(c, replyTo(c, answer)),
         UNCHANGED <<callVars, attempt, onTheWire, result, pkiVars, disturbed>>
  PROVE  IInv'
<1> USE DEF IInv
<1> DEFINE r == replyTo(c, answer)
<1>1. /\ phase' \in [Call -> {"idle", "ready", "sent", "settled"}]
      /\ phase'[c] = "settled"
      /\ \A d \in Call \ {c} : phase'[d] = phase[d]
  BY DEF settle, EsignTypeOK
<1>2. /\ reply'[c] = r
      /\ \A d \in Call \ {c} : reply'[d] = reply[d]
      /\ reply' \in [Call -> Reply \cup {Nothing}]
  BY Replies DEF settle, EsignTypeOK
<1>3. /\ r.kind = "success" => request[c].kind = "revoke" /\ result[c].kind = "revokeUserResponse"
      /\ r.kind = "password" =>
           /\ request[c].kind = "create"
           /\ r.password = password[c]
           /\ r.data = "editUserResponse" => result[c].kind = "editUserResponse"
  BY Replies
<1> HIDE DEF r
<1>4. EsignTypeOK'
  BY <1>1, <1>2 DEF EsignTypeOK, callVars, pkiVars
<1>5. BodyIsAsked'
  BY <1>1 DEF BodyIsAsked, callVars, buildEditUserSoap, buildRevokeUserSoap, buildFindUserSoap
<1>6. WireIsOwn' /\ WithinBudget' /\ WireIsUndisturbed'
  BY <1>1 DEF WireIsOwn, WithinBudget, WireIsUndisturbed, callVars
<1>7. ResultIsOfCall'
  BY DEF ResultIsOfCall, callVars, pkiVars
<1>8. ToldIsSo'
  BY <1>2, <1>3 DEF ToldIsSo, callVars, pkiVars
<1>9. ReplyIsOfCall'
  BY <1>2, <1>3 DEF ReplyIsOfCall, BodyIsAsked, callVars
<1>10. SuccessWasCarriedOut'
  BY <1>2, <1>3 DEF SuccessWasCarriedOut, ResultIsOfCall, pkiVars
<1> QED BY <1>4, <1>5, <1>6, <1>7, <1>8, <1>9, <1>10

\* An answer that is received tells of the profile as it is.
LEMMA AnsweredPreserves ==
  ASSUME IInv, NEW c \in Call, NEW status, NEW answer, answered(c, status, answer),
         AnswerTo(c, answer)
  PROVE  IInv'
<1>1. CASE status \in 200 .. 299
  BY <1>1, SuccessPreserves DEF answered
<1>2. CASE status \notin 200 .. 299
  BY <1>2, ErrorPreserves DEF answered
<1> QED BY <1>1, <1>2

\* A call that is received disturbs those about the same citizen, and only those.
LEMMA ReceivePreserves ==
  ASSUME IInv, NEW c \in Call, receive(c)
  PROVE  IInv'
<1> USE DEF IInv
<1>1. PICK r \in Requests :
        LET p == IF r.kind = "create" THEN generatePassword(c) ELSE NoPassword
        IN /\ request' = [request EXCEPT ![c] = r]
           /\ IF settings.baseUrl
              THEN /\ password' = [password EXCEPT ![c] = p]
                   /\ body' = [body EXCEPT ![c] =
                        CASE r.kind = "create" -> buildEditUserSoap(r, p)
                          [] r.kind = "revoke" -> buildRevokeUserSoap(r)
                          [] OTHER -> buildFindUserSoap(r)]
                   /\ phase' = [phase EXCEPT ![c] = "ready"]
                   /\ UNCHANGED reply
              ELSE UNCHANGED <<password, body>> /\ settle(c, [kind |-> "error"])
           /\ disturbed' = disturbed \cup
                {d \in {c} : \E m \in onTheWire : m.body.kind # "findUser"
                                                    /\ m.body.username = r.ssn}
  BY DEF receive
<1>2. /\ phase[c] = "idle" /\ request[c] = Nothing /\ body[c] = Nothing
      /\ UNCHANGED <<settings, attempt, onTheWire, result, pkiVars>>
  BY DEF receive, BodyIsAsked
<1>3. \A m \in onTheWire : m.call # c
  BY <1>2 DEF WireIsOwn
<1>4. /\ request' \in [Call -> Requests \cup {Nothing}]
      /\ request'[c] = r
      /\ \A d \in Call \ {c} : request'[d] = request[d]
  BY <1>1 DEF EsignTypeOK
<1>5. /\ phase' \in [Call -> {"idle", "ready", "sent", "settled"}]
      /\ phase'[c] \in {"ready", "settled"}
      /\ \A d \in Call \ {c} : phase'[d] = phase[d]
  BY <1>1 DEF settle, EsignTypeOK
<1>6. /\ password' \in [Call -> Password] /\ body' \in [Call -> Body \cup {Nothing}]
      /\ \A d \in Call \ {c} : password'[d] = password[d] /\ body'[d] = body[d]
      /\ phase'[c] = "ready" =>
           /\ body'[c] # Nothing
           /\ r.kind = "create" => body'[c] = buildEditUserSoap(r, password'[c])
           /\ r.kind = "revoke" => body'[c] = buildRevokeUserSoap(r)
           /\ r.kind = "find" => body'[c] = buildFindUserSoap(r)
      /\ phase'[c] = "settled" => body'[c] = Nothing
  <2> DEFINE p == IF r.kind = "create" THEN generatePassword(c) ELSE NoPassword
             b == CASE r.kind = "create" -> buildEditUserSoap(r, p)
                    [] r.kind = "revoke" -> buildRevokeUserSoap(r)
                    [] OTHER -> buildFindUserSoap(r)
  <2>1. p \in Password
    BY DEF Password, generatePassword
  <2>2. r.kind \in {"create", "revoke", "find"}
    BY <2>1, BodiesAreTyped
  <2>3. /\ r.kind = "create" => b = buildEditUserSoap(r, p)
        /\ r.kind = "revoke" => b = buildRevokeUserSoap(r)
        /\ r.kind = "find" => b = buildFindUserSoap(r)
    BY <2>2
  <2> HIDE DEF b, p
  <2>4. b \in Body
    BY <2>1, <2>2, <2>3, BodiesAreTyped
  <2>5. CASE settings.baseUrl
    <3>1. /\ password' = [password EXCEPT ![c] = p]
          /\ body' = [body EXCEPT ![c] = b]
          /\ phase' = [phase EXCEPT ![c] = "ready"]
      BY <1>1, <2>5 DEF b, p
    <3> QED BY <2>1, <2>3, <2>4, <3>1, NothingIsNoRequest DEF EsignTypeOK
  <2>6. CASE ~settings.baseUrl
    BY <1>1, <1>2, <2>6 DEF settle, EsignTypeOK
  <2> QED BY <2>5, <2>6
<1>7. /\ reply' \in [Call -> Reply \cup {Nothing}]
      /\ \A d \in Call : reply'[d] = reply[d] \/ reply'[d] = [kind |-> "error"]
  BY <1>1 DEF settle, EsignTypeOK, Reply
<1>8. /\ disturbed \subseteq disturbed' /\ disturbed' \subseteq Call
      /\ \A m \in onTheWire : m.body.kind # "findUser" /\ m.body.username = r.ssn => c \in disturbed'
  BY <1>1 DEF EsignTypeOK
<1>9. EsignTypeOK'
  BY <1>2, <1>4, <1>5, <1>6, <1>7, <1>8 DEF EsignTypeOK, pkiVars
<1>10. BodyIsAsked'
  <2> SUFFICES ASSUME NEW d \in Call
               PROVE  (/\ phase[d] = "idle" => request[d] = Nothing /\ body[d] = Nothing
                       /\ phase[d] # "idle" => request[d] \in Requests
                       /\ phase[d] \in {"ready", "sent"} => body[d] # Nothing
                       /\ body[d] # Nothing =>
                            /\ phase[d] # "idle"
                            /\ request[d].kind = "create" =>
                                 body[d] = buildEditUserSoap(request[d], password[d])
                                 /\ password[d] \in Password
                            /\ request[d].kind = "revoke" => body[d] = buildRevokeUserSoap(request[d])
                            /\ request[d].kind = "find" => body[d] = buildFindUserSoap(request[d]))'
    BY DEF BodyIsAsked
  <2>1. CASE d = c
    BY <1>4, <1>5, <1>6, <2>1 DEF buildEditUserSoap, buildRevokeUserSoap, buildFindUserSoap
  <2>2. CASE d # c
    <3>1. /\ request'[d] = request[d] /\ phase'[d] = phase[d]
          /\ body'[d] = body[d] /\ password'[d] = password[d]
      BY <1>4, <1>5, <1>6, <2>2
    <3> QED BY <3>1 DEF BodyIsAsked, buildEditUserSoap, buildRevokeUserSoap, buildFindUserSoap
  <2> QED BY <2>1, <2>2
<1>11. WireIsOwn'
  BY <1>2, <1>3, <1>6 DEF WireIsOwn
<1>12. /\ attempt[c] = 0 /\ result[c] = Nothing
       /\ reply[c].kind \notin {"success", "password"}
  BY <1>2 DEF WithinBudget, ResultIsOfCall, ReplyIsOfCall
<1>13. WithinBudget'
  <2>1. settings.retryAttempts \in Nat
    BY SettingsAreTyped DEF EsignTypeOK
  <2> QED BY <1>2, <1>5, <1>12, <2>1 DEF WithinBudget
<1>14. ResultIsOfCall'
  BY <1>2, <1>4, <1>6, <1>12 DEF ResultIsOfCall, pkiVars
<1>15. WireIsUndisturbed'
  BY <1>2, <1>4, <1>8 DEF WireIsUndisturbed
<1>16. \A d \in Call : /\ result'[d] = result[d]
                       /\ reply'[d].kind \in {"success", "password"} => d # c /\ reply'[d] = reply[d]
  BY <1>2, <1>7, <1>12
<1>17. ToldIsSo'
  <2>1. result[c].kind \notin {"editUserResponse", "revokeUserResponse"}
    BY <1>12 DEF Nothing
  <2> QED BY <1>2, <1>4, <1>6, <1>8, <1>16, <2>1 DEF ToldIsSo, pkiVars
<1>18. ReplyIsOfCall'
  BY <1>4, <1>6, <1>16 DEF ReplyIsOfCall
<1>19. SuccessWasCarriedOut'
  BY <1>2, <1>16 DEF SuccessWasCarriedOut, pkiVars
<1> QED BY <1>9, <1>10, <1>11, <1>13, <1>14, <1>15, <1>17, <1>18, <1>19

\* An attempt that is sent carries the body its call has had from the start.
LEMMA SendPreserves ==
  ASSUME IInv, NEW c \in Call, send(c)
  PROVE  IInv'
<1> USE DEF IInv
<1> DEFINE m == [call |-> c, attempt |-> attempt[c] + 1, body |-> body[c]]
<1>1. /\ phase[c] = "ready" /\ body[c] # Nothing /\ request[c] \in Requests
      /\ UNCHANGED <<callVars, pkiVars, reply>>
      /\ onTheWire' = onTheWire \cup {m}
  BY DEF send, postSoap, BodyIsAsked
<1>2. /\ phase' \in [Call -> {"idle", "ready", "sent", "settled"}]
      /\ phase'[c] = "sent"
      /\ \A d \in Call \ {c} : phase'[d] = phase[d]
  BY DEF send, EsignTypeOK
<1>3. /\ attempt' \in [Call -> 0 .. settings.retryAttempts + 1]
      /\ attempt'[c] = attempt[c] + 1
      /\ \A d \in Call \ {c} : attempt'[d] = attempt[d]
      /\ attempt[c] + 1 \in 1 .. MaxRetryAttempts + 1
      /\ attempt[c] + 1 \in 1 .. attempt'[c]
  <2>1. /\ settings.retryAttempts \in 0 .. MaxRetryAttempts
        /\ MaxRetryAttempts \in Nat
    BY SettingsAreTyped DEF EsignTypeOK
  <2>2. /\ attempt \in [Call -> 0 .. settings.retryAttempts + 1]
        /\ attempt[c] <= settings.retryAttempts
        /\ attempt' = [attempt EXCEPT ![c] = @ + 1]
    BY <1>1 DEF EsignTypeOK, WithinBudget, send
  <2> QED BY <2>1, <2>2
<1>4. /\ result' \in [Call -> Result \cup {Nothing}]
      /\ result'[c] = Nothing
      /\ \A d \in Call \ {c} : result'[d] = result[d]
  BY DEF send, EsignTypeOK
<1>5. /\ disturbed \subseteq disturbed' /\ disturbed' \subseteq Call
      /\ \A d \in Call \ {c} :
           changes(c) /\ request[d] # Nothing /\ request[d].ssn = request[c].ssn
             => d \in disturbed'
  BY DEF send, others, EsignTypeOK
<1>6. m \in Message
  BY <1>1, <1>3 DEF Message, EsignTypeOK
<1>7. EsignTypeOK'
  BY <1>1, <1>2, <1>3, <1>4, <1>5, <1>6 DEF EsignTypeOK, callVars, pkiVars
<1>8. BodyIsAsked'
  BY <1>1, <1>2 DEF BodyIsAsked, callVars, buildEditUserSoap, buildRevokeUserSoap,
     buildFindUserSoap
<1>9. WireIsOwn'
  <2> SUFFICES ASSUME NEW n \in onTheWire'
               PROVE  /\ n.call \in Call /\ n.attempt \in 1 .. attempt'[n.call]
                      /\ body[n.call] # Nothing /\ n.body = body[n.call]
    BY <1>1 DEF WireIsOwn, callVars
  <2>1. CASE n = m
    BY <1>1, <1>3, <2>1
  <2>2. CASE n \in onTheWire
    <3>1. /\ n.call \in Call /\ n.attempt \in 1 .. attempt[n.call]
          /\ body[n.call] # Nothing /\ n.body = body[n.call]
      BY <2>2 DEF WireIsOwn
    <3>2. attempt[n.call] \in Nat /\ attempt'[n.call] \in {attempt[n.call], attempt[n.call] + 1}
      BY <1>3, <3>1, SettingsAreTyped DEF EsignTypeOK
    <3> QED BY <3>1, <3>2
  <2> QED BY <1>1, <2>1, <2>2
<1>10. WithinBudget'
  BY <1>1, <1>2, <1>3 DEF WithinBudget, callVars
<1>11. ResultIsOfCall'
  <2>1. Nothing.kind \notin {"editUserResponse", "revokeUserResponse"}
    BY DEF Nothing
  <2>2. UNCHANGED <<request, body, done>>
    BY <1>1 DEF callVars, pkiVars
  <2>3. \A d \in Call : result'[d] = Nothing \/ result'[d] = result[d]
    BY <1>4
  <2> QED BY <2>1, <2>2, <2>3 DEF ResultIsOfCall
<1>12. WireIsUndisturbed'
  <2> SUFFICES ASSUME NEW d \in Call \ disturbed', NEW n \in onTheWire',
                      request[d] # Nothing, n.body.username = request[d].ssn,
                      n.body.kind # "findUser"
               PROVE  n.call = d
    BY <1>1 DEF WireIsUndisturbed, callVars
  <2>1. CASE n \in onTheWire
    BY <1>5, <2>1 DEF WireIsUndisturbed
  <2>2. CASE n = m /\ d # c
    <3>1. body[c].kind # "findUser" /\ body[c].username = request[d].ssn
      BY <2>2
    <3>2. /\ request[c].kind \in {"create", "revoke", "find"}
          /\ request[c].kind = "create" => body[c] = buildEditUserSoap(request[c], password[c])
          /\ request[c].kind = "revoke" => body[c] = buildRevokeUserSoap(request[c])
          /\ request[c].kind = "find" => body[c] = buildFindUserSoap(request[c])
      <4>1. password[c] \in Password
        BY DEF EsignTypeOK
      <4> QED BY <1>1, <4>1, BodiesAreTyped DEF BodyIsAsked
    <3>3. changes(c) /\ request[c].ssn = request[d].ssn
      BY <3>1, <3>2 DEF changes, buildEditUserSoap, buildRevokeUserSoap, buildFindUserSoap
    <3> QED BY <1>5, <2>2, <3>3
  <2> QED BY <1>1, <2>1, <2>2
<1>13. ToldIsSo'
  BY <1>1, <1>4, <1>5 DEF ToldIsSo, callVars, pkiVars, Nothing
<1>14. ReplyIsOfCall' /\ SuccessWasCarriedOut'
  BY <1>1 DEF ReplyIsOfCall, SuccessWasCarriedOut, callVars, pkiVars
<1> QED BY <1>7, <1>8, <1>9, <1>10, <1>11, <1>12, <1>13, <1>14

\* The PKI carries out, or refuses, an attempt that is on the wire.
LEMMA ExecutePreserves ==
  ASSUME IInv, Execute
  PROVE  IInv'
<1> USE DEF IInv
<1>1. PICK m \in onTheWire :
        LET s == m.body.username
            ok == acceptable(m.body, profiles[s])
        IN /\ onTheWire' = onTheWire \ {m}
           /\ profiles' = IF ok THEN [profiles EXCEPT ![s] = effect(m.body, @)] ELSE profiles
           /\ done' = IF ok THEN done \cup {m.call} ELSE done
           /\ result' = IF m.attempt = attempt[m.call]
                        THEN [result EXCEPT ![m.call] =
                               IF ok THEN outcome(m.body, profiles[s]) ELSE [kind |-> "fault"]]
                        ELSE result
           /\ UNCHANGED <<callVars, phase, attempt, reply, disturbed>>
  BY DEF Execute
<1> DEFINE c == m.call
           s == request[c].ssn
           ok == acceptable(m.body, profiles[s])
<1>2. /\ c \in Call /\ body[c] # Nothing /\ m.body = body[c] /\ body[c] \in Body
      /\ request[c] \in Requests /\ password[c] \in Password /\ s \in Ssn
  <2>1. c \in Call /\ body[c] # Nothing /\ m.body = body[c]
    BY DEF WireIsOwn
  <2>2. request[c] \in Requests /\ password[c] \in Password /\ body[c] \in Body
    BY <2>1 DEF BodyIsAsked, EsignTypeOK
  <2> QED BY <2>1, <2>2, BodiesAreTyped
<1>3. /\ request[c].kind \in {"create", "revoke", "find"}
      /\ request[c].kind = "create" =>
           body[c].kind = "editUser" /\ body[c].password = password[c]
      /\ request[c].kind = "revoke" =>
           body[c].kind = "revokeUser" /\ body[c].deleteUser = request[c].deleteUser
      /\ request[c].kind = "find" => body[c].kind = "findUser"
      /\ body[c].username = s
  <2>1. /\ request[c].kind \in {"create", "revoke", "find"}
        /\ request[c].kind = "create" => body[c] = buildEditUserSoap(request[c], password[c])
        /\ request[c].kind = "revoke" => body[c] = buildRevokeUserSoap(request[c])
        /\ request[c].kind = "find" => body[c] = buildFindUserSoap(request[c])
    BY <1>2, BodiesAreTyped DEF BodyIsAsked
  <2> QED BY <2>1 DEF buildEditUserSoap, buildRevokeUserSoap, buildFindUserSoap
<1>4. profiles \in [Ssn -> Profile] /\ profiles[s] \in Profile
  BY <1>2 DEF EsignTypeOK
<1>5. /\ onTheWire' = onTheWire \ {m}
      /\ UNCHANGED <<callVars, phase, attempt, reply, disturbed>>
      /\ profiles' = IF ok THEN [profiles EXCEPT ![s] = effect(body[c], @)] ELSE profiles
      /\ done' = IF ok THEN done \cup {c} ELSE done
      /\ result' = IF m.attempt = attempt[c]
                   THEN [result EXCEPT ![c] =
                          IF ok THEN outcome(body[c], profiles[s]) ELSE [kind |-> "fault"]]
                   ELSE result
  BY <1>1, <1>2, <1>3
<1>6. ok => /\ effect(body[c], profiles[s]) \in Profile
            /\ request[c].kind = "create" =>
                 effect(body[c], profiles[s]) = [status |-> "new", password |-> password[c]]
            /\ request[c].kind = "find" => effect(body[c], profiles[s]) = profiles[s]
            /\ request[c].kind = "revoke" =>
                 IF request[c].deleteUser = 1 THEN effect(body[c], profiles[s]) = NoProfile
                 ELSE effect(body[c], profiles[s]).status = "revoked"
  BY <1>2, <1>3, <1>4, Effects
<1>7. /\ profiles' \in [Ssn -> Profile]
      /\ profiles'[s] = IF ok THEN effect(body[c], profiles[s]) ELSE profiles[s]
      /\ \A t \in Ssn \ {s} : profiles'[t] = profiles[t]
  <2> HIDE DEF ok, s
  <2> QED BY <1>2, <1>4, <1>5, <1>6
<1> DEFINE good == outcome(body[c], profiles[s])
<1>8. /\ request[c].kind = "create" => good = [kind |-> "editUserResponse"]
      /\ request[c].kind = "revoke" => good = [kind |-> "revokeUserResponse"]
      /\ request[c].kind = "find" => good = [kind |-> "findUserResponse", return |-> profiles[s]]
      /\ good \in Result
  <2>1. CASE request[c].kind = "create"
    BY <1>3, <2>1 DEF outcome, Result
  <2>2. CASE request[c].kind = "revoke"
    BY <1>3, <2>2 DEF outcome, Result
  <2>3. CASE request[c].kind = "find"
    <3>1. good = [kind |-> "findUserResponse", return |-> profiles[s]]
      BY <1>3, <2>3 DEF outcome
    <3> QED BY <1>4, <2>3, <3>1 DEF Result
  <2> QED BY <1>3, <2>1, <2>2, <2>3
<1>9. /\ result' \in [Call -> Result \cup {Nothing}]
      /\ result'[c] \in {result[c], [kind |-> "fault"]} \/ (ok /\ result'[c] = good)
      /\ \A d \in Call \ {c} : result'[d] = result[d]
  <2>1. [kind |-> "fault"] \in Result
    BY DEF Result
  <2>2. result \in [Call -> Result \cup {Nothing}]
    BY DEF EsignTypeOK
  <2> HIDE DEF ok, s
  <2> QED BY <1>2, <1>5, <1>8, <2>1, <2>2
<1>10. EsignTypeOK'
  <2>1. done' \subseteq Call /\ onTheWire' \subseteq Message
    BY <1>2, <1>5 DEF EsignTypeOK
  <2> QED BY <1>5, <1>7, <1>9, <2>1 DEF EsignTypeOK, callVars
<1>11. BodyIsAsked'
  BY <1>5 DEF BodyIsAsked, callVars, buildEditUserSoap, buildRevokeUserSoap, buildFindUserSoap
<1>12. WireIsOwn' /\ WithinBudget' /\ WireIsUndisturbed' /\ ReplyIsOfCall'
  BY <1>5 DEF WireIsOwn, WithinBudget, WireIsUndisturbed, ReplyIsOfCall, callVars
<1>13. done \subseteq done' /\ (ok => c \in done')
  BY <1>5
<1>14. ResultIsOfCall'
  <2> SUFFICES ASSUME NEW d \in Call
               PROVE  (/\ result[d] = Nothing
                          \/ /\ body[d] # Nothing
                             /\ \/ result[d] = [kind |-> "fault"]
                                \/ request[d].kind = "create" /\ result[d] = [kind |-> "editUserResponse"]
                                \/ request[d].kind = "revoke" /\ result[d] = [kind |-> "revokeUserResponse"]
                                \/ /\ request[d].kind = "find"
                                   /\ \E p \in Profile :
                                        result[d] = [kind |-> "findUserResponse", return |-> p]
                       /\ result[d].kind \in {"editUserResponse", "revokeUserResponse"}
                            => d \in done)'
    BY DEF ResultIsOfCall
  <2>1. UNCHANGED <<body, request>>
    BY <1>5 DEF callVars
  <2>2. CASE result'[d] = result[d]
    BY <1>13, <2>1, <2>2 DEF ResultIsOfCall
  <2>3. CASE d = c /\ result'[c] = [kind |-> "fault"]
    BY <1>2, <2>1, <2>3
  <2>4. CASE d = c /\ ok /\ result'[c] = good
    BY <1>2, <1>3, <1>4, <1>8, <1>13, <2>1, <2>4
  <2> QED BY <1>9, <2>2, <2>3, <2>4
<1>15. ToldIsSo'
  <2> DEFINE edited(d) == \/ result[d].kind = "editUserResponse"
                          \/ reply[d].kind = "password" /\ reply[d].data = "editUserResponse"
             revoked(d) == \/ result[d].kind = "revokeUserResponse"
                           \/ reply[d].kind = "success"
  <2>1. UNCHANGED <<request, password, reply, disturbed>>
    BY <1>5 DEF callVars
  <2>2. ASSUME NEW d \in Call
        PROVE  /\ edited(d) => request[d].kind = "create" /\ body[d] # Nothing
               /\ revoked(d) => request[d].kind = "revoke" /\ body[d] # Nothing
    <3>1. Nothing.kind = "nothing"
      BY DEF Nothing
    <3>2. /\ reply[d].kind = "password" => request[d].kind = "create" /\ body[d] # Nothing
          /\ reply[d].kind = "success" => request[d].kind = "revoke" /\ body[d] # Nothing
      BY DEF ReplyIsOfCall
    <3>4. /\ result[d].kind = "editUserResponse" => request[d].kind = "create" /\ body[d] # Nothing
          /\ result[d].kind = "revokeUserResponse" => request[d].kind = "revoke" /\ body[d] # Nothing
      <4>1. \/ result[d] = Nothing
            \/ /\ body[d] # Nothing
               /\ \/ result[d] = [kind |-> "fault"]
                  \/ request[d].kind = "create" /\ result[d] = [kind |-> "editUserResponse"]
                  \/ request[d].kind = "revoke" /\ result[d] = [kind |-> "revokeUserResponse"]
                  \/ /\ request[d].kind = "find"
                     /\ \E p \in Profile : result[d] = [kind |-> "findUserResponse", return |-> p]
        BY DEF ResultIsOfCall
      <4>2. CASE result[d] = Nothing
        BY <3>1, <4>2
      <4>3. CASE result[d] = [kind |-> "fault"]
        <5>1. result[d].kind = "fault"
          BY <4>3
        <5> QED BY <5>1
      <4>4. CASE /\ body[d] # Nothing /\ request[d].kind = "create"
                 /\ result[d] = [kind |-> "editUserResponse"]
        <5>1. result[d].kind = "editUserResponse"
          BY <4>4
        <5> QED BY <4>4, <5>1
      <4>5. CASE /\ body[d] # Nothing /\ request[d].kind = "revoke"
                 /\ result[d] = [kind |-> "revokeUserResponse"]
        <5>1. result[d].kind = "revokeUserResponse"
          BY <4>5
        <5> QED BY <4>5, <5>1
      <4>6. ASSUME NEW p \in Profile,
                   result[d] = [kind |-> "findUserResponse", return |-> p]
            PROVE  result[d].kind # "editUserResponse" /\ result[d].kind # "revokeUserResponse"
        <5>1. result[d].kind = "findUserResponse"
          BY <4>6
        <5> QED BY <5>1
      <4> QED BY Zenon, <4>1, <4>2, <4>3, <4>4, <4>5, <4>6
    <3> QED BY <3>2, <3>4
  <2> SUFFICES ASSUME NEW d \in Call, d \notin disturbed
               PROVE  /\ edited(d)' =>
                           profiles'[request[d].ssn] = [status |-> "new", password |-> password[d]]
                      /\ revoked(d)' =>
                           IF request[d].deleteUser = 1
                           THEN profiles'[request[d].ssn] = NoProfile
                           ELSE profiles'[request[d].ssn].status = "revoked"
    BY <2>1 DEF ToldIsSo
  <2>3. /\ edited(d) =>
             profiles[request[d].ssn] = [status |-> "new", password |-> password[d]]
        /\ revoked(d) =>
             IF request[d].deleteUser = 1
             THEN profiles[request[d].ssn] = NoProfile
             ELSE profiles[request[d].ssn].status = "revoked"
    BY DEF ToldIsSo
  <2>4. CASE d = c
    <3>1. edited(c)' => edited(c) \/ (ok /\ request[c].kind = "create")
      BY <1>3, <1>8, <1>9, <2>1
    <3>2. revoked(c)' => revoked(c) \/ (ok /\ request[c].kind = "revoke")
      BY <1>3, <1>8, <1>9, <2>1
    <3>3. revoked(c) => ~ok
      BY <1>2, <1>3, <2>2, <2>3, <2>4, RevokedStays
    <3> HIDE DEF edited, revoked, ok, s
    <3>4. edited(c)' => profiles'[s] = [status |-> "new", password |-> password[c]]
      BY <1>6, <1>7, <2>2, <2>3, <2>4, <3>1 DEF s
    <3>5. revoked(c)' => IF request[c].deleteUser = 1 THEN profiles'[s] = NoProfile
                         ELSE profiles'[s].status = "revoked"
      BY <1>6, <1>7, <2>2, <2>3, <2>4, <3>2, <3>3 DEF s
    <3> QED BY <2>4, <3>4, <3>5 DEF s
  <2>5. CASE d # c
    <3>1. (edited(d)' => edited(d)) /\ (revoked(d)' => revoked(d))
      BY <1>9, <2>1, <2>5
    <3>2. ASSUME edited(d) \/ revoked(d) PROVE profiles'[request[d].ssn] = profiles[request[d].ssn]
      <4>1. request[d] \in Requests /\ request[d].ssn \in Ssn /\ request[d] # Nothing
        <5>1. request[d] \in Requests
          BY <2>2, <3>2 DEF BodyIsAsked
        <5>2. NoPassword \in Password
          BY DEF Password
        <5> QED BY <5>1, <5>2, BodiesAreTyped, NothingIsNoRequest
      <4>2. CASE request[d].ssn # s
        BY <1>7, <4>1, <4>2
      <4>3. CASE request[d].ssn = s
        <5>1. body[c].kind = "findUser"
          BY <1>2, <1>3, <2>5, <4>1, <4>3 DEF WireIsUndisturbed
        <5> QED BY <1>3, <1>6, <1>7, <4>3, <5>1
      <4> QED BY <4>2, <4>3
    <3> HIDE DEF edited, revoked
    <3> QED BY <2>3, <3>1, <3>2
  <2> QED BY <2>4, <2>5
<1>16. SuccessWasCarriedOut'
  BY <1>5, <1>13 DEF SuccessWasCarriedOut
<1> QED BY <1>10, <1>11, <1>12, <1>14, <1>15, <1>16

\* A step that changes nothing.
LEMMA StutterPreserves ==
  ASSUME IInv, UNCHANGED esignVars
  PROVE  IInv'
<1> USE DEF IInv, esignVars, callVars, pkiVars
<1>1. EsignTypeOK'
  BY DEF EsignTypeOK
<1>2. BodyIsAsked' /\ ResultIsOfCall'
  BY DEF BodyIsAsked, ResultIsOfCall, buildEditUserSoap, buildRevokeUserSoap, buildFindUserSoap
<1>3. WireIsOwn' /\ WithinBudget' /\ WireIsUndisturbed'
  BY DEF WireIsOwn, WithinBudget, WireIsUndisturbed
<1>4. ToldIsSo' /\ ReplyIsOfCall' /\ SuccessWasCarriedOut'
  BY DEF ToldIsSo, ReplyIsOfCall, SuccessWasCarriedOut
<1> QED BY <1>1, <1>2, <1>3, <1>4

-----------------------------------------------------------------------------
(* Theorems. *)

\* The invariant holds throughout, whatever the PKI and the network do.
THEOREM Invariance == EsignSpec => []IInv
<1>1. EsignInit => IInv
  BY InitEstablishes
<1>2. IInv /\ [EsignNext]_esignVars => IInv'
  <2> SUFFICES ASSUME IInv, [EsignNext]_esignVars PROVE IInv'
    OBVIOUS
  <2>1. CASE UNCHANGED esignVars
    BY <2>1, StutterPreserves
  <2>2. CASE Execute
    BY <2>2, ExecutePreserves
  <2>3. ASSUME NEW c \in Call, receive(c) \/ send(c) PROVE IInv'
    BY <2>3, ReceivePreserves, SendPreserves
  <2>4. ASSUME NEW c \in Call, Respond(c) \/ Page(c) PROVE IInv'
    BY <2>4, AnsweredPreserves DEF Respond, Page, AnswerTo
  <2>5. ASSUME NEW c \in Call, TimeOut(c) \/ Refused(c) \/ Broken(c) PROVE IInv'
    <3>1. phase[c] = "sent" /\ onTheWire' \subseteq onTheWire
          /\ UNCHANGED <<callVars, attempt, result, pkiVars, disturbed>>
      BY <2>5 DEF TimeOut, Refused, Broken
    <3>2. PICK error : onError(c, error)
      BY <2>5 DEF TimeOut, Refused, Broken
    <3> QED BY <3>1, <3>2, ErrorPreserves
  <2> QED BY <2>1, <2>2, <2>3, <2>4, <2>5 DEF EsignNext, Step
<1> QED BY <1>1, <1>2, PTL DEF EsignSpec

\* Every variable keeps its type; nothing is sent more often than the settings
\* allow.
THEOREM TypesCorrect == EsignSpec => []EsignTypeOK
<1>1. IInv => EsignTypeOK
  BY DEF IInv
<1> QED BY <1>1, Invariance, PTL

\* What a client was told stays true, whatever late attempts of its call still do,
\* until another call about the same citizen may have changed it.
THEOREM AnswersHold == EsignSpec => []AnswerHolds
<1>1. IInv => AnswerHolds
  BY DEF IInv, AnswerHolds, ToldIsSo, ReplyIsOfCall
<1> QED BY <1>1, Invariance, PTL

\* No success is told of what the PKI has not carried out.
THEOREM SuccessesAreReal == EsignSpec => []SuccessWasCarriedOut
<1>1. IInv => SuccessWasCarriedOut
  BY DEF IInv
<1> QED BY <1>1, Invariance, PTL
=============================================================================
