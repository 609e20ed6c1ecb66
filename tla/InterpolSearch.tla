--------------------------- MODULE InterpolSearch ---------------------------
(***************************************************************************)
(* InterpolService and InterpolIntegration: which searches reach INTERPOL  *)
(* FIND, with which criteria, and what is made of the answers.             *)
(*                                                                         *)
(* None of the DTOs has a validator.  A text field of a body is "" where   *)
(* it is missing, " " where it holds blanks, or NotAString; a numeric one  *)
(* is one of the kinds below.                                              *)
(***************************************************************************)
EXTENDS Flow, SoapAnswer, FiniteSets

NotAString == "(a number or a list)"
NotADate == "(no date dd/mm/yyyy)"

\* What a numeric field may hold: no value or null; ""; something else Number()
\* turns into 0, as blanks, false or []; a number, in halves; anything else.
nothing == [kind |-> "nothing"]
emptyText == [kind |-> "empty"]
zeroish == [kind |-> "zeroish"]
halves(h) == [kind |-> "number", halves |-> h]
notANumber == [kind |-> "other"]

\* Number(v), in halves; {} for NaN.
Number(v) ==
  CASE v.kind = "number" -> {v.halves}
    [] v.kind \in {"empty", "zeroish"} -> {0}
    [] OTHER -> {}

RANK_THRESHOLD_MIN == 0
RANK_THRESHOLD_MAX == 10
RANK_THRESHOLD_DEFAULT == RANK_THRESHOLD_MAX

normalizeString(v) == IF v = " " THEN "" ELSE v

\* trim() of what is not a string throws a TypeError.
hasTrim(values) == NotAString \notin values

parseNbRecord(v) ==
  LET wanted == {h \div 2 : h \in {n \in Number(v) : n >= 2}}
  IN IF wanted = {} THEN 10
     ELSE LET n == CHOOSE w \in wanted : TRUE IN IF n < 100 THEN n ELSE 100

parseRankThreshold(v) ==
  IF v \in {nothing, emptyText} THEN Return(RANK_THRESHOLD_DEFAULT)
  ELSE LET valid == {n \in RANK_THRESHOLD_MIN .. RANK_THRESHOLD_MAX : 2 * n \in Number(v)}
       IN IF valid = {} THEN Throw(400) ELSE Return(CHOOSE n \in valid : TRUE)

\* An age, or {} where none is given.
parseAge(v) ==
  IF v \in {nothing, emptyText} THEN Return({})
  ELSE LET valid == {h \in Number(v) : h >= 0 /\ h % 2 = 0}
       IN IF valid = {} THEN Throw(400) ELSE Return({h \div 2 : h \in valid})

validateDobDdMmYyyy(dob) == IF dob = NotADate THEN Throw(400) ELSE Return(dob)

normalizeNominalSearch(body) ==
  LET dob == IF normalizeString(body.dateOfBirth) # "" THEN body.dateOfBirth
             ELSE normalizeString(body.dob)
      name == normalizeString(body.name)
      forename == normalizeString(body.forename)
      identity == normalizeString(body.identity)
      entityId == normalizeString(body.entityId)
      nb == IF body.nbRecord # nothing THEN body.nbRecord ELSE body.nb
      check(dateOfBirth, ageMin, ageMax, threshold) ==
        LET hasAgeBounds == ageMin # {} \/ ageMax # {}
        IN IF \/ name = "" /\ (forename # "" \/ hasAgeBounds \/ dateOfBirth # "")
              \/ Cardinality({f \in {"name", "identity", "entityId"} :
                                normalizeString(body[f]) # ""}) # 1
              \/ hasAgeBounds /\ dateOfBirth # ""
              \/ \E min \in ageMin, max \in ageMax : min > max
           THEN Throw(400)
           ELSE Return([name |-> name, forename |-> forename, ageMin |-> ageMin,
                        ageMax |-> ageMax, dateOfBirth |-> dateOfBirth, identity |-> identity,
                        entityId |-> entityId, nbRecord |-> parseNbRecord(nb),
                        rankThreshold |-> threshold])
  IN IF ~hasTrim({body.name, body.forename, body.identity, body.entityId, dob})
     THEN Throw(500)
     ELSE AndThen(validateDobDdMmYyyy(dob), LAMBDA dateOfBirth :
            AndThen(parseAge(body.ageMin), LAMBDA ageMin :
              AndThen(parseAge(body.ageMax), LAMBDA ageMax :
                AndThen(parseRankThreshold(body.score), LAMBDA threshold :
                  check(dateOfBirth, ageMin, ageMax, threshold)))))

-----------------------------------------------------------------------------
(* InterpolIntegration *)

\* The nominal service goes with whatever credentials there are.
buildNominalEnvelope(env, body) ==
  Return([username |-> env.nominalUser, production |-> FALSE, body |-> body])

isProductionEnv(env) == env.NODE_ENV = "production"

\* A user of the action's own, the one for SLTD, or the account.
getSltdWsUserInfoUsername(env, action) ==
  orElse(IF action = "Details" THEN env.detailsUser ELSE env.searchUser,
         orElse(env.sltdUserInfo, env.sltdUser))

buildSltdEnvelope(env, action, body) ==
  IF getSltdWsUserInfoUsername(env, action) = NoText \/ env.sltdUser = NoText \/ ~env.sltdPassword
  THEN Throw(500)
  ELSE Return([username |-> getSltdWsUserInfoUsername(env, action),
               production |-> isProductionEnv(env), body |-> body])

\* Mutant of soapAnswer: the failure of the call is thrown, with its own status.
soapAnswerThrown(to, action, envelope, answers) ==
  AndThen(envelope, LAMBDA sent :
    Await([to |-> to, operation |-> action, body |-> sent], answers, 1, Throw(599)))

\* A call that fails is an answer of its own: status 599 and a fault.
soapAnswer(to, action, envelope, answers) ==
  AndThen(envelope, LAMBDA sent :
    Await([to |-> to, operation |-> action, body |-> sent], answers, 1,
          Return([Xml(599, NoText) EXCEPT !.tags = [faultstring |-> "noAnswer"]])))

soapCall(env, action, body, answers) ==
  IF env.nominalEndpoint = NoText THEN Throw(500)
  ELSE soapAnswer(env.nominalEndpoint, action, buildNominalEnvelope(env, body), answers)

soapCallSltd(env, action, body, answers) ==
  IF env.sltdEndpoint = NoText THEN Throw(500)
  ELSE soapAnswer(env.sltdEndpoint, action, buildSltdEnvelope(env, action, body), answers)

parseBasicFields(xml) ==
  [resultCode |-> textOf(xml.tags, "resultCode"),
   resultOtherCode |-> textOf(xml.tags, "resultOtherCode")]

\* What every mapper starts from; `welcome` are the result codes it calls well, and
\* `payload` what it has where it reads none.
mapped(xml, welcome, payload) ==
  LET fault == textOf(xml.tags, "faultstring")
      key == evaluateResultCode(textOf(xml.tags, "resultCode")).key
  IN [ok |-> xml.status < 400 /\ fault = NoText /\ key \in welcome,
      httpStatus |-> xml.status, fault |-> fault, basicFields |-> parseBasicFields(xml),
      resultCode |-> key, payload |-> payload]

\* Blocks of the payload as it was sent: in escaped xmlData there are none.
blocks(xml) == IF xml.form = "plain" THEN SelectSeq(xml.items, LAMBDA i : i.id # "") ELSE <<>>

parseSearchHits(xml) ==
  [k \in DOMAIN blocks(xml) |->
     [item_id |-> blocks(xml)[k].id, name |-> blocks(xml)[k].name, score |-> blocks(xml)[k].score]]

\* The first block only, with the files that name a type or a reference.
parseDetails(xml) ==
  IF blocks(xml) = <<>> THEN [fields |-> <<>>, refs |-> <<>>]
  ELSE LET first == blocks(xml)[1]
       IN [fields |-> [item_id_short |-> first.id, name |-> first.name],
           refs |-> SelectSeq(first.files, LAMBDA f : f.type # "" \/ f.ref # "")]

extractBinFilesFromAnswer(xml) == SelectSeq(xml.items, LAMBDA f : f.binData # "")

\* Mutant of search: an age bound of 0 is taken for none.
searchTruthy(env, params, answers) ==
  LET texts == {f \in {"name", "forename", "dateOfBirth", "identity", "entityId"} :
                  params[f] # ""}
      ages == {f \in {"ageMin", "ageMax"} : params[f] \notin {{}, {0}}}
  IN AndThen(soapCall(env, "SearchEx",
         [f \in texts \cup ages \cup {"nbRecord", "rankThreshold"} |-> params[f]], answers),
       LAMBDA xml : Return(mapped(xml, {"NO_ERROR", "NO_ANSWER"}, <<>>)))

search(env, params, answers) ==
  LET texts == {f \in {"name", "forename", "dateOfBirth", "identity", "entityId"} :
                  params[f] # ""}
      ages == {f \in {"ageMin", "ageMax"} : params[f] # {}}
  IN AndThen(soapCall(env, "SearchEx",
         [f \in texts \cup ages \cup {"nbRecord", "rankThreshold"} |-> params[f]], answers),
       LAMBDA xml :
         LET reply == mapped(xml, {"NO_ERROR", "NO_ANSWER"}, <<>>)
         IN Return(IF reply.ok /\ reply.resultCode = "NO_ERROR"
                   THEN [reply EXCEPT !.payload = parseSearchHits(xml)] ELSE reply))

\* xmlData as JSON, or none; of an answer that is well and empty, none.
sltdReply(xml) ==
  LET reply == mapped(xml, {"NO_ERROR", "NO_ANSWER"}, {})
  IN Return(IF (reply.ok /\ reply.resultCode = "NO_ANSWER") \/ xml.form \in {"none", "broken"}
            THEN reply ELSE [reply EXCEPT !.payload = {xml.items}])

sltdSearchCall(env, params, answers) ==
  AndThen(soapCallSltd(env, "Search", params, answers), sltdReply)

sltdDetailsCall(env, id, answers) ==
  AndThen(soapCallSltd(env, "Details", [id |-> id], answers), sltdReply)

\* No answer is no success where one item was asked for.
detailsCall(env, itemId, answers) ==
  AndThen(soapCall(env, "Details", [item_id |-> itemId], answers), LAMBDA xml :
    LET reply == mapped(xml, {"NO_ERROR"}, {})
    IN Return(IF reply.ok THEN [reply EXCEPT !.payload = {parseDetails(xml)}] ELSE reply))

mapFileResponse(xml) ==
  LET reply == mapped(xml, {"NO_ERROR"}, <<>>)
  IN Return(IF reply.ok THEN [reply EXCEPT !.payload = extractBinFilesFromAnswer(xml)] ELSE reply)

getNoticePdfFile(env, path, answers) ==
  AndThen(soapCall(env, "GetNoticePDFFile", [path |-> path], answers), mapFileResponse)

imageFile(env, itemId, path, answers) ==
  AndThen(soapCall(env, "ImageFile", [item_id |-> itemId, path |-> path], answers),
          mapFileResponse)

-----------------------------------------------------------------------------
(* InterpolService *)

\* The named texts, trimmed, all of which must be there.
required(body, names) ==
  LET given == [f \in names |-> normalizeString(body[f])]
  IN IF ~hasTrim({given[f] : f \in names}) THEN Throw(500)
     ELSE IF \E f \in names : given[f] = "" THEN Throw(400)
     ELSE Return(given)

sltdSearch(env, body, answers) ==
  AndThen(required(body, {"din", "countryOfRegistration", "typeOfDocument"}), LAMBDA p :
    sltdSearchCall(env, [document |-> p, nbRecord |-> parseNbRecord(body.nb)], answers))

sltdDetails(env, body, answers) ==
  AndThen(required(body, {"id"}), LAMBDA p : sltdDetailsCall(env, p.id, answers))

details(env, query, answers) ==
  AndThen(required(query, {"item_id"}), LAMBDA p : detailsCall(env, p.item_id, answers))

getNoticePdf(env, query, answers) ==
  AndThen(required(query, {"path"}), LAMBDA p : getNoticePdfFile(env, p.path, answers))

getImageFile(env, query, answers) ==
  AndThen(required(query, {"item_id", "path"}), LAMBDA p :
    imageFile(env, p.item_id, p.path, answers))

interpolHandler(r, answers) ==
  CASE r.op = "search" ->
         AndThen(normalizeNominalSearch(r.body), LAMBDA params : search(r.env, params, answers))
    [] r.op = "sltdSearch" -> sltdSearch(r.env, r.body, answers)
    [] r.op = "sltdDetails" -> sltdDetails(r.env, r.body, answers)
    [] r.op = "details" -> details(r.env, r.body, answers)
    [] r.op = "notice" -> getNoticePdf(r.env, r.body, answers)
    [] r.op = "image" -> getImageFile(r.env, r.body, answers)
=============================================================================
