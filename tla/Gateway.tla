------------------------------ MODULE Gateway -------------------------------
(***************************************************************************)
(* One request through a handler of the service: received, its calls to    *)
(* other services made and answered, and its reply.  The handlers keep     *)
(* nothing between requests, so one request shows all they do; what        *)
(* requests do to each other is the matter of InboundRequest.              *)
(***************************************************************************)
EXTENDS WisdmSoap, InterpolSearch, PersonSearch, Registers

CONSTANTS Requests,       \* the requests, each with the configuration that serves it
          AnswersTo(_, _) \* what may come back of a request's n-th call, NoAnswer apart

RecordTexts == RecordFields \cup {"fraudType", "extensionReason"}

\* The routes, and what of a request is a number.
ASSUME RequestsAssumption ==
  \A r \in Requests :
    \/ /\ r.service = "wisdm"
       /\ r.op \in {"create", "update", "extend", "delete", "get", "count", "activity",
                   "referenceTable", "alerts", "schema", "schemas", "schemaByKey"}
       /\ DOMAIN r.body.fields = RecordTexts
       /\ \A f \in RecordTexts : r.body.fields[f].kind = "day" => r.body.fields[f].day \in Int
    \/ /\ r.service = "interpol"
       /\ r.op \in {"search", "sltdSearch", "sltdDetails", "details", "notice", "image"}
       /\ r.op = "search" =>
            \A f \in {"ageMin", "ageMax", "nbRecord", "nb", "score"} :
              r.body[f].kind = "number" => r.body[f].halves \in Int
    \/ /\ r.service = "mcs" /\ r.op \in {"communities", "residences", "streets", "persons"}
       /\ r.op = "persons" => r.body.ageMin \cup r.body.ageMax \subseteq Int
    \/ r.service = "civilActs" /\ r.op \in {"acts", "children"}
    \/ /\ r.service = "register"
       /\ r.op \in {"companyObligations", "personObligations", "contracts", "ssnTaxInfo",
                   "taxInfo", "taxInfoByTin", "tax", "wanted", "varchakan", "bordercross",
                   "bordercrossExtended", "person", "personSearch", "legalEntities", "company",
                   "debtor", "properties", "propertyByCertificate", "licenseAndVehicles",
                   "vehicles", "students", "displacements"}

isList(l) == l \in Seq(Range(l))

isDistance(value) ==
  \A d \in value : value = {d} /\ (d = unreadable \/ {d.years, d.months, d.days} \subseteq Int)

\* An answer has a status, and what is read as a list or a date is one; INTERPOL's gives
\* a result code outside of xmlData if it gives one inside.
ASSUME AnswersAssumption ==
  \A r \in Requests, n \in 1 .. 2 : \A a \in AnswersTo(r, n) :
    /\ a.status \in Nat
    /\ r.service = "wisdm" =>
         /\ isList(a.items)
         /\ a.form = "plain" /\ "resultCode" \in DOMAIN a.inner => "resultCode" \in DOMAIN a.tags
    /\ r.service = "mcs" /\ r.op = "persons" /\ n = 2 =>
         \A persons \in a.list :
           /\ isList(persons)
           /\ \A person \in Range(persons) :
                /\ isList(person.documents)
                /\ \A document \in Range(person.documents) : isDistance(document.birthDate)
    /\ r.service = "civilActs" =>
         isList(a.result) /\ \A document \in Range(a.result) : isDistance(document.birthDate)
    /\ r.service = "register" /\ r.op = "taxInfo" =>
         \A employers \in a.result :
           isList(employers) /\ \A e \in Range(employers) : \A l \in e.PositionInfo : isList(l)

VARIABLES received, \* the request that was received
          asked,    \* the calls it has made so far
          answers,  \* what came back, in the order of the calls
          reply     \* how the handler ended

vars == <<received, asked, answers, reply>>

NoRequest == [service |-> "none"]
Pending == [kind |-> "pending"]

handler(r, got) ==
  CASE r.service = "wisdm" -> wisdmHandler(r, got)
    [] r.service = "interpol" -> interpolHandler(r, got)
    [] r.service = "mcs" -> mcsHandler(r, got)
    [] r.service = "civilActs" -> civilActsHandler(r, got)
    [] r.service = "register" -> registerHandler(r, got)

GatewayInit ==
  received = NoRequest /\ asked = <<>> /\ answers = <<>> /\ reply = Pending

\* The handler runs from one await to the next.
RunOn(r, got) ==
  LET step == handler(r, got)
  IN IF step.kind = "ask" THEN asked' = asked \o step.calls /\ reply' = Pending
     ELSE asked' = asked /\ reply' = step

\* The clients read their certificates and URLs when the process starts.
serves(r) == r.service = "register" => constructed(r.env)

Receive ==
  /\ received = NoRequest
  /\ \E r \in Requests :
       /\ serves(r)
       /\ received' = r
       /\ RunOn(r, <<>>)
  /\ answers' = answers

\* What comes of the n-th call, be it nothing.
comesBack(n) == {NoAnswer} \cup AnswersTo(received, n)

\* The calls that are under way end, each with an answer or without one.
Resume ==
  /\ Len(asked) > Len(answers)
  /\ \E batch \in {<<a>> : a \in comesBack(Len(answers) + 1)}
                 \cup {<<a, b>> : a \in comesBack(1), b \in comesBack(2)} :
       /\ Len(answers) + Len(batch) = Len(asked)
       /\ answers' = answers \o batch
       /\ RunOn(received, answers \o batch)
  /\ received' = received

GatewayNext == Receive \/ Resume

GatewaySpec == GatewayInit /\ [][GatewayNext]_vars

-----------------------------------------------------------------------------
(* What it must be. *)

\* Calls and replies are what they can be: at most two calls, a reply only when
\* they have all ended, and of HTTP's errors only these.
GatewayTypeOK ==
  /\ Len(answers) <= Len(asked) /\ Len(asked) <= 2
  /\ reply.kind \in {"pending", "return", "throw"}
  /\ reply.kind # "pending" => Len(answers) = Len(asked)
  /\ reply.kind = "throw" => reply.status \in {400, 404, 500, 502, 503}

sentRecords == {k \in DOMAIN asked : asked[k].operation = "CreateOrUpdateSLTDRecord"}

\* The dates of a record on its way to INTERPOL fit each other: issued and stolen
\* by today, stolen no earlier than issued, and valid for some time after.  Two
\* checks see to that, of a body before and after it is normalized.
SentDatesConsistent ==
  \A k \in sentRecords :
    LET theft == asked[k].body.theft
        document == asked[k].body.document
        dates(element, in) ==
          IF element \in DOMAIN in THEN {v \in {in[element]} : v.kind = "day"} ELSE {}
        issued == dates("date_of_issuance", document)
    IN /\ \A v \in dates("date", theft) \cup issued : v.day <= 0
       /\ \A i \in issued, v \in dates("date", theft) : i.day <= v.day
       /\ \A i \in issued, v \in dates("expiry_date", document) : i.day < v.day

accepted(xml) ==
  xml # NoAnswer /\ xml.status < 400 /\ textOf(xml.tags, "faultstring") = NoText

\* INTERPOL names no error beside its code.
errorless(xml) == textOf(xml.tags, "resultOtherCode") \notin WISDM_FUNCTIONAL_ERRORS

schemaOperations == {"schema", "schemas", "schemaByKey"}

emptyIsAnAnswer ==
  {"count", "activity", "referenceTable", "alerts", "search", "sltdSearch", "sltdDetails"}

isOk ==
  /\ reply.kind = "return"
  /\ \/ received.service = "wisdm" /\ reply.value.base.ok
     \/ received.service = "interpol" /\ reply.value.ok

\* A reply that says ok has the word of INTERPOL for it: no HTTP error, no fault, and
\* the code of success, or of an empty result where that is one.  In WISDM no error
\* is named beside the code either; the schemas alone do without, and without a code.
OkMeansAccepted ==
  isOk =>
    LET xml == answers[Len(answers)]
        code == textOf(xml.tags, "resultCode")
    IN /\ accepted(xml)
       /\ received.service = "wisdm" /\ received.op \notin schemaOperations => errorless(xml)
       /\ \/ code \in {"0", "NO_ERROR"}
          \/ code \in {"1", "NO_ANSWER"} /\ received.op \in emptyIsAnAnswer
          \/ code \in {NoText, "1", "NO_ANSWER"}
                /\ received.op \in schemaOperations

\* What is deleted, extended or retrieved is the record that a search, that went
\* well, found for this very document.
ActsOnTheFoundRecord ==
  received.service = "wisdm" /\ Len(asked) = 2 =>
    /\ asked[1].operation = "SearchDocument" /\ asked[1].body = identifier(received.body)
    /\ accepted(answers[1]) /\ errorless(answers[1])
    /\ textOf(answers[1].tags, "resultCode") \in {"0", "NO_ERROR"}
    /\ answers[1].documentId # NoText /\ asked[2].body.DocumentId = answers[1].documentId

\* A record that INTERPOL gives back as it was sent is read as it was written: no
\* field is taken for another, though names recur inside and outside the theft, and a
\* text, once its entities are decoded, which is left to the caller, is the one that
\* was given.  Not so where a text like a tag comes back in plain xmlData.
OwnRecordReadsBack ==
  \A k \in sentRecords, form \in {"none", "escaped", "plain"} :
    ~(form = "plain" /\ looksEscapedXml(asked[k].body)) =>
      LET read == parseDocumentProperties([form |-> form, record |-> asked[k].body])
          sent == toRecordParams(received.body, received.op)
      IN /\ read.din = cleanDin(received.body.din)
         /\ decodeXmlEntities(read.typeOfDocument) = received.body.typeOfDocument
         /\ \A f \in DOMAIN TheftElements \cup DOMAIN DocumentElements :
              sent[f] # absent => decodeXmlEntities(read[f]) = sent[f]

\* A search of INTERPOL is the one that was asked for: the texts, the date of birth
\* (`dob` where `dateOfBirth` says nothing), the ages and the score that were given go
\* along and nothing that was not given does, one of the texts names what is searched,
\* the score is the strictest where none is given, and no more records are asked for
\* than were.  What Number() makes 0 of is the exception: see ScoreNotCoerced.
CriteriaKept ==
  received.service = "interpol" /\ received.op = "search" /\ asked # <<>> =>
    LET body == received.body
        sent == asked[1].body.body
        given(f) == body[f] \notin {"", " "}
        wanted == IF body.nbRecord # nothing THEN body.nbRecord ELSE body.nb
    IN /\ \A f \in {"name", "forename", "identity", "entityId"} :
            /\ f \in DOMAIN sent <=> given(f)
            /\ given(f) => sent[f] = body[f]
       /\ "dateOfBirth" \in DOMAIN sent <=> given("dateOfBirth") \/ given("dob")
       /\ given("dateOfBirth") => sent.dateOfBirth = body.dateOfBirth
       /\ ~given("dateOfBirth") /\ given("dob") => sent.dateOfBirth = body.dob
       /\ \A f \in {"ageMin", "ageMax"} :
            /\ body[f] \in {nothing, emptyText} => f \notin DOMAIN sent
            /\ body[f].kind = "number"
                 => f \in DOMAIN sent /\ {2 * age : age \in sent[f]} = {body[f].halves}
       /\ Cardinality({"name", "identity", "entityId"} \cap DOMAIN sent) = 1
       /\ body.score \in {nothing, emptyText} => sent.rankThreshold = RANK_THRESHOLD_DEFAULT
       /\ body.score.kind = "number" => 2 * sent.rankThreshold = body.score.halves
       /\ sent.nbRecord \in 1 .. 100
       /\ IF wanted.kind = "number" /\ wanted.halves >= 2
          THEN 2 * sent.nbRecord <= wanted.halves ELSE sent.nbRecord = 10

\* The n-th birthday has come.
reached(d, n) ==
  d.years > n \/ (d.years = n /\ (d.months > 0 \/ (d.months = 0 /\ d.days >= 0)))

\* What the first of the documents tells that has anything in the field.
firstTold(docs, field) ==
  UNION {docs[k][field] : k \in {i \in DOMAIN docs : \A j \in 1 .. i - 1 : docs[j][field] = {}}}

\* Of the age and the sex that were asked for, as the first document with a birth date
\* and the first with a sex have it.  Whose first birth date cannot be read, or who has
\* none, fits where no least age is asked.  A bound of 0 starts no filter.
fitsSearch(person, body) ==
  LET born == readable(firstTold(person.documents, "birthDate"))
      sex == firstTold(person.documents, "genus")
  IN /\ born = {} => \A min \in body.ageMin : min <= 0
     /\ \A d \in born :
          /\ \A min \in body.ageMin \ {0} : reached(d, min)
          /\ \A max \in body.ageMax \ {0} : ~reached(d, max + 1)
     /\ body.gender \in unsaid \cup {"MALE", "FEMALE"}
     /\ body.gender = "MALE" => sex = {"M"}
     /\ body.gender = "FEMALE" => sex = {"F"}

\* Persons come back from MCS only if they fit the search in age and sex, and the
\* details are of the numbers the search has found.
PersonsFit ==
  received.service = "mcs" /\ received.op = "persons" /\ reply.kind = "return" =>
    /\ Len(asked) = 2 => asked[2].body.ssn_list = listOf(answers[1])
    /\ \A person \in Range(reply.value) : fitsSearch(person, received.body)

\* The children's documents are all the births, of others than the person asked
\* about, who have not had their 16th birthday or whose birth date is not known.
ChildrenUnderSixteen ==
  received.service = "civilActs" /\ received.op = "children" /\ reply.kind = "return" =>
    reply.value.result =
      keep(answers[1].result,
        {doc \in Range(answers[1].result) :
           /\ doc.type = "birth" /\ trimmed(doc.child) # trimmed(received.body.ssn)
           /\ \A d \in readable(doc.birthDate) : ~reached(d, 16)})

\* An outage is never told as a finding or as the absence of one: where a call gets no
\* answer or a status that is a failure, the handler throws, or the reply of an INTERPOL
\* handler says that it is not ok.  A failure that comes with status 200, as an error
\* of JSON-RPC or an answer that calls itself failed, is no outage: the code tells
\* those of nothing found.
OutageIsNoFinding ==
  reply.kind = "return" =>
    \A k \in DOMAIN answers :
      IF received.service \in {"wisdm", "interpol"}
      THEN (answers[k] = NoAnswer \/ answers[k].status >= 400) => ~isOk
      ELSE validStatus(answers[k].status)

\* Of the employers somebody has, the tax information shows those with a position
\* held now, only such positions, and nothing of what they pay.
EmployersDisclosed ==
  received.service = "register" /\ received.op = "taxInfo" /\ reply.kind = "return" =>
    LET shown == reply.value.EmployerInfo
        employers == listIn(answers[1])
        heldNow(p) == p.started /\ ~p.ended
        employs(e) == \E l \in e.PositionInfo : \E p \in Range(l) : heldNow(p)
    IN /\ Len(shown) = Len(keep(employers, {e \in Range(employers) : employs(e)}))
       /\ \A e \in Range(shown) :
            /\ e.fields \cap {"Salary", "Benefit", "Net_income", "Contract_revenue"} = {}
            /\ employs(e) /\ \A l \in e.PositionInfo : \A p \in Range(l) : heldNow(p)

\* The activity that is shown is of the type and the months that were asked for, and
\* all of it.
ActivityAsAsked ==
  received.service = "wisdm" /\ received.op = "activity" /\ isOk =>
    LET q == received.query
        wanted(i) ==
          /\ i.action # NoText
          /\ \/ isNil(q.typeOfDocument) \/ q.typeOfDocument \in {empty, blank}
             \/ i.document = q.typeOfDocument
          /\ q.from.kind = "month" => i.period >= q.from.month
          /\ q.to.kind = "month" => i.period <= q.to.month
        shown == reply.value.entries
        expected == keep(answers[1].items, {i \in Range(answers[1].items) : wanted(i)})
    IN /\ Len(shown) = Len(expected)
       /\ \A k \in DOMAIN shown :
            shown[k].period = expected[k].period /\ shown[k].action = expected[k].action

-----------------------------------------------------------------------------
(* What it is not. *)

\* ENDPOINTS.md:1010-1016 lists the optional fields of a record, the reference
\* numbers and the retention date among them: a record that was created or
\* updated carries every value it was given.
EveryFieldSent ==
  isOk /\ received.op \in {"create", "update"} =>
    \A f \in RecordFields :
      received.body.fields[f].kind \in {"text", "special", "day", "code"} =>
        \E part \in {asked[1].body.theft, asked[1].body.document} :
          \E e \in DOMAIN part : part[e] = xmlEscape(received.body.fields[f])

\* Interpol.service.ts:105-108 says of a score that it must be an integer, and that
\* anything else is rejected rather than silently coerced, so that nobody widens the
\* search by accident: a search goes with another score than the strictest only where
\* a number was given.
ScoreNotCoerced ==
  /\ received.service = "interpol" /\ received.op = "search" /\ asked # <<>>
  /\ asked[1].body.body.rankThreshold # RANK_THRESHOLD_DEFAULT
  => received.body.score.kind = "number"
=============================================================================
