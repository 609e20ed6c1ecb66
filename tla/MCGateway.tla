----------------------------- MODULE MCGateway ------------------------------
(***************************************************************************)
(* Small inputs for Gateway.  Each request varies a valid one in a few     *)
(* fields, so that every rule is met from both sides.                      *)
(***************************************************************************)
EXTENDS Gateway, TLC

-----------------------------------------------------------------------------
(* WISDM *)

WisdmEnv == [sltd |-> "sltd", infos |-> "infos", baseUrl |-> FALSE, username |-> TRUE,
             password |-> TRUE, longUserInfo |-> FALSE]

Envs ==
  {WisdmEnv} \cup {[WisdmEnv EXCEPT !.sltd = e[1], !.infos = e[2], !.baseUrl = e[3]] :
                     e \in {"", "sltd", "infos.asmx"} \X {"", "infos"} \X BOOLEAN}
             \cup {[WisdmEnv EXCEPT !.username = e[1], !.password = e[2], !.longUserInfo = e[3]] :
                     e \in BOOLEAN \X BOOLEAN \X BOOLEAN}

Din == din("D", 7, 2)
Passport == text(1)
Visa == text(2)

NoFields == [f \in RecordFields \cup {"fraudType", "extensionReason"} |-> absent]
Base == [NoFields EXCEPT !.fraudType = text(3), !.additionalInformation = text(4)]
Record(fields) == [din |-> Din, typeOfDocument |-> Passport, fields |-> fields]

Values == {absent, null, empty, blank, notAString, text(25), text(26), text(41), day(-1), day(1),
           countryId, special(5, "ampersand"), special(5, "less"), special(5, "tag")}

Dates ==
  {[Base EXCEPT !.documentIssuanceDate = i, !.dateOfTheft = t, !.documentExpiryDate = x] :
     i \in {absent, empty, day(-2), day(0), day(1)},
     t \in {absent, empty, day(-3), day(-2), day(0), day(1)},
     x \in {absent, day(-2), day(-1), day(5)}}

Fields ==
  Dates \cup UNION {{[Base EXCEPT ![f] = v] : v \in Values} : f \in DOMAIN Base}
        \cup {[Base EXCEPT !.recordRetentionDate = v, !.extensionReason = w] :
                v \in {null, empty, day(0), day(1)}, w \in {absent, empty, blank, text(5)}}
        \cup {NoFields}

Bodies ==
  {Record(f) : f \in Fields}
    \cup {[Record(Base) EXCEPT !.din = d, !.typeOfDocument = t] :
            d \in {din("D", n, 1) : n \in {4, 5, 25, 26}}, t \in {Passport, special(1, "tag"), empty, blank, notAString}}

WisdmRequest(op, env, body, query) ==
  [service |-> "wisdm", op |-> op, env |-> env, body |-> body, query |-> query]

NoQuery == [typeOfDocument |-> Passport, from |-> absent, to |-> absent, table |-> "IPSGT_Theft_Type",
            movementId |-> text(9), operation |-> "GetSLTDRecordSchema",
            documentation |-> "missing", format |-> "missing", key |-> text(3)]

Operations == {"create", "update", "extend", "delete", "get", "count", "activity",
               "referenceTable", "alerts", "schema", "schemas", "schemaByKey"}

RetentionBase == [Base EXCEPT !.recordRetentionDate = day(1), !.extensionReason = text(5)]

Queries ==
  {[NoQuery EXCEPT !.typeOfDocument = t, !.from = f, !.to = u] :
     t \in {absent, empty, notAString, Passport, Visa}, f \in {absent, empty, month(2), month(3)},
     u \in {absent, month(2), month(3)}}

OtherQueries ==
  {[NoQuery EXCEPT !.format = f, !.documentation = d] :
     f \in {"missing", "xml", "html", "xml2", "json"}, d \in {"missing", "true", "false", "no"}}
    \cup {[NoQuery EXCEPT !.operation = "GetSchema", !.table = "Countries", !.key = notAString]}
    \cup {[NoQuery EXCEPT !.movementId = m] : m \in {absent, empty, blank, text(128), text(129)}}

WisdmRequests ==
  {WisdmRequest(op, e, Record(RetentionBase), NoQuery) : op \in Operations, e \in Envs}
    \cup {WisdmRequest(op, WisdmEnv, b, NoQuery) : op \in {"create", "update"}, b \in Bodies}
    \cup {WisdmRequest(op, WisdmEnv, b, NoQuery) :
            op \in {"extend", "delete", "get"},
            b \in {[Record(RetentionBase) EXCEPT !.din = d, !.typeOfDocument = t,
                                                 !.fields.recordRetentionDate = v] :
                     d \in {din("D", n, 1) : n \in {4, 25}}, t \in {Passport, blank},
                     v \in {null, day(0), day(1)}}}
    \cup {WisdmRequest(op, WisdmEnv, Record(Base), q) : op \in {"count", "activity"}, q \in Queries}
    \cup {WisdmRequest(op, WisdmEnv, Record(Base), q) :
            op \in {"alerts", "referenceTable", "schema", "schemaByKey"}, q \in OtherQueries}

Indicator(document, action, period, value) ==
  [document |-> document, action |-> action, period |-> period, value |-> value]

Payloads ==
  <<  <<Indicator(Passport, "", 0, {3}), Indicator(Passport, "ADD", 1, {2}),
        Indicator(Passport, "DEL", 2, {}), Indicator(Visa, "UPD", 3, {1})>>,
      <<[form |-> "Row", code |-> "AB"], [form |-> "enumeration", code |-> "CD"],
        [form |-> "Item", code |-> ""]>>,
      <<[din |-> "D", retentionDate |-> "later", flag |-> "deleted"],
        [din |-> "", retentionDate |-> "later", flag |-> "0"]>> >>

PayloadFor(op) ==
  CASE op \in {"count", "activity"} -> Payloads[1]
    [] op = "alerts" -> Payloads[3]
    [] OTHER -> Payloads[2]

OwnRecord(body) == buildRecordElements(identifier(body), toRecordParams(body, "create"), TRUE)
Special == Record([Base EXCEPT !.additionalInformation = special(4, "tag"),
                               !.stolenBatchIdentifier = special(4, "ampersand")])

Success(r) ==
  [Xml(200, "NO_ERROR") EXCEPT !.form = "escaped", !.inner = ("Message" :> "done"),
     !.record = OwnRecord(Record(Base)), !.documentId = "record 1", !.items = PayloadFor(r.op)]

\* Answers that differ from a good one in what decides about it.
WisdmAnswers(r) ==
  LET good == Success(r)
      with(tag, txt) == [good EXCEPT !.tags = (tag :> txt) @@ @]
  IN {good, [good EXCEPT !.status = 500], [good EXCEPT !.status = 404],
      [good EXCEPT !.record = OwnRecord(Special)],
      [good EXCEPT !.form = "plain", !.record = OwnRecord(Special)],
      [good EXCEPT !.form = "plain", !.inner = ("resultCode" :> "3")],
      [good EXCEPT !.form = "broken", !.documentId = "", !.record = NoRecord],
      [good EXCEPT !.inner = ("Message" :> "RECORD_NOT_FOUND")],
      [good EXCEPT !.tags = <<>>], with("faultstring", "refused"),
      with("resultOtherCode", "DIN_ALREADY_PRESENT"), with("Reason", retentionTooLong),
      with("ErrorMessage", "a message of no known kind")}
     \cup {with("resultCode", c) : c \in {"0", "1", "NO_ANSWER", "4", "TOO_MANY_ANSWERS",
                                          "TIME_OUT", "9", "nonsense"}}

-----------------------------------------------------------------------------
(* Interpol *)

InterpolEnv ==
  [nominalEndpoint |-> "nominals", sltdEndpoint |-> "sltd", nominalUser |-> "", NODE_ENV |-> "production",
   detailsUser |-> "", searchUser |-> "", sltdUserInfo |-> "", sltdUser |-> "user",
   sltdPassword |-> TRUE]

InterpolEnvs ==
  {InterpolEnv, [InterpolEnv EXCEPT !.nominalEndpoint = ""], [InterpolEnv EXCEPT !.sltdEndpoint = ""],
   [InterpolEnv EXCEPT !.sltdPassword = FALSE], [InterpolEnv EXCEPT !.NODE_ENV = ""],
   [InterpolEnv EXCEPT !.sltdUser = ""], [InterpolEnv EXCEPT !.sltdUser = "", !.sltdUserInfo = "info"],
   [InterpolEnv EXCEPT !.detailsUser = "details", !.searchUser = "search"]}

SearchBody ==
  [name |-> "", forename |-> "", identity |-> "", entityId |-> "", dateOfBirth |-> "", dob |-> "",
   ageMin |-> nothing, ageMax |-> nothing, nbRecord |-> nothing, nb |-> nothing, score |-> nothing]
Named == [SearchBody EXCEPT !.name = "N"]

Numbers == {nothing, emptyText, zeroish, notANumber} \cup {halves(h) : h \in {-2, 0, 1, 20, 21, 22, 300}}

Searches ==
  {[SearchBody EXCEPT !.name = n, !.forename = f, !.identity = i, !.entityId = e,
                      !.dateOfBirth = d, !.ageMin = a] :
     n \in {"", " ", "N"}, f \in {"", "F"}, i \in {"", "I"}, e \in {"", "E"}, d \in {"", "D"},
     a \in {nothing, halves(36)}}
    \cup {[Named EXCEPT !.ageMin = a, !.ageMax = b] : a, b \in Numbers}
    \cup {[Named EXCEPT !.dateOfBirth = d, !.dob = o] :
            d, o \in {"", " ", "D", NotADate, NotAString}}
    \cup {[Named EXCEPT !.score = n] : n \in Numbers}
    \cup {[Named EXCEPT !.nbRecord = n, !.nb = m] : n, m \in Numbers}
    \cup {[SearchBody EXCEPT ![f] = NotAString] : f \in {"name", "forename", "identity", "entityId"}}

Texts == {"", " ", "T", NotAString}

InterpolRequest(op, env, body) == [service |-> "interpol", op |-> op, env |-> env, body |-> body]

SltdBody == [din |-> "T", countryOfRegistration |-> "T", typeOfDocument |-> "T", nb |-> nothing]
OneItem == [id |-> "T", item_id |-> "T", path |-> "T"]

InterpolRequests ==
  {InterpolRequest("search", e, Named) : e \in InterpolEnvs}
    \cup {InterpolRequest("search", InterpolEnv, b) : b \in Searches}
    \cup {InterpolRequest("sltdSearch", e, SltdBody) : e \in InterpolEnvs}
    \cup {InterpolRequest("sltdSearch", InterpolEnv,
            [SltdBody EXCEPT !.din = d, !.typeOfDocument = t]) : d, t \in Texts}
    \cup {InterpolRequest(op, e, OneItem) :
            op \in {"sltdDetails", "details", "notice", "image"}, e \in InterpolEnvs}
    \cup {InterpolRequest(op, InterpolEnv, [OneItem EXCEPT !.id = i, !.item_id = i, !.path = p]) :
            op \in {"sltdDetails", "details", "notice", "image"}, i, p \in Texts}

Item(id) ==
  [id |-> id, name |-> "N", score |-> "10", binData |-> id,
   files |-> <<[type |-> "photo", ref |-> ""], [type |-> "", ref |-> ""]>>]

InterpolAnswers ==
  LET good == [Xml(200, "0") EXCEPT !.form = "plain", !.items = <<Item("1"), Item(""), Item("2")>>]
  IN {good, [good EXCEPT !.form = "escaped"], [good EXCEPT !.form = "broken"],
      [good EXCEPT !.form = "none", !.items = <<>>], [good EXCEPT !.status = 500],
      [good EXCEPT !.tags = <<>>], [good EXCEPT !.tags = ("faultstring" :> "refused") @@ @]}
     \cup {[good EXCEPT !.tags = ("resultCode" :> c)] : c \in {"1", "4", "TIME_OUT", "nonsense"}}

-----------------------------------------------------------------------------
(* MCS and civil acts *)

McsBody ==
  [addressType |-> "LIVING", registrationType |-> "EVER", firstName |-> "", lastName |-> "",
   patronomicName |-> "", birthDate |-> "", firstNameMatchType |-> "exact",
   lastNameMatchType |-> "partial", patronomicNameMatchType |-> "", region |-> "R",
   community |-> "C", residence |-> "V", street |-> "S", building |-> "1", apartment |-> "",
   appartment |-> "", ageMin |-> {}, ageMax |-> {}, gender |-> ""]

McsBodies ==
  {[McsBody EXCEPT !.addressType = t, !.firstName = n, !.region = r, !.community = c] :
     t \in {"BIRTH", "LIVING"}, n \in {"", "F"}, r \in {"", "R", "YEREVAN"}, c \in {"", "C", "GYUMRI"}}
    \cup {[McsBody EXCEPT !.lastName = n, !.community = c, !.residence = v, !.street = s,
                          !.building = b, !.apartment = a, !.appartment = o] :
            n \in {"", "L"}, c \in {"C", "GYUMRI"}, v \in {"", "V"}, s \in {"", "S"},
            b \in {"", "1"}, a \in {"", "2"}, o \in {"", "3"}}
    \cup {[McsBody EXCEPT !.addressType = t, !.lastName = n, !.ageMin = min, !.ageMax = max,
                          !.gender = g] :
            t \in {"BIRTH", "LIVING"}, n \in {"", "L"}, min \in {{}, {0}, {16}},
            max \in {{}, {0}, {15}, {16}}, g \in {"", " ", "MALE", "FEMALE", "other"}}

McsEnvs == [addressUrl : BOOLEAN, personsUrl : BOOLEAN]
McsEnv == [addressUrl |-> TRUE, personsUrl |-> TRUE]

McsRequests ==
  {[service |-> "mcs", op |-> "persons", env |-> McsEnv, body |-> b] : b \in McsBodies}
    \cup {[service |-> "mcs", op |-> op, env |-> e,
           body |-> [region |-> r, community |-> c, residence |-> v]] :
            op \in {"communities", "residences", "streets"}, e \in McsEnvs,
            r \in {"", "R", "YEREVAN"}, c \in {"", "C", "GYUMRI"}, v \in {"", "V"}}
    \cup {[service |-> "mcs", op |-> "persons", env |-> e, body |-> McsBody] : e \in McsEnvs}

\* Turned 16 today, yesterday and tomorrow; a month off; born today.
Birthdays == <<ago(16, 0, 0), ago(16, 0, 1), ago(16, 0, -1), ago(16, -1, 5), ago(16, 1, -5),
               ago(17, -1, 0), ago(0, 0, 0)>>

Doc(birthDate, genus) == [birthDate |-> birthDate, genus |-> genus]

People ==
  LET born(genus) == [k \in DOMAIN Birthdays |-> [documents |-> <<Doc({Birthdays[k]}, {genus})>>]]
  IN born("M") \o born("F") \o
     <<[documents |-> <<>>],
       [documents |-> <<Doc({unreadable}, {}), Doc({ago(17, 0, 0)}, {"F"})>>],
       [documents |-> <<Doc({}, {"M"}), Doc({ago(16, 0, -1)}, {}), Doc({ago(17, 0, 0)}, {"F"})>>]>>

McsAnswers(n) ==
  {McsAnswer(200, {}), McsAnswer(200, {<<>>}), McsAnswer(500, {}), McsAnswer(302, {}),
   McsAnswer(200, IF n = 2 THEN {People} ELSE {<<"p1", "p2">>})}

CivilActsRequests ==
  {[service |-> "civilActs", op |-> op,
    body |-> [ssn |-> s, firstName |-> f, lastName |-> "L"]] :
     op \in {"acts", "children"}, s \in {"", " ", "p1"}, f \in {"", "F"}}

Act(type, child, birthDate) == [type |-> type, child |-> child, birthDate |-> birthDate]

Acts ==
  [k \in DOMAIN Birthdays |-> Act("birth", "p2", {Birthdays[k]})] \o
  <<Act("birth", "p2", {}), Act("birth", "p2", {unreadable}), Act("birth", "p1", {ago(3, 0, 0)}), Act("birth", "", {ago(3, 0, 0)}),
    Act("birth", " ", {ago(3, 0, 0)}), Act("death", "p2", {ago(3, 0, 0)})>>

CivilActsAnswers ==
  {[status |-> s, outcome |-> o, result |-> l] :
     s \in {200, 500}, o \in {"ok", "failed"}, l \in {<<>>, Acts}}

-----------------------------------------------------------------------------
(* Registers *)

Services ==
  {"revenue committee", "person obligations", "ministry of justice", "border cross", "border cross extended", "population register",
   "state register", "road police", "civilActs", "tax service", "investigative committee", "ktak"}

Files(state) ==
  [c \in {"moj-ces", "employee-contracts", "employment-contracts", "migration_am", "pki-request"} |->
     state]

RegisterEnv == [urls |-> Services, direct |-> Files("readable"), fallback |-> Files("missing")]

RegisterEnvs ==
  {[RegisterEnv EXCEPT !.urls = @ \ {s}] : s \in Services}
    \cup {[RegisterEnv EXCEPT !.direct[c] = d, !.fallback[c] = f] :
            c \in DOMAIN Files("missing"), d \in {"missing", "directory", "readable"},
            f \in {"missing", "readable"}}

Nobody == [ssn |-> "p1", tin |-> "t", taxId |-> "t", pnum |-> "p1", personId |-> "p1",
           startDate |-> "", endDate |-> "", start_date |-> "", end_date |-> ""]

PersonFields == {"ssn", "pnum", "firstName", "lastName", "middleName", "birthDate", "passport"}
NoPerson == [name \in PersonFields |-> ""]

RegisterBodies(op) ==
  CASE op \in {"companyObligations", "ssnTaxInfo", "taxInfo", "taxInfoByTin"} ->
         {[Nobody EXCEPT !.ssn = s, !.tin = s, !.startDate = a, !.endDate = b, !.start_date = a,
                         !.end_date = b] : s \in {"", " ", "p1"}, a, b \in {"", "no date", "2020"}}
    [] op \in {"wanted", "varchakan"} ->
         {[NoPerson EXCEPT !.pnum = n, !.passport = n, !.firstName = f,
                           !.lastName = f, !.birthDate = d, !.middleName = f] :
            n \in {"", " ", "p1"}, f \in {"", "F"}, d \in {"", "no date", "1998"}}
    [] op \in {"bordercross", "bordercrossExtended"} -> [passportNumber : {"", "A"}, citizenship : {"", "B"}]
    [] op \in {"personSearch", "debtor"} -> [psn : {"", "p1"}, tax_id : {"", "t"}]
    [] op = "propertyByCertificate" ->
         [certificateNumber : {"1"}, searchBase : {"", "cert_number", "cad_number", "cad"}]
    [] op = "vehicles" -> [searchField : {"number"}, searchValue : {"1"}]
    [] op = "students" -> {[pnum |-> ""], [pnum |-> "p1"]}
    [] OTHER -> {Nobody}

RegisterOps ==
  {"companyObligations", "personObligations", "contracts", "ssnTaxInfo", "taxInfo", "taxInfoByTin",
   "tax", "wanted", "varchakan", "bordercross", "bordercrossExtended", "person", "personSearch",
   "legalEntities", "company", "debtor", "properties", "propertyByCertificate",
   "licenseAndVehicles", "vehicles", "students", "displacements"}

RegisterRequests ==
  UNION {{[service |-> "register", op |-> op, env |-> RegisterEnv, body |-> b] :
            b \in RegisterBodies(op)} : op \in RegisterOps}
    \cup {[service |-> "register", op |-> op, env |-> e, body |-> b] :
            op \in {"personObligations", "tax", "wanted"}, e \in RegisterEnvs,
            b \in {[name \in PersonFields |-> "p1"]}}
    \cup {[service |-> "register", op |-> "students", env |-> e, body |-> [pnum |-> "p1"]] :
            e \in RegisterEnvs}

Positions ==
  <<[started |-> TRUE, ended |-> FALSE], [started |-> TRUE, ended |-> TRUE],
    [started |-> FALSE, ended |-> FALSE]>>

Employer(positions) ==
  [fields |-> {"Salary", "Benefit", "Net_income", "Contract_revenue", "Name"},
   PositionInfo |-> positions]

Employers ==
  <<Employer({}), Employer({<<>>}), Employer({Positions}), Employer({Tail(Positions)}),
    Employer({<<Head(Positions)>>})>>

Found(op) ==
  CASE op = "taxInfo" -> Employers
    [] op \in {"person", "personSearch"} ->
         <<[psn |-> "p1", addresses |-> {}, documents |-> {<<"passport">>}]>>
    [] op = "varchakan" -> [fullName |-> "N", birthDate |-> "dd/mm/yyyy"]
    [] OTHER -> <<"found">>

Outcomes == {"", "ok", "failed", "error", "1", "enveloped", "text"}

RegisterAnswers(r) ==
  {Answer(500, "", {})} \cup
  {Answer(200, o, l) : o \in Outcomes, l \in {{}, {<<>>}, {Found(r.op)}}}

-----------------------------------------------------------------------------

MCRequests ==
  WisdmRequests \cup InterpolRequests \cup McsRequests \cup CivilActsRequests \cup RegisterRequests

MCAnswersTo(r, n) ==
  CASE r.service = "wisdm" -> WisdmAnswers(r)
    [] r.service = "interpol" -> InterpolAnswers
    [] r.service = "mcs" -> McsAnswers(n)
    [] r.service = "civilActs" -> CivilActsAnswers
    [] r.service = "register" -> RegisterAnswers(r)
=============================================================================
