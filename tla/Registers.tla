----------------------------- MODULE Registers ------------------------------
(***************************************************************************)
(* The lookups in the registers of other agencies: what each requires,     *)
(* what it asks for, and what it hands on of the answer.                   *)
(*                                                                         *)
(* A text is "" where it is missing, " " where it holds blanks.  An answer *)
(* has a word for its outcome and what is at the path the code reads: {}   *)
(* where that is missing or of another form.                               *)
(***************************************************************************)
EXTENDS Flow, SequencesExt

Answer(status, outcome, result) == [status |-> status, outcome |-> outcome, result |-> result]

orNone(option) == IF option = {} THEN <<>> ELSE CHOOSE l \in option : TRUE
listIn(answer) == orNone(answer.result)

trimmed(v) == IF v = " " THEN "" ELSE v
orDefault(v, default) == IF v = "" THEN default ELSE v

request(to, operation, body, answers) ==
  AwaitValid([to |-> to, operation |-> operation, body |-> body], answers, 1, Throw(500))

\* What most of them do: hand on what came.
lookup(to, operation, body, answers) ==
  AndThen(request(to, operation, body, answers), LAMBDA answer : Return(answer.result))

-----------------------------------------------------------------------------
(* What must be there for the process to start: the constructors of the     *)
(* clients.  env.urls are the services whose URL is configured; env.direct  *)
(* and env.fallback tell what the two places of a key and its certificate   *)
(* hold.                                                                    *)

\* The fallback is looked at only where there is nothing at all at the first.
resolveAndReadCertFile(env, certificate) ==
  IF env.direct[certificate] # "missing" THEN env.direct[certificate] = "readable"
  ELSE env.fallback[certificate] = "readable"

RevenueCommitteeIntegration(env) ==
  resolveAndReadCertFile(env, "moj-ces") /\ "revenue committee" \in env.urls

EmploymentContractsIntegration(env) ==
  resolveAndReadCertFile(env, "employee-contracts") /\ "revenue committee" \in env.urls

RevenueCommitteeTinInfoIntegration(env) ==
  resolveAndReadCertFile(env, "employee-contracts") /\ "revenue committee" \in env.urls

MinistryOfJusticeIntegration(env) ==
  resolveAndReadCertFile(env, "moj-ces") /\ "ministry of justice" \in env.urls

\* These do without a URL until the first call, or altogether.
KtakIntegration(env) == resolveAndReadCertFile(env, "employment-contracts")
CadastreClientIntegration(env) == resolveAndReadCertFile(env, "migration_am")
PkiClientIntegration(env) == resolveAndReadCertFile(env, "pki-request")

SektIntegration(env) == "border cross" \in env.urls /\ "border cross extended" \in env.urls
StatePopulationRegisterIntegration(env) == "population register" \in env.urls
StateRegisterIntegration(env) == "state register" \in env.urls
RoadPoliceIntegration(env) == "road police" \in env.urls
CivilActsRegistrationIntegration(env) == "civilActs" \in env.urls

TaxServiceIntegration(env) == "tax service" \in env.urls

constructed(env) ==
  /\ RevenueCommitteeIntegration(env) /\ EmploymentContractsIntegration(env)
  /\ RevenueCommitteeTinInfoIntegration(env) /\ MinistryOfJusticeIntegration(env)
  /\ KtakIntegration(env) /\ CadastreClientIntegration(env) /\ PkiClientIntegration(env)
  /\ SektIntegration(env) /\ StatePopulationRegisterIntegration(env)
  /\ StateRegisterIntegration(env) /\ RoadPoliceIntegration(env)
  /\ CivilActsRegistrationIntegration(env) /\ TaxServiceIntegration(env)

-----------------------------------------------------------------------------
(* Revenue committee and tax service. *)

\* A date that is given has the form the DTO asks for.
isDate(v) == v \notin {" ", "no date"}

TaxSsnRequestDto(b) == b.ssn # "" /\ isDate(b.start_date) /\ isDate(b.end_date)
GetTaxInfoBySsnDto(b) == b.ssn # "" /\ isDate(b.start_date) /\ isDate(b.end_date)
GetTaxInfoByTinDto(b) == b.tin # "" /\ isDate(b.startDate) /\ isDate(b.endDate)

\* The period that is asked for where none is given.
startingAt(b, date) == [b EXCEPT !.start_date = orDefault(@, date)]
endingToday(b) == [b EXCEPT !.end_date = orDefault(@, "today")]

\* null unless the status code says 1.
obligationsIn(answer) == IF answer.outcome = "1" THEN answer.result ELSE {}

getCompanyObligations(b, answers) ==
  AndThen(request("revenue committee", "/tin_info_obligation/v1",
                  [tin |-> b.tin, startDate |-> orDefault(b.startDate, "1970-01-01"),
                   endDate |-> orDefault(b.endDate, "today")], answers),
          LAMBDA answer : Return(obligationsIn(answer)))

getPersonObligations(env, ssn, answers) ==
  IF "person obligations" \notin env.urls THEN Throw(500)
  ELSE lookup("person obligations", "GetTaxpayerDepts", [PSN |-> ssn], answers)

getEmploymentContracts(ssn, answers) ==
  lookup("revenue committee", "/employment_contract/v1", [employee_ssn |-> ssn], answers)

getSsnTaxInfo(b, answers) ==
  lookup("revenue committee", "/ssn/v1", startingAt(b, "1970-01-01"), answers)

\* A position is held now if it has begun and not ended.
filterActualPositionInfo(positionInfo) ==
  {keep(l, {p \in Range(l) : p.started /\ ~p.ended}) : l \in positionInfo}

\* Mutant of filterActualEmployerInfo: only the salary itself is taken out.
filterActualEmployerInfoLeaving(employerInfo) ==
  LET actual(e) == [fields |-> e.fields \ {"Salary"},
                    PositionInfo |-> filterActualPositionInfo(e.PositionInfo)]
      employers == [k \in DOMAIN employerInfo |-> actual(employerInfo[k])]
  IN keep(employers, {e \in Range(employers) : e.PositionInfo \ {<<>>} # {}})

\* Employers somebody works for now, without what they pay.
filterActualEmployerInfo(employerInfo) ==
  LET actual(e) ==
        [fields |-> e.fields \ {"Salary", "Benefit", "Net_income", "Contract_revenue"},
         PositionInfo |-> filterActualPositionInfo(e.PositionInfo)]
      employers == [k \in DOMAIN employerInfo |-> actual(employerInfo[k])]
  IN keep(employers, {e \in Range(employers) : e.PositionInfo \ {<<>>} # {}})

\* In an envelope of its own or not; without a list, no employers.
filterActualTaxInfo(answer) ==
  [enveloped |-> answer.outcome = "enveloped",
   EmployerInfo |-> filterActualEmployerInfo(listIn(answer))]

getTaxInfo(b, answers) ==
  AndThen(request("revenue committee", "/get_tax_info/v1",
                  endingToday(startingAt(b, "01.01.1991")), answers),
          LAMBDA answer : Return(filterActualTaxInfo(answer)))

getTaxInfoByTin(b, answers) ==
  lookup("revenue committee", "/get_info_tin/v1",
         [tin |-> trimmed(b.tin), startDate |-> orDefault(trimmed(b.startDate), "1970-01-01"),
          endDate |-> orDefault(trimmed(b.endDate), "today"), requestDate |-> "today"], answers)

getTaxBySsnDb(ssn, answers) ==
  AndThen(request("tax service", "POST", [ssn |-> ssn], answers),
          LAMBDA answer : Return(listIn(answer)))

-----------------------------------------------------------------------------
(* Investigative committee. *)

\* By number, and then by nothing else, or by what is known of the person.
wantedPerson(b) ==
  LET pnum == trimmed(b.pnum)
      unlessNumber(v) == IF pnum = "" THEN trimmed(v) ELSE ""
  IN [SSN |-> pnum, first_name |-> unlessNumber(b.firstName),
      last_name |-> unlessNumber(b.lastName), BDATE |-> unlessNumber(b.birthDate),
      HAYR |-> unlessNumber(orDefault(b.middleName, "*"))]

searchWantedPersons(env, b, answers) ==
  IF "investigative committee" \notin env.urls THEN Throw(500)
  ELSE IF \A f \in {"SSN", "first_name", "last_name", "BDATE"} : wantedPerson(b)[f] = ""
  THEN Throw(400)
  ELSE lookup("investigative committee", "wanted", wantedPerson(b), answers)

hasValue(v) == trimmed(v) # ""

PoliceVarchSearchFields(b) ==
  hasValue(b.passport) \/ (hasValue(b.firstName) /\ hasValue(b.lastName) /\ hasValue(b.birthDate))

PoliceVarchDto(b) == isDate(b.birthDate) /\ PoliceVarchSearchFields(b)

\* A label that is not found is null; a date is turned round.
parseInfo(info) ==
  [label \in {"fullName", "birthDate", "violationDate", "article", "decisionDate"} |->
     IF label \notin DOMAIN info THEN "null"
     ELSE IF info[label] = "dd/mm/yyyy" THEN "yyyy-mm-dd" ELSE info[label]]

foundIn(answer) ==
  IF answer.outcome = "text" THEN {parseInfo(info) : info \in answer.result} ELSE answer.result

getPoliceVarch(env, b, answers) ==
  IF "investigative committee" \notin env.urls THEN Throw(500)
  ELSE AndThen(request("investigative committee", "varchakan",
           [SSN |-> b.ssn, first_name |-> b.firstName, last_name |-> b.lastName,
            BDATE |-> b.birthDate, Passport |-> b.passport], answers),
         LAMBDA answer : Return(foundIn(answer)))

-----------------------------------------------------------------------------
(* Border crossings, and the state population register. *)

listsIn(answer, lists) ==
  IF answer.outcome = "ok" THEN [l \in lists |-> answer.result] ELSE <<>>

borderCross(to, lists, b, answers) ==
  IF b.passportNumber = "" \/ b.citizenship = "" THEN Throw(400)
  ELSE AndThen(request(to, "bordercross", b, answers), LAMBDA answer :
         Return(listsIn(answer, lists)))

getBordercrossBySsn(b, answers) ==
  borderCross("border cross", {"visaList", "crossingList", "residencePermitList"}, b, answers)

getExtendedBordercrossInfo(b, answers) ==
  borderCross("border cross extended",
    {"visaList", "crossingList", "residencePermitList", "documentNumberList", "restrictedInfo"},
    b, answers)

\* A person with the lists the register may leave out.
personOf(p) ==
  [psn |-> p.psn, addresses |-> orNone(p.addresses), documents |-> orNone(p.documents)]

personsIn(answer) ==
  IF answer.outcome = "failed" THEN <<>>
  ELSE [k \in DOMAIN listIn(answer) |-> personOf(listIn(answer)[k])]

firstOf(persons) == IF persons = <<>> THEN <<>> ELSE <<Head(persons)>>

getPersonBySsn(ssn, answers) ==
  AndThen(request("population register", "person", [psn |-> ssn, addresses |-> "ALL"], answers),
          LAMBDA answer : Return(firstOf(personsIn(answer))))

\* The criteria that are given, be it none.
getSearchedPersons(b, answers) ==
  AndThen(request("population register", "search",
                  [f \in {n \in DOMAIN b : b[n] # ""} |-> b[f]], answers),
          LAMBDA answer : Return(personsIn(answer)))

-----------------------------------------------------------------------------
(* The other lookups. *)

\* An error of the JSON-RPC service ends the lookup with an empty list.
resultIn(answer) == IF answer.outcome = "error" THEN <<>> ELSE <<answer>>

executeJsonRpcRequest(operation, params, answers) ==
  AndThen(request("ekeng", operation, params, answers), LAMBDA answer :
    Return(resultIn(answer)))

\* Without an answer, a person without companies.
companiesOf(got) == IF got = <<>> THEN <<>> ELSE [companies |-> listIn(got[1])]

getLegalEntitiesBySsn(ssn, answers) ==
  AndThen(executeJsonRpcRequest("person_info", [ssn |-> ssn], answers), LAMBDA got :
    Return(companiesOf(got)))

getCompanyByTaxId(taxId, answers) ==
  AndThen(request("state register", "company_info", [tax_id |-> taxId], answers),
          LAMBDA answer : Return(listIn(answer)))

\* Only what is given is signed and sent.
getDebtorData(b, answers) ==
  AndThen(request("ministry of justice", "/get_debtor_info/v1",
                  [f \in {n \in DOMAIN b : b[n] # ""} |-> b[f]], answers),
          LAMBDA answer : Return(listIn(answer)))

getPropertiesBySsn(ssn, answers) ==
  lookup("cadastre", "/get_realty_owned/v1",
         [ssn |-> ssn, date_from |-> "01/01/1970", date_to |-> "today"], answers)

SEARCH_BASES == {"cert_number", "cad_number"}

\* A base that is not known is taken for the certificate's number.
getPropertyByCertificate(b, answers) ==
  LET searchProp == IF b.searchBase \in SEARCH_BASES THEN b.searchBase ELSE "cert_number"
  IN lookup("cadastre", "/get_realty_gip/v1",
            [base |-> searchProp, number |-> b.certificateNumber,
             date_from |-> "01/01/1970", date_to |-> "today"], answers)

\* Nothing where there is no list, and where the list is empty.
vehiclesOf(answer) == answer.result \ {<<>>}

\* Both at once.
getPersonDrivingLicenseAndVehicles(personId, answers) ==
  AndThen(AwaitAll(<<[to |-> "road police", operation |-> "licenses", body |-> personId],
                     [to |-> "road police", operation |-> "vehicles", body |-> personId]>>,
                   answers, Throw(500)),
          LAMBDA got : Return([license |-> got[1].result, vehicles |-> vehiclesOf(got[2])]))

searchVehicleByParams(b, answers) ==
  AndThen(request("road police", "vehicles", b, answers),
          LAMBDA answer : Return(vehiclesOf(answer)))

KtakStudentsRequestDto(b) == b.pnum # ""

getStudentsDB(env, b, answers) ==
  IF "ktak" \notin env.urls THEN Throw(500)
  ELSE lookup("ktak", "get_student_info/v1", [ssn |-> b.pnum], answers)

\* Mutant of getDisplacementData: a failure of the second query is caught and logged.
getDisplacementDataCatching(pnum, answers) ==
  AndThen(request("artsakh db", "cases", pnum, answers), LAMBDA cases :
    AndThen(AwaitValid([to |-> "artsakh db", operation |-> "certificates", body |-> pnum],
                       answers, 2, Return(Answer(200, "", {}))), LAMBDA certificates :
      Return([cases |-> listIn(cases), certificates |-> listIn(certificates)])))

\* Two queries, one after the other.
getDisplacementData(pnum, answers) ==
  AndThen(request("artsakh db", "cases", pnum, answers), LAMBDA cases :
    AndThen(AwaitValid([to |-> "artsakh db", operation |-> "certificates", body |-> pnum],
                       answers, 2, Throw(500)), LAMBDA certificates :
      Return([cases |-> listIn(cases), certificates |-> listIn(certificates)])))

-----------------------------------------------------------------------------

registerHandler(r, answers) ==
  CASE r.op = "companyObligations" -> getCompanyObligations(r.body, answers)
    [] r.op = "personObligations" -> getPersonObligations(r.env, r.body.ssn, answers)
    [] r.op = "contracts" -> getEmploymentContracts(r.body.ssn, answers)
    [] r.op = "ssnTaxInfo" -> Validated(TaxSsnRequestDto(r.body), getSsnTaxInfo(r.body, answers))
    [] r.op = "taxInfo" -> Validated(GetTaxInfoBySsnDto(r.body), getTaxInfo(r.body, answers))
    [] r.op = "taxInfoByTin" ->
         Validated(GetTaxInfoByTinDto(r.body), getTaxInfoByTin(r.body, answers))
    [] r.op = "tax" -> getTaxBySsnDb(r.body.ssn, answers)
    [] r.op = "wanted" -> searchWantedPersons(r.env, r.body, answers)
    [] r.op = "varchakan" ->
         Validated(PoliceVarchDto(r.body), getPoliceVarch(r.env, r.body, answers))
    [] r.op = "bordercross" -> getBordercrossBySsn(r.body, answers)
    [] r.op = "bordercrossExtended" -> getExtendedBordercrossInfo(r.body, answers)
    [] r.op = "person" -> getPersonBySsn(r.body.ssn, answers)
    [] r.op = "personSearch" -> getSearchedPersons(r.body, answers)
    [] r.op = "legalEntities" -> getLegalEntitiesBySsn(r.body.ssn, answers)
    [] r.op = "company" -> getCompanyByTaxId(r.body.taxId, answers)
    [] r.op = "debtor" -> getDebtorData(r.body, answers)
    [] r.op = "properties" -> getPropertiesBySsn(r.body.ssn, answers)
    [] r.op = "propertyByCertificate" -> getPropertyByCertificate(r.body, answers)
    [] r.op = "licenseAndVehicles" ->
         getPersonDrivingLicenseAndVehicles(r.body.personId, answers)
    [] r.op = "vehicles" -> searchVehicleByParams(r.body, answers)
    [] r.op = "students" ->
         Validated(KtakStudentsRequestDto(r.body), getStudentsDB(r.env, r.body, answers))
    [] r.op = "displacements" -> getDisplacementData(r.body.pnum, answers)
=============================================================================
