---------------------------- MODULE GatewayProofs -----------------------------
(***************************************************************************)
(* Proofs about Gateway, for every set of requests of the routes there are *)
(* and for whatever answers come back.  A handler is an operator of the    *)
(* answers it has; what each of them may do from one await to the next is  *)
(* proved handler by handler (Orderly), and the invariant says that the    *)
(* state of a request is what its handler makes of the answers so far.     *)
(***************************************************************************)
EXTENDS Gateway, TLAPS, SequenceTheorems, WellFoundedInduction

-----------------------------------------------------------------------------
(* What a handler may do from one await to the next. *)

\* An error of those a client is answered with.
Threw(s) == s.kind = "throw" /\ s.status \in {400, 404, 500, 502, 503}

\* A call of a request: records are sent by two operations only.
Fits(r, operation) ==
  operation = "CreateOrUpdateSLTDRecord" => r.service = "wisdm" /\ r.op \in {"create", "update"}

\* One call, and two at once.
Asked(r, s) == \E c : s = Ask(c) /\ Fits(r, c.operation)

AskedBoth(r, s) ==
  \E c, d : s = AskAll(<<c, d>>) /\ Fits(r, c.operation) /\ Fits(r, d.operation)

\* The services that answer over SOAP, and whose replies may say ok.
ofInterpol(r) == r.service \in {"wisdm", "interpol"}

\* An answer the handler goes on from, and a reply that is true to the last answer.
Passed(r, a) ==
  IF ofInterpol(r) THEN a # NoAnswer /\ a.status < 400 ELSE validStatus(a.status)

\* A reply that reports success, and an answer of INTERPOL that does.
saysOk(r, v) == (r.service = "wisdm" /\ v.base.ok) \/ (r.service = "interpol" /\ v.ok)

Confirmed(r, xml) ==
  LET code == textOf(xml.tags, "resultCode")
  IN /\ accepted(xml)
     /\ r.service = "wisdm" /\ r.op \notin schemaOperations => errorless(xml)
     /\ \/ code \in {"0", "NO_ERROR"}
        \/ code \in {"1", "NO_ANSWER"} /\ r.op \in emptyIsAnAnswer
        \/ code \in {NoText, "1", "NO_ANSWER"} /\ r.op \in schemaOperations

\* A reply made of an answer: true to it.
Told(r, s, a) ==
  /\ s.kind = "return"
  /\ IF ofInterpol(r) THEN saysOk(r, s.value) => Confirmed(r, a) ELSE validStatus(a.status)

\* The first step of a handler, the step after one answer, and the last.
Opens(r, s) ==
  Threw(s) \/ (s.kind = "return" /\ ~ofInterpol(r)) \/ Asked(r, s) \/ AskedBoth(r, s)

Continues(r, s, a) == Threw(s) \/ Told(r, s, a) \/ (Passed(r, a) /\ Asked(r, s))

Closes(r, s, a, b) == Threw(s) \/ (Passed(r, a) /\ Told(r, s, b))

\* A handler that makes no call but these, after answers it can go on from, and tells the truth.
Orderly(r) ==
  /\ Opens(r, handler(r, <<>>))
  /\ Asked(r, handler(r, <<>>)) =>
       \A a \in {NoAnswer} \cup AnswersTo(r, 1) :
         /\ Continues(r, handler(r, <<a>>), a)
         /\ Asked(r, handler(r, <<a>>)) =>
              \A b \in {NoAnswer} \cup AnswersTo(r, 2) : Closes(r, handler(r, <<a, b>>), a, b)
  /\ AskedBoth(r, handler(r, <<>>)) =>
       \A a \in {NoAnswer} \cup AnswersTo(r, 1), b \in {NoAnswer} \cup AnswersTo(r, 2) :
         Closes(r, handler(r, <<a, b>>), a, b)

\* The same of the calls whose error statuses are errors.
Settles(s, a) == Threw(s) \/ (validStatus(a.status) /\ s.kind = "return")

SettlesBoth(s, a, b) ==
  Threw(s) \/ (validStatus(a.status) /\ validStatus(b.status) /\ s.kind = "return")

\* Each kind of step is known by its name and carries what it was made of.
LEMMA StepKinds ==
  /\ \A c : Ask(c).kind = "ask" /\ Ask(c).calls = <<c>>
  /\ \A l : AskAll(l).kind = "ask" /\ AskAll(l).calls = l
  /\ \A v : Return(v).kind = "return" /\ Return(v).value = v
  /\ \A n : Throw(n).kind = "throw" /\ Throw(n).status = n
  BY DEF Ask, AskAll, Return, Throw

\* Asking for a call that fits is a step that asks.
LEMMA FitCall ==
  ASSUME NEW r, NEW to, NEW operation, NEW body, Fits(r, operation)
  PROVE  Asked(r, Ask([to |-> to, operation |-> operation, body |-> body]))
  BY DEF Asked

\* An await of the n-th call asks it, hands on an answer of success, or fails.
LEMMA Awaits ==
  /\ \A c, f : AwaitValid(c, <<>>, 1, f) = Ask(c)
  /\ \A c, f, a : AwaitValid(c, <<a>>, 1, f) = IF validStatus(a.status) THEN Return(a) ELSE f
  /\ \A c, f, a, b : AwaitValid(c, <<a, b>>, 1, f) = IF validStatus(a.status) THEN Return(a) ELSE f
  /\ \A c, f, a : AwaitValid(c, <<a>>, 2, f) = Ask(c)
  /\ \A c, f, a, b : AwaitValid(c, <<a, b>>, 2, f) = IF validStatus(b.status) THEN Return(b) ELSE f
  <1>1. \A a : a = NoAnswer => ~validStatus(a.status)
    BY DEF NoAnswer, validStatus
  <1>2. \A c, f, a : AwaitValid(c, <<a>>, 1, f) = IF validStatus(a.status) THEN Return(a) ELSE f
    BY <1>1 DEF AwaitValid, Await
  <1>3. \A c, f, a, b :
          AwaitValid(c, <<a, b>>, 1, f) = IF validStatus(a.status) THEN Return(a) ELSE f
    BY <1>1 DEF AwaitValid, Await
  <1>4. \A c, f, a, b :
          AwaitValid(c, <<a, b>>, 2, f) = IF validStatus(b.status) THEN Return(b) ELSE f
    BY <1>1 DEF AwaitValid, Await
  <1>5. \A c, f : AwaitValid(c, <<>>, 1, f) = Ask(c)
    BY DEF AwaitValid, Await
  <1>6. \A c, f, a : AwaitValid(c, <<a>>, 2, f) = Ask(c)
    BY DEF AwaitValid, Await
  <1> QED BY <1>2, <1>3, <1>4, <1>5, <1>6

\* The call of a register: an error status of its answer becomes an error 500.
LEMMA Requested ==
  /\ \A r, to, operation, body :
       /\ request(to, operation, body, <<>>).kind = "ask"
       /\ Fits(r, operation) => Asked(r, request(to, operation, body, <<>>))
  /\ \A to, operation, body, a :
       request(to, operation, body, <<a>>) = IF validStatus(a.status) THEN Return(a) ELSE Throw(500)
  /\ \A to, operation, body, a, b :
       request(to, operation, body, <<a, b>>) = IF validStatus(a.status) THEN Return(a) ELSE Throw(500)
  BY Awaits, StepKinds, FitCall DEF request

\* A register that is asked once and whose answer is told as it came.
LEMMA Lookups ==
  /\ \A r, to, operation, body :
       Fits(r, operation) => Asked(r, lookup(to, operation, body, <<>>))
  /\ \A to, operation, body, a : Settles(lookup(to, operation, body, <<a>>), a)
  BY Requested, StepKinds DEF lookup, AndThen, Settles, Threw

\* An answer that is mapped without a condition: told if it came, an error if not.
LEMMA HandedOn ==
  \A to, operation, body, a, v :
    Settles(IF request(to, operation, body, <<a>>).kind = "return" THEN Return(v)
            ELSE request(to, operation, body, <<a>>), a)
  BY Requested, StepKinds DEF Settles, Threw

\* Whatever is made of the answer, the call comes first.
LEMMA AskedFirst ==
  \A r, to, operation, body, v :
    Fits(r, operation) =>
      Asked(r, IF request(to, operation, body, <<>>).kind = "return" THEN v
               ELSE request(to, operation, body, <<>>))
  BY Requested, StepKinds

\* The registers whose routes reject nothing: one call, told only when it went well.
LEMMA SingleLookups ==
  ASSUME NEW r, r.service = "register", NEW b
  PROVE
    /\ Asked(r, getCompanyObligations(b, <<>>)) /\ \A a : Settles(getCompanyObligations(b, <<a>>), a)
    /\ Asked(r, getEmploymentContracts(b, <<>>)) /\ \A a : Settles(getEmploymentContracts(b, <<a>>), a)
    /\ Asked(r, getSsnTaxInfo(b, <<>>)) /\ \A a : Settles(getSsnTaxInfo(b, <<a>>), a)
    /\ Asked(r, getTaxInfo(b, <<>>)) /\ \A a : Settles(getTaxInfo(b, <<a>>), a)
    /\ Asked(r, getTaxInfoByTin(b, <<>>)) /\ \A a : Settles(getTaxInfoByTin(b, <<a>>), a)
    /\ Asked(r, getTaxBySsnDb(b, <<>>)) /\ \A a : Settles(getTaxBySsnDb(b, <<a>>), a)
    /\ Asked(r, getPersonBySsn(b, <<>>)) /\ \A a : Settles(getPersonBySsn(b, <<a>>), a)
    /\ Asked(r, getSearchedPersons(b, <<>>)) /\ \A a : Settles(getSearchedPersons(b, <<a>>), a)
    /\ Asked(r, getCompanyByTaxId(b, <<>>)) /\ \A a : Settles(getCompanyByTaxId(b, <<a>>), a)
    /\ Asked(r, getDebtorData(b, <<>>)) /\ \A a : Settles(getDebtorData(b, <<a>>), a)
    /\ Asked(r, getPropertiesBySsn(b, <<>>)) /\ \A a : Settles(getPropertiesBySsn(b, <<a>>), a)
    /\ Asked(r, getPropertyByCertificate(b, <<>>)) /\ \A a : Settles(getPropertyByCertificate(b, <<a>>), a)
    /\ Asked(r, searchVehicleByParams(b, <<>>)) /\ \A a : Settles(searchVehicleByParams(b, <<a>>), a)
  <1>1. Asked(r, getCompanyObligations(b, <<>>)) /\ \A a : Settles(getCompanyObligations(b, <<a>>), a)
    <2>1. Fits(r, "/tin_info_obligation/v1")
      BY DEF Fits
    <2>2. Asked(r, getCompanyObligations(b, <<>>))
      BY <2>1, AskedFirst, Zenon DEF getCompanyObligations, AndThen
    <2>3. \A a : Settles(getCompanyObligations(b, <<a>>), a)
      BY HandedOn, Zenon DEF getCompanyObligations, AndThen
    <2> QED BY <2>2, <2>3
  <1>2. Asked(r, getEmploymentContracts(b, <<>>)) /\ \A a : Settles(getEmploymentContracts(b, <<a>>), a)
    <2>1. Fits(r, "/employment_contract/v1")
      BY DEF Fits
    <2> QED BY <2>1, Lookups DEF getEmploymentContracts
  <1>3. Asked(r, getSsnTaxInfo(b, <<>>)) /\ \A a : Settles(getSsnTaxInfo(b, <<a>>), a)
    <2>1. Fits(r, "/ssn/v1")
      BY DEF Fits
    <2> QED BY <2>1, Lookups DEF getSsnTaxInfo
  <1>4. Asked(r, getTaxInfo(b, <<>>)) /\ \A a : Settles(getTaxInfo(b, <<a>>), a)
    <2>1. Fits(r, "/get_tax_info/v1")
      BY DEF Fits
    <2>2. Asked(r, getTaxInfo(b, <<>>))
      BY <2>1, AskedFirst, Zenon DEF getTaxInfo, AndThen
    <2>3. \A a : Settles(getTaxInfo(b, <<a>>), a)
      BY HandedOn, Zenon DEF getTaxInfo, AndThen
    <2> QED BY <2>2, <2>3
  <1>5. Asked(r, getTaxInfoByTin(b, <<>>)) /\ \A a : Settles(getTaxInfoByTin(b, <<a>>), a)
    <2>1. Fits(r, "/get_info_tin/v1")
      BY DEF Fits
    <2> QED BY <2>1, Lookups DEF getTaxInfoByTin
  <1>6. Asked(r, getTaxBySsnDb(b, <<>>)) /\ \A a : Settles(getTaxBySsnDb(b, <<a>>), a)
    <2>1. Fits(r, "POST")
      BY DEF Fits
    <2>2. Asked(r, getTaxBySsnDb(b, <<>>))
      BY <2>1, AskedFirst, Zenon DEF getTaxBySsnDb, AndThen
    <2>3. \A a : Settles(getTaxBySsnDb(b, <<a>>), a)
      BY HandedOn, Zenon DEF getTaxBySsnDb, AndThen
    <2> QED BY <2>2, <2>3
  <1>7. Asked(r, getPersonBySsn(b, <<>>)) /\ \A a : Settles(getPersonBySsn(b, <<a>>), a)
    <2>1. Fits(r, "person")
      BY DEF Fits
    <2>2. Asked(r, getPersonBySsn(b, <<>>))
      BY <2>1, AskedFirst, Zenon DEF getPersonBySsn, AndThen
    <2>3. \A a : Settles(getPersonBySsn(b, <<a>>), a)
      BY HandedOn, Zenon DEF getPersonBySsn, AndThen
    <2> QED BY <2>2, <2>3
  <1>8. Asked(r, getSearchedPersons(b, <<>>)) /\ \A a : Settles(getSearchedPersons(b, <<a>>), a)
    <2>1. Fits(r, "search")
      BY DEF Fits
    <2>2. Asked(r, getSearchedPersons(b, <<>>))
      BY <2>1, AskedFirst, Zenon DEF getSearchedPersons, AndThen
    <2>3. \A a : Settles(getSearchedPersons(b, <<a>>), a)
      BY HandedOn, Zenon DEF getSearchedPersons, AndThen
    <2> QED BY <2>2, <2>3
  <1>9. Asked(r, getCompanyByTaxId(b, <<>>)) /\ \A a : Settles(getCompanyByTaxId(b, <<a>>), a)
    <2>1. Fits(r, "company_info")
      BY DEF Fits
    <2>2. Asked(r, getCompanyByTaxId(b, <<>>))
      BY <2>1, AskedFirst, Zenon DEF getCompanyByTaxId, AndThen
    <2>3. \A a : Settles(getCompanyByTaxId(b, <<a>>), a)
      BY HandedOn, Zenon DEF getCompanyByTaxId, AndThen
    <2> QED BY <2>2, <2>3
  <1>10. Asked(r, getDebtorData(b, <<>>)) /\ \A a : Settles(getDebtorData(b, <<a>>), a)
    <2>1. Fits(r, "/get_debtor_info/v1")
      BY DEF Fits
    <2>2. Asked(r, getDebtorData(b, <<>>))
      BY <2>1, AskedFirst, Zenon DEF getDebtorData, AndThen
    <2>3. \A a : Settles(getDebtorData(b, <<a>>), a)
      BY HandedOn, Zenon DEF getDebtorData, AndThen
    <2> QED BY <2>2, <2>3
  <1>11. Asked(r, getPropertiesBySsn(b, <<>>)) /\ \A a : Settles(getPropertiesBySsn(b, <<a>>), a)
    <2>1. Fits(r, "/get_realty_owned/v1")
      BY DEF Fits
    <2> QED BY <2>1, Lookups DEF getPropertiesBySsn
  <1>12. Asked(r, getPropertyByCertificate(b, <<>>)) /\ \A a : Settles(getPropertyByCertificate(b, <<a>>), a)
    <2>1. Fits(r, "/get_realty_gip/v1")
      BY DEF Fits
    <2> QED BY <2>1, Lookups DEF getPropertyByCertificate
  <1>13. Asked(r, searchVehicleByParams(b, <<>>)) /\ \A a : Settles(searchVehicleByParams(b, <<a>>), a)
    <2>1. Fits(r, "vehicles")
      BY DEF Fits
    <2>2. Asked(r, searchVehicleByParams(b, <<>>))
      BY <2>1, AskedFirst, Zenon DEF searchVehicleByParams, AndThen
    <2>3. \A a : Settles(searchVehicleByParams(b, <<a>>), a)
      BY HandedOn, Zenon DEF searchVehicleByParams, AndThen
    <2> QED BY <2>2, <2>3
  <1> QED BY <1>1, <1>2, <1>3, <1>4, <1>5, <1>6, <1>7, <1>8, <1>9, <1>10, <1>11, <1>12, <1>13

\* The registers whose routes may reject what they are asked, with one call at most.
LEMMA OtherLookups ==
  ASSUME NEW r, r.service = "register", NEW b
  PROVE
    /\ \/ Threw(getPersonObligations(r.env, b, <<>>))
       \/ /\ Asked(r, getPersonObligations(r.env, b, <<>>))
          /\ \A a : Settles(getPersonObligations(r.env, b, <<a>>), a)
    /\ \/ Threw(searchWantedPersons(r.env, b, <<>>))
       \/ /\ Asked(r, searchWantedPersons(r.env, b, <<>>))
          /\ \A a : Settles(searchWantedPersons(r.env, b, <<a>>), a)
    /\ \/ Threw(getPoliceVarch(r.env, b, <<>>))
       \/ /\ Asked(r, getPoliceVarch(r.env, b, <<>>))
          /\ \A a : Settles(getPoliceVarch(r.env, b, <<a>>), a)
    /\ \/ Threw(getStudentsDB(r.env, b, <<>>))
       \/ /\ Asked(r, getStudentsDB(r.env, b, <<>>))
          /\ \A a : Settles(getStudentsDB(r.env, b, <<a>>), a)
    /\ \/ Threw(getBordercrossBySsn(b, <<>>))
       \/ /\ Asked(r, getBordercrossBySsn(b, <<>>))
          /\ \A a : Settles(getBordercrossBySsn(b, <<a>>), a)
    /\ \/ Threw(getExtendedBordercrossInfo(b, <<>>))
       \/ /\ Asked(r, getExtendedBordercrossInfo(b, <<>>))
          /\ \A a : Settles(getExtendedBordercrossInfo(b, <<a>>), a)
    /\ Asked(r, getLegalEntitiesBySsn(b, <<>>))
    /\ \A a : Settles(getLegalEntitiesBySsn(b, <<a>>), a)
  <1>0. \A n \in {400, 500} : Threw(Throw(n))
    BY StepKinds DEF Threw
  <1>1. \/ Threw(getPersonObligations(r.env, b, <<>>))
        \/ /\ Asked(r, getPersonObligations(r.env, b, <<>>))
           /\ \A a : Settles(getPersonObligations(r.env, b, <<a>>), a)
    <2>1. CASE "person obligations" \notin r.env.urls
      BY ZenonT(60), <1>0, <2>1 DEF getPersonObligations
    <2>2. CASE "person obligations" \in r.env.urls
      <3>1. Fits(r, "GetTaxpayerDepts")
        BY <2>2 DEF Fits
      <3> QED BY <2>2, <3>1, Lookups DEF getPersonObligations
    <2> QED BY <2>1, <2>2
  <1>2. \/ Threw(searchWantedPersons(r.env, b, <<>>))
        \/ /\ Asked(r, searchWantedPersons(r.env, b, <<>>))
           /\ \A a : Settles(searchWantedPersons(r.env, b, <<a>>), a)
    <2> DEFINE unknown == \A f \in {"SSN", "first_name", "last_name", "BDATE"} : wantedPerson(b)[f] = ""
    <2>1. CASE "investigative committee" \notin r.env.urls
      BY ZenonT(60), <1>0, <2>1 DEF searchWantedPersons
    <2>2. CASE "investigative committee" \in r.env.urls /\ unknown
      BY ZenonT(60), <1>0, <2>2 DEF searchWantedPersons
    <2>3. CASE "investigative committee" \in r.env.urls /\ ~unknown
      <3>1. Fits(r, "wanted")
        BY <2>3 DEF Fits
      <3>2. \A got : searchWantedPersons(r.env, b, got)
                     = lookup("investigative committee", "wanted", wantedPerson(b), got)
        BY <2>3 DEF searchWantedPersons
      <3> QED BY <3>1, <3>2, Lookups
    <2> QED BY <2>1, <2>2, <2>3
  <1>3. \/ Threw(getPoliceVarch(r.env, b, <<>>))
        \/ /\ Asked(r, getPoliceVarch(r.env, b, <<>>))
           /\ \A a : Settles(getPoliceVarch(r.env, b, <<a>>), a)
    <2>1. CASE "investigative committee" \notin r.env.urls
      BY ZenonT(60), <1>0, <2>1 DEF getPoliceVarch
    <2>2. CASE "investigative committee" \in r.env.urls
      <3> DEFINE body == [SSN |-> b.ssn, first_name |-> b.firstName, last_name |-> b.lastName,
                          BDATE |-> b.birthDate, Passport |-> b.passport]
                 q(got) == request("investigative committee", "varchakan", body, got)
      <3>1. Fits(r, "varchakan")
        BY <2>2 DEF Fits
      <3>2. \A got : getPoliceVarch(r.env, b, got) =
              IF q(got).kind = "return" THEN Return(foundIn(q(got).value)) ELSE q(got)
        BY <2>2 DEF getPoliceVarch, AndThen
      <3> HIDE DEF body
      <3> QED BY <3>1, <3>2, AskedFirst, HandedOn
    <2> QED BY <2>1, <2>2
  <1>4. \/ Threw(getStudentsDB(r.env, b, <<>>))
        \/ /\ Asked(r, getStudentsDB(r.env, b, <<>>))
           /\ \A a : Settles(getStudentsDB(r.env, b, <<a>>), a)
    <2>1. CASE "ktak" \notin r.env.urls
      BY <1>0, <2>1 DEF getStudentsDB
    <2>2. CASE "ktak" \in r.env.urls
      <3>1. Fits(r, "get_student_info/v1")
        BY <2>2 DEF Fits
      <3> QED BY <2>2, <3>1, Lookups DEF getStudentsDB
    <2> QED BY <2>1, <2>2
  <1>5. ASSUME NEW to, Fits(r, "bordercross"), NEW lists
        PROVE  \/ Threw(borderCross(to, lists, b, <<>>))
               \/ /\ Asked(r, borderCross(to, lists, b, <<>>))
                  /\ \A a : Settles(borderCross(to, lists, b, <<a>>), a)
    <2>1. CASE b.passportNumber = "" \/ b.citizenship = ""
      BY ZenonT(60), <1>0, <2>1 DEF borderCross
    <2>2. CASE ~(b.passportNumber = "" \/ b.citizenship = "")
      <3>2. \A got : borderCross(to, lists, b, got) =
              IF request(to, "bordercross", b, got).kind = "return"
              THEN Return(listsIn(request(to, "bordercross", b, got).value, lists))
              ELSE request(to, "bordercross", b, got)
        BY <2>2 DEF borderCross, AndThen
      <3> QED BY <1>5, <3>2, AskedFirst, HandedOn
    <2> QED BY <2>1, <2>2
  <1>6. Fits(r, "bordercross") /\ Fits(r, "bordercross")
    BY DEF Fits
  <1>7. \/ Threw(getBordercrossBySsn(b, <<>>))
        \/ /\ Asked(r, getBordercrossBySsn(b, <<>>))
           /\ \A a : Settles(getBordercrossBySsn(b, <<a>>), a)
    BY <1>5, <1>6 DEF getBordercrossBySsn
  <1>8. \/ Threw(getExtendedBordercrossInfo(b, <<>>))
        \/ /\ Asked(r, getExtendedBordercrossInfo(b, <<>>))
           /\ \A a : Settles(getExtendedBordercrossInfo(b, <<a>>), a)
    BY <1>5, <1>6 DEF getExtendedBordercrossInfo
  <1>9. /\ Asked(r, getLegalEntitiesBySsn(b, <<>>))
        /\ \A a : Settles(getLegalEntitiesBySsn(b, <<a>>), a)
    <2> DEFINE q(got) == request("ekeng", "person_info", [ssn |-> b], got)
               e(got) == executeJsonRpcRequest("person_info", [ssn |-> b], got)
    <2>1. Fits(r, "person_info")
      BY DEF Fits
    <2>2. \A got : e(got) = IF q(got).kind = "return" THEN Return(resultIn(q(got).value)) ELSE q(got)
      BY DEF executeJsonRpcRequest, AndThen
    <2>3. \A got : getLegalEntitiesBySsn(b, got) =
                     IF e(got).kind = "return" THEN Return(companiesOf(e(got).value)) ELSE e(got)
      BY DEF getLegalEntitiesBySsn, AndThen
    <2>4. Asked(r, q(<<>>)) /\ q(<<>>).kind = "ask"
      BY <2>1, Requested
    <2>5. \A a : q(<<a>>) = IF validStatus(a.status) THEN Return(a) ELSE Throw(500)
      BY ZenonT(60), Requested
    <2> HIDE DEF e, q
    <2>6. Asked(r, getLegalEntitiesBySsn(b, <<>>))
      BY <2>2, <2>3, <2>4
    <2>7. ASSUME NEW a PROVE Settles(getLegalEntitiesBySsn(b, <<a>>), a)
      <3>1. CASE validStatus(a.status)
        BY <2>2, <2>3, <2>5, <3>1, StepKinds DEF Settles
      <3>2. CASE ~validStatus(a.status)
        BY <1>0, <2>2, <2>3, <2>5, <3>2, StepKinds DEF Settles
      <3> QED BY <3>1, <3>2
    <2> QED BY <2>6, <2>7
  <1> QED BY <1>1, <1>2, <1>3, <1>4, <1>7, <1>8, <1>9

\* Road police makes its two calls at once, displacement data one after the other.
LEMMA TwoCallLookups ==
  ASSUME NEW r, r.service = "register", NEW b
  PROVE
    /\ AskedBoth(r, getPersonDrivingLicenseAndVehicles(b, <<>>))
    /\ \A a, c : SettlesBoth(getPersonDrivingLicenseAndVehicles(b, <<a, c>>), a, c)
    /\ Asked(r, getDisplacementData(b, <<>>))
    /\ \A a : \/ Threw(getDisplacementData(b, <<a>>))
              \/ validStatus(a.status) /\ Asked(r, getDisplacementData(b, <<a>>))
    /\ \A a, c : SettlesBoth(getDisplacementData(b, <<a, c>>), a, c)
  <1>1. /\ AskedBoth(r, getPersonDrivingLicenseAndVehicles(b, <<>>))
        /\ \A a, c : SettlesBoth(getPersonDrivingLicenseAndVehicles(b, <<a, c>>), a, c)
    <2> DEFINE license == [to |-> "road police", operation |-> "licenses", body |-> b]
               vehicles == [to |-> "road police", operation |-> "vehicles", body |-> b]
               q(got) == AwaitAll(<<license, vehicles>>, got, Throw(500))
               v(l) == Return([license |-> l[1].result, vehicles |-> vehiclesOf(l[2])])
    <2>1. Fits(r, license.operation) /\ Fits(r, vehicles.operation)
      BY DEF Fits
    <2>2. \A got : getPersonDrivingLicenseAndVehicles(b, got) =
            IF q(got).kind = "return" THEN v(q(got).value) ELSE q(got)
      BY DEF getPersonDrivingLicenseAndVehicles, AndThen
    <2> HIDE DEF license, vehicles
    <2>3. q(<<>>) = AskAll(<<license, vehicles>>)
      BY DEF AwaitAll
    <2>4. \A a, c : q(<<a, c>>) = IF validStatus(a.status) /\ validStatus(c.status)
                                 THEN Return(<<a, c>>) ELSE Throw(500)
      BY DEF AwaitAll
    <2>8. \A l : v(l).kind = "return"
      BY StepKinds
    <2> HIDE DEF q, v
    <2>7. getPersonDrivingLicenseAndVehicles(b, <<>>) = AskAll(<<license, vehicles>>)
      BY <2>2, <2>3, StepKinds
    <2>5. AskedBoth(r, getPersonDrivingLicenseAndVehicles(b, <<>>))
      BY <2>1, <2>7 DEF AskedBoth
    <2>6. ASSUME NEW a, NEW c PROVE SettlesBoth(getPersonDrivingLicenseAndVehicles(b, <<a, c>>), a, c)
      <3>1. CASE validStatus(a.status) /\ validStatus(c.status)
        BY <2>2, <2>4, <2>8, <3>1, StepKinds DEF SettlesBoth
      <3>2. CASE ~(validStatus(a.status) /\ validStatus(c.status))
        BY <2>2, <2>4, <3>2, StepKinds DEF SettlesBoth, Threw
      <3> QED BY <3>1, <3>2
    <2> QED BY <2>5, <2>6
  <1>2. /\ Asked(r, getDisplacementData(b, <<>>))
        /\ \A a : \/ Threw(getDisplacementData(b, <<a>>))
                  \/ validStatus(a.status) /\ Asked(r, getDisplacementData(b, <<a>>))
        /\ \A a, c : SettlesBoth(getDisplacementData(b, <<a, c>>), a, c)
    <2> DEFINE q(got) == request("artsakh db", "cases", b, got)
               call2 == [to |-> "artsakh db", operation |-> "certificates", body |-> b]
               p(got) == AwaitValid(call2, got, 2, Throw(500))
               both2(x, y) == Return([cases |-> listIn(x), certificates |-> listIn(y)])
    <2>1. Fits(r, "cases") /\ Fits(r, call2.operation)
      BY DEF Fits
    <2>2. \A got : getDisplacementData(b, got) =
            IF q(got).kind = "return"
            THEN IF p(got).kind = "return" THEN both2(q(got).value, p(got).value) ELSE p(got)
            ELSE q(got)
      BY DEF getDisplacementData, AndThen
    <2>3. Asked(r, q(<<>>)) /\ q(<<>>).kind = "ask"
      BY ZenonT(60), <2>1, Requested
    <2>4. /\ \A a : q(<<a>>) = IF validStatus(a.status) THEN Return(a) ELSE Throw(500)
          /\ \A a, c : q(<<a, c>>) = IF validStatus(a.status) THEN Return(a) ELSE Throw(500)
      BY ZenonT(60), Requested
    <2> HIDE DEF call2
    <2>5. /\ \A a : p(<<a>>) = Ask(call2)
          /\ \A a, c : p(<<a, c>>) = IF validStatus(c.status) THEN Return(c) ELSE Throw(500)
      BY Awaits
    <2>6. \A x, y : both2(x, y).kind = "return"
      BY StepKinds
    <2> HIDE DEF q, p, both2
    <2>7. Asked(r, getDisplacementData(b, <<>>))
      BY <2>2, <2>3
    <2>8. Threw(Throw(500))
      BY StepKinds DEF Threw
    <2>9. ASSUME NEW a PROVE  \/ Threw(getDisplacementData(b, <<a>>))
                              \/ validStatus(a.status) /\ Asked(r, getDisplacementData(b, <<a>>))
      <3>1. CASE validStatus(a.status)
        <4>1. getDisplacementData(b, <<a>>) = Ask(call2)
          BY <2>2, <2>4, <2>5, <3>1, StepKinds
        <4>2. Asked(r, Ask(call2))
          BY <2>1, Zenon DEF Asked
        <4> QED BY <3>1, <4>1, <4>2
      <3>2. CASE ~validStatus(a.status)
        BY <2>2, <2>4, <2>8, <3>2, StepKinds
      <3> QED BY <3>1, <3>2
    <2>10. ASSUME NEW a, NEW c PROVE SettlesBoth(getDisplacementData(b, <<a, c>>), a, c)
      <3>1. CASE ~validStatus(a.status)
        BY <2>2, <2>4, <2>8, <3>1, StepKinds DEF SettlesBoth
      <3>2. CASE validStatus(a.status) /\ ~validStatus(c.status)
        BY <2>2, <2>4, <2>5, <2>8, <3>2, StepKinds DEF SettlesBoth
      <3>3. CASE validStatus(a.status) /\ validStatus(c.status)
        BY <2>2, <2>4, <2>5, <2>6, <3>3, StepKinds DEF SettlesBoth
      <3> QED BY <3>1, <3>2, <3>3
    <2> QED BY <2>7, <2>9, <2>10
  <1> QED BY <1>1, <1>2

\* A handler throws, returns, asks one call or asks two: no step is two of these.
LEMMA StepsDiffer ==
  ASSUME NEW r
  PROVE  /\ \A s : Threw(s) => ~Asked(r, s) /\ ~AskedBoth(r, s)
         /\ \A s : s.kind = "return" => ~Asked(r, s) /\ ~AskedBoth(r, s)
         /\ \A s : Asked(r, s) => ~AskedBoth(r, s)
  <1>1. \A s : Asked(r, s) => s.kind = "ask" /\ Len(s.calls) = 1
    BY SMTT(60), StepKinds DEF Asked
  <1>2. \A s : AskedBoth(r, s) => s.kind = "ask" /\ Len(s.calls) = 2
    BY StepKinds DEF AskedBoth
  <1> QED BY <1>1, <1>2 DEF Threw

\* A handler of one call is orderly.
LEMMA OneCall ==
  ASSUME NEW r, ~ofInterpol(r),
         \/ Threw(handler(r, <<>>))
         \/ Asked(r, handler(r, <<>>)) /\ \A a : Settles(handler(r, <<a>>), a)
  PROVE  Orderly(r)
  BY StepsDiffer DEF Orderly, Opens, Continues, Settles, Told

\* A handler of two calls at once is orderly.
LEMMA BothCalls ==
  ASSUME NEW r, ~ofInterpol(r), AskedBoth(r, handler(r, <<>>)),
         \A a, b : SettlesBoth(handler(r, <<a, b>>), a, b)
  PROVE  Orderly(r)
  BY StepsDiffer DEF Orderly, Opens, Closes, SettlesBoth, Passed, Told

\* A handler that always goes on from a first call to a second is orderly.
LEMMA TwoCalls ==
  ASSUME NEW r, ~ofInterpol(r), Asked(r, handler(r, <<>>)),
         \A a : \/ Threw(handler(r, <<a>>))
                \/ validStatus(a.status) /\ Asked(r, handler(r, <<a>>)),
         \A a, b : SettlesBoth(handler(r, <<a, b>>), a, b)
  PROVE  Orderly(r)
  BY StepsDiffer DEF Orderly, Opens, Continues, Closes, SettlesBoth, Passed, Told

\* Every register route is orderly.
LEMMA RegistersAreOrderly ==
  ASSUME NEW r \in Requests, r.service = "register"
  PROVE  Orderly(r)
  <1>0. ~ofInterpol(r)
    BY DEF ofInterpol
  <1>1. CASE r.op = "companyObligations"
    <2>1. \A got : handler(r, got) = getCompanyObligations(r.body, got)
      BY <1>1 DEF handler, registerHandler
    <2> QED BY <2>1, SingleLookups, <1>0, OneCall
  <1>2. CASE r.op = "personObligations"
    <2>1. \A got : handler(r, got) = getPersonObligations(r.env, r.body.ssn, got)
      BY <1>2 DEF handler, registerHandler
    <2> QED BY <2>1, OtherLookups, <1>0, OneCall
  <1>3. CASE r.op = "contracts"
    <2>1. \A got : handler(r, got) = getEmploymentContracts(r.body.ssn, got)
      BY <1>3 DEF handler, registerHandler
    <2> QED BY <2>1, SingleLookups, <1>0, OneCall
  <1>4. CASE r.op = "ssnTaxInfo"
    <2>1. \A got : handler(r, got) = Validated(TaxSsnRequestDto(r.body), getSsnTaxInfo(r.body, got))
      BY <1>4 DEF handler, registerHandler
    <2> QED BY <2>1, SingleLookups, <1>0, OneCall, StepKinds DEF Validated, Threw
  <1>5. CASE r.op = "taxInfo"
    <2>1. \A got : handler(r, got) = Validated(GetTaxInfoBySsnDto(r.body), getTaxInfo(r.body, got))
      BY <1>5 DEF handler, registerHandler
    <2> QED BY <2>1, SingleLookups, <1>0, OneCall, StepKinds DEF Validated, Threw
  <1>6. CASE r.op = "taxInfoByTin"
    <2>1. \A got : handler(r, got) = Validated(GetTaxInfoByTinDto(r.body), getTaxInfoByTin(r.body, got))
      BY <1>6 DEF handler, registerHandler
    <2> QED BY <2>1, SingleLookups, <1>0, OneCall, StepKinds DEF Validated, Threw
  <1>7. CASE r.op = "tax"
    <2>1. \A got : handler(r, got) = getTaxBySsnDb(r.body.ssn, got)
      BY <1>7 DEF handler, registerHandler
    <2> QED BY <2>1, SingleLookups, <1>0, OneCall
  <1>8. CASE r.op = "wanted"
    <2>1. \A got : handler(r, got) = searchWantedPersons(r.env, r.body, got)
      BY <1>8 DEF handler, registerHandler
    <2> QED BY <2>1, OtherLookups, <1>0, OneCall
  <1>9. CASE r.op = "varchakan"
    <2>1. \A got : handler(r, got) = Validated(PoliceVarchDto(r.body), getPoliceVarch(r.env, r.body, got))
      BY <1>9 DEF handler, registerHandler
    <2>2. CASE PoliceVarchDto(r.body)
      <3>1. \A got : handler(r, got) = getPoliceVarch(r.env, r.body, got)
        BY <2>1, <2>2 DEF Validated
      <3> QED BY <3>1, OtherLookups, <1>0, OneCall
    <2>3. CASE ~PoliceVarchDto(r.body)
      <3>1. handler(r, <<>>) = Throw(400)
        BY <2>1, <2>3 DEF Validated
      <3> QED BY <3>1, <1>0, OneCall, StepKinds DEF Threw
    <2> QED BY <2>2, <2>3
  <1>10. CASE r.op = "bordercross"
    <2>1. \A got : handler(r, got) = getBordercrossBySsn(r.body, got)
      BY <1>10 DEF handler, registerHandler
    <2> QED BY <2>1, OtherLookups, <1>0, OneCall
  <1>11. CASE r.op = "bordercrossExtended"
    <2>1. \A got : handler(r, got) = getExtendedBordercrossInfo(r.body, got)
      BY <1>11 DEF handler, registerHandler
    <2> QED BY <2>1, OtherLookups, <1>0, OneCall
  <1>12. CASE r.op = "person"
    <2>1. \A got : handler(r, got) = getPersonBySsn(r.body.ssn, got)
      BY <1>12 DEF handler, registerHandler
    <2> QED BY <2>1, SingleLookups, <1>0, OneCall
  <1>13. CASE r.op = "personSearch"
    <2>1. \A got : handler(r, got) = getSearchedPersons(r.body, got)
      BY <1>13 DEF handler, registerHandler
    <2> QED BY <2>1, SingleLookups, <1>0, OneCall
  <1>14. CASE r.op = "legalEntities"
    <2>1. \A got : handler(r, got) = getLegalEntitiesBySsn(r.body.ssn, got)
      BY <1>14 DEF handler, registerHandler
    <2> QED BY <2>1, OtherLookups, <1>0, OneCall
  <1>15. CASE r.op = "company"
    <2>1. \A got : handler(r, got) = getCompanyByTaxId(r.body.taxId, got)
      BY <1>15 DEF handler, registerHandler
    <2> QED BY <2>1, SingleLookups, <1>0, OneCall
  <1>16. CASE r.op = "debtor"
    <2>1. \A got : handler(r, got) = getDebtorData(r.body, got)
      BY <1>16 DEF handler, registerHandler
    <2> QED BY <2>1, SingleLookups, <1>0, OneCall
  <1>17. CASE r.op = "properties"
    <2>1. \A got : handler(r, got) = getPropertiesBySsn(r.body.ssn, got)
      BY <1>17 DEF handler, registerHandler
    <2> QED BY <2>1, SingleLookups, <1>0, OneCall
  <1>18. CASE r.op = "propertyByCertificate"
    <2>1. \A got : handler(r, got) = getPropertyByCertificate(r.body, got)
      BY <1>18 DEF handler, registerHandler
    <2> QED BY <2>1, SingleLookups, <1>0, OneCall
  <1>19. CASE r.op = "vehicles"
    <2>1. \A got : handler(r, got) = searchVehicleByParams(r.body, got)
      BY <1>19 DEF handler, registerHandler
    <2> QED BY <2>1, SingleLookups, <1>0, OneCall
  <1>20. CASE r.op = "students"
    <2>1. \A got : handler(r, got) = Validated(KtakStudentsRequestDto(r.body), getStudentsDB(r.env, r.body, got))
      BY <1>20 DEF handler, registerHandler
    <2>2. CASE KtakStudentsRequestDto(r.body)
      <3>1. \A got : handler(r, got) = getStudentsDB(r.env, r.body, got)
        BY <2>1, <2>2 DEF Validated
      <3> QED BY <3>1, OtherLookups, <1>0, OneCall
    <2>3. CASE ~KtakStudentsRequestDto(r.body)
      <3>1. handler(r, <<>>) = Throw(400)
        BY <2>1, <2>3 DEF Validated
      <3> QED BY <3>1, <1>0, OneCall, StepKinds DEF Threw
    <2> QED BY <2>2, <2>3
  <1>21. CASE r.op = "licenseAndVehicles"
    <2>1. \A got : handler(r, got) = getPersonDrivingLicenseAndVehicles(r.body.personId, got)
      BY <1>21 DEF handler, registerHandler
    <2> QED BY <2>1, TwoCallLookups, <1>0, BothCalls
  <1>22. CASE r.op = "displacements"
    <2>1. \A got : handler(r, got) = getDisplacementData(r.body.pnum, got)
      BY <1>22 DEF handler, registerHandler
    <2> QED BY <2>1, TwoCallLookups, <1>0, TwoCalls
  <1> QED BY <1>1, <1>2, <1>3, <1>4, <1>5, <1>6, <1>7, <1>8, <1>9, <1>10, <1>11, <1>12, <1>13, <1>14, <1>15, <1>16, <1>17, <1>18, <1>19, <1>20, <1>21, <1>22, RequestsAssumption

\* The second call of a search is about the persons its first has found; their details
\* are told as the filter leaves them.
AskForDetails(a) ==
  Ask([to |-> "mcs", operation |-> "by-ssn-list", body |-> [ssn_list |-> listOf(a)]])

personsTold(f, c) == IF isFiltered(f) THEN filterPersons(listOf(c), f) ELSE listOf(c)

\* A search of persons is refused, or asks for their numbers and then for their
\* details, and is told only when both have come.
FindsPersons(r, env, path, body, f) ==
  /\ \/ Threw(findPersons(env, path, body, f, <<>>))
     \/ Asked(r, findPersons(env, path, body, f, <<>>))
  /\ \A a : \/ Threw(findPersons(env, path, body, f, <<a>>))
            \/ /\ validStatus(a.status)
               /\ \/ findPersons(env, path, body, f, <<a>>) = Return(<<>>)
                  \/ /\ findPersons(env, path, body, f, <<a>>) = AskForDetails(a)
                     /\ Asked(r, AskForDetails(a))
                     /\ \A c : \/ Threw(findPersons(env, path, body, f, <<a, c>>))
                               \/ /\ validStatus(c.status)
                                  /\ findPersons(env, path, body, f, <<a, c>>)
                                       = Return(personsTold(f, c))

\* Every search of persons goes that way.
LEMMA FindPersons ==
  ASSUME NEW r, r.service = "mcs", NEW env, NEW body, NEW f,
         NEW path, path # "CreateOrUpdateSLTDRecord"
  PROVE  FindsPersons(r, env, path, body, f)
  <1> DEFINE call1 == [to |-> "mcs", operation |-> path, body |-> body]
             call2(l) == [to |-> "mcs", operation |-> "by-ssn-list", body |-> [ssn_list |-> l]]
             w1(got) == AwaitValid(call1, got, 1, Throw(500))
             w2(l, got) == AwaitValid(call2(l), got, 2, Throw(500))
             p1(got) == executePersonsRequest(env, path, body, got, 1)
             p2(l, got) == getPersonsDetailsBySsnList(env, l, got)
             v(l) == Return(IF isFiltered(f) THEN filterPersons(l, f) ELSE l)
             h(got) == findPersons(env, path, body, f, got)
  <1>1. Asked(r, Ask(call1)) /\ \A l : Asked(r, Ask(call2(l)))
    <2>1. Fits(r, path) /\ Fits(r, "by-ssn-list")
      BY DEF Fits
    <2> QED BY <2>1, FitCall
  <1>2. Threw(Throw(500))
    BY StepKinds DEF Threw
  <1>3. CASE ~env.personsUrl
    <2>1. \A got : p1(got) = Throw(500)
      BY <1>3 DEF executePersonsRequest
    <2> HIDE DEF p1
    <2>2. \A got : h(got) = IF p1(got).kind = "return" THEN h(got) ELSE p1(got)
      BY DEF findPersons, AndThen, p1
    <2> HIDE DEF h
    <2>3. \A got : h(got) = Throw(500)
      BY <2>1, <2>2, StepKinds
    <2> QED BY <1>2, <2>3 DEF FindsPersons, h
  <1>4. CASE env.personsUrl
    <2>1. \A got : p1(got) = IF w1(got).kind = "return" THEN Return(listOf(w1(got).value)) ELSE w1(got)
      BY <1>4 DEF executePersonsRequest, AndThen
    <2>2. \A l, got : p2(l, got) = IF w2(l, got).kind = "return"
                                   THEN Return(listOf(w2(l, got).value)) ELSE w2(l, got)
      BY <1>4 DEF getPersonsDetailsBySsnList, executePersonsRequest, AndThen
    <2>3. \A got : h(got) = IF p1(got).kind = "return"
                            THEN IF p1(got).value = <<>> THEN Return(<<>>)
                                 ELSE IF p2(p1(got).value, got).kind = "return"
                                      THEN v(p2(p1(got).value, got).value)
                                      ELSE p2(p1(got).value, got)
                            ELSE p1(got)
      BY DEF findPersons, AndThen
    <2> HIDE DEF call1, call2
    <2>4. /\ w1(<<>>) = Ask(call1)
          /\ \A a : w1(<<a>>) = IF validStatus(a.status) THEN Return(a) ELSE Throw(500)
          /\ \A a, c : w1(<<a, c>>) = IF validStatus(a.status) THEN Return(a) ELSE Throw(500)
      BY Awaits
    <2>5. /\ \A l, a : w2(l, <<a>>) = Ask(call2(l))
          /\ \A l, a, c : w2(l, <<a, c>>) = IF validStatus(c.status) THEN Return(c) ELSE Throw(500)
      BY Awaits
    <2>6. /\ \A c : v(listOf(c)) = Return(personsTold(f, c))
          /\ \A a : Ask(call2(listOf(a))) = AskForDetails(a)
      BY DEF personsTold, AskForDetails, call2
    <2> HIDE DEF w1, w2, p1, p2, v, h
    <2>7. Asked(r, h(<<>>))
      <3>1. p1(<<>>) = Ask(call1)
        BY <2>1, <2>4, StepKinds
      <3>2. h(<<>>) = Ask(call1)
        BY <2>3, <3>1, StepKinds
      <3> QED BY <1>1, <3>2
    <2>8. ASSUME NEW a
          PROVE  \/ Threw(h(<<a>>))
                 \/ /\ validStatus(a.status)
                    /\ \/ h(<<a>>) = Return(<<>>)
                       \/ /\ h(<<a>>) = AskForDetails(a) /\ Asked(r, AskForDetails(a))
                          /\ \A c : \/ Threw(h(<<a, c>>))
                                    \/ validStatus(c.status) /\ h(<<a, c>>) = Return(personsTold(f, c))
      <3>1. CASE ~validStatus(a.status)
        <4>1. p1(<<a>>) = Throw(500)
          BY <2>1, <2>4, <3>1, StepKinds
        <4>2. h(<<a>>) = Throw(500)
          BY <2>3, <4>1, StepKinds
        <4> QED BY <1>2, <4>2
      <3>2. CASE validStatus(a.status) /\ listOf(a) = <<>>
        <4>1. p1(<<a>>) = Return(listOf(a))
          BY <2>1, <2>4, <3>2, StepKinds
        <4>2. h(<<a>>) = Return(<<>>)
          BY <2>3, <3>2, <4>1, StepKinds
        <4> QED BY <3>2, <4>2
      <3>3. CASE validStatus(a.status) /\ listOf(a) # <<>>
        <4>1. p1(<<a>>) = Return(listOf(a))
          BY <2>1, <2>4, <3>3, StepKinds
        <4>2. p2(listOf(a), <<a>>) = Ask(call2(listOf(a)))
          BY <2>2, <2>5, StepKinds
        <4>3. h(<<a>>) = Ask(call2(listOf(a)))
          BY <2>3, <3>3, <4>1, <4>2, StepKinds
        <4>4. ASSUME NEW c
              PROVE  \/ Threw(h(<<a, c>>))
                     \/ validStatus(c.status) /\ h(<<a, c>>) = Return(personsTold(f, c))
          <5>1. p1(<<a, c>>) = Return(listOf(a))
            BY <2>1, <2>4, <3>3, StepKinds
          <5>2. CASE validStatus(c.status)
            <6>1. p2(listOf(a), <<a, c>>) = Return(listOf(c))
              BY <2>2, <2>5, <5>2, StepKinds
            <6>2. h(<<a, c>>) = v(listOf(c))
              BY <2>3, <3>3, <5>1, <6>1, StepKinds
            <6> QED BY <2>6, <5>2, <6>2
          <5>3. CASE ~validStatus(c.status)
            <6>1. p2(listOf(a), <<a, c>>) = Throw(500)
              BY <2>2, <2>5, <5>3, StepKinds
            <6>2. h(<<a, c>>) = Throw(500)
              BY <2>3, <3>3, <5>1, <6>1, StepKinds
            <6> QED BY <1>2, <6>2
          <5> QED BY <5>2, <5>3
        <4> QED BY <1>1, <2>6, <3>3, <4>3, <4>4
      <3> QED BY <3>1, <3>2, <3>3
    <2> QED BY <2>7, <2>8 DEF FindsPersons, h
  <1> QED BY <1>3, <1>4

\* Whatever the body names, one search it is, if any.
LEMMA SearchesPersons ==
  ASSUME NEW env, NEW f
  PROVE  \/ \A got : searchPersons(env, f, got) = Throw(400)
         \/ \E path, body :
              /\ path # "CreateOrUpdateSLTDRecord"
              /\ \A got : searchPersons(env, f, got) = findPersons(env, path, body, f, got)
  <1>1. \/ \A got : getPersonsByAddress(env, f, got) = Throw(400)
        \/ \E path, body :
             /\ path # "CreateOrUpdateSLTDRecord"
             /\ \A got : getPersonsByAddress(env, f, got) = findPersons(env, path, body, f, got)
    <2> DEFINE apartment == IF f.apartment # "" THEN f.apartment ELSE f.appartment
               unfit == \/ f.region = "" \/ f.community = "" \/ f.street = ""
                        \/ f.residence = "" /\ ~withoutResidence(f)
                        \/ apartment = "" /\ f.building = ""
               body == [regist_in_addr |-> registInAddr(f), region |-> f.region,
                        community |-> f.community, residence |-> f.residence,
                        street |-> f.street, building |-> f.building, apartment |-> apartment]
    <2>1. \A got : getPersonsByAddress(env, f, got) =
                     IF unfit THEN Throw(400) ELSE findPersons(env, "by-addr", body, f, got)
      BY DEF getPersonsByAddress
    <2> HIDE DEF unfit, body
    <2> QED BY SMTT(60), <2>1
  <1>2. \/ \A got : searchPersonByBirthAddress(env, f, got) = Throw(400)
        \/ \E path, body :
             /\ path # "CreateOrUpdateSLTDRecord"
             /\ \A got : searchPersonByBirthAddress(env, f, got) = findPersons(env, path, body, f, got)
    <2> DEFINE unfit == f.region = "" \/ f.community = "" \/ ~hasName(f)
               body == [birth_region |-> f.region, birth_community |-> f.community,
                        additional_data |-> additionalData(f)]
    <2>1. \A got : searchPersonByBirthAddress(env, f, got) =
                     IF unfit THEN Throw(400) ELSE findPersons(env, "by-birth-addr", body, f, got)
      BY DEF searchPersonByBirthAddress
    <2> HIDE DEF unfit, body
    <2> QED BY SMTT(60), <2>1
  <1>3. ASSUME NEW path, path # "CreateOrUpdateSLTDRecord", NEW names
        PROVE  \/ \A got : searchPersonsByAddress(env, path, f, names, got) = Throw(400)
               \/ \E body : \A got : searchPersonsByAddress(env, path, f, names, got)
                                       = findPersons(env, path, body, f, got)
    <2> DEFINE built == buildPersonSearchByAddressBody(f, names)
    <2>1. built = Throw(400) \/ \E body : built = Return(body)
      BY DEF buildPersonSearchByAddressBody
    <2>2. \A got : searchPersonsByAddress(env, path, f, names, got) =
            IF built.kind = "return" THEN findPersons(env, path, built.value, f, got) ELSE built
      BY DEF searchPersonsByAddress, AndThen
    <2> HIDE DEF built
    <2>3. CASE built = Throw(400)
      BY <2>2, <2>3, StepKinds
    <2>4. CASE \E body : built = Return(body)
      <3>1. PICK body : built = Return(body)
        BY <2>4
      <3>2. \A got : searchPersonsByAddress(env, path, f, names, got) =
                       findPersons(env, path, body, f, got)
        BY <2>2, <3>1, StepKinds
      <3> QED BY <3>2
    <2> QED BY <2>1, <2>3, <2>4
  <1>4. CASE f.addressType = "BIRTH"
    <2>1. \A got : searchPersons(env, f, got) = searchPersonByBirthAddress(env, f, got)
      BY <1>4 DEF searchPersons
    <2> QED BY <1>2, <2>1
  <1>5. CASE f.addressType # "BIRTH" /\ ~hasName(f)
    <2>1. \A got : searchPersons(env, f, got) = getPersonsByAddress(env, f, got)
      BY <1>5 DEF searchPersons
    <2> QED BY <1>1, <2>1
  <1>6. CASE f.addressType # "BIRTH" /\ hasName(f)
    <2>0. \A got : searchPersons(env, f, got) =
            IF f.building # "" THEN searchByRegionCommunityStreetBuilding(env, f, got)
            ELSE IF f.street # "" THEN searchByRegionCommunityStreet(env, f, got)
            ELSE IF f.community # "" THEN searchByRegionCommunity(env, f, got)
            ELSE Throw(400)
      BY <1>6 DEF searchPersons
    <2>1. CASE f.building # ""
      <3>1. \A got : searchPersons(env, f, got) =
              searchPersonsByAddress(env, "by-addr-rcsb", f,
                                     {"region", "community", "street", "building"}, got)
        BY <2>0, <2>1 DEF searchByRegionCommunityStreetBuilding
      <3> QED BY <1>3, <3>1
    <2>2. CASE f.building = "" /\ f.street # ""
      <3>1. \A got : searchPersons(env, f, got) =
              searchPersonsByAddress(env, "by-addr-rcs", f, {"region", "community", "street"}, got)
        BY <2>0, <2>2 DEF searchByRegionCommunityStreet
      <3> QED BY <1>3, <3>1
    <2>3. CASE f.building = "" /\ f.street = "" /\ f.community # ""
      <3>1. \A got : searchPersons(env, f, got) =
              searchPersonsByAddress(env, "by-addr-rc", f, {"region", "community"}, got)
        BY <2>0, <2>3 DEF searchByRegionCommunity
      <3> QED BY <1>3, <3>1
    <2>4. CASE f.building = "" /\ f.street = "" /\ f.community = ""
      BY <2>0, <2>4
    <2> QED BY <2>1, <2>2, <2>3, <2>4
  <1>7. hasName(f) \in BOOLEAN
    BY DEF hasName
  <1> QED BY <1>4, <1>5, <1>6, <1>7

\* A handler that tells of its first answer or goes on to a second call is orderly.
LEMMA OneOrTwoCalls ==
  ASSUME NEW r, ~ofInterpol(r),
         Threw(handler(r, <<>>)) \/ Asked(r, handler(r, <<>>)),
         \A a : \/ Threw(handler(r, <<a>>))
                \/ /\ validStatus(a.status)
                   /\ \/ handler(r, <<a>>).kind = "return"
                      \/ /\ Asked(r, handler(r, <<a>>))
                         /\ \A c : SettlesBoth(handler(r, <<a, c>>), a, c)
  PROVE  Orderly(r)
  <1>1. Opens(r, handler(r, <<>>)) /\ ~AskedBoth(r, handler(r, <<>>))
    BY StepsDiffer DEF Opens
  <1>2. ASSUME NEW a
        PROVE  /\ Continues(r, handler(r, <<a>>), a)
               /\ Asked(r, handler(r, <<a>>)) =>
                    \A b : Closes(r, handler(r, <<a, b>>), a, b)
    <2>1. CASE Threw(handler(r, <<a>>))
      BY <2>1, StepsDiffer DEF Continues
    <2>2. CASE validStatus(a.status) /\ handler(r, <<a>>).kind = "return"
      BY <2>2, StepsDiffer DEF Continues, Told
    <2>3. CASE /\ validStatus(a.status) /\ Asked(r, handler(r, <<a>>))
               /\ \A c : SettlesBoth(handler(r, <<a, c>>), a, c)
      BY <2>3 DEF Continues, Passed, Closes, Told, SettlesBoth
    <2> QED BY <2>1, <2>2, <2>3
  <1> QED BY <1>1, <1>2 DEF Orderly

\* An entry of the address catalog, or null without a call.
LEMMA AddressLookups ==
  ASSUME NEW r, r.service = "mcs", NEW env, NEW path
  PROVE  /\ \/ Threw(executeAddressRequest(env, path, <<>>))
            \/ Asked(r, executeAddressRequest(env, path, <<>>))
         /\ \A a : Settles(executeAddressRequest(env, path, <<a>>), a)
         /\ \A a : Settles(AndThen(executeAddressRequest(env, path, <<a>>), LAMBDA l : Return({l})), a)
         /\ \/ Threw(AndThen(executeAddressRequest(env, path, <<>>), LAMBDA l : Return({l})))
            \/ Asked(r, AndThen(executeAddressRequest(env, path, <<>>), LAMBDA l : Return({l})))
  <1> DEFINE sent == [to |-> "mcs", operation |-> "address", body |-> path]
             w(got) == AwaitValid(sent, got, 1, Throw(500))
             q(got) == executeAddressRequest(env, path, got)
             h(got) == AndThen(q(got), LAMBDA l : Return({l}))
  <1>0. Threw(Throw(500))
    BY StepKinds DEF Threw
  <1>1. \A got : h(got) = IF q(got).kind = "return" THEN Return({q(got).value}) ELSE q(got)
    BY DEF AndThen
  <1>2. CASE ~env.addressUrl
    <2>1. \A got : q(got) = Throw(500)
      BY <1>2 DEF executeAddressRequest
    <2> HIDE DEF q, h
    <2>2. \A got : h(got) = Throw(500)
      BY ZenonT(60), <1>1, <2>1, StepKinds
    <2> QED BY ZenonT(60), <1>0, <2>1, <2>2 DEF Settles, q, h
  <1>3. CASE env.addressUrl
    <2>1. \A got : q(got) = IF w(got).kind = "return" THEN Return(listOf(w(got).value)) ELSE w(got)
      BY <1>3 DEF executeAddressRequest, AndThen
    <2>2. Asked(r, Ask(sent))
      <3>1. Fits(r, "address")
        BY DEF Fits
      <3> QED BY <3>1, FitCall
    <2> HIDE DEF sent
    <2>3. /\ w(<<>>) = Ask(sent)
          /\ \A a : w(<<a>>) = IF validStatus(a.status) THEN Return(a) ELSE Throw(500)
      BY Awaits
    <2> HIDE DEF w, q, h
    <2>4. q(<<>>) = Ask(sent) /\ h(<<>>) = Ask(sent)
      BY <1>1, <2>1, <2>3, StepKinds
    <2>5. ASSUME NEW a PROVE Settles(q(<<a>>), a) /\ Settles(h(<<a>>), a)
      <3>1. CASE validStatus(a.status)
        <4>1. q(<<a>>) = Return(listOf(a))
          BY <2>1, <2>3, <3>1, StepKinds
        <4>2. h(<<a>>) = Return({listOf(a)})
          BY <1>1, <4>1, StepKinds
        <4> QED BY <3>1, <4>1, <4>2, StepKinds DEF Settles
      <3>2. CASE ~validStatus(a.status)
        <4>1. q(<<a>>) = Throw(500)
          BY <2>1, <2>3, <3>2, StepKinds
        <4>2. h(<<a>>) = Throw(500)
          BY ZenonT(60), <1>1, <4>1, StepKinds
        <4> QED BY <1>0, <4>1, <4>2 DEF Settles
      <3> QED BY <3>1, <3>2
    <2> QED BY <2>2, <2>4, <2>5 DEF q, h
  <1> QED BY <1>2, <1>3

\* A handler that needs no call is orderly.
LEMMA ReturnsAtOnce ==
  ASSUME NEW r, ~ofInterpol(r), handler(r, <<>>).kind = "return"
  PROVE  Orderly(r)
  BY StepsDiffer DEF Orderly, Opens

\* The catalogs of communities, residences and streets are orderly.
LEMMA CatalogsAreOrderly ==
  ASSUME NEW r, r.service = "mcs", NEW path,
         \A got : handler(r, got) = AndThen(executeAddressRequest(r.env, path, got),
                                            LAMBDA l : Return({l}))
  PROVE  Orderly(r)
  <1>1. ~ofInterpol(r)
    BY DEF ofInterpol
  <1> DEFINE h(got) == AndThen(executeAddressRequest(r.env, path, got), LAMBDA l : Return({l}))
  <1>2. (Threw(h(<<>>)) \/ Asked(r, h(<<>>))) /\ \A a : Settles(h(<<a>>), a)
    BY AddressLookups, Zenon
  <1>3. \A got : handler(r, got) = h(got)
    OBVIOUS
  <1> HIDE DEF h
  <1> QED BY <1>1, <1>2, <1>3, OneCall

\* Every route to the migration service is orderly.
LEMMA PersonsAreOrderly ==
  ASSUME NEW r \in Requests, r.service = "mcs"
  PROVE  Orderly(r)
  <1>0. ~ofInterpol(r)
    BY DEF ofInterpol
  <1> DEFINE b == r.body
  <1>1. CASE r.op = "communities"
    <2>1. \A got : handler(r, got) = getCommunities(r.env, b, got)
      BY <1>1 DEF handler, mcsHandler
    <2>2. CASE b.region = ""
      <3>1. handler(r, <<>>) = Return({})
        BY <2>1, <2>2 DEF getCommunities
      <3> QED BY <1>0, <3>1, ReturnsAtOnce, StepKinds
    <2>3. CASE b.region # ""
      <3>1. \A got : handler(r, got) = AndThen(executeAddressRequest(r.env, [region |-> b.region], got),
                                             LAMBDA l : Return({l}))
        BY <2>1, <2>3 DEF getCommunities, AndThen
      <3> QED BY <3>1, CatalogsAreOrderly, Zenon
    <2> QED BY <2>2, <2>3
  <1>2. CASE r.op = "residences"
    <2>1. \A got : handler(r, got) = getResidences(r.env, b, got)
      BY <1>2 DEF handler, mcsHandler
    <2>2. CASE b.region = "" \/ b.community = ""
      <3>1. handler(r, <<>>) = Return({})
        BY <2>1, <2>2 DEF getResidences
      <3> QED BY <1>0, <3>1, ReturnsAtOnce, StepKinds
    <2>3. CASE ~(b.region = "" \/ b.community = "")
      <3>1. \A got : handler(r, got) =
              AndThen(executeAddressRequest(r.env, [region |-> b.region, community |-> b.community], got),
                      LAMBDA l : Return({l}))
        BY <2>1, <2>3 DEF getResidences, AndThen
      <3> QED BY <3>1, CatalogsAreOrderly, Zenon
    <2> QED BY <2>2, <2>3
  <1>3. CASE r.op = "streets"
    <2> DEFINE unfit == b.region = "" \/ b.community = "" \/ (b.residence = "" /\ ~withoutResidence(b))
               path == [region |-> b.region, community |-> b.community, residence |-> b.residence]
    <2>1. \A got : handler(r, got) = getStreets(r.env, b, got)
      BY <1>3 DEF handler, mcsHandler
    <2>2. CASE unfit
      <3>1. handler(r, <<>>) = Return({})
        BY <2>1, <2>2 DEF getStreets
      <3> QED BY <1>0, <3>1, ReturnsAtOnce, StepKinds
    <2>3. CASE ~unfit
      <3>1. \A got : handler(r, got) =
              AndThen(executeAddressRequest(r.env, path, got), LAMBDA l : Return({l}))
        BY <2>1, <2>3 DEF getStreets, AndThen
      <3> QED BY <3>1, CatalogsAreOrderly, Zenon
    <2> QED BY <2>2, <2>3
  <1>4. CASE r.op = "persons"
    <2>1. \A got : handler(r, got) = searchPersons(r.env, b, got)
      BY <1>4 DEF handler, mcsHandler
    <2>2. CASE \A got : searchPersons(r.env, b, got) = Throw(400)
      <3>1. Threw(handler(r, <<>>))
        BY <2>1, <2>2, StepKinds DEF Threw
      <3> QED BY <1>0, <3>1, OneCall
    <2>3. CASE \E path, body :
                 /\ path # "CreateOrUpdateSLTDRecord"
                 /\ \A got : searchPersons(r.env, b, got) = findPersons(r.env, path, body, b, got)
      <3>1. PICK path, body :
              /\ path # "CreateOrUpdateSLTDRecord"
              /\ \A got : searchPersons(r.env, b, got) = findPersons(r.env, path, body, b, got)
        BY <2>3
      <3>2. \A got : handler(r, got) = findPersons(r.env, path, body, b, got)
        BY <2>1, <3>1
      <3> HIDE DEF b
      <3>3. Threw(handler(r, <<>>)) \/ Asked(r, handler(r, <<>>))
        BY <3>1, <3>2, FindPersons DEF FindsPersons
      <3>4. ASSUME NEW a
            PROVE  \/ Threw(handler(r, <<a>>))
                   \/ /\ validStatus(a.status)
                      /\ \/ handler(r, <<a>>).kind = "return"
                         \/ /\ Asked(r, handler(r, <<a>>))
                            /\ \A c : SettlesBoth(handler(r, <<a, c>>), a, c)
        <4>1. \A l : Return(l).kind = "return"
          BY StepKinds
        <4>2. \/ Threw(handler(r, <<a>>))
              \/ validStatus(a.status) /\ handler(r, <<a>>) = Return(<<>>)
              \/ /\ validStatus(a.status)
                 /\ handler(r, <<a>>) = AskForDetails(a) /\ Asked(r, AskForDetails(a))
                 /\ \A c : \/ Threw(handler(r, <<a, c>>))
                           \/ /\ validStatus(c.status)
                              /\ handler(r, <<a, c>>) = Return(personsTold(b, c))
          <5>1. FindsPersons(r, r.env, path, body, b)
            BY <3>1, FindPersons
          <5> QED BY <3>2, <5>1 DEF FindsPersons
        <4>3. ASSUME NEW c, validStatus(a.status),
                     \/ Threw(handler(r, <<a, c>>))
                     \/ /\ validStatus(c.status)
                        /\ handler(r, <<a, c>>) = Return(personsTold(b, c))
              PROVE  SettlesBoth(handler(r, <<a, c>>), a, c)
          BY <4>1, <4>3 DEF SettlesBoth
        <4> QED BY <4>1, <4>2, <4>3
      <3> QED BY <1>0, <3>3, <3>4, OneOrTwoCalls
    <2> QED BY <2>2, <2>3, SearchesPersons
  <1> QED BY <1>1, <1>2, <1>3, <1>4, RequestsAssumption

\* Both routes to the civil acts are orderly.
LEMMA CivilActsAreOrderly ==
  ASSUME NEW r, r \in Requests, r.service = "civilActs"
  PROVE  Orderly(r)
  <1>0. ~ofInterpol(r)
    BY DEF ofInterpol
  <1>5. \A n \in {400, 500} : Threw(Throw(n))
    BY StepKinds DEF Threw
  <1> DEFINE b == r.body
  <1> DEFINE unfit == b.ssn = "" \/ b.firstName = "" \/ b.lastName = ""
             sent == [to |-> "civilActs", operation |-> "documents", body |-> b]
             w(got) == AwaitValid(sent, got, 1, Throw(500))
             q(got) == civilActs(b, got)
             actsIn(a) == Return(IF a.outcome = "failed" THEN <<>> ELSE a.result)
             childrenIn(a) == Return([outcome |-> a.outcome,
                                    result |-> filterChildDocuments(a.result, b.ssn)])
  <1>1. \/ \A got : handler(r, got) = IF q(got).kind = "return" THEN actsIn(q(got).value) ELSE q(got)
        \/ \A got : handler(r, got) = IF q(got).kind = "return" THEN childrenIn(q(got).value) ELSE q(got)
    <2>1. CASE r.op = "acts"
      <3>1. \A got : handler(r, got) = getCivilActsInfoBySsn(b, got)
        BY <2>1 DEF handler, civilActsHandler
      <3> QED BY <3>1 DEF getCivilActsInfoBySsn, AndThen
    <2>2. CASE r.op = "children"
      <3>1. \A got : handler(r, got) = getCivilActsInfoBySsnRaw(b, got)
        BY <2>2 DEF handler, civilActsHandler
      <3> QED BY <3>1 DEF getCivilActsInfoBySsnRaw, AndThen
    <2> QED BY <2>1, <2>2, RequestsAssumption
  <1>2. \A a : actsIn(a).kind = "return" /\ childrenIn(a).kind = "return"
    BY StepKinds
  <1>3. CASE unfit
    <2>1. q(<<>>) = Throw(400)
      BY <1>3 DEF civilActs
    <2> HIDE DEF q, actsIn, childrenIn
    <2>2. handler(r, <<>>) = Throw(400)
      BY <1>1, <2>1, StepKinds
    <2>3. Threw(handler(r, <<>>))
      BY <1>5, <2>2
    <2> QED BY <1>0, <2>3, OneCall
  <1>4. CASE ~unfit
    <2>1. \A got : q(got) = w(got)
      BY <1>4 DEF civilActs
    <2>2. Asked(r, Ask(sent))
      <3>1. Fits(r, "documents")
        BY DEF Fits
      <3> QED BY <3>1, FitCall
    <2> HIDE DEF sent
    <2>3. /\ w(<<>>) = Ask(sent)
          /\ \A a : w(<<a>>) = IF validStatus(a.status) THEN Return(a) ELSE Throw(500)
      BY Awaits
    <2> HIDE DEF w, q, actsIn, childrenIn
    <2>4. handler(r, <<>>) = Ask(sent)
      BY <1>1, <2>1, <2>3, StepKinds
    <2>5. ASSUME NEW a PROVE Settles(handler(r, <<a>>), a)
      <3>1. CASE validStatus(a.status)
        <4>1. q(<<a>>) = Return(a)
          BY <2>1, <2>3, <3>1
        <4>2. handler(r, <<a>>).kind = "return"
          BY <1>1, <1>2, <4>1, StepKinds
        <4> QED BY <3>1, <4>2 DEF Settles
      <3>2. CASE ~validStatus(a.status)
        <4>1. q(<<a>>) = Throw(500)
          BY <2>1, <2>3, <3>2
        <4>2. handler(r, <<a>>) = Throw(500)
          BY <1>1, <4>1, StepKinds
        <4>3. Threw(handler(r, <<a>>))
          BY <1>5, <4>2
        <4> QED BY <4>3 DEF Settles
      <3> QED BY <3>1, <3>2
    <2> QED BY <1>0, <2>2, <2>4, <2>5, OneCall
  <1> QED BY <1>3, <1>4

\* Success and emptiness each have one number and one name.
LEMMA CodesOfKeys ==
  ASSUME NEW code
  PROVE  /\ evaluateResultCode(code).key = "NO_ERROR" => code \in {"0", "NO_ERROR"}
         /\ evaluateResultCode(code).key = "NO_ANSWER" => code \in {"1", "NO_ANSWER"}
  <1> DEFINE n == IF code = "TOO_MANY_ANSWERS" THEN "TOO_MANY_ANSWER" ELSE code
             k == orElse(RESULT_CODE_KEYS(n), IF n \in RESULT_CODE_VALUES THEN n ELSE "UNKNOWN")
  <1>1. evaluateResultCode(code).key = k
    BY DEF evaluateResultCode, DESCRIPTIONS
  <1>2. RESULT_CODE_KEYS(n) = "NO_ERROR" => n = "0"
    BY DEF RESULT_CODE_KEYS, NoText
  <1>3. RESULT_CODE_KEYS(n) = "NO_ANSWER" => n = "1"
    BY DEF RESULT_CODE_KEYS, NoText
  <1>4. k = "NO_ERROR" => n \in {"0", "NO_ERROR"}
    BY <1>2 DEF orElse
  <1>5. k = "NO_ANSWER" => n \in {"1", "NO_ANSWER"}
    BY <1>3 DEF orElse
  <1>6. n \in {"0", "NO_ERROR", "1", "NO_ANSWER"} => code = n
    OBVIOUS
  <1> HIDE DEF n, k
  <1> QED BY <1>1, <1>4, <1>5, <1>6

\* What it takes for a mapped answer to be well, and that a payload changes nothing
\* about it.
LEMMA MappedVerdict ==
  ASSUME NEW xml, NEW welcome, welcome \subseteq {"NO_ERROR", "NO_ANSWER"}, NEW payload
  PROVE  /\ mapped(xml, welcome, payload).ok =>
              /\ xml.status < 400 /\ textOf(xml.tags, "faultstring") = NoText
              /\ \/ textOf(xml.tags, "resultCode") \in {"0", "NO_ERROR"}
                 \/ textOf(xml.tags, "resultCode") \in {"1", "NO_ANSWER"} /\ "NO_ANSWER" \in welcome
         /\ \A p : [mapped(xml, welcome, payload) EXCEPT !.payload = p].ok
                     = mapped(xml, welcome, payload).ok
  <1> DEFINE key == evaluateResultCode(textOf(xml.tags, "resultCode")).key
  <1>1. mapped(xml, welcome, payload).ok =>
          xml.status < 400 /\ textOf(xml.tags, "faultstring") = NoText /\ key \in welcome
    BY DEF mapped
  <1>2. \A p : [mapped(xml, welcome, payload) EXCEPT !.payload = p].ok
                 = mapped(xml, welcome, payload).ok
    BY DEF mapped
  <1>3. key \in welcome => key = "NO_ERROR" \/ (key = "NO_ANSWER" /\ "NO_ANSWER" \in welcome)
    OBVIOUS
  <1> HIDE DEF key
  <1>4. /\ key = "NO_ERROR" => textOf(xml.tags, "resultCode") \in {"0", "NO_ERROR"}
        /\ key = "NO_ANSWER" => textOf(xml.tags, "resultCode") \in {"1", "NO_ANSWER"}
    BY CodesOfKeys DEF key
  <1> QED BY <1>1, <1>2, <1>3, <1>4

\* The answer that stands for none.
Unanswered == [Xml(599, NoText) EXCEPT !.tags = [faultstring |-> "noAnswer"]]

\* The answer that stands for none names a fault.
LEMMA UnansweredFails ==
  textOf(Unanswered.tags, "faultstring") # NoText
  BY DEF Unanswered, Xml, textOf, NoText

\* A call of INTERPOL FIND is refused, or made and then told of, with its answer or
\* with the one that stands for none.
LEMMA FindCalls ==
  ASSUME NEW r, r.service = "interpol", NEW env, NEW action, NEW body,
         action # "CreateOrUpdateSLTDRecord"
  PROVE
    /\ \/ \A got : Threw(soapCall(env, action, body, got))
       \/ /\ Asked(r, soapCall(env, action, body, <<>>))
          /\ \A a : soapCall(env, action, body, <<a>>) = Return(IF a = NoAnswer THEN Unanswered ELSE a)
    /\ \/ \A got : Threw(soapCallSltd(env, action, body, got))
       \/ /\ Asked(r, soapCallSltd(env, action, body, <<>>))
          /\ \A a : soapCallSltd(env, action, body, <<a>>) = Return(IF a = NoAnswer THEN Unanswered ELSE a)
  <1>0. Threw(Throw(500))
    BY StepKinds DEF Threw
  <1>1. ASSUME NEW to, NEW envelope, envelope = Throw(500) \/ \E e : envelope = Return(e)
        PROVE  \/ \A got : Threw(soapAnswer(to, action, envelope, got))
               \/ /\ Asked(r, soapAnswer(to, action, envelope, <<>>))
                  /\ \A a : soapAnswer(to, action, envelope, <<a>>)
                              = Return(IF a = NoAnswer THEN Unanswered ELSE a)
    <2>1. CASE envelope = Throw(500)
      <3>1. \A got : soapAnswer(to, action, envelope, got) = Throw(500)
        BY <2>1, StepKinds DEF soapAnswer, AndThen
      <3> QED BY <1>0, <3>1
    <2>2. CASE \E e : envelope = Return(e)
      <3>1. PICK e : envelope = Return(e)
        BY <2>2
      <3> DEFINE sent == [to |-> to, operation |-> action, body |-> e]
      <3>2. \A got : soapAnswer(to, action, envelope, got) = Await(sent, got, 1, Return(Unanswered))
        BY <3>1, StepKinds DEF soapAnswer, AndThen, Unanswered
      <3>3. Fits(r, action)
        BY DEF Fits
      <3>4. Asked(r, Ask(sent))
        BY <3>3, FitCall
      <3> HIDE DEF sent
      <3>5. Await(sent, <<>>, 1, Return(Unanswered)) = Ask(sent)
        BY DEF Await
      <3>6. \A a : Await(sent, <<a>>, 1, Return(Unanswered)) = Return(IF a = NoAnswer THEN Unanswered ELSE a)
        BY DEF Await
      <3> QED BY <3>2, <3>4, <3>5, <3>6
    <2> QED BY <1>1, <2>1, <2>2
  <1>2. buildNominalEnvelope(env, body) = Throw(500) \/ \E e : buildNominalEnvelope(env, body) = Return(e)
    BY DEF buildNominalEnvelope
  <1>3. buildSltdEnvelope(env, action, body) = Throw(500)
        \/ \E e : buildSltdEnvelope(env, action, body) = Return(e)
    BY DEF buildSltdEnvelope
  <1>4. \/ \A got : Threw(soapCall(env, action, body, got))
        \/ /\ Asked(r, soapCall(env, action, body, <<>>))
           /\ \A a : soapCall(env, action, body, <<a>>) = Return(IF a = NoAnswer THEN Unanswered ELSE a)
    <2>1. CASE env.nominalEndpoint = NoText
      BY <1>0, <2>1 DEF soapCall
    <2>2. CASE env.nominalEndpoint # NoText
      <3>1. \A got : soapCall(env, action, body, got) =
                       soapAnswer(env.nominalEndpoint, action, buildNominalEnvelope(env, body), got)
        BY <2>2 DEF soapCall
      <3> QED BY <1>1, <1>2, <3>1
    <2> QED BY <2>1, <2>2
  <1>5. \/ \A got : Threw(soapCallSltd(env, action, body, got))
        \/ /\ Asked(r, soapCallSltd(env, action, body, <<>>))
           /\ \A a : soapCallSltd(env, action, body, <<a>>) = Return(IF a = NoAnswer THEN Unanswered ELSE a)
    <2>1. CASE env.sltdEndpoint = NoText
      BY <1>0, <2>1 DEF soapCallSltd
    <2>2. CASE env.sltdEndpoint # NoText
      <3>1. \A got : soapCallSltd(env, action, body, got) =
                       soapAnswer(env.sltdEndpoint, action, buildSltdEnvelope(env, action, body), got)
        BY <2>2 DEF soapCallSltd
      <3> QED BY <1>1, <1>3, <3>1
    <2> QED BY <2>1, <2>2
  <1> QED BY <1>4, <1>5

\* What a reply that says ok needs of the answer, where WISDM is not concerned.
FoundWell(r, xml) ==
  /\ xml.status < 400 /\ textOf(xml.tags, "faultstring") = NoText
  /\ \/ textOf(xml.tags, "resultCode") \in {"0", "NO_ERROR"}
     \/ textOf(xml.tags, "resultCode") \in {"1", "NO_ANSWER"} /\ r.op \in emptyIsAnAnswer

ToldOf(a) == IF a = NoAnswer THEN Unanswered ELSE a

\* A search of INTERPOL is orderly when what it says is ok was found well.
LEMMA OneFind ==
  ASSUME NEW r, r.service = "interpol",
         Threw(handler(r, <<>>)) \/ Asked(r, handler(r, <<>>)),
         \A a : \/ Threw(handler(r, <<a>>))
                \/ /\ handler(r, <<a>>).kind = "return"
                   /\ handler(r, <<a>>).value.ok => FoundWell(r, ToldOf(a))
  PROVE  Orderly(r)
  <1>1. Opens(r, handler(r, <<>>)) /\ ~AskedBoth(r, handler(r, <<>>))
    BY StepsDiffer DEF Opens
  <1>2. ASSUME NEW a
        PROVE  Continues(r, handler(r, <<a>>), a) /\ ~Asked(r, handler(r, <<a>>))
    <2>1. CASE Threw(handler(r, <<a>>))
      BY <2>1, StepsDiffer DEF Continues
    <2>2. CASE /\ handler(r, <<a>>).kind = "return"
               /\ handler(r, <<a>>).value.ok => FoundWell(r, ToldOf(a))
      <3>1. FoundWell(r, ToldOf(a)) => a # NoAnswer
        BY UnansweredFails DEF FoundWell, ToldOf
      <3>2. FoundWell(r, ToldOf(a)) => Confirmed(r, a)
        BY <3>1 DEF FoundWell, ToldOf, Confirmed, accepted
      <3>3. saysOk(r, handler(r, <<a>>).value) => handler(r, <<a>>).value.ok
        BY DEF saysOk
      <3>4. Told(r, handler(r, <<a>>), a)
        BY <2>2, <3>2, <3>3 DEF Told, ofInterpol
      <3> QED BY <2>2, <3>4, StepsDiffer DEF Continues
    <2> QED BY <1>2, <2>1, <2>2
  <1> QED BY <1>1, <1>2 DEF Orderly

\* A mapped answer that says ok was found well.
LEMMA Verdicts ==
  ASSUME NEW r, r.service = "interpol", NEW xml, NEW payload
  PROVE  /\ mapped(xml, {"NO_ERROR"}, payload).ok => FoundWell(r, xml)
         /\ r.op \in emptyIsAnAnswer /\ mapped(xml, {"NO_ERROR", "NO_ANSWER"}, payload).ok
              => FoundWell(r, xml)
  BY MappedVerdict DEF FoundWell

\* The replies to SLTD searches, and those with a file, say ok where their mapping does.
LEMMA Replies ==
  /\ \A xml : /\ sltdReply(xml).kind = "return"
              /\ sltdReply(xml).value.ok = mapped(xml, {"NO_ERROR", "NO_ANSWER"}, {}).ok
  /\ \A xml : /\ mapFileResponse(xml).kind = "return"
              /\ mapFileResponse(xml).value.ok = mapped(xml, {"NO_ERROR"}, <<>>).ok
  <1>1. ASSUME NEW xml
        PROVE  /\ sltdReply(xml).kind = "return"
               /\ sltdReply(xml).value.ok = mapped(xml, {"NO_ERROR", "NO_ANSWER"}, {}).ok
    <2> DEFINE told == mapped(xml, {"NO_ERROR", "NO_ANSWER"}, {})
    <2> DEFINE filled(p) == [told EXCEPT !.payload = p]
    <2>1. sltdReply(xml) = Return(told) \/ \E p : sltdReply(xml) = Return(filled(p))
      BY DEF sltdReply
    <2>2. \A p : filled(p).ok = told.ok
      BY MappedVerdict
    <2> HIDE DEF told, filled
    <2>3. sltdReply(xml).kind = "return" /\ sltdReply(xml).value.ok = told.ok
      BY <2>1, <2>2, StepKinds
    <2> QED BY <2>3 DEF told
  <1>2. ASSUME NEW xml
        PROVE  /\ mapFileResponse(xml).kind = "return"
               /\ mapFileResponse(xml).value.ok = mapped(xml, {"NO_ERROR"}, <<>>).ok
    <2> DEFINE told == mapped(xml, {"NO_ERROR"}, <<>>)
    <2> DEFINE filled(p) == [told EXCEPT !.payload = p]
    <2>1. mapFileResponse(xml) = Return(told) \/ \E p : mapFileResponse(xml) = Return(filled(p))
      BY DEF mapFileResponse
    <2>2. \A p : filled(p).ok = told.ok
      BY MappedVerdict
    <2> HIDE DEF told, filled
    <2>3. mapFileResponse(xml).kind = "return" /\ mapFileResponse(xml).value.ok = told.ok
      BY <2>1, <2>2, StepKinds
    <2> QED BY <2>3 DEF told
  <1> QED BY <1>1, <1>2

\* Checking what is searched for rejects it or goes on; it makes no call.
LEMMA CheckedFirst ==
  /\ \A body, names : \/ Threw(required(body, names))
                      \/ required(body, names).kind = "return"
  /\ \A body : \/ Threw(normalizeNominalSearch(body))
               \/ normalizeNominalSearch(body).kind = "return"
  <1>0. \A n \in {400, 500} : Threw(Throw(n))
    BY StepKinds DEF Threw
  <1> DEFINE fine(s) == Threw(s) \/ s.kind = "return"
  <1>1. \A body, names : fine(required(body, names))
    BY ZenonT(60), <1>0, StepKinds DEF required
  <1>2. \A v : fine(validateDobDdMmYyyy(v))
    BY <1>0, StepKinds DEF validateDobDdMmYyyy
  <1>3. \A v : fine(parseAge(v))
    BY <1>0, StepKinds DEF parseAge
  <1>4. \A v : fine(parseRankThreshold(v))
    BY <1>0, StepKinds DEF parseRankThreshold
  <1>5. ASSUME NEW body PROVE fine(normalizeNominalSearch(body))
    <2> DEFINE dob == IF normalizeString(body.dateOfBirth) # "" THEN body.dateOfBirth
                      ELSE normalizeString(body.dob)
               nb == IF body.nbRecord # nothing THEN body.nbRecord ELSE body.nb
               given == Cardinality({f \in {"name", "identity", "entityId"} :
                                       normalizeString(body[f]) # ""})
               hasAgeBounds(ageMin, ageMax) == ageMin # {} \/ ageMax # {}
               unfit(date, ageMin, ageMax) ==
                 \/ /\ normalizeString(body.name) = ""
                    /\ normalizeString(body.forename) # "" \/ hasAgeBounds(ageMin, ageMax) \/ date # ""
                 \/ given # 1
                 \/ hasAgeBounds(ageMin, ageMax) /\ date # ""
                 \/ \E min \in ageMin, max \in ageMax : min > max
               params(date, ageMin, ageMax, threshold) ==
                 [name |-> normalizeString(body.name), forename |-> normalizeString(body.forename),
                  ageMin |-> ageMin, ageMax |-> ageMax, dateOfBirth |-> date,
                  identity |-> normalizeString(body.identity),
                  entityId |-> normalizeString(body.entityId), nbRecord |-> parseNbRecord(nb),
                  rankThreshold |-> threshold]
               check(date, ageMin, ageMax, threshold) ==
                 IF unfit(date, ageMin, ageMax) THEN Throw(400)
                 ELSE Return(params(date, ageMin, ageMax, threshold))
               trims == hasTrim({body.name, body.forename, body.identity, body.entityId, dob})
               d == validateDobDdMmYyyy(dob)
               lo == parseAge(body.ageMin)
               hi == parseAge(body.ageMax)
               t == parseRankThreshold(body.score)
    <2>1. normalizeNominalSearch(body) =
            IF ~trims THEN Throw(500)
            ELSE IF d.kind = "return"
                 THEN IF lo.kind = "return"
                      THEN IF hi.kind = "return"
                           THEN IF t.kind = "return"
                                THEN check(d.value, lo.value, hi.value, t.value) ELSE t
                           ELSE hi
                      ELSE lo
                 ELSE d
      BY DEF normalizeNominalSearch, AndThen
    <2> HIDE DEF unfit, params, trims
    <2>2. \A date, ageMin, ageMax, threshold : fine(check(date, ageMin, ageMax, threshold))
      BY <1>0, StepKinds
    <2>3. fine(d) /\ fine(lo) /\ fine(hi) /\ fine(t)
      BY <1>2, <1>3, <1>4
    <2> HIDE DEF check, d, lo, hi, t, fine
    <2>4. fine(Throw(500))
      BY <1>0 DEF fine
    <2> QED BY <2>1, <2>2, <2>3, <2>4
  <1> HIDE DEF fine
  <1> QED BY <1>1, <1>5 DEF fine

\* Every search of INTERPOL is orderly.
LEMMA FindIsOrderly ==
  ASSUME NEW r \in Requests, r.service = "interpol"
  PROVE  Orderly(r)
  <1>1. CASE r.op = "search"
    <2> DEFINE checked == normalizeNominalSearch(r.body)
    <2>1. \A got : handler(r, got) = IF checked.kind = "return"
                                     THEN search(r.env, checked.value, got)
                                     ELSE checked
      BY <1>1 DEF handler, interpolHandler, AndThen
    <2> HIDE DEF checked
    <2>2. CASE Threw(checked)
      <3>1. \A got : Threw(handler(r, got))
        BY <2>1, <2>2 DEF Threw
      <3> QED BY <3>1, OneFind
    <2>3. CASE checked.kind = "return"
      <3> DEFINE p == checked.value
                 sent == [f \in {t \in {"name", "forename", "dateOfBirth", "identity", "entityId"} : p[t] # ""}
                            \cup {t \in {"ageMin", "ageMax"} : p[t] # {}}
                            \cup {"nbRecord", "rankThreshold"} |-> p[f]]
                 q(got) == soapCall(r.env, "SearchEx", sent, got)
                 told(xml) == mapped(xml, {"NO_ERROR", "NO_ANSWER"}, <<>>)
                 v(xml) == Return(IF told(xml).ok /\ told(xml).resultCode = "NO_ERROR"
                              THEN [told(xml) EXCEPT !.payload = parseSearchHits(xml)] ELSE told(xml))
      <3>1. \A got : handler(r, got) = IF q(got).kind = "return" THEN v(q(got).value) ELSE q(got)
        BY <2>1, <2>3 DEF AndThen, search
      <3> HIDE DEF sent
      <3>2. \A xml : v(xml).kind = "return" /\ (v(xml).value.ok => FoundWell(r, xml))
        <4> SUFFICES ASSUME NEW xml
                     PROVE  v(xml).kind = "return" /\ (v(xml).value.ok => FoundWell(r, xml))
          OBVIOUS
        <4> DEFINE filled(hits) == [told(xml) EXCEPT !.payload = hits]
        <4>0. \A hits : filled(hits).ok = told(xml).ok
          BY MappedVerdict
        <4>2. v(xml) = Return(told(xml)) \/ \E hits : v(xml) = Return(filled(hits))
          OBVIOUS
        <4> HIDE DEF told, filled, v
        <4>1. v(xml).kind = "return" /\ v(xml).value.ok = told(xml).ok
          BY <4>0, <4>2, StepKinds
        <4> USE DEF told
        <4> QED BY <1>1, <4>1, Verdicts DEF emptyIsAnAnswer
      <3>3. \/ \A got : Threw(q(got))
            \/ Asked(r, q(<<>>)) /\ \A a : q(<<a>>) = Return(ToldOf(a))
        BY ZenonT(60), FindCalls DEF ToldOf
      <3> HIDE DEF q, v
      <3>4. CASE \A got : Threw(q(got))
        <4>1. \A got : Threw(handler(r, got))
          BY <3>1, <3>4 DEF Threw
        <4> QED BY <4>1, OneFind
      <3>5. CASE Asked(r, q(<<>>)) /\ \A a : q(<<a>>) = Return(ToldOf(a))
        <4>1. Asked(r, handler(r, <<>>))
          BY <3>1, <3>5, StepsDiffer
        <4>2. ASSUME NEW a PROVE handler(r, <<a>>) = v(ToldOf(a))
          <5>1. q(<<a>>) = Return(ToldOf(a))
            BY <3>5
          <5> QED BY <3>1, <5>1, StepKinds
        <4> QED BY <3>2, <4>1, <4>2, OneFind
      <3> QED BY <3>3, <3>4, <3>5
    <2> QED BY <2>2, <2>3, CheckedFirst DEF checked
  <1>2. CASE r.op = "sltdSearch"
    <2> DEFINE checked == required(r.body, {"din", "countryOfRegistration", "typeOfDocument"})
    <2>1. \A got : handler(r, got) = IF checked.kind = "return"
                                     THEN sltdSearchCall(r.env, [document |-> checked.value, nbRecord |-> parseNbRecord(r.body.nb)], got)
                                     ELSE checked
      BY <1>2 DEF handler, interpolHandler, AndThen, sltdSearch
    <2> HIDE DEF checked
    <2>2. CASE Threw(checked)
      <3>1. \A got : Threw(handler(r, got))
        BY <2>1, <2>2 DEF Threw
      <3> QED BY <3>1, OneFind
    <2>3. CASE checked.kind = "return"
      <3> DEFINE p == checked.value
                 sent == [document |-> p, nbRecord |-> parseNbRecord(r.body.nb)]
                 q(got) == soapCallSltd(r.env, "Search", sent, got)
                 v(xml) == sltdReply(xml)
      <3>1. \A got : handler(r, got) = IF q(got).kind = "return" THEN v(q(got).value) ELSE q(got)
        BY <2>1, <2>3 DEF AndThen, sltdSearchCall
      <3> HIDE DEF sent
      <3>2. \A xml : v(xml).kind = "return" /\ (v(xml).value.ok => FoundWell(r, xml))
        BY <1>2, Replies, Verdicts DEF emptyIsAnAnswer
      <3>3. \/ \A got : Threw(q(got))
            \/ Asked(r, q(<<>>)) /\ \A a : q(<<a>>) = Return(ToldOf(a))
        BY ZenonT(60), FindCalls DEF ToldOf
      <3> HIDE DEF q, v
      <3>4. CASE \A got : Threw(q(got))
        <4>1. \A got : Threw(handler(r, got))
          BY <3>1, <3>4 DEF Threw
        <4> QED BY <4>1, OneFind
      <3>5. CASE Asked(r, q(<<>>)) /\ \A a : q(<<a>>) = Return(ToldOf(a))
        <4>1. Asked(r, handler(r, <<>>))
          BY <3>1, <3>5, StepsDiffer
        <4>2. ASSUME NEW a PROVE handler(r, <<a>>) = v(ToldOf(a))
          <5>1. q(<<a>>) = Return(ToldOf(a))
            BY <3>5
          <5> QED BY <3>1, <5>1, StepKinds
        <4> QED BY <3>2, <4>1, <4>2, OneFind
      <3> QED BY <3>3, <3>4, <3>5
    <2> QED BY <2>2, <2>3, CheckedFirst DEF checked
  <1>3. CASE r.op = "sltdDetails"
    <2> DEFINE checked == required(r.body, {"id"})
    <2>1. \A got : handler(r, got) = IF checked.kind = "return"
                                     THEN sltdDetailsCall(r.env, checked.value.id, got)
                                     ELSE checked
      BY <1>3 DEF handler, interpolHandler, AndThen, sltdDetails
    <2> HIDE DEF checked
    <2>2. CASE Threw(checked)
      <3>1. \A got : Threw(handler(r, got))
        BY <2>1, <2>2 DEF Threw
      <3> QED BY <3>1, OneFind
    <2>3. CASE checked.kind = "return"
      <3> DEFINE p == checked.value
                 sent == [id |-> p.id]
                 q(got) == soapCallSltd(r.env, "Details", sent, got)
                 v(xml) == sltdReply(xml)
      <3>1. \A got : handler(r, got) = IF q(got).kind = "return" THEN v(q(got).value) ELSE q(got)
        BY <2>1, <2>3 DEF AndThen, sltdDetailsCall
      <3> HIDE DEF sent
      <3>2. \A xml : v(xml).kind = "return" /\ (v(xml).value.ok => FoundWell(r, xml))
        BY <1>3, Replies, Verdicts DEF emptyIsAnAnswer
      <3>3. \/ \A got : Threw(q(got))
            \/ Asked(r, q(<<>>)) /\ \A a : q(<<a>>) = Return(ToldOf(a))
        BY ZenonT(60), FindCalls DEF ToldOf
      <3> HIDE DEF q, v
      <3>4. CASE \A got : Threw(q(got))
        <4>1. \A got : Threw(handler(r, got))
          BY <3>1, <3>4 DEF Threw
        <4> QED BY <4>1, OneFind
      <3>5. CASE Asked(r, q(<<>>)) /\ \A a : q(<<a>>) = Return(ToldOf(a))
        <4>1. Asked(r, handler(r, <<>>))
          BY <3>1, <3>5, StepsDiffer
        <4>2. ASSUME NEW a PROVE handler(r, <<a>>) = v(ToldOf(a))
          <5>1. q(<<a>>) = Return(ToldOf(a))
            BY <3>5
          <5> QED BY <3>1, <5>1, StepKinds
        <4> QED BY <3>2, <4>1, <4>2, OneFind
      <3> QED BY <3>3, <3>4, <3>5
    <2> QED BY <2>2, <2>3, CheckedFirst DEF checked
  <1>4. CASE r.op = "details"
    <2> DEFINE checked == required(r.body, {"item_id"})
    <2>1. \A got : handler(r, got) = IF checked.kind = "return"
                                     THEN detailsCall(r.env, checked.value.item_id, got)
                                     ELSE checked
      BY <1>4 DEF handler, interpolHandler, AndThen, details
    <2> HIDE DEF checked
    <2>2. CASE Threw(checked)
      <3>1. \A got : Threw(handler(r, got))
        BY <2>1, <2>2 DEF Threw
      <3> QED BY <3>1, OneFind
    <2>3. CASE checked.kind = "return"
      <3> DEFINE p == checked.value
                 sent == [item_id |-> p.item_id]
                 q(got) == soapCall(r.env, "Details", sent, got)
                 told(xml) == mapped(xml, {"NO_ERROR"}, {})
                 v(xml) == Return(IF told(xml).ok THEN [told(xml) EXCEPT !.payload = {parseDetails(xml)}] ELSE told(xml))
      <3>1. \A got : handler(r, got) = IF q(got).kind = "return" THEN v(q(got).value) ELSE q(got)
        BY <2>1, <2>3 DEF AndThen, detailsCall
      <3> HIDE DEF sent
      <3>2. \A xml : v(xml).kind = "return" /\ (v(xml).value.ok => FoundWell(r, xml))
        <4> SUFFICES ASSUME NEW xml
                     PROVE  v(xml).kind = "return" /\ (v(xml).value.ok => FoundWell(r, xml))
          OBVIOUS
        <4> DEFINE filled(hits) == [told(xml) EXCEPT !.payload = hits]
        <4>0. \A hits : filled(hits).ok = told(xml).ok
          BY MappedVerdict
        <4>2. v(xml) = Return(told(xml)) \/ \E hits : v(xml) = Return(filled(hits))
          OBVIOUS
        <4> HIDE DEF told, filled, v
        <4>1. v(xml).kind = "return" /\ v(xml).value.ok = told(xml).ok
          BY <4>0, <4>2, StepKinds
        <4> USE DEF told
        <4> QED BY <1>4, <4>1, Verdicts DEF emptyIsAnAnswer
      <3>3. \/ \A got : Threw(q(got))
            \/ Asked(r, q(<<>>)) /\ \A a : q(<<a>>) = Return(ToldOf(a))
        BY ZenonT(60), FindCalls DEF ToldOf
      <3> HIDE DEF q, v
      <3>4. CASE \A got : Threw(q(got))
        <4>1. \A got : Threw(handler(r, got))
          BY <3>1, <3>4 DEF Threw
        <4> QED BY <4>1, OneFind
      <3>5. CASE Asked(r, q(<<>>)) /\ \A a : q(<<a>>) = Return(ToldOf(a))
        <4>1. Asked(r, handler(r, <<>>))
          BY <3>1, <3>5, StepsDiffer
        <4>2. ASSUME NEW a PROVE handler(r, <<a>>) = v(ToldOf(a))
          <5>1. q(<<a>>) = Return(ToldOf(a))
            BY <3>5
          <5> QED BY <3>1, <5>1, StepKinds
        <4> QED BY <3>2, <4>1, <4>2, OneFind
      <3> QED BY <3>3, <3>4, <3>5
    <2> QED BY <2>2, <2>3, CheckedFirst DEF checked
  <1>5. CASE r.op = "notice"
    <2> DEFINE checked == required(r.body, {"path"})
    <2>1. \A got : handler(r, got) = IF checked.kind = "return"
                                     THEN getNoticePdfFile(r.env, checked.value.path, got)
                                     ELSE checked
      BY <1>5 DEF handler, interpolHandler, AndThen, getNoticePdf
    <2> HIDE DEF checked
    <2>2. CASE Threw(checked)
      <3>1. \A got : Threw(handler(r, got))
        BY <2>1, <2>2 DEF Threw
      <3> QED BY <3>1, OneFind
    <2>3. CASE checked.kind = "return"
      <3> DEFINE p == checked.value
                 sent == [path |-> p.path]
                 q(got) == soapCall(r.env, "GetNoticePDFFile", sent, got)
                 v(xml) == mapFileResponse(xml)
      <3>1. \A got : handler(r, got) = IF q(got).kind = "return" THEN v(q(got).value) ELSE q(got)
        BY <2>1, <2>3 DEF AndThen, getNoticePdfFile
      <3> HIDE DEF sent
      <3>2. \A xml : v(xml).kind = "return" /\ (v(xml).value.ok => FoundWell(r, xml))
        BY <1>5, Replies, Verdicts DEF emptyIsAnAnswer
      <3>3. \/ \A got : Threw(q(got))
            \/ Asked(r, q(<<>>)) /\ \A a : q(<<a>>) = Return(ToldOf(a))
        BY ZenonT(60), FindCalls DEF ToldOf
      <3> HIDE DEF q, v
      <3>4. CASE \A got : Threw(q(got))
        <4>1. \A got : Threw(handler(r, got))
          BY <3>1, <3>4 DEF Threw
        <4> QED BY <4>1, OneFind
      <3>5. CASE Asked(r, q(<<>>)) /\ \A a : q(<<a>>) = Return(ToldOf(a))
        <4>1. Asked(r, handler(r, <<>>))
          BY <3>1, <3>5, StepsDiffer
        <4>2. ASSUME NEW a PROVE handler(r, <<a>>) = v(ToldOf(a))
          <5>1. q(<<a>>) = Return(ToldOf(a))
            BY <3>5
          <5> QED BY <3>1, <5>1, StepKinds
        <4> QED BY <3>2, <4>1, <4>2, OneFind
      <3> QED BY <3>3, <3>4, <3>5
    <2> QED BY <2>2, <2>3, CheckedFirst DEF checked
  <1>6. CASE r.op = "image"
    <2> DEFINE checked == required(r.body, {"item_id", "path"})
    <2>1. \A got : handler(r, got) = IF checked.kind = "return"
                                     THEN imageFile(r.env, checked.value.item_id, checked.value.path, got)
                                     ELSE checked
      BY <1>6 DEF handler, interpolHandler, AndThen, getImageFile
    <2> HIDE DEF checked
    <2>2. CASE Threw(checked)
      <3>1. \A got : Threw(handler(r, got))
        BY <2>1, <2>2 DEF Threw
      <3> QED BY <3>1, OneFind
    <2>3. CASE checked.kind = "return"
      <3> DEFINE p == checked.value
                 sent == [item_id |-> p.item_id, path |-> p.path]
                 q(got) == soapCall(r.env, "ImageFile", sent, got)
                 v(xml) == mapFileResponse(xml)
      <3>1. \A got : handler(r, got) = IF q(got).kind = "return" THEN v(q(got).value) ELSE q(got)
        BY <2>1, <2>3 DEF AndThen, imageFile
      <3> HIDE DEF sent
      <3>2. \A xml : v(xml).kind = "return" /\ (v(xml).value.ok => FoundWell(r, xml))
        BY <1>6, Replies, Verdicts DEF emptyIsAnAnswer
      <3>3. \/ \A got : Threw(q(got))
            \/ Asked(r, q(<<>>)) /\ \A a : q(<<a>>) = Return(ToldOf(a))
        BY ZenonT(60), FindCalls DEF ToldOf
      <3> HIDE DEF q, v
      <3>4. CASE \A got : Threw(q(got))
        <4>1. \A got : Threw(handler(r, got))
          BY <3>1, <3>4 DEF Threw
        <4> QED BY <4>1, OneFind
      <3>5. CASE Asked(r, q(<<>>)) /\ \A a : q(<<a>>) = Return(ToldOf(a))
        <4>1. Asked(r, handler(r, <<>>))
          BY <3>1, <3>5, StepsDiffer
        <4>2. ASSUME NEW a PROVE handler(r, <<a>>) = v(ToldOf(a))
          <5>1. q(<<a>>) = Return(ToldOf(a))
            BY <3>5
          <5> QED BY <3>1, <5>1, StepKinds
        <4> QED BY <3>2, <4>1, <4>2, OneFind
      <3> QED BY <3>3, <3>4, <3>5
    <2> QED BY <2>2, <2>3, CheckedFirst DEF checked
  <1> QED BY <1>1, <1>2, <1>3, <1>4, <1>5, <1>6, RequestsAssumption

\* There are fifteen errors with a name, and some of them have a first.
LEMMA LeastOfFifteen ==
  ASSUME NEW S \in SUBSET (1 .. 15), S # {}
  PROVE  \E i \in S : \A j \in S : i <= j
  <1>1. \/ 1 \in S \/ 2 \in S \/ 3 \in S \/ 4 \in S \/ 5 \in S \/ 6 \in S \/ 7 \in S \/ 8 \in S
        \/ 9 \in S \/ 10 \in S \/ 11 \in S \/ 12 \in S \/ 13 \in S \/ 14 \in S \/ 15 \in S
    <2>1. PICK i \in S : TRUE
      OBVIOUS
    <2>2. \/ i = 1 \/ i = 2 \/ i = 3 \/ i = 4 \/ i = 5 \/ i = 6 \/ i = 7 \/ i = 8
          \/ i = 9 \/ i = 10 \/ i = 11 \/ i = 12 \/ i = 13 \/ i = 14 \/ i = 15
      OBVIOUS
    <2> QED BY <2>1, <2>2
  <1> QED BY <1>1

\* Each of the fifteen has a name.
LEMMA NamedOnes ==
  \A i \in 1 .. 15 : FUNCTIONAL_ERROR_MATCHERS[i] # NoText
  <1>1. ASSUME NEW i \in 1 .. 15 PROVE FUNCTIONAL_ERROR_MATCHERS[i] # NoText
    <2> DEFINE M == FUNCTIONAL_ERROR_MATCHERS
    <2>1. /\ M[1] # NoText /\ M[2] # NoText /\ M[3] # NoText /\ M[4] # NoText /\ M[5] # NoText
          /\ M[6] # NoText /\ M[7] # NoText /\ M[8] # NoText /\ M[9] # NoText /\ M[10] # NoText
          /\ M[11] # NoText /\ M[12] # NoText /\ M[13] # NoText /\ M[14] # NoText /\ M[15] # NoText
      BY DEF FUNCTIONAL_ERROR_MATCHERS, NoText
    <2> HIDE DEF M
    <2>2. \/ i = 1 \/ i = 2 \/ i = 3 \/ i = 4 \/ i = 5 \/ i = 6 \/ i = 7 \/ i = 8
          \/ i = 9 \/ i = 10 \/ i = 11 \/ i = 12 \/ i = 13 \/ i = 14 \/ i = 15
      OBVIOUS
    <2>3. M[i] # NoText
      BY <2>1, <2>2, Zenon
    <2> QED BY <2>3 DEF M
  <1> QED BY <1>1

\* Where no error is matched, no text is one.
LEMMA NoErrorNamed ==
  ASSUME NEW texts, matchFunctionalError(texts) = NoText
  PROVE  \A txt \in texts : txt \notin WISDM_FUNCTIONAL_ERRORS
  <1> DEFINE found == {i \in DOMAIN FUNCTIONAL_ERROR_MATCHERS :
                         \E txt \in texts : matches(FUNCTIONAL_ERROR_MATCHERS[i], txt)}
             least == CHOOSE i \in found : \A j \in found : i <= j
  <1>1. DOMAIN FUNCTIONAL_ERROR_MATCHERS = 1 .. 15
    BY DEF FUNCTIONAL_ERROR_MATCHERS
  <1>2. found = {}
    <2> SUFFICES ASSUME found # {} PROVE FALSE
      OBVIOUS
    <2>1. matchFunctionalError(texts) = FUNCTIONAL_ERROR_MATCHERS[least]
      BY DEF matchFunctionalError
    <2>2. found \in SUBSET (1 .. 15)
      BY <1>1
    <2> HIDE DEF found
    <2>3. \E i \in found : \A j \in found : i <= j
      BY <2>2, LeastOfFifteen
    <2>4. least \in found
      BY <2>3
    <2> HIDE DEF least
    <2> QED BY <2>1, <2>2, <2>4, NamedOnes
  <1>3. ASSUME NEW txt \in texts, txt \in WISDM_FUNCTIONAL_ERRORS PROVE FALSE
    <2>1. PICK i \in DOMAIN FUNCTIONAL_ERROR_MATCHERS : txt = FUNCTIONAL_ERROR_MATCHERS[i]
      BY <1>3 DEF WISDM_FUNCTIONAL_ERRORS
    <2>2. matches(FUNCTIONAL_ERROR_MATCHERS[i], txt)
      BY <2>1 DEF matches
    <2>3. i \in found
      BY <2>1, <2>2
    <2> QED BY <1>2, <2>3
  <1> QED BY <1>3

\* What a reply of WISDM that says ok, or one that the handler goes on from, needs.
Vouched(xml, allow) ==
  /\ xml.status < 400 /\ textOf(xml.tags, "faultstring") = NoText /\ errorless(xml)
  /\ \/ textOf(xml.tags, "resultCode") \in {"0", "NO_ERROR"}
     \/ /\ textOf(xml.tags, "resultCode") \in {"1", "NO_ANSWER"} /\ allow
        /\ mapBaseResponse(xml, allow).resultCode = "NO_ANSWER"

\* An answer whose base says ok was accepted, names no error, and its code allows it.
LEMMA BaseVerdict ==
  ASSUME NEW r \in Requests, r.service = "wisdm", NEW n \in 1 .. 2, NEW xml \in AnswersTo(r, n),
         NEW allow \in BOOLEAN, mapBaseResponse(xml, allow).ok
  PROVE  Vouched(xml, allow)
  <1> DEFINE fault == extractSoapFault(xml)
             key == evaluateResultCode(firstTagValue(xml, "resultCode")).key
             message == upstreamMessageOf(xml)
             data == extractXmlDataRaw(xml)
             texts == {fault, firstTagValue(xml, "resultOtherCode"), message}
                        \cup {data[tag] : tag \in DOMAIN data}
  <1>1. /\ xml.status < 400 /\ fault = NoText /\ matchFunctionalError(texts) = NoText
        /\ key = "NO_ERROR" \/ (allow /\ key = "NO_ANSWER")
        /\ mapBaseResponse(xml, allow).resultCode = key
    BY DEF mapBaseResponse
  <1>2. firstTagValue(xml, "resultOtherCode") \in texts
    OBVIOUS
  <1> HIDE DEF fault, key, texts
  <1>3. textOf(xml.tags, "faultstring") = NoText
    BY <1>1 DEF fault, extractSoapFault, firstTagValue, textOf
  <1>4. errorless(xml)
    <2>1. \A k \in WISDM_FUNCTIONAL_ERRORS : k # NoText
      <3>1. DOMAIN FUNCTIONAL_ERROR_MATCHERS = 1 .. 15
        BY DEF FUNCTIONAL_ERROR_MATCHERS
      <3> QED BY <3>1, NamedOnes DEF WISDM_FUNCTIONAL_ERRORS
    <2>2. firstTagValue(xml, "resultOtherCode") \notin WISDM_FUNCTIONAL_ERRORS
      BY <1>1, <1>2, NoErrorNamed
    <2> QED BY <2>1, <2>2 DEF errorless, firstTagValue, textOf
  <1>5. firstTagValue(xml, "resultCode") \in {"0", "NO_ERROR", "1", "NO_ANSWER"}
          => firstTagValue(xml, "resultCode") = textOf(xml.tags, "resultCode")
    <2>1. xml.form = "plain" /\ "resultCode" \in DOMAIN xml.inner => "resultCode" \in DOMAIN xml.tags
      BY AnswersAssumption
    <2> QED BY <2>1 DEF firstTagValue, textOf, NoText
  <1>6. /\ key = "NO_ERROR" => firstTagValue(xml, "resultCode") \in {"0", "NO_ERROR"}
        /\ key = "NO_ANSWER" => firstTagValue(xml, "resultCode") \in {"1", "NO_ANSWER"}
    BY CodesOfKeys DEF key
  <1> QED BY <1>1, <1>3, <1>4, <1>5, <1>6 DEF Vouched

\* The same of the schemas, which do without a code.
LEMMA SchemaVerdict ==
  ASSUME NEW r \in Requests, r.service = "wisdm", NEW xml \in AnswersTo(r, 1),
         NEW code, code = firstTagValue(xml, "resultCode"),
         \/ code = NoText \/ evaluateResultCode(code).key \in {"NO_ERROR", "NO_ANSWER"}
  PROVE  textOf(xml.tags, "resultCode") \in {"0", "NO_ERROR", NoText, "1", "NO_ANSWER"}
  <1>1. xml.form = "plain" /\ "resultCode" \in DOMAIN xml.inner => "resultCode" \in DOMAIN xml.tags
    BY AnswersAssumption
  <1>2. code \in {"0", "NO_ERROR", NoText, "1", "NO_ANSWER"}
    BY CodesOfKeys
  <1> QED BY <1>1, <1>2 DEF firstTagValue, textOf, NoText

\* A call of WISDM is refused, or made; without an answer it fails.
Served(r, to, envelope, operation, body) ==
  /\ \/ \A got : Threw(callService(to, envelope, operation, body, got, 1))
     \/ /\ callService(to, envelope, operation, body, <<>>, 1)
            = Ask([to |-> to, operation |-> operation, body |-> body])
        /\ Asked(r, callService(to, envelope, operation, body, <<>>, 1))
        /\ \A a : callService(to, envelope, operation, body, <<a>>, 1)
                    = IF a = NoAnswer THEN Throw(503) ELSE Return(a)
        /\ \A a, b : callService(to, envelope, operation, body, <<a, b>>, 1)
                       = IF a = NoAnswer THEN Throw(503) ELSE Return(a)
  /\ \/ \A got : Threw(callService(to, envelope, operation, body, got, 2))
     \/ /\ \A a : callService(to, envelope, operation, body, <<a>>, 2)
                    = Ask([to |-> to, operation |-> operation, body |-> body])
        /\ \A a : Asked(r, callService(to, envelope, operation, body, <<a>>, 2))
        /\ \A a, b : callService(to, envelope, operation, body, <<a, b>>, 2)
                       = IF b = NoAnswer THEN Throw(503) ELSE Return(b)

\* Every call of WISDM is refused before it is made, or made and answered, or fails.
LEMMA ServiceCalls ==
  ASSUME NEW r, r.service = "wisdm", NEW to, NEW envelope, NEW operation, NEW body,
         operation = "CreateOrUpdateSLTDRecord" => r.op \in {"create", "update"}
  PROVE  Served(r, to, envelope, operation, body)
  <1>0. Threw(Throw(500))
    BY StepKinds DEF Threw
  <1> DEFINE sent == [to |-> to, operation |-> operation, body |-> body]
  <1>1. Asked(r, Ask(sent))
    <2>1. Fits(r, operation)
      BY DEF Fits
    <2> QED BY <2>1, FitCall
  <1>2. CASE to = NoText \/ ~envelope
    <2>1. \A got, n : callService(to, envelope, operation, body, got, n) = Throw(500)
      BY <1>2 DEF callService
    <2> QED BY <1>0, <2>1 DEF Served
  <1>3. CASE ~(to = NoText \/ ~envelope)
    <2>1. \A got, n : callService(to, envelope, operation, body, got, n)
                        = Await(sent, got, n, Throw(503))
      BY <1>3 DEF callService
    <2> HIDE DEF sent
    <2>2. /\ Await(sent, <<>>, 1, Throw(503)) = Ask(sent)
          /\ \A a : Await(sent, <<a>>, 1, Throw(503)) = IF a = NoAnswer THEN Throw(503) ELSE Return(a)
          /\ \A a, b : Await(sent, <<a, b>>, 1, Throw(503)) = IF a = NoAnswer THEN Throw(503) ELSE Return(a)
          /\ \A a : Await(sent, <<a>>, 2, Throw(503)) = Ask(sent)
          /\ \A a, b : Await(sent, <<a, b>>, 2, Throw(503)) = IF b = NoAnswer THEN Throw(503) ELSE Return(b)
      BY DEF Await
    <2>3. /\ callService(to, envelope, operation, body, <<>>, 1) = Ask(sent)
          /\ \A a : callService(to, envelope, operation, body, <<a>>, 1)
                      = IF a = NoAnswer THEN Throw(503) ELSE Return(a)
          /\ \A a, b : callService(to, envelope, operation, body, <<a, b>>, 1)
                         = IF a = NoAnswer THEN Throw(503) ELSE Return(a)
          /\ \A a : callService(to, envelope, operation, body, <<a>>, 2) = Ask(sent)
          /\ \A a, b : callService(to, envelope, operation, body, <<a, b>>, 2)
                         = IF b = NoAnswer THEN Throw(503) ELSE Return(b)
      BY <2>1, <2>2
    <2> QED BY <1>1, <2>3 DEF sent, Served
  <1> QED BY <1>2, <1>3

\* A WISDM operation of one call is orderly when what it says is ok was confirmed.
LEMMA OneServiceCall ==
  ASSUME NEW r, r.service = "wisdm",
         Threw(handler(r, <<>>)) \/ Asked(r, handler(r, <<>>)),
         \A a \in {NoAnswer} \cup AnswersTo(r, 1) :
           \/ Threw(handler(r, <<a>>))
           \/ /\ handler(r, <<a>>).kind = "return"
              /\ handler(r, <<a>>).value.base.ok => Confirmed(r, a)
  PROVE  Orderly(r)
  <1>1. Opens(r, handler(r, <<>>)) /\ ~AskedBoth(r, handler(r, <<>>))
    BY StepsDiffer DEF Opens
  <1>2. ASSUME NEW a \in {NoAnswer} \cup AnswersTo(r, 1)
        PROVE  Continues(r, handler(r, <<a>>), a) /\ ~Asked(r, handler(r, <<a>>))
    <2>1. CASE Threw(handler(r, <<a>>))
      BY <2>1, StepsDiffer DEF Continues
    <2>2. CASE /\ handler(r, <<a>>).kind = "return"
               /\ handler(r, <<a>>).value.base.ok => Confirmed(r, a)
      BY <2>2, StepsDiffer DEF Continues, Told, saysOk, ofInterpol
    <2> QED BY <1>2, <2>1, <2>2
  <1> QED BY <1>1, <1>2 DEF Orderly

\* A WISDM operation that goes on to a second call is orderly likewise.
LEMMA ThenServiceCall ==
  ASSUME NEW r, r.service = "wisdm",
         Threw(handler(r, <<>>)) \/ Asked(r, handler(r, <<>>)),
         \A a \in {NoAnswer} \cup AnswersTo(r, 1) :
           \/ Threw(handler(r, <<a>>))
           \/ /\ Asked(r, handler(r, <<a>>)) /\ Passed(r, a)
              /\ \A b \in {NoAnswer} \cup AnswersTo(r, 2) :
                   \/ Threw(handler(r, <<a, b>>))
                   \/ /\ handler(r, <<a, b>>).kind = "return"
                      /\ handler(r, <<a, b>>).value.base.ok => Confirmed(r, b)
  PROVE  Orderly(r)
  <1>1. Opens(r, handler(r, <<>>)) /\ ~AskedBoth(r, handler(r, <<>>))
    BY StepsDiffer DEF Opens
  <1>2. ASSUME NEW a \in {NoAnswer} \cup AnswersTo(r, 1)
        PROVE  /\ Continues(r, handler(r, <<a>>), a)
               /\ Asked(r, handler(r, <<a>>)) =>
                    \A b \in {NoAnswer} \cup AnswersTo(r, 2) : Closes(r, handler(r, <<a, b>>), a, b)
    <2>1. CASE Threw(handler(r, <<a>>))
      BY <2>1, StepsDiffer DEF Continues
    <2>2. CASE /\ Asked(r, handler(r, <<a>>)) /\ Passed(r, a)
               /\ \A b \in {NoAnswer} \cup AnswersTo(r, 2) :
                    \/ Threw(handler(r, <<a, b>>))
                    \/ /\ handler(r, <<a, b>>).kind = "return"
                       /\ handler(r, <<a, b>>).value.base.ok => Confirmed(r, b)
      <3>1. ASSUME NEW b \in {NoAnswer} \cup AnswersTo(r, 2)
            PROVE  Closes(r, handler(r, <<a, b>>), a, b)
        <4>1. CASE Threw(handler(r, <<a, b>>))
          BY <4>1 DEF Closes
        <4>2. CASE /\ handler(r, <<a, b>>).kind = "return"
                   /\ handler(r, <<a, b>>).value.base.ok => Confirmed(r, b)
          <5>1. Told(r, handler(r, <<a, b>>), b)
            BY <4>2 DEF Told, saysOk, ofInterpol
          <5> QED BY <2>2, <5>1 DEF Closes
        <4> QED BY <2>2, <3>1, <4>1, <4>2
      <3> QED BY <2>2, <3>1 DEF Continues
    <2> QED BY <1>2, <2>1, <2>2
  <1> QED BY <1>1, <1>2 DEF Orderly

\* What an answer must be for a reply with such a base to be true to it.
LEMMA Confirming ==
  ASSUME NEW r \in Requests, r.service = "wisdm", NEW n \in 1 .. 2, NEW xml \in AnswersTo(r, n),
         xml # NoAnswer, NEW allow \in BOOLEAN, allow => r.op \in emptyIsAnAnswer,
         mapBaseResponse(xml, allow).ok
  PROVE  Confirmed(r, xml)
  <1>1. /\ xml.status < 400 /\ textOf(xml.tags, "faultstring") = NoText /\ errorless(xml)
        /\ \/ textOf(xml.tags, "resultCode") \in {"0", "NO_ERROR"}
           \/ textOf(xml.tags, "resultCode") \in {"1", "NO_ANSWER"} /\ allow
    BY BaseVerdict DEF Vouched
  <1>2. accepted(xml)
    BY <1>1 DEF accepted
  <1> QED BY <1>1, <1>2 DEF Confirmed

\* The document is found by a search, and by one that went well, or nothing is done.
Resolved(r, env, id) ==
  \/ \A got : Threw(resolveDocumentId(env, id, got))
  \/ /\ \E to : resolveDocumentId(env, id, <<>>)
                  = Ask([to |-> to, operation |-> "SearchDocument", body |-> id])
     /\ Asked(r, resolveDocumentId(env, id, <<>>))
     /\ \A a :
          \/ Threw(resolveDocumentId(env, id, <<a>>))
          \/ /\ a # NoAnswer /\ mapBaseResponse(a, TRUE).ok
             /\ mapBaseResponse(a, TRUE).resultCode # "NO_ANSWER" /\ a.documentId # NoText
             /\ resolveDocumentId(env, id, <<a>>) = Return(a.documentId)
             /\ \A b : resolveDocumentId(env, id, <<a, b>>) = Return(a.documentId)

\* The identifier of a record is resolved by a search that found one document.
LEMMA Resolves ==
  ASSUME NEW r, r.service = "wisdm", NEW env, NEW id
  PROVE  Resolved(r, env, id)
  <1>0. \A n \in {404, 502, 503} : Threw(Throw(n))
    BY StepKinds DEF Threw
  <1> DEFINE q(got) == call(env, "SearchDocument", id, got, 1)
             missing(xml) == mapBaseResponse(xml, TRUE).resultCode = "NO_ANSWER"
             failed(xml) == ~mapBaseResponse(xml, TRUE).ok \/ xml.documentId = NoText
             v(xml) == IF missing(xml) THEN Throw(404)
                       ELSE IF failed(xml) THEN Throw(502) ELSE Return(xml.documentId)
             h(got) == resolveDocumentId(env, id, got)
  <1>1. \A got : h(got) = IF q(got).kind = "return" THEN v(q(got).value) ELSE q(got)
    BY DEF resolveDocumentId, AndThen
  <1>2. \/ \A got : Threw(q(got))
        \/ /\ \E to : q(<<>>) = Ask([to |-> to, operation |-> "SearchDocument", body |-> id])
           /\ Asked(r, q(<<>>))
           /\ \A a : q(<<a>>) = IF a = NoAnswer THEN Throw(503) ELSE Return(a)
           /\ \A a, b : q(<<a, b>>) = IF a = NoAnswer THEN Throw(503) ELSE Return(a)
    <2> DEFINE to == getSltdEndpoint(env)
               c(got) == callService(to, buildEnvelope(env), "SearchDocument", id, got, 1)
    <2>1. \A got : q(got) = c(got)
      BY DEF call
    <2>2. \/ \A got : Threw(c(got))
          \/ /\ c(<<>>) = Ask([to |-> to, operation |-> "SearchDocument", body |-> id])
             /\ Asked(r, c(<<>>))
             /\ \A a : c(<<a>>) = IF a = NoAnswer THEN Throw(503) ELSE Return(a)
             /\ \A a, b : c(<<a, b>>) = IF a = NoAnswer THEN Throw(503) ELSE Return(a)
      <3>1. Served(r, to, buildEnvelope(env), "SearchDocument", id)
        BY ServiceCalls
      <3> QED BY <3>1 DEF Served
    <2> HIDE DEF q, c
    <2>3. /\ q(<<>>) = c(<<>>)
          /\ \A a : q(<<a>>) = c(<<a>>)
          /\ \A a, b : q(<<a, b>>) = c(<<a, b>>)
      BY <2>1
    <2> HIDE DEF to
    <2>4. CASE \A got : Threw(c(got))
      BY <2>1, <2>4
    <2>5. CASE ~\A got : Threw(c(got))
      <3>1. q(<<>>) = Ask([to |-> to, operation |-> "SearchDocument", body |-> id])
        BY <2>2, <2>3, <2>5
      <3>2. Asked(r, q(<<>>))
        BY <2>2, <2>3, <2>5
      <3>3. \A a : q(<<a>>) = IF a = NoAnswer THEN Throw(503) ELSE Return(a)
        BY ZenonT(60), <2>2, <2>3, <2>5
      <3>4. ASSUME NEW a, NEW b
            PROVE  q(<<a, b>>) = IF a = NoAnswer THEN Throw(503) ELSE Return(a)
        <4>1. q(<<a, b>>) = c(<<a, b>>)
          BY <2>3
        <4>2. c(<<a, b>>) = IF a = NoAnswer THEN Throw(503) ELSE Return(a)
          BY <2>2, <2>5
        <4> QED BY <4>1, <4>2
      <3> QED BY <3>1, <3>2, <3>3, <3>4
    <2> QED BY <2>4, <2>5
  <1> HIDE DEF q, h, v
  <1>3. CASE \A got : Threw(q(got))
    <2>1. \A got : h(got) = q(got)
      BY <1>1, <1>3 DEF Threw
    <2> QED BY <1>3, <2>1 DEF h, Resolved
  <1>4. CASE /\ \E to : q(<<>>) = Ask([to |-> to, operation |-> "SearchDocument", body |-> id])
             /\ Asked(r, q(<<>>))
             /\ \A a : q(<<a>>) = IF a = NoAnswer THEN Throw(503) ELSE Return(a)
             /\ \A a, b : q(<<a, b>>) = IF a = NoAnswer THEN Throw(503) ELSE Return(a)
    <2>1. h(<<>>) = q(<<>>)
      BY <1>1, <1>4, StepKinds
    <2>2. ASSUME NEW a
          PROVE  \/ Threw(h(<<a>>))
                 \/ /\ a # NoAnswer /\ mapBaseResponse(a, TRUE).ok
                    /\ mapBaseResponse(a, TRUE).resultCode # "NO_ANSWER" /\ a.documentId # NoText
                    /\ h(<<a>>) = Return(a.documentId)
                    /\ \A b : h(<<a, b>>) = Return(a.documentId)
      <3>1. CASE a = NoAnswer
        <4>1. q(<<a>>) = Throw(503)
          BY <1>4, <3>1
        <4>2. h(<<a>>) = Throw(503)
          BY <1>1, <4>1, StepKinds
        <4> QED BY ZenonT(60), <1>0, <4>2
      <3>2. CASE a # NoAnswer
        <4>1. q(<<a>>) = Return(a) /\ \A b : q(<<a, b>>) = Return(a)
          BY <1>4, <3>2
        <4>2. h(<<a>>) = v(a) /\ \A b : h(<<a, b>>) = v(a)
          BY <1>1, <4>1, StepKinds
        <4>3. CASE missing(a)
          <5>1. v(a) = Throw(404)
            BY <4>3 DEF v
          <5>2. h(<<a>>) = Throw(404) /\ Threw(Throw(404))
            BY <1>0, <4>2, <5>1
          <5> QED BY <5>2
        <4>4. CASE ~missing(a) /\ failed(a)
          <5>1. v(a) = Throw(502)
            BY <4>4 DEF v
          <5>2. h(<<a>>) = Throw(502) /\ Threw(Throw(502))
            BY <1>0, <4>2, <5>1
          <5> QED BY <5>2
        <4>5. CASE ~missing(a) /\ ~failed(a)
          <5>1. v(a) = Return(a.documentId)
            BY <4>5 DEF v
          <5> QED BY <3>2, <4>2, <4>5, <5>1
        <4> QED BY <4>3, <4>4, <4>5
      <3> QED BY <3>1, <3>2
    <2> QED BY ZenonT(60), <1>4, <2>1, <2>2 DEF h, Resolved
  <1> QED BY <1>2, <1>3, <1>4

\* A second call of WISDM is about the document a search has found.
FollowsSearch(r, a) ==
  \E c, d : /\ handler(r, <<>>) = Ask(c) /\ handler(r, <<a>>) = Ask(d)
            /\ c.operation = "SearchDocument" /\ c.body = identifier(r.body)
            /\ accepted(a) /\ errorless(a)
            /\ textOf(a.tags, "resultCode") \in {"0", "NO_ERROR"}
            /\ a.documentId # NoText /\ d.body.DocumentId = a.documentId

SearchesFirst(r) ==
  /\ ~AskedBoth(r, handler(r, <<>>))
  /\ \A a \in {NoAnswer} \cup AnswersTo(r, 1) : Asked(r, handler(r, <<a>>)) => FollowsSearch(r, a)

\* A reply that says ok only if the answer it was made of confirms it.
TellsTruly(r, got, a) == handler(r, got).value.base.ok => Confirmed(r, a)

\* The handler ends as its n-th call, unless that was answered; then it tells of it.
TellsOf(r, end, got, n) ==
  IF end.kind = "return"
  THEN /\ handler(r, got).kind = "return"
       /\ \A a \in AnswersTo(r, n) \ {NoAnswer} : end = Return(a) => TellsTruly(r, got, a)
  ELSE handler(r, got) = end

\* An operation that its DTO or its service refuses makes no call.
LEMMA Refused ==
  ASSUME NEW r, r.service = "wisdm", \A got : handler(r, got) = Throw(400)
  PROVE  Orderly(r) /\ SearchesFirst(r)
  <1>1. \A got : Threw(handler(r, got))
    BY StepKinds DEF Threw
  <1> QED BY ZenonT(60), <1>1, OneServiceCall, StepsDiffer DEF SearchesFirst

\* An operation that makes its one call, and tells of it, is orderly.
LEMMA MadeOnce ==
  ASSUME NEW r \in Requests, r.service = "wisdm",
         NEW to, NEW envelope, NEW operation, NEW body,
         operation = "CreateOrUpdateSLTDRecord" => r.op \in {"create", "update"},
         \A got : TellsOf(r, callService(to, envelope, operation, body, got, 1), got, 1)
  PROVE  Orderly(r) /\ SearchesFirst(r)
  <1> DEFINE q(got) == callService(to, envelope, operation, body, got, 1)
  <1>1. \A got : TellsOf(r, q(got), got, 1)
    OBVIOUS
  <1>2. \/ \A got : Threw(q(got))
        \/ /\ Asked(r, q(<<>>))
           /\ \A a : q(<<a>>) = IF a = NoAnswer THEN Throw(503) ELSE Return(a)
    <2>1. Served(r, to, envelope, operation, body)
      BY ServiceCalls
    <2> QED BY <2>1 DEF Served
  <1> HIDE DEF q
  <1>3. CASE \A got : Threw(q(got))
    <2>1. \A got : Threw(handler(r, got))
      BY <1>1, <1>3 DEF Threw, TellsOf
    <2> QED BY <2>1, OneServiceCall, StepsDiffer DEF SearchesFirst
  <1>4. CASE /\ Asked(r, q(<<>>))
             /\ \A a : q(<<a>>) = IF a = NoAnswer THEN Throw(503) ELSE Return(a)
    <2>1. Asked(r, handler(r, <<>>))
      BY <1>1, <1>4, StepsDiffer DEF TellsOf
    <2>2. ASSUME NEW a \in {NoAnswer} \cup AnswersTo(r, 1)
          PROVE  \/ Threw(handler(r, <<a>>))
                 \/ /\ handler(r, <<a>>).kind = "return"
                    /\ handler(r, <<a>>).value.base.ok => Confirmed(r, a)
      <3>1. CASE a = NoAnswer
        <4>1. q(<<a>>) = Throw(503)
          BY <1>4, <3>1
        <4>2. handler(r, <<a>>) = Throw(503)
          BY <1>1, <4>1, StepKinds DEF TellsOf
        <4>3. Threw(Throw(503))
          BY StepKinds DEF Threw
        <4> QED BY <4>2, <4>3
      <3>2. CASE a # NoAnswer
        <4>1. q(<<a>>) = Return(a)
          BY <1>4, <3>2
        <4>2. handler(r, <<a>>).kind = "return" /\ TellsTruly(r, <<a>>, a)
          BY <1>1, <2>2, <3>2, <4>1, StepKinds DEF TellsOf
        <4> QED BY <4>2 DEF TellsTruly
      <3> QED BY <3>1, <3>2
    <2>3. \A a \in {NoAnswer} \cup AnswersTo(r, 1) : ~Asked(r, handler(r, <<a>>))
      BY <2>2, StepsDiffer
    <2>4. SearchesFirst(r)
      BY <2>1, <2>3, StepsDiffer DEF SearchesFirst
    <2> QED BY <2>1, <2>2, <2>4, OneServiceCall
  <1> QED BY <1>2, <1>3, <1>4

\* An operation on the document that a search has found is orderly.
LEMMA MadeAfterSearch ==
  ASSUME NEW r \in Requests, r.service = "wisdm",
         NEW to, NEW envelope, NEW operation, operation # "CreateOrUpdateSLTDRecord",
         NEW id, id = identifier(r.body),
         \A got : resolveDocumentId(r.env, id, got).kind # "return"
                    => handler(r, got) = resolveDocumentId(r.env, id, got),
         \A d : \E body :
           /\ body.DocumentId = d
           /\ \A got :
                resolveDocumentId(r.env, id, got) = Return(d) =>
                  TellsOf(r, callService(to, envelope, operation, body, got, 2), got, 2)
  PROVE  Orderly(r) /\ SearchesFirst(r)
  <1> DEFINE h(got) == resolveDocumentId(r.env, id, got)
             q(body, got) == callService(to, envelope, operation, body, got, 2)
             sent(body) == [to |-> to, operation |-> operation, body |-> body]
  <1>1. \A got : h(got).kind # "return" => handler(r, got) = h(got)
    OBVIOUS
  <1>2. \A d : \E body :
          /\ body.DocumentId = d
          /\ \A got : h(got) = Return(d) => TellsOf(r, q(body, got), got, 2)
    OBVIOUS
  <1>3. \/ \A got : Threw(h(got))
        \/ /\ \E url : h(<<>>) = Ask([to |-> url, operation |-> "SearchDocument", body |-> id])
           /\ Asked(r, h(<<>>))
           /\ \A a :
                \/ Threw(h(<<a>>))
                \/ /\ a # NoAnswer /\ mapBaseResponse(a, TRUE).ok
                   /\ mapBaseResponse(a, TRUE).resultCode # "NO_ANSWER" /\ a.documentId # NoText
                   /\ h(<<a>>) = Return(a.documentId)
                   /\ \A b : h(<<a, b>>) = Return(a.documentId)
    <2>1. Resolved(r, r.env, id)
      BY Resolves
    <2> QED BY <2>1 DEF Resolved
  <1>4. ASSUME NEW body
        PROVE
          \/ \A got : Threw(q(body, got))
          \/ /\ \A a : q(body, <<a>>) = Ask(sent(body))
             /\ \A a : Asked(r, q(body, <<a>>))
             /\ \A a, b : q(body, <<a, b>>) = IF b = NoAnswer THEN Throw(503) ELSE Return(b)
    <2>1. Served(r, to, envelope, operation, body)
      BY ServiceCalls
    <2> QED BY <2>1 DEF Served
  <1>5. \A body : sent(body).body = body
    OBVIOUS
  <1> HIDE DEF h, q, sent
  <1>6. CASE \A got : Threw(h(got))
    <2>1. \A got : Threw(handler(r, got))
      BY <1>1, <1>6 DEF Threw
    <2> QED BY <2>1, OneServiceCall, StepsDiffer DEF SearchesFirst
  <1>7. CASE ~\A got : Threw(h(got))
    <2>1. PICK url : h(<<>>) = Ask([to |-> url, operation |-> "SearchDocument", body |-> id])
      BY <1>3, <1>7
    <2>2. handler(r, <<>>) = h(<<>>) /\ Asked(r, handler(r, <<>>))
      BY <1>1, <1>3, <1>7, StepsDiffer
    <2>3. ASSUME NEW a \in {NoAnswer} \cup AnswersTo(r, 1), ~Threw(handler(r, <<a>>))
          PROVE  /\ Asked(r, handler(r, <<a>>)) /\ Passed(r, a) /\ FollowsSearch(r, a)
                 /\ \A b \in {NoAnswer} \cup AnswersTo(r, 2) :
                      \/ Threw(handler(r, <<a, b>>))
                      \/ /\ handler(r, <<a, b>>).kind = "return"
                         /\ handler(r, <<a, b>>).value.base.ok => Confirmed(r, b)
      <3>1. ~Threw(h(<<a>>))
        BY <1>1, <2>3 DEF Threw
      <3>2. /\ a # NoAnswer /\ mapBaseResponse(a, TRUE).ok
            /\ mapBaseResponse(a, TRUE).resultCode # "NO_ANSWER" /\ a.documentId # NoText
            /\ h(<<a>>) = Return(a.documentId)
            /\ \A b : h(<<a, b>>) = Return(a.documentId)
        BY <1>3, <1>7, <3>1
      <3>3. PICK body :
              /\ body.DocumentId = a.documentId
              /\ \A got : h(got) = Return(a.documentId) => TellsOf(r, q(body, got), got, 2)
        BY <1>2
      <3>4. /\ q(body, <<a>>) = Ask(sent(body))
            /\ Asked(r, q(body, <<a>>))
            /\ \A b : q(body, <<a, b>>) = IF b = NoAnswer THEN Throw(503) ELSE Return(b)
        <4>1. CASE \A got : Threw(q(body, got))
          <5>1. handler(r, <<a>>) = q(body, <<a>>)
            BY <3>2, <3>3, <4>1 DEF Threw, TellsOf
          <5> QED BY <2>3, <4>1, <5>1
        <4> QED BY <1>4, <4>1
      <3>5. handler(r, <<a>>) = Ask(sent(body)) /\ Asked(r, handler(r, <<a>>))
        BY <3>2, <3>3, <3>4, StepsDiffer, StepKinds DEF TellsOf
      <3>6. /\ a.status < 400 /\ textOf(a.tags, "faultstring") = NoText /\ errorless(a)
            /\ textOf(a.tags, "resultCode") \in {"0", "NO_ERROR"}
        <4>1. a \in AnswersTo(r, 1) /\ 1 \in 1 .. 2
          BY <2>3, <3>2
        <4>2. /\ a.status < 400 /\ textOf(a.tags, "faultstring") = NoText /\ errorless(a)
              /\ \/ textOf(a.tags, "resultCode") \in {"0", "NO_ERROR"}
                 \/ mapBaseResponse(a, TRUE).resultCode = "NO_ANSWER"
          <5>1. Vouched(a, TRUE)
            BY <3>2, <4>1, BaseVerdict
          <5> QED BY <5>1 DEF Vouched
        <4> QED BY <3>2, <4>2
      <3>7. Passed(r, a) /\ accepted(a)
        BY <3>2, <3>6 DEF Passed, ofInterpol, accepted
      <3>8. FollowsSearch(r, a)
        <4> DEFINE c == [to |-> url, operation |-> "SearchDocument", body |-> id]
        <4>1. c.operation = "SearchDocument" /\ c.body = identifier(r.body)
          OBVIOUS
        <4>2. handler(r, <<>>) = Ask(c)
          BY <2>1, <2>2
        <4> HIDE DEF c
        <4>3. sent(body).body.DocumentId = a.documentId
          BY <1>5, <3>3
        <4> QED BY <3>2, <3>5, <3>6, <3>7, <4>1, <4>2, <4>3 DEF FollowsSearch
      <3>9. ASSUME NEW b \in {NoAnswer} \cup AnswersTo(r, 2)
            PROVE  \/ Threw(handler(r, <<a, b>>))
                   \/ /\ handler(r, <<a, b>>).kind = "return"
                      /\ handler(r, <<a, b>>).value.base.ok => Confirmed(r, b)
        <4>0. h(<<a, b>>) = Return(a.documentId)
          BY <3>2
        <4>1. CASE b = NoAnswer
          <5>1. q(body, <<a, b>>) = Throw(503)
            BY <3>4, <4>1
          <5>2. handler(r, <<a, b>>) = Throw(503)
            BY <3>3, <4>0, <5>1, StepKinds DEF TellsOf
          <5>3. Threw(Throw(503))
            BY StepKinds DEF Threw
          <5> QED BY <5>2, <5>3
        <4>2. CASE b # NoAnswer
          <5>1. q(body, <<a, b>>) = Return(b)
            BY <3>4, <4>2
          <5>2. handler(r, <<a, b>>).kind = "return" /\ TellsTruly(r, <<a, b>>, b)
            BY <3>3, <3>9, <4>0, <4>2, <5>1, StepKinds DEF TellsOf
          <5> QED BY <5>2 DEF TellsTruly
        <4> QED BY <4>1, <4>2
      <3> QED BY <3>5, <3>7, <3>8, <3>9
    <2>4. Orderly(r)
      <3>1. \A a \in {NoAnswer} \cup AnswersTo(r, 1) :
              \/ Threw(handler(r, <<a>>))
              \/ /\ Asked(r, handler(r, <<a>>)) /\ Passed(r, a)
                 /\ \A b \in {NoAnswer} \cup AnswersTo(r, 2) :
                      \/ Threw(handler(r, <<a, b>>))
                      \/ /\ handler(r, <<a, b>>).kind = "return"
                         /\ handler(r, <<a, b>>).value.base.ok => Confirmed(r, b)
        BY <2>3
      <3> QED BY <2>2, <3>1, ThenServiceCall
    <2>5. SearchesFirst(r)
      BY <2>2, <2>3, StepsDiffer DEF SearchesFirst
    <2> QED BY <2>4, <2>5
  <1> QED BY <1>6, <1>7

\* A handler whose reply has the base of what its last call brought.
Based(r, got, end, allow) ==
  /\ allow => r.op \in emptyIsAnAnswer
  /\ end.kind # "return" => handler(r, got) = end
  /\ end.kind = "return" =>
       /\ handler(r, got).kind = "return"
       /\ handler(r, got).value.base = mapBaseResponse(end.value, allow)

\* A reply whose base is that of its last answer tells of that answer truly.
LEMMA ToldByBase ==
  ASSUME NEW r \in Requests, r.service = "wisdm", NEW n \in 1 .. 2, NEW got, NEW end,
         NEW allow \in BOOLEAN, Based(r, got, end, allow)
  PROVE  TellsOf(r, end, got, n)
  <1>0. /\ allow => r.op \in emptyIsAnAnswer
        /\ end.kind # "return" => handler(r, got) = end
        /\ end.kind = "return" =>
             /\ handler(r, got).kind = "return"
             /\ handler(r, got).value.base = mapBaseResponse(end.value, allow)
    BY DEF Based
  <1>1. CASE end.kind # "return"
    BY <1>0, <1>1 DEF TellsOf
  <1>2. CASE end.kind = "return"
    <2>1. ASSUME NEW a \in AnswersTo(r, n) \ {NoAnswer}, end = Return(a)
          PROVE  TellsTruly(r, got, a)
      <3>1. handler(r, got).value.base = mapBaseResponse(a, allow)
        BY <1>0, <1>2, <2>1, StepKinds
      <3>2. mapBaseResponse(a, allow).ok => Confirmed(r, a)
        BY <1>0, <2>1, Confirming
      <3> QED BY <3>1, <3>2 DEF TellsTruly
    <2> QED BY <1>0, <1>2, <2>1 DEF TellsOf
  <1> QED BY <1>1, <1>2

\* The reply to a mutation has the base of its answer.
LEMMA MutationBase ==
  ASSUME NEW id, NEW xml
  PROVE  /\ mapMutationResponse(id, xml).kind = "return"
         /\ mapMutationResponse(id, xml).value.base = mapBaseResponse(xml, FALSE)
  <1> DEFINE base == mapBaseResponse(xml, FALSE)
             item == xml.documentId
             until == orElse(firstTagValue(xml, "db_review_date"), firstTagValue(xml, "RetentionDate"))
             data == parseXmlDataToJson(xml)
             value == [base |-> base, id |-> id, itemId |-> item, recordRetentionDate |-> until,
                       xmlData |-> data]
  <1>1. mapMutationResponse(id, xml) = Return(value)
    BY DEF mapMutationResponse
  <1> HIDE DEF base, item, until, data
  <1>2. value.base = base
    OBVIOUS
  <1> HIDE DEF value
  <1>3. Return(value).kind = "return" /\ Return(value).value.base = base
    BY <1>2, StepKinds
  <1> QED BY <1>1, <1>3 DEF base

\* A reply about a schema.
LEMMA ToldBySchema ==
  ASSUME NEW r \in Requests, r.service = "wisdm", r.op \in schemaOperations, NEW env,
         NEW operation, operation # "CreateOrUpdateSLTDRecord", NEW body,
         \A got : handler(r, got) = callAndMapInfos(env, operation, body, got)
  PROVE  Orderly(r) /\ SearchesFirst(r)
  <1> DEFINE to == getInfosEndpoint(env)
             envelope == credentials(env)
             q(got) == callService(to, envelope, operation, body, got, 1)
             ok(xml) == /\ xml.status < 400 /\ extractSoapFault(xml) = NoText
                        /\ \/ firstTagValue(xml, "resultCode") = NoText
                           \/ evaluateResultCode(firstTagValue(xml, "resultCode")).key
                                \in {"NO_ERROR", "NO_ANSWER"}
             faultOf(xml) == extractSoapFault(xml)
             codeOf(xml) == firstTagValue(xml, "resultCode")
             dataOf(xml) == parseXmlDataToJson(xml)
             base(xml) == [ok |-> ok(xml), httpStatus |-> xml.status, fault |-> faultOf(xml),
                           resultCode |-> codeOf(xml)]
             told(xml) == [base |-> base(xml), schemas |-> xml.items, payload |-> dataOf(xml)]
             v(xml) == Return(told(xml))
  <1>1. \A got : handler(r, got) = IF q(got).kind = "return" THEN v(q(got).value) ELSE q(got)
    BY DEF callAndMapInfos, callInfos, AndThen
  <1>2. \A xml : v(xml).kind = "return" /\ v(xml).value.base.ok = ok(xml)
    <2> HIDE DEF ok, faultOf, codeOf, dataOf
    <2>1. \A xml : base(xml).ok = ok(xml)
      OBVIOUS
    <2> HIDE DEF base
    <2>2. \A xml : told(xml).base = base(xml)
      OBVIOUS
    <2> HIDE DEF told
    <2> QED BY <2>1, <2>2, StepKinds
  <1>3. ASSUME NEW a \in AnswersTo(r, 1) \ {NoAnswer}, ok(a) PROVE Confirmed(r, a)
    <2>1. textOf(a.tags, "faultstring") = NoText
      BY <1>3 DEF extractSoapFault, firstTagValue, textOf
    <2>2. accepted(a)
      BY <1>3, <2>1 DEF accepted
    <2>3. textOf(a.tags, "resultCode") \in {"0", "NO_ERROR", NoText, "1", "NO_ANSWER"}
      BY <1>3, SchemaVerdict
    <2> QED BY <2>2, <2>3 DEF Confirmed
  <1> HIDE DEF q, v, ok
  <1>4. ASSUME NEW got PROVE TellsOf(r, q(got), got, 1)
    <2>1. CASE q(got).kind # "return"
      BY <1>1, <2>1 DEF TellsOf
    <2>2. CASE q(got).kind = "return"
      <3>1. handler(r, got) = v(q(got).value)
        BY <1>1, <2>2
      <3>2. ASSUME NEW a \in AnswersTo(r, 1) \ {NoAnswer}, q(got) = Return(a)
            PROVE  TellsTruly(r, got, a)
        <4>1. handler(r, got) = v(a)
          BY <3>1, <3>2, StepKinds
        <4>2. handler(r, got).value.base.ok = ok(a)
          BY <1>2, <4>1
        <4> QED BY <1>3, <4>2 DEF TellsTruly
      <3> QED BY <1>2, <2>2, <3>1, <3>2 DEF TellsOf
    <2> QED BY <2>1, <2>2
  <1> HIDE DEF to, envelope
  <1> QED BY <1>4, MadeOnce DEF q

\* The actions that are shown, and the reply that shows them.
actionsShown(q, items) ==
  keep(items, {i \in Range(items) :
                 /\ i.action # NoText
                 /\ isAskedFor(toActivityEntry(i), normalizeOptional(q.typeOfDocument),
                               normalizeOptional(q.from), normalizeOptional(q.to))})

activityReply(q, xml) ==
  LET shown == actionsShown(q, xml.items)
      entries == [k \in DOMAIN shown |-> toActivityEntry(shown[k])]
  IN [base |-> mapBaseResponse(xml, TRUE),
      entries |-> IF mapBaseResponse(xml, TRUE).ok THEN entries ELSE <<>>]

asksForActivity(q) ==
  /\ WisdmActivityQueryDto(q)
  /\ ~(/\ normalizeOptional(q.from) # absent /\ normalizeOptional(q.to) # absent
       /\ normalizeOptional(q.from).month > normalizeOptional(q.to).month)

\* The activity is asked for with one call, or not at all.
LEMMA ActivityIsAsked ==
  ASSUME NEW r, r.service = "wisdm", r.op = "activity", NEW got
  PROVE  LET call1 == callService(getSltdEndpoint(r.env), buildEnvelope(r.env), "GetStatistics",
                                  <<>>, got, 1)
         IN handler(r, got) =
              IF ~asksForActivity(r.query) THEN Throw(400)
              ELSE IF call1.kind = "return" THEN Return(activityReply(r.query, call1.value))
              ELSE call1
  <1> DEFINE valid == WisdmActivityQueryDto(r.query)
             from == normalizeOptional(r.query.from)
             until == normalizeOptional(r.query.to)
             unfit == from # absent /\ until # absent /\ from.month > until.month
             q == callService(getSltdEndpoint(r.env), buildEnvelope(r.env), "GetStatistics",
                              <<>>, got, 1)
             shown(xml) == actionsShown(r.query, xml.items)
             entries(xml) == [k \in DOMAIN shown(xml) |-> toActivityEntry(shown(xml)[k])]
             v(xml) == Return([base |-> mapBaseResponse(xml, TRUE),
                               entries |-> IF mapBaseResponse(xml, TRUE).ok THEN entries(xml)
                                           ELSE <<>>])
  <1>1. handler(r, got) = IF valid THEN getActivity(r.env, r.query, got) ELSE Throw(400)
    BY DEF handler, wisdmHandler, Validated
  <1>2. getActivity(r.env, r.query, got) =
          IF unfit THEN Throw(400) ELSE IF q.kind = "return" THEN v(q.value) ELSE q
    BY DEF getActivity, call, AndThen, actionsShown
  <1>3. asksForActivity(r.query) <=> valid /\ ~unfit
    BY DEF asksForActivity
  <1>4. \A xml : v(xml) = Return(activityReply(r.query, xml))
    BY DEF activityReply
  <1> HIDE DEF valid, unfit, q, v
  <1>5. handler(r, got) = IF ~asksForActivity(r.query) THEN Throw(400)
                          ELSE IF q.kind = "return" THEN Return(activityReply(r.query, q.value))
                          ELSE q
    BY <1>1, <1>2, <1>3, <1>4
  <1> QED BY <1>5 DEF q

\* Its reply has the base of its answer.
LEMMA ActivityBase ==
  \A q, xml : /\ Return(activityReply(q, xml)).kind = "return"
              /\ Return(activityReply(q, xml)).value.base = mapBaseResponse(xml, TRUE)
  <1> SUFFICES ASSUME NEW q, NEW xml
               PROVE  /\ Return(activityReply(q, xml)).kind = "return"
                      /\ Return(activityReply(q, xml)).value.base = mapBaseResponse(xml, TRUE)
    OBVIOUS
  <1> DEFINE shown == actionsShown(q, xml.items)
             base == mapBaseResponse(xml, TRUE)
             entries == IF base.ok THEN [k \in DOMAIN shown |-> toActivityEntry(shown[k])] ELSE <<>>
             told == activityReply(q, xml)
  <1>1. told = [base |-> base, entries |-> entries]
    BY DEF activityReply
  <1> HIDE DEF base, entries, told
  <1>2. told.base = base
    BY <1>1
  <1>3. Return(told).kind = "return" /\ Return(told).value = told
    BY StepKinds
  <1>4. Return(told).value.base = base
    BY <1>2, <1>3
  <1> QED BY <1>3, <1>4 DEF told, base

\* Every operation of WISDM is orderly, and acts on what it has searched for.
LEMMA WisdmIsOrderly ==
  ASSUME NEW r \in Requests, r.service = "wisdm"
  PROVE  Orderly(r) /\ SearchesFirst(r)
  <1>1. CASE r.op = "create"
    <2> DEFINE valid == WisdmCreateRecordDto(r.body)
    <2>1. \A got : handler(r, got) = IF valid THEN createRecord(r.env, r.body, got) ELSE Throw(400)
      BY <1>1 DEF handler, wisdmHandler, Validated
    <2> HIDE DEF valid
    <2>2. CASE ~valid
      BY <2>1, <2>2, Refused
    <2>3. CASE valid
      <3> DEFINE p == toRecordParams(r.body, "create")
                 unfit == ~requireTypeOfDocument(r.body.typeOfDocument) \/ ~assertDateOrdering(p)
                 to == getSltdEndpoint(r.env)
                 envelope == buildEnvelope(r.env)
                 sent == buildRecordElements(identifier(r.body), p, TRUE)
                 q(got) == callService(to, envelope, "CreateOrUpdateSLTDRecord", sent, got, 1)
                 v(xml) == mapMutationResponse(identifier(r.body), xml)
      <3>0. \A got : handler(r, got) =
              IF unfit THEN Throw(400)
              ELSE IF q(got).kind = "return" THEN v(q(got).value) ELSE q(got)
        BY <2>1, <2>3 DEF createRecord, call, AndThen
      <3> HIDE DEF unfit
      <3>1. CASE unfit
        BY <3>0, <3>1, Refused
      <3>2. CASE ~unfit
        <4>1. \A got : handler(r, got) = IF q(got).kind = "return" THEN v(q(got).value) ELSE q(got)
          BY <3>0, <3>2
        <4>2. \A xml : v(xml).kind = "return" /\ v(xml).value.base = mapBaseResponse(xml, FALSE)
          BY MutationBase
        <4> HIDE DEF q, v
        <4>3. \A got : TellsOf(r, q(got), got, 1)
          <5>1. SUFFICES ASSUME NEW got PROVE TellsOf(r, q(got), got, 1)
            OBVIOUS
          <5>2. q(got).kind # "return" => handler(r, got) = q(got)
            BY <4>1
          <5>3. q(got).kind = "return" =>
                  /\ handler(r, got).kind = "return"
                  /\ handler(r, got).value.base = mapBaseResponse(q(got).value, FALSE)
            BY <4>1, <4>2
          <5>4. FALSE => r.op \in emptyIsAnAnswer
            BY <1>1 DEF emptyIsAnAnswer
          <5>5. Based(r, got, q(got), FALSE)
            BY <5>2, <5>3, <5>4 DEF Based
          <5>6. 1 \in 1 .. 2 /\ FALSE \in BOOLEAN
            OBVIOUS
          <5> QED BY <5>5, <5>6, ToldByBase
        <4> HIDE DEF to, envelope, sent
        <4> QED BY <1>1, <4>3, MadeOnce DEF q
      <3> QED BY <3>1, <3>2
    <2> QED BY <2>2, <2>3
  <1>2. CASE r.op = "update"
    <2> DEFINE valid == WisdmUpdateRecordDto(r.body)
    <2>1. \A got : handler(r, got) = IF valid THEN updateRecord(r.env, r.body, got) ELSE Throw(400)
      BY <1>2 DEF handler, wisdmHandler, Validated
    <2> HIDE DEF valid
    <2>2. CASE ~valid
      BY <2>1, <2>2, Refused
    <2>3. CASE valid
      <3> DEFINE p == toRecordParams(r.body, "update")
                 unfit == \/ ~requireTypeOfDocument(r.body.typeOfDocument)
                            \/ ~assertDateOrdering(p)
                            \/ ~retentionHasReason(p)
                            \/ ~assertHasUpdatableField(r.body)
                 to == getSltdEndpoint(r.env)
                 envelope == buildEnvelope(r.env)
                 sent == buildRecordElements(identifier(r.body), p, FALSE)
                 q(got) == callService(to, envelope, "CreateOrUpdateSLTDRecord", sent, got, 1)
                 v(xml) == mapMutationResponse(identifier(r.body), xml)
      <3>0. \A got : handler(r, got) =
              IF unfit THEN Throw(400)
              ELSE IF q(got).kind = "return" THEN v(q(got).value) ELSE q(got)
        BY ZenonT(60), <2>1, <2>3 DEF updateRecord, call, AndThen
      <3> HIDE DEF unfit
      <3>1. CASE unfit
        BY <3>0, <3>1, Refused
      <3>2. CASE ~unfit
        <4>1. \A got : handler(r, got) = IF q(got).kind = "return" THEN v(q(got).value) ELSE q(got)
          BY <3>0, <3>2
        <4>2. \A xml : v(xml).kind = "return" /\ v(xml).value.base = mapBaseResponse(xml, FALSE)
          BY MutationBase
        <4> HIDE DEF q, v
        <4>3. \A got : TellsOf(r, q(got), got, 1)
          <5>1. SUFFICES ASSUME NEW got PROVE TellsOf(r, q(got), got, 1)
            OBVIOUS
          <5>2. q(got).kind # "return" => handler(r, got) = q(got)
            BY <4>1
          <5>3. q(got).kind = "return" =>
                  /\ handler(r, got).kind = "return"
                  /\ handler(r, got).value.base = mapBaseResponse(q(got).value, FALSE)
            BY <4>1, <4>2
          <5>4. FALSE => r.op \in emptyIsAnAnswer
            BY <1>2 DEF emptyIsAnAnswer
          <5>5. Based(r, got, q(got), FALSE)
            BY <5>2, <5>3, <5>4 DEF Based
          <5>6. 1 \in 1 .. 2 /\ FALSE \in BOOLEAN
            OBVIOUS
          <5> QED BY <5>5, <5>6, ToldByBase
        <4> HIDE DEF to, envelope, sent
        <4> QED BY <1>2, <4>3, MadeOnce DEF q
      <3> QED BY <3>1, <3>2
    <2> QED BY <2>2, <2>3
  <1>3. CASE r.op = "count"
    <2> DEFINE valid == WisdmCountQueryDto(r.query)
    <2>1. \A got : handler(r, got) = IF valid THEN getDocumentCount(r.env, r.query, got) ELSE Throw(400)
      BY <1>3 DEF handler, wisdmHandler, Validated
    <2> HIDE DEF valid
    <2>2. CASE ~valid
      BY <2>1, <2>2, Refused
    <2>3. CASE valid
      <3> DEFINE to == getSltdEndpoint(r.env)
                 envelope == buildEnvelope(r.env)
                 sent == <<>>
                 q(got) == callService(to, envelope, "GetStatistics", sent, got, 1)
                 totalOf(xml) == LET found == SelectSeq(xml.items, LAMBDA i : documentIndicator(i, r.query.typeOfDocument))
                               IN IF found = <<>> THEN {} ELSE found[1].value
                 told(xml) == [base |-> mapBaseResponse(xml, TRUE), total |-> totalOf(xml)]
                 v(xml) == Return(told(xml))
      <3>1. \A got : handler(r, got) = IF q(got).kind = "return" THEN v(q(got).value) ELSE q(got)
        BY <2>1, <2>3 DEF getDocumentCount, call, AndThen
      <3> HIDE DEF totalOf
      <3>2. \A xml : v(xml).kind = "return" /\ v(xml).value.base = mapBaseResponse(xml, TRUE)
        <4>1. \A xml : told(xml).base = mapBaseResponse(xml, TRUE)
          OBVIOUS
        <4> HIDE DEF told
        <4> QED BY <4>1, StepKinds
      <3> HIDE DEF told
      <3> HIDE DEF q, v
      <3>3. \A got : TellsOf(r, q(got), got, 1)
        <4>1. SUFFICES ASSUME NEW got PROVE TellsOf(r, q(got), got, 1)
          OBVIOUS
        <4>2. q(got).kind # "return" => handler(r, got) = q(got)
          BY <3>1
        <4>3. q(got).kind = "return" =>
                /\ handler(r, got).kind = "return"
                /\ handler(r, got).value.base = mapBaseResponse(q(got).value, TRUE)
          BY <3>1, <3>2
        <4>4. TRUE => r.op \in emptyIsAnAnswer
          BY <1>3 DEF emptyIsAnAnswer
        <4>5. Based(r, got, q(got), TRUE)
          BY <4>2, <4>3, <4>4 DEF Based
        <4>6. 1 \in 1 .. 2 /\ TRUE \in BOOLEAN
          OBVIOUS
        <4> QED BY <4>5, <4>6, ToldByBase
      <3> HIDE DEF to, envelope, sent
      <3> QED BY <1>3, <3>3, MadeOnce DEF q
    <2> QED BY <2>2, <2>3
  <1>4. CASE r.op = "referenceTable"
    <2> DEFINE valid == WisdmReferenceTableQueryDto(r.query)
    <2>1. \A got : handler(r, got) = IF valid THEN getReferenceTable(r.env, r.query.table, got) ELSE Throw(400)
      BY <1>4 DEF handler, wisdmHandler, Validated
    <2> HIDE DEF valid
    <2>2. CASE ~valid
      BY <2>1, <2>2, Refused
    <2>3. CASE valid
      <3> DEFINE to == getInfosEndpoint(r.env)
                 envelope == credentials(r.env)
                 sent == [sKey |-> r.query.table]
                 q(got) == callService(to, envelope, "GetSchema", sent, got, 1)
                 tableOf(xml) == r.query.table
                 entriesOf(xml) == IF mapBaseResponse(xml, TRUE).ok THEN parseReferenceEntries(xml.items) ELSE <<>>
                 told(xml) == [base |-> mapBaseResponse(xml, TRUE), table |-> tableOf(xml), entries |-> entriesOf(xml)]
                 v(xml) == Return(told(xml))
      <3>1. \A got : handler(r, got) = IF q(got).kind = "return" THEN v(q(got).value) ELSE q(got)
        BY <2>1, <2>3 DEF getReferenceTable, callInfos, AndThen
      <3> HIDE DEF tableOf, entriesOf
      <3>2. \A xml : v(xml).kind = "return" /\ v(xml).value.base = mapBaseResponse(xml, TRUE)
        <4>1. \A xml : told(xml).base = mapBaseResponse(xml, TRUE)
          OBVIOUS
        <4> HIDE DEF told
        <4> QED BY <4>1, StepKinds
      <3> HIDE DEF told
      <3> HIDE DEF q, v
      <3>3. \A got : TellsOf(r, q(got), got, 1)
        <4>1. SUFFICES ASSUME NEW got PROVE TellsOf(r, q(got), got, 1)
          OBVIOUS
        <4>2. q(got).kind # "return" => handler(r, got) = q(got)
          BY <3>1
        <4>3. q(got).kind = "return" =>
                /\ handler(r, got).kind = "return"
                /\ handler(r, got).value.base = mapBaseResponse(q(got).value, TRUE)
          BY <3>1, <3>2
        <4>4. TRUE => r.op \in emptyIsAnAnswer
          BY <1>4 DEF emptyIsAnAnswer
        <4>5. Based(r, got, q(got), TRUE)
          BY <4>2, <4>3, <4>4 DEF Based
        <4>6. 1 \in 1 .. 2 /\ TRUE \in BOOLEAN
          OBVIOUS
        <4> QED BY <4>5, <4>6, ToldByBase
      <3> HIDE DEF to, envelope, sent
      <3> QED BY SMTT(60), <1>4, <3>3, MadeOnce DEF q
    <2> QED BY <2>2, <2>3
  <1>5. CASE r.op = "alerts"
    <2> DEFINE valid == WisdmExpiryAlertsQueryDto(r.query)
    <2>1. \A got : handler(r, got) = IF valid THEN getExpiryAlerts(r.env, r.query, got) ELSE Throw(400)
      BY <1>5 DEF handler, wisdmHandler, Validated
    <2> HIDE DEF valid
    <2>2. CASE ~valid
      BY <2>1, <2>2, Refused
    <2>3. CASE valid
      <3> DEFINE to == getSltdEndpoint(r.env)
                 envelope == buildEnvelope(r.env)
                 sent == [MovementId |-> r.query.movementId]
                 q(got) == callService(to, envelope, "Actions", sent, got, 1)
                 recordsOf(xml) == IF mapBaseResponse(xml, TRUE).ok THEN parseExpiringRecords(xml.items) ELSE <<>>
                 alarmMessageOf(xml) == orElse(firstTagValue(xml, "AlarmMessage"), firstTagValue(xml, "Alarm"))
                 xmlDataOf(xml) == parseXmlDataToJson(xml)
                 told(xml) == [base |-> mapBaseResponse(xml, TRUE), records |-> recordsOf(xml), alarmMessage |-> alarmMessageOf(xml), xmlData |-> xmlDataOf(xml)]
                 v(xml) == Return(told(xml))
      <3>1. \A got : handler(r, got) = IF q(got).kind = "return" THEN v(q(got).value) ELSE q(got)
        BY <2>1, <2>3 DEF getExpiryAlerts, call, AndThen
      <3> HIDE DEF recordsOf, alarmMessageOf, xmlDataOf
      <3>2. \A xml : v(xml).kind = "return" /\ v(xml).value.base = mapBaseResponse(xml, TRUE)
        <4>1. \A xml : told(xml).base = mapBaseResponse(xml, TRUE)
          OBVIOUS
        <4> HIDE DEF told
        <4> QED BY <4>1, StepKinds
      <3> HIDE DEF told
      <3> HIDE DEF q, v
      <3>3. \A got : TellsOf(r, q(got), got, 1)
        <4>1. SUFFICES ASSUME NEW got PROVE TellsOf(r, q(got), got, 1)
          OBVIOUS
        <4>2. q(got).kind # "return" => handler(r, got) = q(got)
          BY <3>1
        <4>3. q(got).kind = "return" =>
                /\ handler(r, got).kind = "return"
                /\ handler(r, got).value.base = mapBaseResponse(q(got).value, TRUE)
          BY <3>1, <3>2
        <4>4. TRUE => r.op \in emptyIsAnAnswer
          BY <1>5 DEF emptyIsAnAnswer
        <4>5. Based(r, got, q(got), TRUE)
          BY <4>2, <4>3, <4>4 DEF Based
        <4>6. 1 \in 1 .. 2 /\ TRUE \in BOOLEAN
          OBVIOUS
        <4> QED BY <4>5, <4>6, ToldByBase
      <3> HIDE DEF to, envelope, sent
      <3> QED BY <1>5, <3>3, MadeOnce DEF q
    <2> QED BY <2>2, <2>3
  <1>6. CASE r.op = "activity"
    <2> DEFINE to == getSltdEndpoint(r.env)
               envelope == buildEnvelope(r.env)
               sent == <<>>
               q(got) == callService(to, envelope, "GetStatistics", sent, got, 1)
               v(xml) == Return(activityReply(r.query, xml))
    <2>1. \A got : handler(r, got) = IF ~asksForActivity(r.query) THEN Throw(400)
                                     ELSE IF q(got).kind = "return" THEN v(q(got).value)
                                     ELSE q(got)
      BY <1>6, ActivityIsAsked
    <2>2. \A xml : v(xml).kind = "return" /\ v(xml).value.base = mapBaseResponse(xml, TRUE)
      BY ActivityBase
    <2> HIDE DEF q, v
    <2>3. CASE ~asksForActivity(r.query)
      BY <2>1, <2>3, Refused
    <2>4. CASE asksForActivity(r.query)
      <3>1. \A got : handler(r, got) = IF q(got).kind = "return" THEN v(q(got).value) ELSE q(got)
        BY <2>1, <2>4
      <3>2. \A got : TellsOf(r, q(got), got, 1)
        <4>1. SUFFICES ASSUME NEW got PROVE TellsOf(r, q(got), got, 1)
          OBVIOUS
        <4>2. q(got).kind # "return" => handler(r, got) = q(got)
          BY <3>1
        <4>3. q(got).kind = "return" =>
                /\ handler(r, got).kind = "return"
                /\ handler(r, got).value.base = mapBaseResponse(q(got).value, TRUE)
          BY <2>2, <3>1
        <4>4. TRUE => r.op \in emptyIsAnAnswer
          BY <1>6 DEF emptyIsAnAnswer
        <4>5. Based(r, got, q(got), TRUE)
          BY <4>2, <4>3, <4>4 DEF Based
        <4>6. 1 \in 1 .. 2 /\ TRUE \in BOOLEAN
          OBVIOUS
        <4> QED BY <4>5, <4>6, ToldByBase
      <3> HIDE DEF to, envelope, sent
      <3> QED BY <1>6, <3>2, MadeOnce DEF q
    <2> QED BY <2>3, <2>4
  <1>7. CASE r.op = "extend"
    <2> DEFINE valid == WisdmExtendRetentionDto(r.body)
    <2>1. \A got : handler(r, got) = IF valid THEN extendRetention(r.env, r.body, got) ELSE Throw(400)
      BY <1>7 DEF handler, wisdmHandler, Validated
    <2> HIDE DEF valid
    <2>2. CASE ~valid
      BY <2>1, <2>2, Refused
    <2>3. CASE valid
      <3> DEFINE id == identifier(r.body)
                 to == getSltdEndpoint(r.env)
                 envelope == buildEnvelope(r.env)
                 sent(d) == [DocumentId |-> d,
                            NewRetentionDate |-> r.body.fields.recordRetentionDate,
                            Reason |-> r.body.fields.extensionReason]
                 h(got) == resolveDocumentId(r.env, id, got)
                 q(body, got) == callService(to, envelope, "ChangeRetentionDate", body, got, 2)
                 v(xml) == mapMutationResponse(id, xml)
      <3>1. \A got : handler(r, got) =
              IF h(got).kind = "return"
              THEN IF q(sent(h(got).value), got).kind = "return"
                   THEN v(q(sent(h(got).value), got).value) ELSE q(sent(h(got).value), got)
              ELSE h(got)
        BY <2>1, <2>3 DEF extendRetention, call, AndThen
      <3>2. \A xml : v(xml).kind = "return" /\ v(xml).value.base = mapBaseResponse(xml, FALSE)
        BY MutationBase
      <3>3. \A d : sent(d).DocumentId = d
        OBVIOUS
      <3> HIDE DEF h, q, v, sent
      <3>4. \A got : h(got).kind # "return" => handler(r, got) = h(got)
        BY <3>1
      <3>5. ASSUME NEW d, NEW got, h(got) = Return(d)
            PROVE  TellsOf(r, q(sent(d), got), got, 2)
        <4>1. handler(r, got) =
                IF q(sent(d), got).kind = "return" THEN v(q(sent(d), got).value) ELSE q(sent(d), got)
          BY <3>1, <3>5, StepKinds
        <4>2. q(sent(d), got).kind # "return" => handler(r, got) = q(sent(d), got)
          BY <4>1
        <4>3. q(sent(d), got).kind = "return" =>
                /\ handler(r, got).kind = "return"
                /\ handler(r, got).value.base = mapBaseResponse(q(sent(d), got).value, FALSE)
          BY <3>2, <4>1
        <4>4. Based(r, got, q(sent(d), got), FALSE)
          BY <4>2, <4>3 DEF Based
        <4>5. 2 \in 1 .. 2 /\ FALSE \in BOOLEAN
          OBVIOUS
        <4> QED BY <4>4, <4>5, ToldByBase
      <3>6. \A d : \E body :
              /\ body.DocumentId = d
              /\ \A got : h(got) = Return(d) => TellsOf(r, q(body, got), got, 2)
        BY <3>3, <3>5
      <3> HIDE DEF to, envelope
      <3> QED BY <3>4, <3>6, MadeAfterSearch DEF h, q
    <2> QED BY <2>2, <2>3
  <1>8. CASE r.op = "delete"
    <2> DEFINE valid == WisdmRecordQueryDto(r.body)
    <2>1. \A got : handler(r, got) = IF valid THEN deleteRecord(r.env, r.body, got) ELSE Throw(400)
      BY <1>8 DEF handler, wisdmHandler, Validated
    <2> HIDE DEF valid
    <2>2. CASE ~valid
      BY <2>1, <2>2, Refused
    <2>3. CASE valid
      <3> DEFINE id == identifier(r.body)
                 to == getSltdEndpoint(r.env)
                 envelope == buildEnvelope(r.env)
                 sent(d) == [DocumentId |-> d]
                 h(got) == resolveDocumentId(r.env, id, got)
                 q(body, got) == callService(to, envelope, "DeleteSLTDRecord", body, got, 2)
                 v(xml) == mapMutationResponse(id, xml)
      <3>1. \A got : handler(r, got) =
              IF h(got).kind = "return"
              THEN IF q(sent(h(got).value), got).kind = "return"
                   THEN v(q(sent(h(got).value), got).value) ELSE q(sent(h(got).value), got)
              ELSE h(got)
        BY <2>1, <2>3 DEF deleteRecord, call, AndThen
      <3>2. \A xml : v(xml).kind = "return" /\ v(xml).value.base = mapBaseResponse(xml, FALSE)
        BY MutationBase
      <3>3. \A d : sent(d).DocumentId = d
        OBVIOUS
      <3> HIDE DEF h, q, v, sent
      <3>4. \A got : h(got).kind # "return" => handler(r, got) = h(got)
        BY <3>1
      <3>5. ASSUME NEW d, NEW got, h(got) = Return(d)
            PROVE  TellsOf(r, q(sent(d), got), got, 2)
        <4>1. handler(r, got) =
                IF q(sent(d), got).kind = "return" THEN v(q(sent(d), got).value) ELSE q(sent(d), got)
          BY <3>1, <3>5, StepKinds
        <4>2. q(sent(d), got).kind # "return" => handler(r, got) = q(sent(d), got)
          BY <4>1
        <4>3. q(sent(d), got).kind = "return" =>
                /\ handler(r, got).kind = "return"
                /\ handler(r, got).value.base = mapBaseResponse(q(sent(d), got).value, FALSE)
          BY <3>2, <4>1
        <4>4. Based(r, got, q(sent(d), got), FALSE)
          BY <4>2, <4>3 DEF Based
        <4>5. 2 \in 1 .. 2 /\ FALSE \in BOOLEAN
          OBVIOUS
        <4> QED BY <4>4, <4>5, ToldByBase
      <3>6. \A d : \E body :
              /\ body.DocumentId = d
              /\ \A got : h(got) = Return(d) => TellsOf(r, q(body, got), got, 2)
        BY <3>3, <3>5
      <3> HIDE DEF to, envelope
      <3> QED BY <3>4, <3>6, MadeAfterSearch DEF h, q
    <2> QED BY <2>2, <2>3
  <1>9. CASE r.op = "get"
    <2> DEFINE valid == WisdmRecordQueryDto(r.body)
    <2>1. \A got : handler(r, got) = IF valid THEN getDocument(r.env, r.body, got) ELSE Throw(400)
      BY <1>9 DEF handler, wisdmHandler, Validated
    <2> HIDE DEF valid
    <2>2. CASE ~valid
      BY <2>1, <2>2, Refused
    <2>3. CASE valid
      <3> DEFINE id == identifier(r.body)
                 to == getSltdEndpoint(r.env)
                 envelope == buildEnvelope(r.env)
                 sent(d) == [DocumentId |-> d]
                 h(got) == resolveDocumentId(r.env, id, got)
                 q(body, got) == callService(to, envelope, "RetrieveSLTDRecord", body, got, 2)
                 documentOf(xml) == IF mapBaseResponse(xml, FALSE).ok THEN parseDocumentProperties(xml) ELSE null
                 xmlDataOf(xml) == parseXmlDataToJson(xml)
                 told(xml) == [base |-> mapBaseResponse(xml, FALSE), document |-> documentOf(xml), xmlData |-> xmlDataOf(xml)]
                 v(xml) == Return(told(xml))
      <3>1. \A got : handler(r, got) =
              IF h(got).kind = "return"
              THEN IF q(sent(h(got).value), got).kind = "return"
                   THEN v(q(sent(h(got).value), got).value) ELSE q(sent(h(got).value), got)
              ELSE h(got)
        BY <2>1, <2>3 DEF getDocument, call, AndThen
      <3> HIDE DEF documentOf, xmlDataOf
      <3>2. \A xml : v(xml).kind = "return" /\ v(xml).value.base = mapBaseResponse(xml, FALSE)
        <4>1. \A xml : told(xml).base = mapBaseResponse(xml, FALSE)
          OBVIOUS
        <4> HIDE DEF told
        <4> QED BY <4>1, StepKinds
      <3> HIDE DEF told
      <3>3. \A d : sent(d).DocumentId = d
        OBVIOUS
      <3> HIDE DEF h, q, v, sent
      <3>4. \A got : h(got).kind # "return" => handler(r, got) = h(got)
        BY <3>1
      <3>5. ASSUME NEW d, NEW got, h(got) = Return(d)
            PROVE  TellsOf(r, q(sent(d), got), got, 2)
        <4>1. handler(r, got) =
                IF q(sent(d), got).kind = "return" THEN v(q(sent(d), got).value) ELSE q(sent(d), got)
          BY <3>1, <3>5, StepKinds
        <4>2. q(sent(d), got).kind # "return" => handler(r, got) = q(sent(d), got)
          BY <4>1
        <4>3. q(sent(d), got).kind = "return" =>
                /\ handler(r, got).kind = "return"
                /\ handler(r, got).value.base = mapBaseResponse(q(sent(d), got).value, FALSE)
          BY <3>2, <4>1
        <4>4. Based(r, got, q(sent(d), got), FALSE)
          BY <4>2, <4>3 DEF Based
        <4>5. 2 \in 1 .. 2 /\ FALSE \in BOOLEAN
          OBVIOUS
        <4> QED BY <4>4, <4>5, ToldByBase
      <3>6. \A d : \E body :
              /\ body.DocumentId = d
              /\ \A got : h(got) = Return(d) => TellsOf(r, q(body, got), got, 2)
        BY <3>3, <3>5
      <3> HIDE DEF to, envelope
      <3> QED BY <3>4, <3>6, MadeAfterSearch DEF h, q
    <2> QED BY <2>2, <2>3
  <1>10. CASE r.op = "schema"
    <2> DEFINE valid == WisdmInfosDocumentedSchemaQueryDto(r.query)
    <2>1. \A got : handler(r, got) = IF valid THEN getDocumentedSchema(r.env, r.query, got) ELSE Throw(400)
      BY <1>10 DEF handler, wisdmHandler, Validated
    <2> HIDE DEF valid
    <2>2. CASE ~valid
      BY <2>1, <2>2, Refused
    <2>3. CASE valid
      <3> DEFINE operation == r.query.operation
                 sent == [Documentation |-> r.query.documentation # "false"]
      <3>1. \A got : handler(r, got) = callAndMapInfos(r.env, operation, sent, got)
        BY <2>1, <2>3 DEF getDocumentedSchema
      <3>2. operation # "CreateOrUpdateSLTDRecord"
        BY <2>3 DEF valid, WisdmInfosDocumentedSchemaQueryDto, WisdmInfosDocumentedSchemaOperation
      <3>3. r.op \in schemaOperations
        BY <1>10 DEF schemaOperations
      <3> HIDE DEF operation, sent
      <3> QED BY <3>1, <3>2, <3>3, ToldBySchema
    <2> QED BY <2>2, <2>3
  <1>11. CASE r.op = "schemas"
    <2> DEFINE operation == "ListOfSchema"
               sent == <<>>
    <2>1. \A got : handler(r, got) = callAndMapInfos(r.env, operation, sent, got)
      BY <1>11 DEF listSchemas, handler, wisdmHandler
    <2>2. operation # "CreateOrUpdateSLTDRecord"
      BY DEF getSchemaOperationForFormat
    <2>3. r.op \in schemaOperations
      BY <1>11 DEF schemaOperations
    <2> HIDE DEF operation, sent
    <2> QED BY <2>1, <2>2, <2>3, ToldBySchema
  <1>12. CASE r.op = "schemaByKey"
    <2> DEFINE valid == WisdmInfosSchemaByKeyQueryDto(r.query)
    <2>1. \A got : handler(r, got) = IF valid THEN getSchemaByKey(r.env, r.query, got) ELSE Throw(400)
      BY <1>12 DEF handler, wisdmHandler, Validated
    <2> HIDE DEF valid
    <2>2. CASE ~valid
      BY <2>1, <2>2, Refused
    <2>3. CASE valid
      <3> DEFINE operation == getSchemaOperationForFormat(r.query.format)
                 sent == [sKey |-> normalizeOptional(r.query.key)]
      <3>1. \A got : handler(r, got) = callAndMapInfos(r.env, operation, sent, got)
        BY <2>1, <2>3 DEF getSchemaByKey
      <3>2. operation # "CreateOrUpdateSLTDRecord"
        BY DEF getSchemaOperationForFormat
      <3>3. r.op \in schemaOperations
        BY <1>12 DEF schemaOperations
      <3> HIDE DEF operation, sent
      <3> QED BY <3>1, <3>2, <3>3, ToldBySchema
    <2> QED BY <2>2, <2>3
  <1> QED BY <1>1, <1>2, <1>3, <1>4, <1>5, <1>6, <1>7, <1>8, <1>9, <1>10, <1>11, <1>12, RequestsAssumption

\* Every handler does only what a handler may do.
LEMMA HandlersAreOrderly ==
  ASSUME NEW r \in Requests
  PROVE  Orderly(r)
  <1>1. CASE r.service = "wisdm"
    BY <1>1, WisdmIsOrderly
  <1>2. CASE r.service = "interpol"
    BY <1>2, FindIsOrderly
  <1>3. CASE r.service = "mcs"
    BY <1>3, PersonsAreOrderly
  <1>4. CASE r.service = "civilActs"
    BY <1>4, CivilActsAreOrderly
  <1>5. CASE r.service = "register"
    BY <1>5, RegistersAreOrderly
  <1> QED BY <1>1, <1>2, <1>3, <1>4, <1>5, RequestsAssumption

-----------------------------------------------------------------------------
(* The inductive invariant: where a request stands is what its handler,    *)
(* an operator of the answers, makes of those that have come.              *)

\* What may come of the n-th call.
Came(r, n) == {NoAnswer} \cup AnswersTo(r, n)

\* The reply of a handler that has ended.
Ends(r, got, end) == end = handler(r, got) /\ end.kind # "ask"

\* One element, and two.
One(s) == Len(s) = 1 /\ s = <<s[1]>>
Two(s) == Len(s) = 2 /\ s = <<s[1], s[2]>>

\* Ended without a call.
EndedAtOnce(r, calls, got, end) == calls = <<>> /\ got = <<>> /\ Ends(r, <<>>, end)

\* Waiting for the one call made so far, or ended after its answer.
AsksFirst(r, calls) == One(calls) /\ handler(r, <<>>) = Ask(calls[1])

WaitsForFirst(r, calls, got, end) == AsksFirst(r, calls) /\ got = <<>> /\ end = Pending

EndedAfterFirst(r, calls, got, end) ==
  AsksFirst(r, calls) /\ One(got) /\ got[1] \in Came(r, 1) /\ Ends(r, <<got[1]>>, end)

\* The same of a second call, made after the answer to the first.
AsksSecond(r, calls, a) ==
  /\ Two(calls) /\ a \in Came(r, 1)
  /\ handler(r, <<>>) = Ask(calls[1]) /\ handler(r, <<a>>) = Ask(calls[2])

WaitsForSecond(r, calls, got, end) == One(got) /\ AsksSecond(r, calls, got[1]) /\ end = Pending

EndedAfterSecond(r, calls, got, end) ==
  /\ Two(got) /\ AsksSecond(r, calls, got[1]) /\ got[2] \in Came(r, 2)
  /\ Ends(r, <<got[1], got[2]>>, end)

\* The same of two calls made at once.
AsksBoth(r, calls) == Two(calls) /\ handler(r, <<>>) = AskAll(<<calls[1], calls[2]>>)

WaitsForBoth(r, calls, got, end) == AsksBoth(r, calls) /\ got = <<>> /\ end = Pending

EndedAfterBoth(r, calls, got, end) ==
  /\ AsksBoth(r, calls) /\ Two(got) /\ got[1] \in Came(r, 1) /\ got[2] \in Came(r, 2)
  /\ Ends(r, <<got[1], got[2]>>, end)

\* Nothing received.
Idle(r, calls, got, end) == r = NoRequest /\ calls = <<>> /\ got = <<>> /\ end = Pending

\* Where a request can be.
Stands(r, calls, got, end) ==
  \/ EndedAtOnce(r, calls, got, end)
  \/ WaitsForFirst(r, calls, got, end)
  \/ EndedAfterFirst(r, calls, got, end)
  \/ WaitsForSecond(r, calls, got, end)
  \/ EndedAfterSecond(r, calls, got, end)
  \/ WaitsForBoth(r, calls, got, end)
  \/ EndedAfterBoth(r, calls, got, end)

\* The inductive invariant.
GatewayInv ==
  \/ Idle(received, asked, answers, reply)
  \/ /\ received \in Requests
     /\ Stands(received, asked, answers, reply)

\* What a step that asks consists of.
LEMMA Kinds ==
  /\ \A r, s : Asked(r, s) => \E c : s = Ask(c) /\ s.kind = "ask" /\ s.calls = <<c>>
  /\ \A r, s : Asked(r, s) => Len(s.calls) = 1
  /\ \A r, s : AskedBoth(r, s) => \E c, d : s = AskAll(<<c, d>>) /\ s.kind = "ask" /\ s.calls = <<c, d>>
  /\ \A r, s : AskedBoth(r, s) => Len(s.calls) = 2
  /\ \A s : Threw(s) => s.kind # "ask"
  <1>1. \A r, s : Asked(r, s) => \E c : s = Ask(c) /\ s.kind = "ask" /\ s.calls = <<c>>
    BY StepKinds DEF Asked
  <1>2. ASSUME NEW r, NEW s, AskedBoth(r, s)
        PROVE  \E c, d : s = AskAll(<<c, d>>) /\ s.kind = "ask" /\ s.calls = <<c, d>>
    <2>1. PICK c, d : s = AskAll(<<c, d>>)
      BY <1>2 DEF AskedBoth
    <2>2. s.kind = "ask" /\ s.calls = <<c, d>>
      BY <2>1, StepKinds
    <2> QED BY <2>1, <2>2
  <1>3. \A r, s : Asked(r, s) => Len(s.calls) = 1
    BY <1>1
  <1>4. ASSUME NEW r, NEW s, AskedBoth(r, s) PROVE Len(s.calls) = 2
    <2>1. PICK c, d : s.calls = <<c, d>>
      BY <1>2, <1>4
    <2> QED BY <2>1
  <1>5. \A s : Threw(s) => s.kind # "ask"
    BY DEF Threw
  <1> QED BY <1>1, <1>2, <1>3, <1>4, <1>5

\* A call after a call.
LEMMA Joined == \A c, d : <<c>> \o <<d>> = <<c, d>>
  <1> SUFFICES ASSUME NEW c, NEW d PROVE <<c>> \o <<d>> = <<c, d>>
    OBVIOUS
  <1> DEFINE joined == <<c>> \o <<d>>
  <1>1. <<c>> \in Seq({c, d}) /\ <<d>> \in Seq({c, d}) /\ <<c, d>> \in Seq({c, d})
    OBVIOUS
  <1>2. Len(joined) = 2 /\ joined[1] = c /\ joined[2] = d /\ joined \in Seq({c, d})
    BY <1>1
  <1> HIDE DEF joined
  <1>3. Len(joined) = Len(<<c, d>>) /\ \A i \in 1 .. Len(joined) : joined[i] = <<c, d>>[i]
    BY <1>2
  <1>4. joined = <<c, d>>
    BY <1>1, <1>2, <1>3, SeqEqual
  <1> QED BY <1>4 DEF joined

\* What a request is after the first step of its handler.
LEMMA AfterReceiving ==
  ASSUME NEW r \in Requests, NEW calls, NEW end,
         IF handler(r, <<>>).kind = "ask"
         THEN calls = handler(r, <<>>).calls /\ end = Pending
         ELSE calls = <<>> /\ end = handler(r, <<>>)
  PROVE  Stands(r, calls, <<>>, end)
  <1>1. Opens(r, handler(r, <<>>))
    BY HandlersAreOrderly DEF Orderly
  <1>2. CASE handler(r, <<>>).kind # "ask"
    BY <1>2 DEF Stands, EndedAtOnce, Ends
  <1>3. CASE Asked(r, handler(r, <<>>))
    <2>1. PICK c : /\ handler(r, <<>>) = Ask(c) /\ handler(r, <<>>).kind = "ask"
                   /\ handler(r, <<>>).calls = <<c>>
      BY <1>3, Kinds
    <2>2. calls = <<c>> /\ end = Pending
      BY <2>1
    <2>3. AsksFirst(r, calls)
      BY <2>1, <2>2 DEF AsksFirst, One
    <2> QED BY <2>2, <2>3 DEF Stands, WaitsForFirst
  <1>4. CASE AskedBoth(r, handler(r, <<>>))
    <2>1. PICK c, d : /\ handler(r, <<>>) = AskAll(<<c, d>>) /\ handler(r, <<>>).kind = "ask"
                      /\ handler(r, <<>>).calls = <<c, d>>
      BY <1>4, Kinds
    <2>2. calls = <<c, d>> /\ end = Pending
      BY <2>1
    <2>3. AsksBoth(r, calls)
      BY <2>1, <2>2 DEF AsksBoth, Two
    <2> QED BY <2>2, <2>3 DEF Stands, WaitsForBoth
  <1> QED BY <1>1, <1>2, <1>3, <1>4, Kinds DEF Opens

\* After the answer to its first call.
LEMMA AfterFirst ==
  ASSUME NEW r \in Requests, NEW calls, AsksFirst(r, calls),
         NEW a \in Came(r, 1), NEW more, NEW end,
         IF handler(r, <<a>>).kind = "ask"
         THEN more = calls \o handler(r, <<a>>).calls /\ end = Pending
         ELSE more = calls /\ end = handler(r, <<a>>)
  PROVE  Stands(r, more, <<a>>, end)
  <1>1. Asked(r, handler(r, <<>>))
    <2>1. handler(r, <<>>).kind = "ask" /\ Len(handler(r, <<>>).calls) = 1
      BY StepKinds DEF AsksFirst
    <2>2. Opens(r, handler(r, <<>>))
      BY HandlersAreOrderly DEF Orderly
    <2>3. AskedBoth(r, handler(r, <<>>)) => Len(handler(r, <<>>).calls) = 2
      BY Kinds
    <2> QED BY <2>1, <2>2, <2>3, Kinds DEF Opens
  <1>2. Continues(r, handler(r, <<a>>), a)
    BY <1>1, HandlersAreOrderly DEF Orderly, Came
  <1>3. One(<<a>>) /\ <<a>>[1] = a
    BY DEF One
  <1>4. CASE handler(r, <<a>>).kind # "ask"
    BY <1>3, <1>4 DEF Stands, EndedAfterFirst, Ends
  <1>5. CASE Asked(r, handler(r, <<a>>))
    <2>1. PICK d : /\ handler(r, <<a>>) = Ask(d) /\ handler(r, <<a>>).kind = "ask"
                   /\ handler(r, <<a>>).calls = <<d>>
      BY <1>5, Kinds
    <2>2. calls = <<calls[1]>> /\ handler(r, <<>>) = Ask(calls[1])
      BY DEF AsksFirst, One
    <2>3. more = <<calls[1]>> \o <<d>> /\ end = Pending
      BY <2>1, <2>2
    <2>4. more = <<calls[1], d>>
      BY <2>3, Joined
    <2>5. Two(more) /\ more[1] = calls[1] /\ more[2] = d
      BY <2>4 DEF Two
    <2>6. AsksSecond(r, more, a)
      BY <2>1, <2>2, <2>5 DEF AsksSecond
    <2> QED BY <1>3, <2>3, <2>6 DEF Stands, WaitsForSecond
  <1> QED BY <1>2, <1>4, <1>5, Kinds DEF Continues, Told

\* After the answer to its second.
LEMMA AfterSecond ==
  ASSUME NEW r \in Requests, NEW calls, NEW a, AsksSecond(r, calls, a),
         NEW b \in Came(r, 2), NEW more, NEW end,
         IF handler(r, <<a, b>>).kind = "ask"
         THEN more = calls \o handler(r, <<a, b>>).calls /\ end = Pending
         ELSE more = calls /\ end = handler(r, <<a, b>>)
  PROVE  Stands(r, more, <<a, b>>, end) /\ Closes(r, handler(r, <<a, b>>), a, b)
  <1>1. Asked(r, handler(r, <<>>)) /\ Asked(r, handler(r, <<a>>))
    <2>1. /\ handler(r, <<>>).kind = "ask" /\ Len(handler(r, <<>>).calls) = 1
          /\ handler(r, <<a>>).kind = "ask"
      BY StepKinds DEF AsksSecond
    <2>2. Opens(r, handler(r, <<>>))
      BY HandlersAreOrderly DEF Orderly
    <2>3. AskedBoth(r, handler(r, <<>>)) => Len(handler(r, <<>>).calls) = 2
      BY Kinds
    <2>4. Asked(r, handler(r, <<>>))
      BY <2>1, <2>2, <2>3, Kinds DEF Opens
    <2>5. Continues(r, handler(r, <<a>>), a)
      BY <2>4, HandlersAreOrderly DEF Orderly, AsksSecond, Came
    <2> QED BY <2>1, <2>4, <2>5, Kinds DEF Continues, Told
  <1>2. Closes(r, handler(r, <<a, b>>), a, b)
    BY <1>1, HandlersAreOrderly DEF Orderly, AsksSecond, Came
  <1>3. handler(r, <<a, b>>).kind # "ask"
    BY <1>2, Kinds DEF Closes, Told
  <1>4. Two(<<a, b>>) /\ <<a, b>>[1] = a /\ <<a, b>>[2] = b
    BY DEF Two
  <1>5. more = calls /\ end = handler(r, <<a, b>>)
    BY <1>3
  <1>6. EndedAfterSecond(r, more, <<a, b>>, end)
    BY <1>3, <1>4, <1>5 DEF EndedAfterSecond, Ends
  <1> QED BY <1>2, <1>6 DEF Stands

\* After the answers to the two it made at once.
LEMMA AfterBoth ==
  ASSUME NEW r \in Requests, NEW calls, AsksBoth(r, calls),
         NEW a \in Came(r, 1), NEW b \in Came(r, 2), NEW more, NEW end,
         IF handler(r, <<a, b>>).kind = "ask"
         THEN more = calls \o handler(r, <<a, b>>).calls /\ end = Pending
         ELSE more = calls /\ end = handler(r, <<a, b>>)
  PROVE  Stands(r, more, <<a, b>>, end) /\ Closes(r, handler(r, <<a, b>>), a, b)
  <1>1. AskedBoth(r, handler(r, <<>>))
    <2>1. handler(r, <<>>).kind = "ask" /\ Len(handler(r, <<>>).calls) = 2
      BY StepKinds DEF AsksBoth
    <2>2. Opens(r, handler(r, <<>>))
      BY HandlersAreOrderly DEF Orderly
    <2>3. ASSUME Asked(r, handler(r, <<>>)) PROVE FALSE
      <3>1. Len(handler(r, <<>>).calls) = 1
        BY <2>3, Kinds
      <3>2. 1 = 2
        BY <2>1, <3>1, Zenon
      <3> QED BY <3>2
    <2>4. ~Threw(handler(r, <<>>))
      BY <2>1 DEF Threw
    <2> QED BY <2>1, <2>2, <2>3, <2>4 DEF Opens
  <1>2. Closes(r, handler(r, <<a, b>>), a, b)
    BY <1>1, HandlersAreOrderly DEF Orderly, Came
  <1>3. handler(r, <<a, b>>).kind # "ask"
    BY <1>2, Kinds DEF Closes, Told
  <1>4. Two(<<a, b>>) /\ <<a, b>>[1] = a /\ <<a, b>>[2] = b
    BY DEF Two
  <1>5. more = calls /\ end = handler(r, <<a, b>>)
    BY <1>3
  <1>6. EndedAfterBoth(r, more, <<a, b>>, end)
    BY <1>3, <1>4, <1>5 DEF EndedAfterBoth, Ends
  <1> QED BY <1>2, <1>6 DEF Stands

\* Answers after no answers.
LEMMA Appended ==
  /\ \A a : <<>> \o <<a>> = <<a>>
  /\ \A a, b : <<>> \o <<a, b>> = <<a, b>>
  /\ \A a : Len(<<a>>) = 1
  /\ \A a, b : Len(<<a, b>>) = 2
  <1>1. ASSUME NEW a PROVE <<>> \o <<a>> = <<a>>
    <2>1. <<a>> \in Seq({a})
      OBVIOUS
    <2> QED BY <2>1, ConcatEmptySeq
  <1>2. ASSUME NEW a, NEW b PROVE <<>> \o <<a, b>> = <<a, b>>
    <2>1. <<a, b>> \in Seq({a, b})
      OBVIOUS
    <2> QED BY <2>1, ConcatEmptySeq
  <1> QED BY <1>1, <1>2

\* Nothing is asked before a request is received.
LEMMA GatewayStarts == GatewayInit => GatewayInv
  BY DEF GatewayInit, GatewayInv, Idle

\* Received: the handler runs to its first await.
LEMMA ReceivePreserves ==
  ASSUME GatewayInv, Receive
  PROVE  GatewayInv'
  <1>1. received = NoRequest /\ asked = <<>> /\ answers = <<>>
    <2>1. NoRequest \notin Requests
      BY RequestsAssumption DEF NoRequest
    <2> QED BY <2>1 DEF GatewayInv, Idle, Receive
  <1>2. PICK r \in Requests : received' = r /\ RunOn(r, <<>>)
    BY DEF Receive
  <1>3. answers' = <<>>
    BY <1>1 DEF Receive
  <1>4. IF handler(r, <<>>).kind = "ask"
        THEN asked' = handler(r, <<>>).calls /\ reply' = Pending
        ELSE asked' = <<>> /\ reply' = handler(r, <<>>)
    <2>1. CASE handler(r, <<>>).kind # "ask"
      BY <1>1, <1>2, <2>1 DEF RunOn
    <2>2. CASE handler(r, <<>>).kind = "ask"
      <3>1. asked' = <<>> \o handler(r, <<>>).calls /\ reply' = Pending
        BY <1>1, <1>2, <2>2 DEF RunOn
      <3>2. Opens(r, handler(r, <<>>))
        BY <1>2, HandlersAreOrderly DEF Orderly
      <3>3. CASE Asked(r, handler(r, <<>>))
        <4>1. PICK c : handler(r, <<>>).calls = <<c>>
          BY <3>3, Kinds
        <4> QED BY <2>2, <3>1, <4>1, Appended
      <3>4. CASE AskedBoth(r, handler(r, <<>>))
        <4>1. PICK c, d : handler(r, <<>>).calls = <<c, d>>
          BY ZenonT(60), <3>4, Kinds
        <4> QED BY <2>2, <3>1, <4>1, Appended
      <3> QED BY <2>2, <3>2, <3>3, <3>4, Kinds DEF Opens
    <2> QED BY <2>1, <2>2
  <1>5. Stands(r, asked', <<>>, reply')
    BY <1>2, <1>4, AfterReceiving
  <1> QED BY <1>2, <1>3, <1>5 DEF GatewayInv

\* Calls under way are what the handler waits for.
Resumed(batch) ==
  /\ \/ \E a \in comesBack(Len(answers) + 1) : batch = <<a>>
     \/ \E a \in comesBack(1), b \in comesBack(2) : batch = <<a, b>>
  /\ Len(answers) + Len(batch) = Len(asked)
  /\ answers' = answers \o batch
  /\ RunOn(received, answers \o batch)

\* Answered: the handler runs on to its next await or to its end.
LEMMA ResumePreserves ==
  ASSUME GatewayInv, Resume
  PROVE  GatewayInv'
  <1>1. received \in Requests /\ Stands(received, asked, answers, reply)
    BY DEF GatewayInv, Idle, Resume
  <1>2. PICK batch : Resumed(batch)
    BY SMTT(60) DEF Resume, Resumed
  <1>3. received' = received /\ Len(asked) > Len(answers)
    BY DEF Resume
  <1>4. CASE WaitsForFirst(received, asked, answers, reply)
    <2>1. answers = <<>> /\ AsksFirst(received, asked) /\ Len(asked) = 1
      BY <1>4 DEF WaitsForFirst, AsksFirst, One
    <2>2. PICK a \in Came(received, 1) : batch = <<a>>
      BY <1>2, <2>1, Appended DEF Resumed, comesBack, Came
    <2>3. answers' = <<a>> /\ RunOn(received, <<a>>)
      BY <1>2, <2>1, <2>2, Appended DEF Resumed
    <2>4. Stands(received, asked', <<a>>, reply')
      BY <1>1, <2>1, <2>3, AfterFirst DEF RunOn
    <2> QED BY <1>1, <1>3, <2>3, <2>4 DEF GatewayInv
  <1>5. CASE WaitsForSecond(received, asked, answers, reply)
    <2>1. PICK a : answers = <<a>> /\ AsksSecond(received, asked, a)
      BY <1>5 DEF WaitsForSecond, One
    <2>2. Len(answers) = 1 /\ Len(asked) = 2
      BY <2>1 DEF AsksSecond, Two
    <2>3. PICK b \in Came(received, 2) : batch = <<b>>
      BY <1>2, <2>2, Appended DEF Resumed, comesBack, Came
    <2>4. answers' = <<a, b>> /\ RunOn(received, <<a, b>>)
      BY <1>2, <2>1, <2>3, Joined DEF Resumed
    <2>5. Stands(received, asked', <<a, b>>, reply')
      BY <1>1, <2>1, <2>4, AfterSecond DEF RunOn
    <2> QED BY <1>1, <1>3, <2>4, <2>5 DEF GatewayInv
  <1>6. CASE WaitsForBoth(received, asked, answers, reply)
    <2>1. answers = <<>> /\ AsksBoth(received, asked) /\ Len(asked) = 2
      BY <1>6 DEF WaitsForBoth, AsksBoth, Two
    <2>2. PICK a \in Came(received, 1), b \in Came(received, 2) : batch = <<a, b>>
      BY <1>2, <2>1, Appended DEF Resumed, comesBack, Came
    <2>3. answers' = <<a, b>> /\ RunOn(received, <<a, b>>)
      BY <1>2, <2>1, <2>2, Appended DEF Resumed
    <2>4. Stands(received, asked', <<a, b>>, reply')
      BY <1>1, <2>1, <2>3, AfterBoth DEF RunOn
    <2> QED BY <1>1, <1>3, <2>3, <2>4 DEF GatewayInv
  <1>7. CASE EndedAtOnce(received, asked, answers, reply)
    BY <1>3, <1>7 DEF EndedAtOnce
  <1>8. CASE EndedAfterFirst(received, asked, answers, reply)
    BY <1>3, <1>8 DEF EndedAfterFirst, AsksFirst, One
  <1>9. CASE EndedAfterSecond(received, asked, answers, reply)
    BY <1>3, <1>9 DEF EndedAfterSecond, AsksSecond, Two
  <1>10. CASE EndedAfterBoth(received, asked, answers, reply)
    BY <1>3, <1>10 DEF EndedAfterBoth, AsksBoth, Two
  <1> QED BY <1>1, <1>4, <1>5, <1>6, <1>7, <1>8, <1>9, <1>10 DEF Stands

\* Between two awaits a request is nothing but its handler and the answers so far:
\* in every state its calls are those the handler asks for given these answers, and
\* its reply is what the handler ends in (the handlers of Core/*/*.service.ts).
THEOREM GatewayInvariance == GatewaySpec => []GatewayInv
  <1>1. ASSUME GatewayInv, [GatewayNext]_vars PROVE GatewayInv'
    <2>1. CASE Receive
      BY <1>1, <2>1, ReceivePreserves
    <2>2. CASE Resume
      BY <1>1, <2>2, ResumePreserves
    <2>3. CASE UNCHANGED vars
      BY <1>1, <2>3 DEF vars, GatewayInv
    <2> QED BY <1>1, <2>1, <2>2, <2>3 DEF GatewayNext
  <1> QED BY GatewayStarts, <1>1, PTL DEF GatewaySpec

\* How a request may have ended.
Finished(r, calls, got, end) ==
  \/ /\ got = <<>> /\ calls = <<>>
     /\ Threw(end) \/ (end.kind = "return" /\ ~ofInterpol(r))
  \/ /\ One(got) /\ One(calls) /\ got[1] \in Came(r, 1)
     /\ Threw(end) \/ Told(r, end, got[1])
  \/ /\ Two(got) /\ Two(calls) /\ got[1] \in Came(r, 1) /\ got[2] \in Came(r, 2)
     /\ Threw(end) \/ (Passed(r, got[1]) /\ Told(r, end, got[2]))

\* A request that waits for a call is one whose handler asks it.
LEMMA Opened ==
  ASSUME NEW r \in Requests
  PROVE  /\ \A calls : AsksFirst(r, calls) => Asked(r, handler(r, <<>>))
         /\ \A calls, a : AsksSecond(r, calls, a) => Asked(r, handler(r, <<>>)) /\ Asked(r, handler(r, <<a>>))
         /\ \A calls : AsksBoth(r, calls) => AskedBoth(r, handler(r, <<>>))
  <1>1. Opens(r, handler(r, <<>>))
    BY HandlersAreOrderly DEF Orderly
  <1>2. ASSUME NEW c, handler(r, <<>>) = Ask(c) PROVE Asked(r, handler(r, <<>>))
    <2>1. handler(r, <<>>).kind = "ask" /\ Len(handler(r, <<>>).calls) = 1
      <3>1. Ask(c).kind = "ask" /\ Ask(c).calls = <<c>>
        BY StepKinds
      <3> DEFINE first == handler(r, <<>>)
      <3>2. first = Ask(c)
        BY <1>2
      <3> HIDE DEF first
      <3>3. first.kind = "ask" /\ Len(first.calls) = 1
        BY <3>1, <3>2
      <3> QED BY <3>3 DEF first
    <2>2. ASSUME AskedBoth(r, handler(r, <<>>)) PROVE FALSE
      <3>1. Len(handler(r, <<>>).calls) = 2
        BY <2>2, Kinds
      <3> QED BY <2>1, <3>1
    <2>3. ~Threw(handler(r, <<>>))
      BY <2>1 DEF Threw
    <2> QED BY <1>1, <2>1, <2>2, <2>3 DEF Opens
  <1>3. ASSUME NEW c, NEW d, handler(r, <<>>) = AskAll(<<c, d>>) PROVE AskedBoth(r, handler(r, <<>>))
    <2>1. handler(r, <<>>).kind = "ask" /\ Len(handler(r, <<>>).calls) = 2
      BY <1>3, StepKinds
    <2>2. ASSUME Asked(r, handler(r, <<>>)) PROVE FALSE
      <3>1. Len(handler(r, <<>>).calls) = 1
        BY <2>2, Kinds
      <3> QED BY <2>1, <3>1
    <2>3. ~Threw(handler(r, <<>>))
      BY <2>1 DEF Threw
    <2> QED BY <1>1, <2>1, <2>2, <2>3 DEF Opens
  <1>4. ASSUME NEW calls, NEW a, AsksSecond(r, calls, a)
        PROVE  Asked(r, handler(r, <<>>)) /\ Asked(r, handler(r, <<a>>))
    <2>1. Asked(r, handler(r, <<>>))
      BY <1>2, <1>4 DEF AsksSecond
    <2>2. handler(r, <<a>>).kind = "ask"
      BY <1>4, StepKinds DEF AsksSecond
    <2>3. Continues(r, handler(r, <<a>>), a)
      BY <1>4, <2>1, HandlersAreOrderly DEF Orderly, AsksSecond, Came
    <2>4. ~Threw(handler(r, <<a>>)) /\ ~Told(r, handler(r, <<a>>), a)
      BY <2>2 DEF Threw, Told
    <2> QED BY <2>1, <2>3, <2>4 DEF Continues
  <1>5. \A calls : AsksFirst(r, calls) => Asked(r, handler(r, <<>>))
    BY <1>2 DEF AsksFirst
  <1>6. \A calls : AsksBoth(r, calls) => AskedBoth(r, handler(r, <<>>))
    BY <1>3 DEF AsksBoth
  <1> QED BY <1>4, <1>5, <1>6

\* A request has ended as its handler may end, or it waits for a call.
LEMMA Endings ==
  ASSUME NEW r \in Requests, NEW calls, NEW got, NEW end, Stands(r, calls, got, end)
  PROVE  \/ Finished(r, calls, got, end)
         \/ /\ end = Pending /\ Len(got) \in Nat /\ Len(calls) \in Nat
            /\ Len(got) <= Len(calls) /\ Len(calls) <= 2
  <1>1. CASE EndedAtOnce(r, calls, got, end)
    <2>1. end = handler(r, <<>>) /\ end.kind # "ask"
      BY <1>1 DEF EndedAtOnce, Ends
    <2>2. Opens(r, end)
      BY <2>1, HandlersAreOrderly DEF Orderly
    <2>3. Threw(end) \/ (end.kind = "return" /\ ~ofInterpol(r))
      BY <2>1, <2>2, Kinds DEF Opens
    <2> QED BY <1>1, <2>3 DEF EndedAtOnce, Finished
  <1>2. CASE EndedAfterFirst(r, calls, got, end)
    <2>1. Asked(r, handler(r, <<>>)) /\ One(calls)
      BY <1>2, Opened DEF EndedAfterFirst, AsksFirst
    <2>2. One(got) /\ got[1] \in Came(r, 1) /\ end = handler(r, <<got[1]>>) /\ end.kind # "ask"
      BY <1>2 DEF EndedAfterFirst, Ends
    <2>3. Continues(r, end, got[1])
      BY <2>1, <2>2, HandlersAreOrderly DEF Orderly, Came
    <2>4. Threw(end) \/ Told(r, end, got[1])
      BY <2>2, <2>3, Kinds DEF Continues
    <2> QED BY <2>1, <2>2, <2>4 DEF Finished
  <1>3. CASE EndedAfterSecond(r, calls, got, end)
    <2>1. /\ Two(got) /\ Two(calls) /\ got[1] \in Came(r, 1) /\ got[2] \in Came(r, 2)
          /\ end = handler(r, <<got[1], got[2]>>)
          /\ Asked(r, handler(r, <<>>)) /\ Asked(r, handler(r, <<got[1]>>))
      BY <1>3, Opened DEF EndedAfterSecond, AsksSecond, Ends
    <2>2. Closes(r, end, got[1], got[2])
      BY <2>1, HandlersAreOrderly DEF Orderly, Came
    <2> QED BY <2>1, <2>2 DEF Finished, Closes
  <1>4. CASE EndedAfterBoth(r, calls, got, end)
    <2>1. /\ Two(got) /\ Two(calls) /\ got[1] \in Came(r, 1) /\ got[2] \in Came(r, 2)
          /\ end = handler(r, <<got[1], got[2]>>) /\ AskedBoth(r, handler(r, <<>>))
      BY <1>4, Opened DEF EndedAfterBoth, AsksBoth, Ends
    <2>2. Closes(r, end, got[1], got[2])
      BY <2>1, HandlersAreOrderly DEF Orderly, Came
    <2> QED BY <2>1, <2>2 DEF Finished, Closes
  <1>5. CASE WaitsForFirst(r, calls, got, end)
    BY <1>5 DEF WaitsForFirst, AsksFirst, One
  <1>6. CASE WaitsForSecond(r, calls, got, end)
    BY <1>6 DEF WaitsForSecond, AsksSecond, One, Two
  <1>7. CASE WaitsForBoth(r, calls, got, end)
    BY <1>7 DEF WaitsForBoth, AsksBoth, Two
  <1> QED BY <1>1, <1>2, <1>3, <1>4, <1>5, <1>6, <1>7 DEF Stands

\* Every call is one that its request may make.
LEMMA CallsFit ==
  ASSUME NEW r \in Requests, NEW calls, NEW got, NEW end, Stands(r, calls, got, end),
         NEW k \in DOMAIN calls
  PROVE  Fits(r, calls[k].operation)
  <1>1. ASSUME NEW c, NEW got1, handler(r, got1) = Ask(c), Asked(r, handler(r, got1))
        PROVE  Fits(r, c.operation)
    <2>1. PICK d : handler(r, got1) = Ask(d) /\ Fits(r, d.operation)
      BY <1>1 DEF Asked
    <2>2. <<c>> = <<d>>
      <3>1. Ask(c).calls = <<c>> /\ Ask(d).calls = <<d>>
        BY StepKinds
      <3> QED BY <1>1, <2>1, <3>1
    <2>3. c = d
      BY <2>2
    <2> QED BY <2>1, <2>3
  <1>2. CASE calls = <<>>
    BY <1>2
  <1>3. CASE AsksFirst(r, calls)
    <2>1. k = 1
      BY <1>3 DEF AsksFirst, One
    <2>2. Asked(r, handler(r, <<>>)) /\ handler(r, <<>>) = Ask(calls[1])
      BY <1>3, Opened DEF AsksFirst
    <2> QED BY <1>1, <2>1, <2>2
  <1>4. CASE \E a : AsksSecond(r, calls, a)
    <2>1. PICK a : AsksSecond(r, calls, a)
      BY <1>4
    <2>2. k \in {1, 2}
      BY <2>1 DEF AsksSecond, Two
    <2>3. /\ Asked(r, handler(r, <<>>)) /\ handler(r, <<>>) = Ask(calls[1])
          /\ Asked(r, handler(r, <<a>>)) /\ handler(r, <<a>>) = Ask(calls[2])
      BY <2>1, Opened DEF AsksSecond
    <2>4. Fits(r, calls[1].operation)
      BY <1>1, <2>3
    <2>5. Fits(r, calls[2].operation)
      BY <1>1, <2>3
    <2>6. CASE k = 1
      BY <2>4, <2>6
    <2>7. CASE k = 2
      BY <2>5, <2>7
    <2> QED BY <2>2, <2>6, <2>7
  <1>5. CASE AsksBoth(r, calls)
    <2>1. PICK c, d : /\ handler(r, <<>>) = AskAll(<<c, d>>)
                      /\ Fits(r, c.operation) /\ Fits(r, d.operation)
      BY <1>5, Opened DEF AskedBoth
    <2>2. <<calls[1], calls[2]>> = <<c, d>>
      BY <1>5, <2>1, StepKinds DEF AsksBoth
    <2>3. calls[1] = c /\ calls[2] = d
      BY <2>2
    <2>4. k \in {1, 2}
      BY <1>5 DEF AsksBoth, Two
    <2>5. CASE k = 1
      BY <2>1, <2>3, <2>5
    <2>6. CASE k = 2
      BY <2>1, <2>3, <2>6
    <2> QED BY <2>4, <2>5, <2>6
  <1> QED BY <1>2, <1>3, <1>4, <1>5
        DEF Stands, EndedAtOnce, WaitsForFirst, EndedAfterFirst, WaitsForSecond,
            EndedAfterSecond, WaitsForBoth, EndedAfterBoth

\* The lengths and domains of no, one and two elements.
LEMMA Shapes ==
  /\ Len(<<>>) = 0 /\ DOMAIN <<>> = {}
  /\ \A s : One(s) => Len(s) = 1 /\ DOMAIN s = {1}
  /\ \A s : Two(s) => Len(s) = 2 /\ DOMAIN s = {1, 2}
  <1>1. ASSUME NEW s, One(s) PROVE Len(s) = 1 /\ DOMAIN s = {1}
    <2>1. s = <<s[1]>>
      BY <1>1 DEF One
    <2>2. DOMAIN <<s[1]>> = {1}
      OBVIOUS
    <2> QED BY <1>1, <2>1, <2>2 DEF One
  <1>2. ASSUME NEW s, Two(s) PROVE Len(s) = 2 /\ DOMAIN s = {1, 2}
    <2>1. s = <<s[1], s[2]>>
      BY <1>2 DEF Two
    <2>2. DOMAIN <<s[1], s[2]>> = {1, 2}
      OBVIOUS
    <2> QED BY <1>2, <2>1, <2>2 DEF Two
  <1> QED BY <1>1, <1>2

\* At most two calls are made, a reply comes when they have all ended, and an error is
\* one that the exception filters of Nest answer with.
THEOREM CallsAndRepliesFit == GatewaySpec => []GatewayTypeOK
  <1>1. GatewayInv => GatewayTypeOK
    <2>1. CASE Idle(received, asked, answers, reply)
      BY <2>1, Shapes DEF Idle, Pending, GatewayTypeOK
    <2>2. CASE /\ received \in Requests
               /\ Stands(received, asked, answers, reply)
      <3>1. CASE Finished(received, asked, answers, reply)
        <4>1. Len(answers) = Len(asked) /\ Len(asked) \in 0 .. 2
          BY <3>1, Shapes DEF Finished
        <4>2. \/ reply.kind = "return"
              \/ reply.kind = "throw" /\ reply.status \in {400, 404, 500, 502, 503}
          BY <3>1 DEF Finished, Told, Threw
        <4> QED BY SMTT(60), <4>1, <4>2 DEF GatewayTypeOK
      <3>2. CASE /\ reply = Pending /\ Len(answers) \in Nat /\ Len(asked) \in Nat
                 /\ Len(answers) <= Len(asked) /\ Len(asked) <= 2
        BY <3>2 DEF Pending, GatewayTypeOK
      <3> QED BY <2>2, <3>1, <3>2, Endings
    <2> QED BY <2>1, <2>2 DEF GatewayInv
  <1> QED BY <1>1, GatewayInvariance, PTL

\* What a reply that says ok was told.
LEMMA OkIsConfirmed ==
  ASSUME NEW r \in Requests, NEW calls, NEW got, NEW end,
         Stands(r, calls, got, end), end.kind = "return", saysOk(r, end.value)
  PROVE  Len(got) \in {1, 2} /\ Confirmed(r, got[Len(got)])
  <1>1. Finished(r, calls, got, end)
    BY Endings DEF Pending
  <1>2. ofInterpol(r) /\ ~Threw(end)
    BY DEF saysOk, ofInterpol, Threw
  <1>3. CASE One(got) /\ Told(r, end, got[1])
    BY <1>2, <1>3, Shapes DEF Told
  <1>4. CASE Two(got) /\ Told(r, end, got[2])
    BY <1>2, <1>4, Shapes DEF Told
  <1> QED BY <1>1, <1>2, <1>3, <1>4 DEF Finished

\* No reply says ok without an answer of INTERPOL that does: mapBaseResponse, mapped
\* and the schemas' mapping look at status, fault, code and the errors beside it.
THEOREM OkHasInterpolsWord == GatewaySpec => []OkMeansAccepted
  <1>1. GatewayInv => OkMeansAccepted
    <2>1. CASE Idle(received, asked, answers, reply)
      BY <2>1 DEF Idle, Pending, isOk, OkMeansAccepted
    <2>2. CASE /\ received \in Requests
               /\ Stands(received, asked, answers, reply)
      <3>1. SUFFICES ASSUME isOk PROVE Confirmed(received, answers[Len(answers)])
        BY DEF OkMeansAccepted, Confirmed
      <3>2. reply.kind = "return" /\ saysOk(received, reply.value)
        BY <3>1 DEF isOk, saysOk
      <3> QED BY <2>2, <3>2, OkIsConfirmed
    <2> QED BY <2>1, <2>2 DEF GatewayInv
  <1> QED BY <1>1, GatewayInvariance, PTL

\* No handler tells of a call without an answer, or with a status that is a failure, as of
\* one that found something or nothing, however many it makes and whichever of them fails:
\* validStatus, AwaitValid and the mappers' look at the status.
THEOREM OutagesAreNotFindings == GatewaySpec => []OutageIsNoFinding
  <1>1. GatewayInv => OutageIsNoFinding
    <2>1. CASE Idle(received, asked, answers, reply)
      BY <2>1 DEF Idle, Pending, OutageIsNoFinding
    <2>2. CASE /\ received \in Requests
               /\ Stands(received, asked, answers, reply)
      <3> DEFINE failed(a) == a = NoAnswer \/ a.status >= 400
      <3>1. SUFFICES ASSUME reply.kind = "return", NEW k \in DOMAIN answers
                     PROVE  IF ofInterpol(received) THEN failed(answers[k]) => ~isOk
                            ELSE validStatus(answers[k].status)
        BY DEF OutageIsNoFinding, ofInterpol
      <3>2. Finished(received, asked, answers, reply) /\ ~Threw(reply)
        BY <2>2, <3>1, Endings DEF Pending, Threw
      <3>3. ASSUME NEW a, NEW n \in 1 .. 2, a \in Came(received, n), Passed(received, a),
                   ofInterpol(received)
            PROVE  ~failed(a)
        <4>1. a.status \in Nat /\ a.status < 400 /\ a # NoAnswer
          BY <2>2, <3>3, AnswersAssumption DEF Passed, Came
        <4> QED BY <4>1
      <3>4. ASSUME NEW a, NEW n \in 1 .. 2, a \in Came(received, n), Told(received, reply, a),
                   ofInterpol(received), isOk
            PROVE  ~failed(a)
        <4>1. accepted(a)
          BY <3>4 DEF Told, saysOk, isOk, Confirmed
        <4>2. a.status \in Nat /\ a.status < 400 /\ a # NoAnswer
          BY <2>2, <3>4, <4>1, AnswersAssumption DEF Came, accepted
        <4> QED BY <4>2
      <3> HIDE DEF failed
      <3>5. CASE One(answers) /\ answers[1] \in Came(received, 1) /\ Told(received, reply, answers[1])
        <4>1. k = 1 /\ 1 \in 1 .. 2
          BY <3>1, <3>5, Shapes
        <4>2. CASE ofInterpol(received)
          BY <3>4, <3>5, <4>1, <4>2
        <4>3. CASE ~ofInterpol(received)
          BY <3>5, <4>1, <4>3 DEF Told
        <4> QED BY <4>2, <4>3
      <3>6. CASE /\ Two(answers) /\ answers[1] \in Came(received, 1) /\ answers[2] \in Came(received, 2)
                 /\ Passed(received, answers[1]) /\ Told(received, reply, answers[2])
        <4>1. k \in {1, 2} /\ 1 \in 1 .. 2 /\ 2 \in 1 .. 2
          BY <3>1, <3>6, Shapes
        <4>2. CASE ofInterpol(received)
          <5>1. ~failed(answers[1])
            BY <3>3, <3>6, <4>1, <4>2
          <5>2. isOk => ~failed(answers[2])
            BY <3>4, <3>6, <4>1, <4>2
          <5>3. CASE k = 1
            BY <4>2, <5>1, <5>3
          <5>4. CASE k = 2
            BY <4>2, <5>2, <5>4
          <5> QED BY <4>1, <5>3, <5>4
        <4>3. CASE ~ofInterpol(received)
          <5>1. validStatus(answers[1].status) /\ validStatus(answers[2].status)
            BY <3>6, <4>3 DEF Passed, Told
          <5>2. CASE k = 1
            BY <4>3, <5>1, <5>2
          <5>3. CASE k = 2
            BY <4>3, <5>1, <5>3
          <5> QED BY <4>1, <5>2, <5>3
        <4> QED BY <4>2, <4>3
      <3>7. CASE answers = <<>>
        BY <3>1, <3>7, Shapes
      <3> QED BY <3>2, <3>5, <3>6, <3>7 DEF Finished
    <2> QED BY <2>1, <2>2 DEF GatewayInv
  <1> QED BY <1>1, GatewayInvariance, PTL

\* Delete, extend and retrieve name the document that resolveDocumentId has found for
\* the number and the type they were given, by a search that went well.
THEOREM ActsOnWhatItFound == GatewaySpec => []ActsOnTheFoundRecord
  <1>1. GatewayInv => ActsOnTheFoundRecord
    <2>1. CASE Idle(received, asked, answers, reply)
      BY <2>1 DEF Idle, NoRequest, ActsOnTheFoundRecord
    <2>2. CASE /\ received \in Requests
               /\ Stands(received, asked, answers, reply)
      <3>1. SUFFICES ASSUME received.service = "wisdm", Len(asked) = 2
            PROVE  /\ asked[1].operation = "SearchDocument"
                   /\ asked[1].body = identifier(received.body)
                   /\ accepted(answers[1]) /\ errorless(answers[1])
                   /\ textOf(answers[1].tags, "resultCode") \in {"0", "NO_ERROR"}
                   /\ answers[1].documentId # NoText
                   /\ asked[2].body.DocumentId = answers[1].documentId
        BY DEF ActsOnTheFoundRecord
      <3>2. SearchesFirst(received)
        BY <2>2, <3>1, WisdmIsOrderly
      <3>3. AsksSecond(received, asked, answers[1])
        <4>1. ~AsksFirst(received, asked) /\ asked # <<>>
          BY <3>1, Shapes DEF AsksFirst, One
        <4>2. ~AsksBoth(received, asked)
          BY <2>2, <3>2, Opened DEF SearchesFirst
        <4> QED BY <2>2, <4>1, <4>2
              DEF Stands, EndedAtOnce, WaitsForFirst, EndedAfterFirst, WaitsForSecond,
                  EndedAfterSecond, WaitsForBoth, EndedAfterBoth
      <3>4. FollowsSearch(received, answers[1])
        BY <2>2, <3>2, <3>3, Opened DEF SearchesFirst, AsksSecond, Came
      <3>5. PICK c, d : /\ handler(received, <<>>) = Ask(c) /\ handler(received, <<answers[1]>>) = Ask(d)
                        /\ c.operation = "SearchDocument" /\ c.body = identifier(received.body)
                        /\ accepted(answers[1]) /\ errorless(answers[1])
                        /\ textOf(answers[1].tags, "resultCode") \in {"0", "NO_ERROR"}
                        /\ answers[1].documentId # NoText /\ d.body.DocumentId = answers[1].documentId
        BY <3>4 DEF FollowsSearch
      <3>6. asked[1] = c /\ asked[2] = d
        <4>1. Ask(asked[1]) = Ask(c) /\ Ask(asked[2]) = Ask(d)
          BY <3>3, <3>5 DEF AsksSecond
        <4>2. \A x, y : Ask(x) = Ask(y) => x = y
          <5>1. SUFFICES ASSUME NEW x, NEW y, Ask(x) = Ask(y) PROVE x = y
            OBVIOUS
          <5>2. Ask(x).calls = <<x>> /\ Ask(y).calls = <<y>>
            BY StepKinds
          <5>3. <<x>> = <<y>>
            BY <5>1, <5>2
          <5> QED BY <5>3
        <4> QED BY <4>1, <4>2
      <3> QED BY <3>5, <3>6
    <2> QED BY <2>1, <2>2 DEF GatewayInv
  <1> QED BY <1>1, GatewayInvariance, PTL

-----------------------------------------------------------------------------
(* A record on its way to INTERPOL.                                         *)

\* The record that is made of a request.
recordOf(r) ==
  buildRecordElements(identifier(r.body), toRecordParams(r.body, r.op), r.op = "create")

\* Only what the DTO and the service have passed is sent, and as they left it.
SendsRecord(r, c) ==
  /\ c.operation = "CreateOrUpdateSLTDRecord" /\ c.body = recordOf(r)
  /\ \/ r.op = "create" /\ WisdmCreateRecordDto(r.body)
     \/ r.op = "update" /\ WisdmUpdateRecordDto(r.body)
  /\ assertDateOrdering(toRecordParams(r.body, r.op))

\* Creating and updating send the record as it was checked, in one call.
LEMMA RecordsSent ==
  ASSUME NEW r, r.service = "wisdm", r.op \in {"create", "update"}, NEW c, handler(r, <<>>) = Ask(c)
  PROVE  SendsRecord(r, c)
  <1> DEFINE p == toRecordParams(r.body, r.op)
             to == getSltdEndpoint(r.env)
             envelope == buildEnvelope(r.env)
             body == recordOf(r)
             sent == [to |-> to, operation |-> "CreateOrUpdateSLTDRecord", body |-> body]
             q == callService(to, envelope, "CreateOrUpdateSLTDRecord", body, <<>>, 1)
             told(xml) == mapMutationResponse(identifier(r.body), xml)
  <1>1. Throw(400) # Ask(c) /\ \A x : Threw(x) => x # Ask(c) /\ x.kind # "return"
    BY StepKinds DEF Threw
  <1>2. \A x : Ask(x).kind # "return"
    BY StepKinds
  <1>3. \A x : Ask(x) = Ask(c) => x = c
    <2>1. SUFFICES ASSUME NEW x, Ask(x) = Ask(c) PROVE x = c
      OBVIOUS
    <2>2. Ask(x).calls = <<x>> /\ Ask(c).calls = <<c>>
      BY StepKinds
    <2>3. <<x>> = <<c>>
      BY <2>1, <2>2
    <2> QED BY <2>3
  <1>4. Threw(q) \/ q = Ask(sent)
    <2> HIDE DEF to, envelope, body
    <2>1. Served(r, to, envelope, "CreateOrUpdateSLTDRecord", body)
      BY ServiceCalls
    <2> QED BY <2>1 DEF Served
  <1>5. sent.operation = "CreateOrUpdateSLTDRecord" /\ sent.body = body
    OBVIOUS
  <1>6. CASE r.op = "create"
    <2> DEFINE valid == WisdmCreateRecordDto(r.body)
               unfit == ~requireTypeOfDocument(r.body.typeOfDocument) \/ ~assertDateOrdering(p)
    <2>1. handler(r, <<>>) = IF valid THEN createRecord(r.env, r.body, <<>>) ELSE Throw(400)
      BY <1>6 DEF handler, wisdmHandler, Validated
    <2>2. createRecord(r.env, r.body, <<>>) =
            IF unfit THEN Throw(400) ELSE IF q.kind = "return" THEN told(q.value) ELSE q
      BY <1>6 DEF createRecord, call, recordOf, AndThen
    <2>3. ~unfit => assertDateOrdering(p)
      OBVIOUS
    <2> HIDE DEF valid, unfit, q, sent, told, body
    <2>4. valid /\ ~unfit /\ Ask(c) = IF q.kind = "return" THEN told(q.value) ELSE q
      BY <1>1, <2>1, <2>2
    <2>5. q = Ask(c)
      BY <1>1, <1>2, <1>4, <2>4
    <2>6. sent = c
      BY <1>1, <1>3, <1>4, <2>5
    <2> QED BY <1>5, <1>6, <2>3, <2>4, <2>6 DEF SendsRecord, valid, body
  <1>7. CASE r.op = "update"
    <2> DEFINE valid == WisdmUpdateRecordDto(r.body)
               unfit == \/ ~requireTypeOfDocument(r.body.typeOfDocument)
                        \/ ~assertDateOrdering(p)
                        \/ ~retentionHasReason(p)
                        \/ ~assertHasUpdatableField(r.body)
    <2>1. handler(r, <<>>) = IF valid THEN updateRecord(r.env, r.body, <<>>) ELSE Throw(400)
      BY <1>7 DEF handler, wisdmHandler, Validated
    <2>2. updateRecord(r.env, r.body, <<>>) =
            IF unfit THEN Throw(400) ELSE IF q.kind = "return" THEN told(q.value) ELSE q
      BY <1>7 DEF updateRecord, call, recordOf, AndThen
    <2>3. ~unfit => assertDateOrdering(p)
      OBVIOUS
    <2> HIDE DEF valid, unfit, q, sent, told, body
    <2>4. valid /\ ~unfit /\ Ask(c) = IF q.kind = "return" THEN told(q.value) ELSE q
      BY <1>1, <2>1, <2>2
    <2>5. q = Ask(c)
      BY <1>1, <1>2, <1>4, <2>4
    <2>6. sent = c
      BY <1>1, <1>3, <1>4, <2>5
    <2> QED BY <1>5, <1>7, <2>3, <2>4, <2>6 DEF SendsRecord, valid, body
  <1> QED BY <1>6, <1>7

\* What is escaped is decoded to what it was, and dates are escaped to themselves.
LEMMA EscapedAndDecoded ==
  ASSUME NEW v
  PROVE  /\ decodeXmlEntities(xmlEscape(v)) = v
         /\ xmlEscape(v).kind # "special"
         /\ (v.kind = "day" <=> xmlEscape(v).kind = "day") /\ (v.kind = "day" => xmlEscape(v) = v)
  <1>1. CASE v.kind \in {"special", "escaped"}
    BY <1>1 DEF xmlEscape, decodeXmlEntities
  <1>2. CASE v.kind \notin {"special", "escaped"}
    <2>1. xmlEscape(v) = v
      BY <1>2 DEF xmlEscape
    <2> QED BY <1>2, <2>1 DEF decodeXmlEntities
  <1> QED BY <1>1, <1>2

\* Elements hold what is present, each under its own name.
LEMMA ElementsHold ==
  ASSUME NEW names, NEW params, \A f, g \in DOMAIN names : names[f] = names[g] => f = g,
         NEW f \in DOMAIN names
  PROVE  /\ names[f] \in DOMAIN elements(names, params) <=> params[f] # absent
         /\ params[f] # absent => elements(names, params)[names[f]] = xmlEscape(params[f])
  <1> DEFINE present == {g \in DOMAIN names : params[g] # absent}
             it == CHOOSE g \in present : names[g] = names[f]
  <1>1. elements(names, params) =
          [e \in {names[g] : g \in present} |->
             xmlEscape(params[CHOOSE g \in present : names[g] = e])]
    BY DEF elements
  <1>2. names[f] \in {names[g] : g \in present} <=> f \in present
    OBVIOUS
  <1>3. f \in present => it \in present /\ names[it] = names[f]
    OBVIOUS
  <1>4. f \in present => it = f
    BY <1>3
  <1> QED BY <1>1, <1>2, <1>4

\* What a record holds, where, and nothing else.
LEMMA RecordElements ==
  ASSUME NEW id, NEW p, NEW fraud, NEW record,
         record = buildRecordElements(id, p, fraud), DOMAIN p = RecordTexts,
         fraud \/ p.fraudType = absent
  PROVE  /\ record.document["nr"] = id.din /\ "nr" \in DOMAIN record.document
         /\ record.document["type_id"] = xmlEscape(id.typeOfDocument)
         /\ "type_id" \in DOMAIN record.document
         /\ \A f \in DOMAIN DocumentElements :
              /\ DocumentElements[f] \in DOMAIN record.document <=> p[f] # absent
              /\ p[f] # absent => record.document[DocumentElements[f]] = xmlEscape(p[f])
         /\ \A f \in DOMAIN TheftElements :
              /\ TheftElements[f] \in DOMAIN record.theft <=> p[f] # absent
              /\ p[f] # absent => record.theft[TheftElements[f]] = xmlEscape(p[f])
  <1> DEFINE given == IF fraud THEN p ELSE [p EXCEPT !.fraudType = absent]
             head == [nr |-> id.din, type_id |-> xmlEscape(id.typeOfDocument)]
             rest == elements(DocumentElements, p)
  <1>1. record = [theft |-> elements(TheftElements, given), document |-> both(head, rest)]
    BY DEF buildRecordElements
  <1>2. record.theft = elements(TheftElements, given) /\ record.document = both(head, rest)
    <2> HIDE DEF given, head, rest
    <2> QED BY <1>1
  <1>3. \A f \in DOMAIN TheftElements : given[f] = p[f]
    BY DEF TheftElements, RecordTexts, RecordFields
  <1>4. \A f, g \in DOMAIN DocumentElements : DocumentElements[f] = DocumentElements[g] => f = g
    BY DEF DocumentElements
  <1>5. \A f, g \in DOMAIN TheftElements : TheftElements[f] = TheftElements[g] => f = g
    BY DEF TheftElements
  <1>6. DOMAIN head = {"nr", "type_id"} /\ head["nr"] = id.din 
         /\ head["type_id"] = xmlEscape(id.typeOfDocument)
    OBVIOUS
  <1>7. \A f \in DOMAIN DocumentElements : DocumentElements[f] \notin {"nr", "type_id"}
    BY DEF DocumentElements
  <1> HIDE DEF given, head, rest
  <1>8. /\ DOMAIN record.document = DOMAIN head \cup DOMAIN rest
        /\ \A e \in DOMAIN head \cup DOMAIN rest :
             record.document[e] = IF e \in DOMAIN head THEN head[e] ELSE rest[e]
    BY <1>2 DEF both
  <1>9. ASSUME NEW f \in DOMAIN DocumentElements
        PROVE  /\ DocumentElements[f] \in DOMAIN record.document <=> p[f] # absent
               /\ p[f] # absent => record.document[DocumentElements[f]] = xmlEscape(p[f])
    <2>1. /\ DocumentElements[f] \in DOMAIN rest <=> p[f] # absent
          /\ p[f] # absent => rest[DocumentElements[f]] = xmlEscape(p[f])
      BY <1>4, ElementsHold DEF rest
    <2>2. DocumentElements[f] \notin DOMAIN head
      BY <1>6, <1>7
    <2> QED BY <1>8, <2>1, <2>2
  <1>10. ASSUME NEW f \in DOMAIN TheftElements
         PROVE  /\ TheftElements[f] \in DOMAIN record.theft <=> p[f] # absent
                /\ p[f] # absent => record.theft[TheftElements[f]] = xmlEscape(p[f])
    <2>1. /\ TheftElements[f] \in DOMAIN elements(TheftElements, given) <=> given[f] # absent
          /\ given[f] # absent => elements(TheftElements, given)[TheftElements[f]] = xmlEscape(given[f])
      BY <1>5, ElementsHold
    <2> QED BY <1>2, <1>3, <2>1
  <1>11. record.document["nr"] = id.din /\ record.document["type_id"] = xmlEscape(id.typeOfDocument)
    BY <1>6, <1>8
  <1> QED BY <1>6, <1>8, <1>9, <1>10, <1>11

\* It is read as it was written.
LEMMA RecordReadsBack ==
  ASSUME NEW id, NEW p, NEW fraud, NEW record,
         record = buildRecordElements(id, p, fraud), DOMAIN p = RecordTexts,
         fraud \/ p.fraudType = absent,
         NEW form, ~(form = "plain" /\ looksEscapedXml(record))
  PROVE  LET read == parseDocumentProperties([form |-> form, record |-> record])
         IN /\ read.din = id.din /\ decodeXmlEntities(read.typeOfDocument) = id.typeOfDocument
            /\ \A f \in DOMAIN TheftElements \cup DOMAIN DocumentElements :
                 p[f] # absent => decodeXmlEntities(read[f]) = p[f]
  <1> DEFINE xml == [form |-> form, record |-> record]
             found(v) == IF xml.form = "plain" /\ looksEscapedXml(xml.record)
                         THEN decodeXmlEntities(v) ELSE v
             shown(v) == IF found(v).kind = "special" /\ found(v).holds # "ampersand" THEN empty ELSE found(v)
             fields(names, from) ==
               [f \in DOMAIN names |-> IF names[f] \in DOMAIN from THEN shown(from[names[f]]) ELSE empty]
             own == [typeOfDocument |-> "type_id", recordRetentionDate |-> "db_review_date"]
             number == [din |-> xml.record.document["nr"]]
             inHead == fields(own, xml.record.document)
             inDocument == fields(DocumentElements, xml.record.document)
             inTheft == fields(TheftElements, xml.record.theft)
             read == parseDocumentProperties(xml)
  <1>1. xml.record = record /\ xml.form = form
    OBVIOUS
  <1>2. read = both(both(number, inHead), both(inDocument, inTheft))
    <2>1. "nr" \in DOMAIN xml.record.document
      BY <1>1, RecordElements
    <2> QED BY <2>1 DEF parseDocumentProperties
  <1>3. \A v : shown(xmlEscape(v)) = xmlEscape(v)
    BY <1>1, EscapedAndDecoded
  <1>4. \A f \in DOMAIN DocumentElements : p[f] # absent => inDocument[f] = xmlEscape(p[f])
    <2> HIDE DEF shown
    <2> QED BY <1>1, <1>3, RecordElements
  <1>5. \A f \in DOMAIN TheftElements : p[f] # absent => inTheft[f] = xmlEscape(p[f])
    <2> HIDE DEF shown
    <2> QED BY <1>1, <1>3, RecordElements
  <1>6. DOMAIN number = {"din"} /\ number.din = id.din
    BY <1>1, RecordElements
  <1>7. /\ DOMAIN inHead = {"typeOfDocument", "recordRetentionDate"}
        /\ inHead["typeOfDocument"] = xmlEscape(id.typeOfDocument)
    <2>1. /\ record.document["type_id"] = xmlEscape(id.typeOfDocument)
          /\ "type_id" \in DOMAIN record.document
      BY RecordElements
    <2>2. DOMAIN own = {"typeOfDocument", "recordRetentionDate"} /\ own["typeOfDocument"] = "type_id"
      OBVIOUS
    <2> HIDE DEF shown, own
    <2> QED BY <1>1, <1>3, <2>1, <2>2
  <1>8. DOMAIN inDocument = DOMAIN DocumentElements /\ DOMAIN inTheft = DOMAIN TheftElements
    OBVIOUS
  <1> HIDE DEF number, inHead, inDocument, inTheft, read, xml
  <1>9. /\ DOMAIN DocumentElements \cap DOMAIN TheftElements = {}
        /\ (DOMAIN number \cup DOMAIN inHead)
             \cap (DOMAIN TheftElements \cup DOMAIN DocumentElements) = {}
    BY <1>6, <1>7 DEF DocumentElements, TheftElements
  <1>10. read["din"] = number["din"] /\ read["typeOfDocument"] = inHead["typeOfDocument"]
    BY <1>2, <1>6, <1>7 DEF both
  <1>11. ASSUME NEW f \in DOMAIN TheftElements \cup DOMAIN DocumentElements, p[f] # absent
         PROVE  read[f] = xmlEscape(p[f])
    <2>1. read[f] = both(inDocument, inTheft)[f]
      BY <1>2, <1>8, <1>9 DEF both
    <2>2. CASE f \in DOMAIN DocumentElements
      <3>1. both(inDocument, inTheft)[f] = inDocument[f]
        BY <1>8, <2>2 DEF both
      <3> QED BY <1>4, <1>11, <2>1, <2>2, <3>1
    <2>3. CASE f \in DOMAIN TheftElements
      <3>1. both(inDocument, inTheft)[f] = inTheft[f]
        BY <1>8, <1>9, <2>3 DEF both
      <3> QED BY <1>5, <1>11, <2>1, <2>3, <3>1
    <2> QED BY <2>2, <2>3
  <1> QED BY <1>6, <1>7, <1>10, <1>11, EscapedAndDecoded DEF read, xml

\* A record on its way comes from a request that creates or updates one.
LEMMA SentRecords ==
  ASSUME GatewayInv, NEW k \in sentRecords
  PROVE  /\ received \in Requests /\ received.service = "wisdm" /\ received.op \in {"create", "update"}
         /\ SendsRecord(received, asked[k])
  <1>1. k \in DOMAIN asked /\ asked[k].operation = "CreateOrUpdateSLTDRecord"
    BY DEF sentRecords
  <1>2. asked # <<>>
    BY <1>1
  <1>3. received \in Requests /\ Stands(received, asked, answers, reply)
    BY <1>2 DEF GatewayInv, Idle
  <1>4. received.service = "wisdm" /\ received.op \in {"create", "update"}
    BY <1>1, <1>3, CallsFit DEF Fits
  <1>5. SearchesFirst(received)
    BY <1>3, <1>4, WisdmIsOrderly
  <1>6. ~AsksBoth(received, asked)
    BY <1>3, <1>5, Opened DEF SearchesFirst
  <1>7. ASSUME NEW a, AsksSecond(received, asked, a) PROVE FALSE
    <2>1. FollowsSearch(received, a)
      BY <1>3, <1>5, <1>7, Opened DEF SearchesFirst, AsksSecond, Came
    <2>2. PICK c : handler(received, <<>>) = Ask(c) /\ c.operation = "SearchDocument"
      BY <2>1 DEF FollowsSearch
    <2>3. SendsRecord(received, c)
      BY <1>4, <2>2, RecordsSent
    <2> QED BY <2>2, <2>3 DEF SendsRecord
  <1>8. AsksFirst(received, asked)
    BY <1>2, <1>3, <1>6, <1>7
      DEF Stands, EndedAtOnce, WaitsForFirst, EndedAfterFirst, WaitsForSecond,
          EndedAfterSecond, WaitsForBoth, EndedAfterBoth
  <1>9. k = 1 /\ handler(received, <<>>) = Ask(asked[1])
    BY <1>1, <1>8, Shapes DEF AsksFirst
  <1>10. SendsRecord(received, asked[1])
    BY <1>4, <1>9, RecordsSent
  <1> QED BY <1>3, <1>4, <1>9, <1>10

\* What is normalized are the fields of a record, and an update has no type of fraud.
LEMMA Params ==
  ASSUME NEW body, NEW mode \in {"create", "update"}
  PROVE  /\ DOMAIN toRecordParams(body, mode) = RecordTexts
         /\ mode = "create" \/ toRecordParams(body, mode).fraudType = absent
  BY DEF toRecordParams, RecordTexts, RecordFields

\* What buildRecordElements writes, parseDocumentProperties reads as it was written: no
\* tag is taken for one of the same name at another place, and decoding gives every text.
THEOREM RecordsReadBack == GatewaySpec => []OwnRecordReadsBack
  <1>1. ASSUME GatewayInv, NEW k \in sentRecords, NEW form \in {"none", "escaped", "plain"},
               ~(form = "plain" /\ looksEscapedXml(asked[k].body))
        PROVE  LET read == parseDocumentProperties([form |-> form, record |-> asked[k].body])
                   sent == toRecordParams(received.body, received.op)
               IN /\ read.din = cleanDin(received.body.din)
                  /\ decodeXmlEntities(read.typeOfDocument) = received.body.typeOfDocument
                  /\ \A f \in DOMAIN TheftElements \cup DOMAIN DocumentElements :
                       sent[f] # absent => decodeXmlEntities(read[f]) = sent[f]
    <2> DEFINE p == toRecordParams(received.body, received.op)
               id == identifier(received.body)
               record == asked[k].body
               fraud == received.op = "create"
    <2>1. SendsRecord(received, asked[k]) /\ received.op \in {"create", "update"}
      BY <1>1, SentRecords
    <2>2. record = buildRecordElements(id, p, fraud)
      BY <2>1 DEF SendsRecord, recordOf
    <2>3. DOMAIN p = RecordTexts /\ (fraud \/ p.fraudType = absent)
      BY <2>1, Params
    <2>4. id.din = cleanDin(received.body.din) /\ id.typeOfDocument = received.body.typeOfDocument
      BY DEF identifier
    <2>5. ~(form = "plain" /\ looksEscapedXml(record))
      BY <1>1
    <2> HIDE DEF p, id, record, fraud
    <2>6. LET read == parseDocumentProperties([form |-> form, record |-> record])
          IN /\ read.din = id.din /\ decodeXmlEntities(read.typeOfDocument) = id.typeOfDocument
             /\ \A f \in DOMAIN TheftElements \cup DOMAIN DocumentElements :
                  p[f] # absent => decodeXmlEntities(read[f]) = p[f]
      BY <2>2, <2>3, <2>5, RecordReadsBack
    <2> QED BY <2>4, <2>6 DEF p, record
  <1>2. GatewayInv => OwnRecordReadsBack
    BY <1>1 DEF OwnRecordReadsBack
  <1> QED BY <1>2, GatewayInvariance, PTL

\* A day that is sent is the day that was given, and the DTO has seen it.
LEMMA GivenDay ==
  ASSUME NEW body, NEW mode \in {"create", "update"},
         NEW f \in {"dateOfTheft", "documentIssuanceDate", "documentExpiryDate"},
         DOMAIN body.fields = RecordTexts, toRecordParams(body, mode)[f].kind = "day"
  PROVE  transformed(body)[f] = body.fields[f] /\ toRecordParams(body, mode)[f] = body.fields[f]
  <1> DEFINE v == body.fields[f]
  <1>1. transformed(body)[f] = trim(v)
    BY DEF transformed, RecordTexts, RecordFields
  <1>2. toRecordParams(body, mode)[f] =
          IF mode = "update" THEN normalizeUpdatable(v) ELSE normalizeOptional(v)
    BY DEF toRecordParams, RecordTexts, RecordFields
  <1> HIDE DEF v
  <1>3. v.kind = "day" /\ toRecordParams(body, mode)[f] = v
    BY <1>2 DEF normalizeUpdatable, normalizeOptional, trim, absent, empty, blank
  <1>4. trim(v) = v
    BY <1>3 DEF trim, blank
  <1> QED BY <1>1, <1>3, <1>4 DEF v

\* The dates of a record that is sent fit each other: what the validators of the DTO
\* and assertDateOrdering see are the days that are sent in the end.
THEOREM SentDatesFit == GatewaySpec => []SentDatesConsistent
  <1>1. ASSUME GatewayInv, NEW k \in sentRecords
        PROVE  LET theft == asked[k].body.theft
                   document == asked[k].body.document
                   dates(element, in) ==
                     IF element \in DOMAIN in THEN {v \in {in[element]} : v.kind = "day"} ELSE {}
                   issued == dates("date_of_issuance", document)
               IN /\ \A v \in dates("date", theft) \cup issued : v.day <= 0
                  /\ \A i \in issued, v \in dates("date", theft) : i.day <= v.day
                  /\ \A i \in issued, v \in dates("expiry_date", document) : i.day < v.day
    <2> DEFINE body == received.body
               p == toRecordParams(body, received.op)
               id == identifier(body)
               record == asked[k].body
               fraud == received.op = "create"
               dates(element, in) ==
                 IF element \in DOMAIN in THEN {v \in {in[element]} : v.kind = "day"} ELSE {}
               f == transformed(body)
    <2>1. /\ received \in Requests /\ received.service = "wisdm"
          /\ SendsRecord(received, asked[k]) /\ received.op \in {"create", "update"}
      BY <1>1, SentRecords
    <2>2. record = buildRecordElements(id, p, fraud)
      BY <2>1 DEF SendsRecord, recordOf
    <2>3. DOMAIN p = RecordTexts /\ (fraud \/ p.fraudType = absent)
      BY <2>1, Params
    <2>4. WisdmRecordBaseDto(body, f) /\ assertDateOrdering(p)
      BY <2>1 DEF SendsRecord, WisdmCreateRecordDto, WisdmUpdateRecordDto
    <2>5. DOMAIN body.fields = RecordTexts /\ \A g \in RecordTexts : body.fields[g].kind = "day" => body.fields[g].day \in Int
      BY <2>1, RequestsAssumption
    <2>6. ASSUME NEW g \in {"dateOfTheft", "documentIssuanceDate", "documentExpiryDate"},
                 p[g].kind = "day"
          PROVE  f[g] = p[g] /\ p[g].day \in Int
      <3>1. f[g] = body.fields[g] /\ p[g] = body.fields[g]
        BY <2>1, <2>5, <2>6, GivenDay
      <3>2. g \in RecordTexts
        BY DEF RecordTexts, RecordFields
      <3> QED BY <2>5, <2>6, <3>1, <3>2
    <2> HIDE DEF body, p, id, record, fraud, f
    <2>7. /\ \A g \in DOMAIN DocumentElements :
               /\ DocumentElements[g] \in DOMAIN record.document <=> p[g] # absent
               /\ p[g] # absent => record.document[DocumentElements[g]] = xmlEscape(p[g])
          /\ \A g \in DOMAIN TheftElements :
               /\ TheftElements[g] \in DOMAIN record.theft <=> p[g] # absent
               /\ p[g] # absent => record.theft[TheftElements[g]] = xmlEscape(p[g])
      BY <2>2, <2>3, RecordElements
    <2>8. /\ dates("date_of_issuance", record.document) = {v \in {p.documentIssuanceDate} : v.kind = "day"}
          /\ dates("expiry_date", record.document) = {v \in {p.documentExpiryDate} : v.kind = "day"}
          /\ dates("date", record.theft) = {v \in {p.dateOfTheft} : v.kind = "day"}
      <3>1. absent.kind # "day"
        BY DEF absent
      <3>2. /\ "documentIssuanceDate" \in DOMAIN DocumentElements
            /\ DocumentElements["documentIssuanceDate"] = "date_of_issuance"
            /\ "documentExpiryDate" \in DOMAIN DocumentElements
            /\ DocumentElements["documentExpiryDate"] = "expiry_date"
            /\ "dateOfTheft" \in DOMAIN TheftElements
            /\ TheftElements["dateOfTheft"] = "date"
        BY DEF DocumentElements, TheftElements
      <3> QED BY <2>7, <3>1, <3>2, EscapedAndDecoded
    <2> HIDE DEF dates
    <2>9. p.dateOfTheft.kind = "day" => p.dateOfTheft.day <= 0
      BY <2>4, <2>6 DEF WisdmRecordBaseDto, optionalOrEmpty, isNil, empty, IsPastWisdmDate, isPastWisdmDate,
           parseWisdmDate, TODAY
    <2>10. p.documentIssuanceDate.kind = "day" => p.documentIssuanceDate.day <= 0
      BY <2>4, <2>6 DEF WisdmRecordBaseDto, optionalOrEmpty, isNil, empty, IsPastWisdmDate, isPastWisdmDate,
           parseWisdmDate, TODAY
    <2>11. /\ p.documentIssuanceDate.kind = "day" /\ p.dateOfTheft.kind = "day"
                => p.documentIssuanceDate.day <= p.dateOfTheft.day
           /\ p.documentIssuanceDate.kind = "day" /\ p.documentExpiryDate.kind = "day"
                => p.documentIssuanceDate.day < p.documentExpiryDate.day
      BY <2>4, <2>6 DEF assertDateOrdering, comparable, isValidWisdmDate, compareWisdmDates, parseWisdmDate
    <2>12. /\ \A v \in dates("date", record.theft) \cup dates("date_of_issuance", record.document) : v.day <= 0
           /\ \A i \in dates("date_of_issuance", record.document), v \in dates("date", record.theft) : i.day <= v.day
           /\ \A i \in dates("date_of_issuance", record.document), v \in dates("expiry_date", record.document) :
                i.day < v.day
      BY <2>8, <2>9, <2>10, <2>11
    <2> QED BY <2>12 DEF record, dates
  <1>2. GatewayInv => SentDatesConsistent
    BY <1>1 DEF SentDatesConsistent
  <1> QED BY <1>2, GatewayInvariance, PTL

-----------------------------------------------------------------------------
(* The criteria of a search.                                                *)

\* An age that passes is the number that was given.
LEMMA AgeKept ==
  ASSUME NEW v, v.kind = "number", v.halves \in Int, parseAge(v).kind = "return"
  PROVE  parseAge(v).value # {} /\ {2 * age : age \in parseAge(v).value} = {v.halves}
  <1> DEFINE valid == {h \in Number(v) : h >= 0 /\ h % 2 = 0}
             ages == {h \div 2 : h \in valid}
  <1>1. v \notin {nothing, emptyText} /\ Number(v) = {v.halves}
    BY DEF nothing, emptyText, Number
  <1>2. parseAge(v) = IF valid = {} THEN Throw(400) ELSE Return(ages)
    BY <1>1 DEF parseAge
  <1>3. valid # {} /\ parseAge(v).value = ages
    <2> HIDE DEF valid, ages
    <2> QED BY <1>2, StepKinds
  <1>4. valid = {v.halves} /\ v.halves % 2 = 0
    BY <1>1, <1>3
  <1>5. ages = {v.halves \div 2}
    BY <1>4
  <1>6. 2 * (v.halves \div 2) = v.halves
    BY <1>4
  <1>7. {2 * age : age \in ages} = {v.halves}
    BY <1>5, <1>6
  <1> QED BY <1>3, <1>5, <1>7

\* An age that was not given stays so.
LEMMA AgeUnsaid ==
  ASSUME NEW v, v \in {nothing, emptyText}
  PROVE  parseAge(v).value = {}
  <1>1. parseAge(v) = Return({})
    BY DEF parseAge
  <1> QED BY <1>1, StepKinds

\* A score that was not given is the strictest.
LEMMA ScoreUnsaid ==
  ASSUME NEW v, v \in {nothing, emptyText}
  PROVE  parseRankThreshold(v).value = RANK_THRESHOLD_DEFAULT
  <1>1. parseRankThreshold(v) = Return(RANK_THRESHOLD_DEFAULT)
    BY DEF parseRankThreshold
  <1> QED BY <1>1, StepKinds

\* A score that passes is the number that was given.
LEMMA ScoreKept ==
  ASSUME NEW v, v.kind = "number", v.halves \in Int, parseRankThreshold(v).kind = "return"
  PROVE  2 * parseRankThreshold(v).value = v.halves
  <1> DEFINE valid == {n \in RANK_THRESHOLD_MIN .. RANK_THRESHOLD_MAX : 2 * n \in Number(v)}
             it == CHOOSE n \in valid : TRUE
  <1>1. v \notin {nothing, emptyText} /\ Number(v) = {v.halves}
    BY DEF nothing, emptyText, Number
  <1>2. parseRankThreshold(v) = IF valid = {} THEN Throw(400) ELSE Return(it)
    BY <1>1 DEF parseRankThreshold
  <1>3. valid # {} => it \in valid
    OBVIOUS
  <1>4. it \in valid => 2 * it = v.halves
    BY <1>1
  <1> HIDE DEF valid, it
  <1>5. valid # {} /\ parseRankThreshold(v).value = it
    BY <1>2, StepKinds
  <1> QED BY <1>3, <1>4, <1>5

\* What is asked for of a number of records: no more than it says, and ten of no number.
AsMany(n, v) ==
  /\ n \in 1 .. 100
  /\ IF v.kind = "number" /\ v.halves >= 2 THEN 2 * n <= v.halves ELSE n = 10

\* parseNbRecord asks for so many.
LEMMA RecordsBounded ==
  ASSUME NEW v, v.kind = "number" => v.halves \in Int
  PROVE  AsMany(parseNbRecord(v), v)
  <1> DEFINE wanted == {h \div 2 : h \in {n \in Number(v) : n >= 2}}
             it == CHOOSE w \in wanted : TRUE
  <1>1. \A h \in Number(v) : h \in Int
    BY DEF Number
  <1>2. \A w \in wanted : w \in Int /\ w >= 1
    BY <1>1
  <1>3. wanted # {} => it \in wanted
    OBVIOUS
  <1>4. parseNbRecord(v) = IF wanted = {} THEN 10 ELSE IF it < 100 THEN it ELSE 100
    BY DEF parseNbRecord
  <1>5. CASE v.kind = "number" /\ v.halves >= 2
    <2>1. wanted = {v.halves \div 2}
      <3>1. Number(v) = {v.halves}
        BY <1>5 DEF Number
      <3> QED BY <1>5, <3>1
    <2>2. 2 * (v.halves \div 2) <= v.halves
      BY <1>5
    <2> HIDE DEF wanted
    <2>3. it = v.halves \div 2
      BY <2>1
    <2> HIDE DEF it
    <2>4. it \in Int /\ it >= 1 /\ parseNbRecord(v) = IF it < 100 THEN it ELSE 100
      BY <1>2, <1>3, <1>4, <2>1
    <2>5. 2 * it <= v.halves
      BY <2>2, <2>3
    <2> QED BY <1>5, <2>4, <2>5 DEF AsMany
  <1>6. CASE ~(v.kind = "number" /\ v.halves >= 2)
    <2>1. \A n \in Number(v) : ~(n >= 2)
      BY <1>6 DEF Number
    <2>2. wanted = {}
      BY <2>1
    <2> HIDE DEF wanted, it
    <2> QED BY <1>4, <1>6, <2>2 DEF AsMany
  <1> QED BY <1>5, <1>6

\* A text that says something.
given(v) == v \notin {"", " "}

\* A text without the blanks around it is one that says something, or "".
LEMMA Normalized ==
  ASSUME NEW v
  PROVE  /\ normalizeString(v) # "" <=> given(v)
         /\ given(v) => normalizeString(v) = v
  BY Zenon DEF normalizeString, given

\* Criteria as they were given, or as what they say.
Faithful(body, p) ==
  /\ \A f \in {"name", "forename", "identity", "entityId"} : p[f] = normalizeString(body[f])
  /\ p.dateOfBirth = IF normalizeString(body.dateOfBirth) # "" THEN body.dateOfBirth
                     ELSE normalizeString(body.dob)
  /\ \A f \in {"ageMin", "ageMax"} :
       /\ body[f] \in {nothing, emptyText} => p[f] = {}
       /\ body[f].kind = "number" => p[f] # {} /\ {2 * age : age \in p[f]} = {body[f].halves}
  /\ Cardinality({f \in {"name", "identity", "entityId"} : normalizeString(body[f]) # ""}) = 1
  /\ body.score \in {nothing, emptyText} => p.rankThreshold = RANK_THRESHOLD_DEFAULT
  /\ body.score.kind = "number" => 2 * p.rankThreshold = body.score.halves
  /\ AsMany(p.nbRecord, IF body.nbRecord # nothing THEN body.nbRecord ELSE body.nb)

\* Normalization keeps every criterion of a search it lets pass.
LEMMA NormalizedFaithfully ==
  ASSUME NEW r \in Requests, r.service = "interpol", r.op = "search",
         normalizeNominalSearch(r.body).kind = "return"
  PROVE  Faithful(r.body, normalizeNominalSearch(r.body).value)
  <1> DEFINE body == r.body
             dob == IF normalizeString(body.dateOfBirth) # "" THEN body.dateOfBirth
                    ELSE normalizeString(body.dob)
             nb == IF body.nbRecord # nothing THEN body.nbRecord ELSE body.nb
             named == Cardinality({f \in {"name", "identity", "entityId"} :
                                     normalizeString(body[f]) # ""})
             hasAgeBounds(ageMin, ageMax) == ageMin # {} \/ ageMax # {}
             unfit(date, ageMin, ageMax) ==
               \/ /\ normalizeString(body.name) = ""
                  /\ normalizeString(body.forename) # "" \/ hasAgeBounds(ageMin, ageMax) \/ date # ""
               \/ named # 1
               \/ hasAgeBounds(ageMin, ageMax) /\ date # ""
               \/ \E min \in ageMin, max \in ageMax : min > max
             params(date, ageMin, ageMax, threshold) ==
               [name |-> normalizeString(body.name), forename |-> normalizeString(body.forename),
                ageMin |-> ageMin, ageMax |-> ageMax, dateOfBirth |-> date,
                identity |-> normalizeString(body.identity),
                entityId |-> normalizeString(body.entityId), nbRecord |-> parseNbRecord(nb),
                rankThreshold |-> threshold]
             check(date, ageMin, ageMax, threshold) ==
               IF unfit(date, ageMin, ageMax) THEN Throw(400)
               ELSE Return(params(date, ageMin, ageMax, threshold))
             trims == hasTrim({body.name, body.forename, body.identity, body.entityId, dob})
             d == validateDobDdMmYyyy(dob)
             lo == parseAge(body.ageMin)
             hi == parseAge(body.ageMax)
             t == parseRankThreshold(body.score)
             p == params(d.value, lo.value, hi.value, t.value)
             checked == normalizeNominalSearch(body)
  <1>1. checked = IF ~trims THEN Throw(500)
                  ELSE IF d.kind = "return"
                       THEN IF lo.kind = "return"
                            THEN IF hi.kind = "return"
                                 THEN IF t.kind = "return"
                                      THEN check(d.value, lo.value, hi.value, t.value) ELSE t
                                 ELSE hi
                            ELSE lo
                       ELSE d
    BY DEF normalizeNominalSearch, AndThen
  <1>2. check(d.value, lo.value, hi.value, t.value)
          = IF unfit(d.value, lo.value, hi.value) THEN Throw(400) ELSE Return(p)
    OBVIOUS
  <1>3. ~unfit(d.value, lo.value, hi.value) => named = 1
    OBVIOUS
  <1>4. checked.kind = "return"
    OBVIOUS
  <1>5. d.kind = "return" => d.value = dob
    BY ZenonT(60), StepKinds DEF validateDobDdMmYyyy
  <1>7. \A f \in {"ageMin", "ageMax", "nbRecord", "nb", "score"} : body[f].kind = "number" => body[f].halves \in Int
    BY RequestsAssumption
  <1>8. /\ p["name"] = normalizeString(body["name"])
        /\ p["forename"] = normalizeString(body["forename"])
        /\ p["identity"] = normalizeString(body["identity"])
        /\ p["entityId"] = normalizeString(body["entityId"])
        /\ p.dateOfBirth = d.value /\ p["ageMin"] = lo.value /\ p["ageMax"] = hi.value
        /\ p.nbRecord = parseNbRecord(nb) /\ p.rankThreshold = t.value
    <2> HIDE DEF d, lo, hi, t, nb
    <2> QED OBVIOUS
  <1>9. nb.kind = "number" => nb.halves \in Int
    BY <1>7
  <1>10. AsMany(p.nbRecord, nb)
    <2> HIDE DEF nb, p
    <2> QED BY <1>8, <1>9, RecordsBounded
  <1> HIDE DEF trims, d, lo, hi, t, check, p, unfit, checked, params, dob, named
  <1>11. /\ checked = Return(p) /\ named = 1
         /\ d.kind = "return" /\ lo.kind = "return" /\ hi.kind = "return" /\ t.kind = "return"
    BY <1>1, <1>2, <1>3, <1>4, StepKinds
  <1>12. checked.value = p
    BY <1>11, StepKinds
  <1>13. body["ageMin"].kind = "number" => p["ageMin"] # {} /\ {2 * age : age \in p["ageMin"]} = {body["ageMin"].halves}
    BY <1>7, <1>8, <1>11, AgeKept DEF lo
  <1>14. body["ageMax"].kind = "number" => p["ageMax"] # {} /\ {2 * age : age \in p["ageMax"]} = {body["ageMax"].halves}
    BY <1>7, <1>8, <1>11, AgeKept DEF hi
  <1>15. body.score.kind = "number" => 2 * p.rankThreshold = body.score.halves
    BY <1>7, <1>8, <1>11, ScoreKept DEF t
  <1>16. p.dateOfBirth = dob
    BY <1>5, <1>8, <1>11
  <1>17. \A f \in {"name", "forename", "identity", "entityId"} : p[f] = normalizeString(body[f])
    BY <1>8
  <1>18. \A f \in {"ageMin", "ageMax"} :
           /\ body[f] \in {nothing, emptyText} => p[f] = {}
           /\ body[f].kind = "number" => p[f] # {} /\ {2 * age : age \in p[f]} = {body[f].halves}
    <2>1. body["ageMin"] \in {nothing, emptyText} => p["ageMin"] = {}
      BY <1>8, AgeUnsaid DEF lo
    <2>2. body["ageMax"] \in {nothing, emptyText} => p["ageMax"] = {}
      BY <1>8, AgeUnsaid DEF hi
    <2> QED BY <1>13, <1>14, <2>1, <2>2
  <1>19. body.score \in {nothing, emptyText} => p.rankThreshold = RANK_THRESHOLD_DEFAULT
    BY <1>8, ScoreUnsaid DEF t
  <1>20. AsMany(p.nbRecord, IF body.nbRecord # nothing THEN body.nbRecord ELSE body.nb)
    BY <1>10 DEF nb
  <1>21. Cardinality({f \in {"name", "identity", "entityId"} : normalizeString(body[f]) # ""}) = 1
    BY <1>11 DEF named
  <1>22. p.dateOfBirth = IF normalizeString(body.dateOfBirth) # "" THEN body.dateOfBirth
                         ELSE normalizeString(body.dob)
    BY <1>16 DEF dob
  <1> HIDE DEF body
  <1>23. Faithful(body, p)
    BY <1>15, <1>17, <1>18, <1>19, <1>20, <1>21, <1>22 DEF Faithful
  <1> QED BY <1>12, <1>23 DEF checked, body

\* What a search sends of its parameters.
criteriaOf(p) ==
  [f \in {t \in {"name", "forename", "dateOfBirth", "identity", "entityId"} : p[t] # ""}
           \cup {t \in {"ageMin", "ageMax"} : p[t] # {}} \cup {"nbRecord", "rankThreshold"} |-> p[f]]

\* A search sends its criteria as they were checked.
LEMMA SearchesAsChecked ==
  ASSUME NEW r \in Requests, r.service = "interpol", r.op = "search",
         handler(r, <<>>).kind = "ask"
  PROVE  /\ normalizeNominalSearch(r.body).kind = "return"
         /\ \E c : /\ handler(r, <<>>) = Ask(c)
                  /\ c.body.body = criteriaOf(normalizeNominalSearch(r.body).value)
  <1> DEFINE checked == normalizeNominalSearch(r.body)
             sent == criteriaOf(checked.value)
             envelope == [username |-> r.env.nominalUser, production |-> FALSE, body |-> sent]
             made == [to |-> r.env.nominalEndpoint, operation |-> "SearchEx", body |-> envelope]
             q == soapCall(r.env, "SearchEx", sent, <<>>)
             told(xml) == mapped(xml, {"NO_ERROR", "NO_ANSWER"}, <<>>)
             v(xml) == Return(IF told(xml).ok /\ told(xml).resultCode = "NO_ERROR"
                              THEN [told(xml) EXCEPT !.payload = parseSearchHits(xml)] ELSE told(xml))
  <1>1. handler(r, <<>>) = IF checked.kind = "return"
                           THEN IF q.kind = "return" THEN v(q.value) ELSE q
                           ELSE checked
    BY DEF handler, interpolHandler, AndThen, search, criteriaOf
  <1>2. q = IF r.env.nominalEndpoint = NoText THEN Throw(500) ELSE Ask(made)
    <2> HIDE DEF sent, made, envelope
    <2>1. buildNominalEnvelope(r.env, sent) = Return(envelope)
      BY DEF buildNominalEnvelope, envelope
    <2>2. soapAnswer(r.env.nominalEndpoint, "SearchEx", Return(envelope), <<>>) = Ask(made)
      <3>1. \A failed : Await(made, <<>>, 1, failed) = Ask(made)
        BY DEF Await
      <3> QED BY <3>1, StepKinds DEF soapAnswer, AndThen, made
    <2> QED BY <2>1, <2>2 DEF soapCall
  <1>3. made.body.body = sent
    <2> HIDE DEF sent
    <2> QED OBVIOUS
  <1>4. checked.kind = "return" \/ Threw(checked)
    BY CheckedFirst
  <1> HIDE DEF checked, sent, made, q, v
  <1>5. Throw(500).kind = "throw" /\ Ask(made).kind = "ask"
    BY StepKinds
  <1>6. \A x : v(x).kind = "return"
    BY StepKinds DEF v
  <1>7. checked.kind = "return" /\ handler(r, <<>>) = q
    BY <1>1, <1>4, <1>6 DEF Threw
  <1>8. handler(r, <<>>) = Ask(made)
    BY <1>2, <1>5, <1>7
  <1> QED BY <1>3, <1>7, <1>8 DEF checked, sent

\* A nominal search asks INTERPOL for what normalizeNominalSearch was given and nothing
\* else, for no more than a hundred records, and with the strictest score where none
\* was given.
THEOREM CriteriaGoAlong == GatewaySpec => []CriteriaKept
  <1>1. ASSUME GatewayInv, received.service = "interpol", received.op = "search", asked # <<>>
        PROVE  LET sent == asked[1].body.body
                   body == received.body
                   wanted == IF body.nbRecord # nothing THEN body.nbRecord ELSE body.nb
               IN /\ \A f \in {"name", "forename", "identity", "entityId"} :
                       /\ f \in DOMAIN sent <=> given(body[f])
                       /\ given(body[f]) => sent[f] = body[f]
                  /\ "dateOfBirth" \in DOMAIN sent <=> given(body["dateOfBirth"]) \/ given(body["dob"])
                  /\ given(body["dateOfBirth"]) => sent.dateOfBirth = body.dateOfBirth
                  /\ ~given(body["dateOfBirth"]) /\ given(body["dob"]) => sent.dateOfBirth = body.dob
                  /\ \A f \in {"ageMin", "ageMax"} :
                       /\ body[f] \in {nothing, emptyText} => f \notin DOMAIN sent
                       /\ body[f].kind = "number"
                            => f \in DOMAIN sent /\ {2 * age : age \in sent[f]} = {body[f].halves}
                  /\ Cardinality({"name", "identity", "entityId"} \cap DOMAIN sent) = 1
                  /\ body.score \in {nothing, emptyText} => sent.rankThreshold = RANK_THRESHOLD_DEFAULT
                  /\ body.score.kind = "number" => 2 * sent.rankThreshold = body.score.halves
                  /\ sent.nbRecord \in 1 .. 100
                  /\ IF wanted.kind = "number" /\ wanted.halves >= 2
                     THEN 2 * sent.nbRecord <= wanted.halves ELSE sent.nbRecord = 10
    <2> DEFINE body == received.body
               p == normalizeNominalSearch(body).value
               sent == asked[1].body.body
               texts == {t \in {"name", "forename", "dateOfBirth", "identity", "entityId"} : p[t] # ""}
               ages == {t \in {"ageMin", "ageMax"} : p[t] # {}}
    <2>1. received \in Requests /\ Stands(received, asked, answers, reply)
      BY <1>1 DEF GatewayInv, Idle
    <2>2. \/ handler(received, <<>>) = Ask(asked[1])
          \/ handler(received, <<>>) = AskAll(<<asked[1], asked[2]>>)
      BY <1>1, <2>1
        DEF Stands, EndedAtOnce, WaitsForFirst, EndedAfterFirst, WaitsForSecond, EndedAfterSecond,
            WaitsForBoth, EndedAfterBoth, AsksFirst, AsksSecond, AsksBoth
    <2>3. handler(received, <<>>).kind = "ask" /\ handler(received, <<>>).calls[1] = asked[1]
      <3>1. Ask(asked[1]).kind = "ask" /\ Ask(asked[1]).calls = <<asked[1]>>
        BY StepKinds
      <3>2. /\ AskAll(<<asked[1], asked[2]>>).kind = "ask"
            /\ AskAll(<<asked[1], asked[2]>>).calls = <<asked[1], asked[2]>>
        BY StepKinds
      <3> DEFINE first == handler(received, <<>>)
      <3>3. first = Ask(asked[1]) \/ first = AskAll(<<asked[1], asked[2]>>)
        BY <2>2
      <3> HIDE DEF first
      <3>4. first.kind = "ask" /\ first.calls[1] = asked[1]
        BY <3>1, <3>2, <3>3
      <3> QED BY <3>4 DEF first
    <2>4. normalizeNominalSearch(body).kind = "return" /\ sent = criteriaOf(p)
      <3>1. PICK c : handler(received, <<>>) = Ask(c) /\ c.body.body = criteriaOf(p)
        BY <1>1, <2>1, <2>3, SearchesAsChecked
      <3>2. Ask(c).calls = <<c>>
        BY StepKinds
      <3>3. handler(received, <<>>).calls = <<c>>
        BY <3>1, <3>2
      <3>4. asked[1] = c
        BY <2>3, <3>3
      <3> QED BY <1>1, <2>1, <2>3, <3>1, <3>4, SearchesAsChecked
    <2>5. Faithful(body, p)
      BY <1>1, <2>1, <2>4, NormalizedFaithfully
    <2> HIDE DEF body, p, sent
    <2>6. /\ DOMAIN sent = texts \cup ages \cup {"nbRecord", "rankThreshold"}
          /\ \A f \in DOMAIN sent : sent[f] = p[f]
      BY <2>4 DEF criteriaOf
    <2>7. ASSUME NEW f \in {"name", "forename", "identity", "entityId"}
          PROVE  (f \in DOMAIN sent <=> given(body[f])) /\ (given(body[f]) => sent[f] = body[f])
      <3>1. p[f] = normalizeString(body[f])
        BY <2>5 DEF Faithful
      <3>2. (p[f] # "" <=> given(body[f])) /\ (given(body[f]) => p[f] = body[f])
        BY <3>1, Normalized
      <3>3. f \in DOMAIN sent <=> p[f] # ""
        BY <2>6
      <3> QED BY <2>6, <3>2, <3>3
    <2>8. /\ "dateOfBirth" \in DOMAIN sent <=> given(body["dateOfBirth"]) \/ given(body["dob"])
          /\ given(body["dateOfBirth"]) => sent["dateOfBirth"] = body["dateOfBirth"]
          /\ ~given(body["dateOfBirth"]) /\ given(body["dob"]) => sent["dateOfBirth"] = body["dob"]
      <3>1. p["dateOfBirth"] = IF normalizeString(body["dateOfBirth"]) # "" THEN body["dateOfBirth"]
                               ELSE normalizeString(body["dob"])
        BY <2>5 DEF Faithful
      <3>2. "dateOfBirth" \in DOMAIN sent <=> p["dateOfBirth"] # ""
        BY <2>6
      <3>3. \A f \in {"dateOfBirth", "dob"} :
              /\ normalizeString(body[f]) # "" <=> given(body[f])
              /\ given(body[f]) => normalizeString(body[f]) = body[f]
        BY Normalized
      <3>4. "dateOfBirth" \in DOMAIN sent => sent["dateOfBirth"] = p["dateOfBirth"]
        BY <2>6
      <3>5. CASE given(body["dateOfBirth"])
        <4>1. p["dateOfBirth"] = body["dateOfBirth"] /\ p["dateOfBirth"] # ""
          BY <3>1, <3>3, <3>5
        <4> QED BY <3>2, <3>4, <3>5, <4>1
      <3>6. CASE ~given(body["dateOfBirth"])
        <4>1. p["dateOfBirth"] = normalizeString(body["dob"])
          BY <3>1, <3>3, <3>6
        <4> QED BY <3>2, <3>3, <3>4, <3>6, <4>1
      <3> QED BY <3>5, <3>6
    <2>9. \A f \in {"ageMin", "ageMax"} : f \in DOMAIN sent <=> p[f] # {}
      BY <2>6
    <2>10. ASSUME NEW f \in {"ageMin", "ageMax"}
           PROVE  /\ body[f] \in {nothing, emptyText} => f \notin DOMAIN sent
                  /\ body[f].kind = "number"
                       => f \in DOMAIN sent /\ {2 * age : age \in sent[f]} = {body[f].halves}
      <3>1. /\ body[f] \in {nothing, emptyText} => p[f] = {}
            /\ body[f].kind = "number" => p[f] # {} /\ {2 * age : age \in p[f]} = {body[f].halves}
        BY <2>5 DEF Faithful
      <3> QED BY <2>6, <2>9, <3>1
    <2>11. Cardinality({"name", "identity", "entityId"} \cap DOMAIN sent) = 1
      <3> DEFINE given1 == {f \in {"name", "identity", "entityId"} : normalizeString(body[f]) # ""}
      <3>1. \A f \in {"name", "identity", "entityId"} : p[f] = normalizeString(body[f])
        BY <2>5 DEF Faithful
      <3>2. {"name", "identity", "entityId"} \cap DOMAIN sent = {f \in {"name", "identity", "entityId"} : p[f] # ""}
        BY <2>6
      <3>3. {f \in {"name", "identity", "entityId"} : p[f] # ""} = given1
        BY <3>1
      <3>4. Cardinality(given1) = 1
        BY <2>5 DEF Faithful
      <3> QED BY <3>2, <3>3, <3>4
    <2>12. sent["rankThreshold"] = p["rankThreshold"] /\ sent["nbRecord"] = p["nbRecord"]
      BY <2>6
    <2>13. /\ body.score \in {nothing, emptyText} => sent.rankThreshold = RANK_THRESHOLD_DEFAULT
           /\ body.score.kind = "number" => 2 * sent.rankThreshold = body.score.halves
           /\ AsMany(sent.nbRecord, IF body.nbRecord # nothing THEN body.nbRecord ELSE body.nb)
      BY <2>5, <2>12 DEF Faithful
    <2> QED BY <2>7, <2>8, <2>10, <2>11, <2>13 DEF body, sent, AsMany
  <1>2. GatewayInv => CriteriaKept
    BY <1>1 DEF CriteriaKept, given
  <1> QED BY <1>2, GatewayInvariance, PTL

-----------------------------------------------------------------------------
(* What keep keeps.                                                         *)

\* What is to be shown of every natural number holds if no number is the least for
\* which it fails.
LEMMA NoLeastFailure ==
  ASSUME NEW Failing \in SUBSET Nat,
         \A n \in Failing : \E m \in Failing : m < n
  PROVE  Failing = {}
  <1> SUFFICES ASSUME Failing # {} PROVE FALSE
    OBVIOUS
  <1>1. \E n \in Failing : \A m \in Failing : <<m, n>> \notin OpToRel(<, Nat)
    BY NatLessThanWellFounded, WFMin
  <1>2. PICK n \in Failing : \A m \in Failing : <<m, n>> \notin OpToRel(<, Nat)
    BY <1>1
  <1>3. PICK m \in Failing : m < n
    OBVIOUS
  <1>4. <<m, n>> \in OpToRel(<, Nat)
    BY <1>3 DEF OpToRel
  <1> QED BY <1>2, <1>4

\* The function keep defines by recursion.
Keeps(f, s, wanted, last) ==
  f = [n \in 0 .. last |->
         IF n = 0 THEN <<>>
         ELSE IF s[n] \in wanted THEN Append(f[n - 1], s[n]) ELSE f[n - 1]]

\* It keeps or leaves one element after the other.
OneByOne(f, s, wanted, last) ==
  /\ f[0] = <<>>
  /\ \A n \in 1 .. last : f[n] = IF s[n] \in wanted THEN Append(f[n - 1], s[n]) ELSE f[n - 1]

\* Such a function has its values one after the other.
LEMMA KeepsOneByOne ==
  ASSUME NEW s, NEW wanted, NEW last \in Nat, NEW f, Keeps(f, s, wanted, last)
  PROVE  OneByOne(f, s, wanted, last)
  <1>1. \A n \in 0 .. last :
          f[n] = IF n = 0 THEN <<>>
                 ELSE IF s[n] \in wanted THEN Append(f[n - 1], s[n]) ELSE f[n - 1]
    BY DEF Keeps
  <1>2. 0 \in 0 .. last /\ \A n \in 1 .. last : n \in 0 .. last /\ n # 0
    OBVIOUS
  <1> QED BY <1>1, <1>2 DEF OneByOne

\* There is one.
LEMMA KeepsExists ==
  ASSUME NEW s, NEW wanted, NEW last \in Nat
  PROVE  \E f : Keeps(f, s, wanted, last)
  <1> DEFINE Failing == {n \in 0 .. last : \A f : ~Keeps(f, s, wanted, n)}
  <1>1. ASSUME NEW n \in Failing PROVE \E m \in Failing : m < n
    <2>1. n \in 0 .. last /\ \A f : ~Keeps(f, s, wanted, n)
      OBVIOUS
    <2>2. n # 0
      <3>1. SUFFICES ASSUME n = 0 PROVE FALSE
        OBVIOUS
      <3> DEFINE f == [k \in 0 .. 0 |-> <<>>]
      <3>2. Keeps(f, s, wanted, n)
        BY <3>1 DEF Keeps
      <3> QED BY <2>1, <3>2
    <2>3. n - 1 \in 0 .. last /\ n - 1 < n
      BY <2>1, <2>2
    <2>4. SUFFICES ASSUME n - 1 \notin Failing PROVE FALSE
      BY <2>3
    <2>5. PICK f : Keeps(f, s, wanted, n - 1)
      BY <2>3, <2>4
    <2> DEFINE more == IF s[n] \in wanted THEN Append(f[n - 1], s[n]) ELSE f[n - 1]
    <2> HIDE DEF more
    <2> DEFINE g == [k \in 0 .. n |-> IF k = n THEN more ELSE f[k]]
    <2>6. \A k \in 0 .. n - 1 : g[k] = f[k]
      BY <2>1, <2>2
    <2>7. g[n] = more
      BY <2>1
    <2>8. g = [k \in 0 .. n |-> g[k]]
      OBVIOUS
    <2> HIDE DEF g
    <2>9. \A k \in 0 .. n :
            g[k] = IF k = 0 THEN <<>>
                   ELSE IF s[k] \in wanted THEN Append(g[k - 1], s[k]) ELSE g[k - 1]
      <3>0. n - 1 \in Nat
        BY <2>1, <2>2
      <3>1. f[0] = <<>> /\ \A k \in 1 .. n - 1 :
              f[k] = IF s[k] \in wanted THEN Append(f[k - 1], s[k]) ELSE f[k - 1]
        BY <2>5, <3>0, KeepsOneByOne DEF OneByOne
      <3>2. \A k \in 0 .. n : k = n \/ k = 0 \/ (k \in 1 .. n - 1 /\ k - 1 \in 0 .. n - 1)
        BY <2>1, <2>2
      <3>3. n - 1 \in 0 .. n - 1 /\ 0 \in 0 .. n - 1
        BY <2>1, <2>2
      <3>4. g[n] = IF s[n] \in wanted THEN Append(g[n - 1], s[n]) ELSE g[n - 1]
        BY <2>6, <2>7, <3>3 DEF more
      <3>5. g[0] = <<>>
        BY <2>6, <3>1, <3>3
      <3>6. \A k \in 1 .. n - 1 : k \in 0 .. n - 1 /\ k - 1 \in 0 .. n - 1 /\ k # 0
        BY <2>1
      <3>7. \A k \in 1 .. n - 1 :
              g[k] = IF s[k] \in wanted THEN Append(g[k - 1], s[k]) ELSE g[k - 1]
        BY <2>6, <3>1, <3>6
      <3> QED BY <2>2, <3>2, <3>4, <3>5, <3>6, <3>7
    <2>10. Keeps(g, s, wanted, n)
      BY <2>8, <2>9 DEF Keeps
    <2> QED BY <2>1, <2>10
  <1>2. Failing \in SUBSET Nat
    OBVIOUS
  <1> HIDE DEF Failing
  <1>3. Failing = {}
    BY <1>1, <1>2, NoLeastFailure
  <1> QED BY <1>3 DEF Failing

\* What keep returns is the last value of one.
LEMMA KeepIsLast ==
  ASSUME NEW s, NEW wanted, Len(s) \in Nat
  PROVE  \E f : Keeps(f, s, wanted, Len(s)) /\ keep(s, wanted) = f[Len(s)]
  <1> DEFINE kept == CHOOSE f : Keeps(f, s, wanted, Len(s))
  <1>1. Keeps(kept, s, wanted, Len(s))
    BY KeepsExists
  <1>2. keep(s, wanted) = kept[Len(s)]
    BY DEF keep, Keeps
  <1> HIDE DEF kept
  <1> QED BY <1>1, <1>2

\* An element more in the sequence is one more in its range.
LEMMA RangeAppended ==
  ASSUME NEW X, NEW s \in Seq(X), NEW e \in X
  PROVE  Append(s, e) \in Seq(X) /\ Range(Append(s, e)) = Range(s) \cup {e}
  <1>1. /\ Append(s, e) \in Seq(X) /\ Len(Append(s, e)) = Len(s) + 1 /\ Len(s) \in Nat
        /\ \A k \in 1 .. Len(s) : Append(s, e)[k] = s[k]
        /\ Append(s, e)[Len(s) + 1] = e
    OBVIOUS
  <1>2. DOMAIN s = 1 .. Len(s) /\ DOMAIN Append(s, e) = 1 .. Len(s) + 1
    BY <1>1
  <1>3. \A k \in 1 .. Len(s) + 1 : k \in 1 .. Len(s) \/ k = Len(s) + 1
    BY <1>1
  <1>4. \A k \in 1 .. Len(s) : k \in 1 .. Len(s) + 1
    BY <1>1
  <1>5. Len(s) + 1 \in 1 .. Len(s) + 1
    BY <1>1
  <1> DEFINE t == Append(s, e)
             n == Len(s)
  <1> HIDE DEF t, n
  <1>6. Range(t) = {t[k] : k \in 1 .. n + 1} /\ Range(s) = {s[k] : k \in 1 .. n}
    BY <1>2 DEF Range, t, n
  <1>7. /\ \A k \in 1 .. n : t[k] = s[k]
        /\ t[n + 1] = e /\ n + 1 \in 1 .. n + 1
        /\ \A k \in 1 .. n + 1 : k \in 1 .. n \/ k = n + 1
        /\ \A k \in 1 .. n : k \in 1 .. n + 1
    BY <1>1, <1>3, <1>4, <1>5 DEF t, n
  <1>8. Range(t) = Range(s) \cup {e}
    BY <1>6, <1>7
  <1> QED BY <1>1, <1>8 DEF t

\* The wanted elements of a sequence are kept, and no other.
LEMMA KeptElements ==
  ASSUME NEW X, NEW s \in Seq(X), NEW wanted
  PROVE  keep(s, wanted) \in Seq(X) /\ Range(keep(s, wanted)) = Range(s) \cap wanted
  <1>1. Len(s) \in Nat /\ DOMAIN s = 1 .. Len(s) /\ \A k \in 1 .. Len(s) : s[k] \in X
    OBVIOUS
  <1>2. PICK f : Keeps(f, s, wanted, Len(s)) /\ keep(s, wanted) = f[Len(s)]
    BY <1>1, KeepIsLast
  <1>3. /\ f[0] = <<>>
        /\ \A n \in 1 .. Len(s) :
             f[n] = IF s[n] \in wanted THEN Append(f[n - 1], s[n]) ELSE f[n - 1]
    <2>1. OneByOne(f, s, wanted, Len(s))
      BY <1>1, <1>2, KeepsOneByOne
    <2> QED BY <2>1 DEF OneByOne
  <1> DEFINE first(n) == {s[k] : k \in 1 .. n}
             Good(n) == f[n] \in Seq(X) /\ Range(f[n]) = first(n) \cap wanted
             Failing == {n \in 0 .. Len(s) : ~Good(n)}
  <1>4. Good(0)
    <2>1. <<>> \in Seq(X) /\ Range(<<>>) = {}
      BY DEF Range
    <2>2. first(0) = {}
      OBVIOUS
    <2> HIDE DEF first
    <2> QED BY <1>3, <2>1, <2>2
  <1>5. ASSUME NEW n \in 1 .. Len(s), Good(n - 1) PROVE Good(n)
    <2>1. first(n) = first(n - 1) \cup {s[n]}
      <3>1. /\ \A k \in 1 .. n : k \in 1 .. n - 1 \/ k = n
            /\ \A k \in 1 .. n - 1 : k \in 1 .. n
            /\ n \in 1 .. n
        BY <1>1
      <3> QED BY <3>1
    <2> HIDE DEF first
    <2>2. CASE s[n] \in wanted
      <3>1. f[n] = Append(f[n - 1], s[n])
        BY <1>3, <2>2
      <3>2. f[n] \in Seq(X) /\ Range(f[n]) = Range(f[n - 1]) \cup {s[n]}
        BY <1>1, <1>5, <3>1, RangeAppended
      <3> QED BY <1>5, <2>1, <2>2, <3>2
    <2>3. CASE s[n] \notin wanted
      <3>1. f[n] = f[n - 1]
        BY <1>3, <2>3
      <3> QED BY <1>5, <2>1, <2>3, <3>1
    <2> QED BY <2>2, <2>3
  <1> HIDE DEF Good
  <1>6. ASSUME NEW n \in Failing PROVE \E m \in Failing : m < n
    <2>1. n \in 1 .. Len(s) /\ n - 1 \in 0 .. Len(s) /\ n - 1 < n
      BY <1>1, <1>4
    <2>2. ~Good(n - 1)
      BY <1>5, <2>1
    <2> QED BY <2>1, <2>2
  <1>7. Failing \in SUBSET Nat
    BY <1>1
  <1>8. Failing = {}
    <2> HIDE DEF Failing
    <2> QED BY <1>6, <1>7, NoLeastFailure
  <1>9. Good(Len(s))
    BY <1>1, <1>8
  <1>10. first(Len(s)) = Range(s)
    BY <1>1 DEF Range
  <1> HIDE DEF first
  <1> QED BY <1>2, <1>9, <1>10 DEF Good

\* Of two sequences, the one whose elements are wanted where the other's are keeps as many.
LEMMA KeptAlike ==
  ASSUME NEW X, NEW s \in Seq(X), NEW Y, NEW t \in Seq(Y), Len(s) = Len(t),
         NEW S, NEW T, \A k \in 1 .. Len(s) : s[k] \in S <=> t[k] \in T
  PROVE  Len(keep(s, S)) = Len(keep(t, T))
  <1>1. /\ Len(s) \in Nat /\ Len(t) \in Nat
        /\ \A k \in 1 .. Len(s) : s[k] \in X /\ t[k] \in Y
    OBVIOUS
  <1>2. PICK f : Keeps(f, s, S, Len(s)) /\ keep(s, S) = f[Len(s)]
    BY <1>1, KeepIsLast
  <1>3. PICK g : Keeps(g, t, T, Len(s)) /\ keep(t, T) = g[Len(s)]
    BY <1>1, KeepIsLast
  <1>4. /\ f[0] = <<>> /\ g[0] = <<>>
        /\ \A n \in 1 .. Len(s) : f[n] = IF s[n] \in S THEN Append(f[n - 1], s[n]) ELSE f[n - 1]
        /\ \A n \in 1 .. Len(s) : g[n] = IF t[n] \in T THEN Append(g[n - 1], t[n]) ELSE g[n - 1]
    <2>1. OneByOne(f, s, S, Len(s)) /\ OneByOne(g, t, T, Len(s))
      BY <1>1, <1>2, <1>3, KeepsOneByOne
    <2> QED BY <2>1 DEF OneByOne
  <1> DEFINE Good(n) == f[n] \in Seq(X) /\ g[n] \in Seq(Y) /\ Len(f[n]) = Len(g[n])
             Failing == {n \in 0 .. Len(s) : ~Good(n)}
  <1>5. Good(0)
    BY <1>4
  <1>6. ASSUME NEW n \in 1 .. Len(s), Good(n - 1) PROVE Good(n)
    <2>1. CASE s[n] \in S
      <3>1. f[n] = Append(f[n - 1], s[n]) /\ g[n] = Append(g[n - 1], t[n])
        BY <1>4, <2>1
      <3> QED BY <1>1, <1>6, <3>1
    <2>2. CASE s[n] \notin S
      <3>1. f[n] = f[n - 1] /\ g[n] = g[n - 1]
        BY <1>4, <2>2
      <3> QED BY <1>6, <3>1
    <2> QED BY <2>1, <2>2
  <1> HIDE DEF Good
  <1>7. ASSUME NEW n \in Failing PROVE \E m \in Failing : m < n
    <2>1. n \in 1 .. Len(s) /\ n - 1 \in 0 .. Len(s) /\ n - 1 < n
      BY <1>1, <1>5
    <2>2. ~Good(n - 1)
      BY <1>6, <2>1
    <2> QED BY <2>1, <2>2
  <1>8. Failing \in SUBSET Nat
    BY <1>1
  <1>9. Failing = {}
    <2> HIDE DEF Failing
    <2> QED BY <1>7, <1>8, NoLeastFailure
  <1>10. Good(Len(s))
    BY <1>1, <1>9
  <1> QED BY <1>2, <1>3, <1>10 DEF Good

-----------------------------------------------------------------------------
(* What is told of a list, when one call brings it.                         *)

\* A handler that asks at most one call first, and none after it, has ended with that
\* answer if it has ended in a reply.
LEMMA EndsAfterOne ==
  ASSUME NEW r \in Requests, NEW calls, NEW got, NEW end,
         Stands(r, calls, got, end), end.kind = "return",
         Threw(handler(r, <<>>)) \/ Asked(r, handler(r, <<>>)),
         \A a \in Came(r, 1) : handler(r, <<a>>).kind # "ask"
  PROVE  got[1] \in Came(r, 1) /\ end = handler(r, <<got[1]>>)
  <1>0. Pending.kind # "return"
    BY DEF Pending
  <1>1. CASE EndedAtOnce(r, calls, got, end)
    BY <1>1, Kinds, StepKinds DEF EndedAtOnce, Ends, Threw
  <1>2. CASE EndedAfterFirst(r, calls, got, end)
    BY <1>2 DEF EndedAfterFirst, Ends
  <1>3. CASE EndedAfterSecond(r, calls, got, end)
    <2>1. got[1] \in Came(r, 1) /\ handler(r, <<got[1]>>) = Ask(calls[2])
      BY <1>3 DEF EndedAfterSecond, AsksSecond
    <2> QED BY <2>1, StepKinds
  <1>4. CASE EndedAfterBoth(r, calls, got, end)
    <2>1. handler(r, <<>>) = AskAll(<<calls[1], calls[2]>>)
      BY <1>4 DEF EndedAfterBoth, AsksBoth
    <2>2. handler(r, <<>>).kind = "ask" /\ Len(handler(r, <<>>).calls) = 2
      BY <2>1, StepKinds
    <2> QED BY <2>2, Kinds
  <1> QED BY <1>0, <1>1, <1>2, <1>3, <1>4 DEF Stands, WaitsForFirst, WaitsForSecond, WaitsForBoth

\* The children's documents are asked for with one call, or not at all.
LEMMA ChildrenAreAsked ==
  ASSUME NEW r \in Requests, r.service = "civilActs", r.op = "children"
  PROVE  /\ Threw(handler(r, <<>>)) \/ Asked(r, handler(r, <<>>))
         /\ \A a : \/ Threw(handler(r, <<a>>))
                   \/ /\ validStatus(a.status)
                      /\ handler(r, <<a>>)
                           = Return([outcome |-> a.outcome,
                                     result |-> filterChildDocuments(a.result, r.body.ssn)])
  <1>0. \A n \in {400, 500} : Threw(Throw(n))
    BY StepKinds DEF Threw
  <1> DEFINE b == r.body
             unfit == b.ssn = "" \/ b.firstName = "" \/ b.lastName = ""
             sent == [to |-> "civilActs", operation |-> "documents", body |-> b]
             w(got) == AwaitValid(sent, got, 1, Throw(500))
             q(got) == civilActs(b, got)
             childrenIn(a) == Return([outcome |-> a.outcome,
                                      result |-> filterChildDocuments(a.result, b.ssn)])
  <1>1. \A got : handler(r, got) = IF q(got).kind = "return" THEN childrenIn(q(got).value) ELSE q(got)
    <2>1. \A got : handler(r, got) = getCivilActsInfoBySsnRaw(b, got)
      BY DEF handler, civilActsHandler
    <2> QED BY <2>1 DEF getCivilActsInfoBySsnRaw, AndThen
  <1>2. \A got : q(got) = IF unfit THEN Throw(400) ELSE w(got)
    BY DEF civilActs
  <1> HIDE DEF childrenIn, q, unfit
  <1> DEFINE Settled ==
               /\ Threw(handler(r, <<>>)) \/ Asked(r, handler(r, <<>>))
               /\ \A a : \/ Threw(handler(r, <<a>>))
                         \/ validStatus(a.status) /\ handler(r, <<a>>) = childrenIn(a)
  <1>3. ASSUME unfit PROVE Settled
    BY <1>0, <1>1, <1>2, <1>3, StepKinds
  <1>4. ASSUME ~unfit PROVE Settled
    <2>1. Asked(r, Ask(sent))
      <3>1. Fits(r, "documents")
        BY DEF Fits
      <3> QED BY <3>1, FitCall
    <2> HIDE DEF sent
    <2>2. /\ w(<<>>) = Ask(sent)
          /\ \A a : w(<<a>>) = IF validStatus(a.status) THEN Return(a) ELSE Throw(500)
      BY Awaits
    <2> HIDE DEF w
    <2>3. handler(r, <<>>) = Ask(sent)
      BY <1>1, <1>2, <1>4, <2>2, StepKinds
    <2>4. \A a : q(<<a>>) = IF validStatus(a.status) THEN Return(a) ELSE Throw(500)
      BY <1>2, <1>4, <2>2
    <2>5. ASSUME NEW a
          PROVE  Threw(handler(r, <<a>>)) \/ (validStatus(a.status) /\ handler(r, <<a>>) = childrenIn(a))
      <3>1. CASE validStatus(a.status)
        BY <1>1, <2>4, <3>1, StepKinds
      <3>2. CASE ~validStatus(a.status)
        BY <1>0, <1>1, <2>4, <3>2, StepKinds
      <3> QED BY <3>1, <3>2
    <2>6. Asked(r, handler(r, <<>>))
      BY <2>1, <2>3
    <2> QED BY <2>5, <2>6
  <1>5. Settled
    BY <1>3, <1>4
  <1>6. \A a : childrenIn(a) = Return([outcome |-> a.outcome,
                                      result |-> filterChildDocuments(a.result, r.body.ssn)])
    BY DEF childrenIn
  <1> QED BY <1>5, <1>6

\* The two ways to say how old somebody is.
LEMMA YearsReached ==
  ASSUME NEW d, {d.years, d.months, d.days} \subseteq Int, NEW n \in Int
  PROVE  yearsReached(d) \in Int /\ (yearsReached(d) >= n <=> reached(d, n))
  BY DEF yearsReached, reached

\* No child of sixteen or more is among them, no other is left out, and none of the
\* acts that are no births: filterChildDocuments.
THEOREM ChildrenAreUnderSixteen == GatewaySpec => []ChildrenUnderSixteen
  <1>1. ASSUME GatewayInv, received.service = "civilActs", received.op = "children",
               reply.kind = "return"
        PROVE  reply.value.result =
                 keep(answers[1].result,
                   {doc \in Range(answers[1].result) :
                      /\ doc.type = "birth" /\ trimmed(doc.child) # trimmed(received.body.ssn)
                      /\ \A d \in readable(doc.birthDate) : ~reached(d, 16)})
    <2> DEFINE r == received
               a == answers[1]
               documents == Range(a.result)
    <2>1. r \in Requests /\ Stands(r, asked, answers, reply)
      BY <1>1 DEF GatewayInv, Idle, NoRequest
    <2>2. a \in Came(r, 1) /\ reply = handler(r, <<a>>)
      <3>1. \A x : handler(r, <<x>>).kind # "ask"
        <4>1. \A v : Return(v).kind # "ask"
          BY StepKinds
        <4> QED BY ZenonT(60), <1>1, <2>1, <4>1, ChildrenAreAsked, Kinds
      <3>2. Threw(handler(r, <<>>)) \/ Asked(r, handler(r, <<>>))
        BY <1>1, <2>1, ChildrenAreAsked
      <3> HIDE DEF r
      <3> QED BY <1>1, <2>1, <3>1, <3>2, EndsAfterOne DEF r
    <2>3. /\ validStatus(a.status)
          /\ reply = Return([outcome |-> a.outcome,
                             result |-> filterChildDocuments(a.result, r.body.ssn)])
      BY <1>1, <2>1, <2>2, ChildrenAreAsked DEF Threw
    <2>4. reply.value.result = filterChildDocuments(a.result, r.body.ssn)
      <3> DEFINE v == [outcome |-> a.outcome, result |-> filterChildDocuments(a.result, r.body.ssn)]
      <3>1. v.result = filterChildDocuments(a.result, r.body.ssn)
        OBVIOUS
      <3> HIDE DEF v
      <3>2. Return(v).value = v
        BY StepKinds
      <3> QED BY <2>3, <3>1, <3>2 DEF v
    <2>5. a \in AnswersTo(r, 1)
      BY <2>2, <2>3 DEF Came, NoAnswer, validStatus
    <2>6. \A doc \in documents : isDistance(doc.birthDate)
      BY <1>1, <2>1, <2>5, AnswersAssumption
    <2>7. \A v : normalizePsn(v) = trimmed(v)
      BY DEF normalizePsn, trimmed
    <2>8. ASSUME NEW doc \in documents
          PROVE  isAtLeastAge(doc.birthDate, 16)
                   <=> \E d \in readable(doc.birthDate) : reached(d, 16)
      <3>1. \A d \in readable(doc.birthDate) : yearsReached(d) >= 16 <=> reached(d, 16)
        <4>1. \A d \in readable(doc.birthDate) : {d.years, d.months, d.days} \subseteq Int
          BY <2>6 DEF isDistance, readable
        <4> QED BY <4>1, YearsReached
      <3> QED BY <3>1 DEF isAtLeastAge
    <2> HIDE DEF r, a
    <2> DEFINE shown == {doc \in documents : /\ doc.type = "birth"
                                             /\ normalizePsn(doc.child) # normalizePsn(r.body.ssn)
                                             /\ ~isAtLeastAge(doc.birthDate, 16)}
               wanted == {doc \in documents :
                            /\ doc.type = "birth" /\ trimmed(doc.child) # trimmed(r.body.ssn)
                            /\ \A d \in readable(doc.birthDate) : ~reached(d, 16)}
    <2>9. shown = wanted
      <3> HIDE DEF documents
      <3>1. \A doc \in documents :
              ~isAtLeastAge(doc.birthDate, 16)
                <=> \A d \in readable(doc.birthDate) : ~reached(d, 16)
        BY <2>8
      <3> QED BY <2>7, <3>1
    <2>10. filterChildDocuments(a.result, r.body.ssn) = keep(a.result, shown)
      BY DEF filterChildDocuments
    <2> HIDE DEF shown, wanted
    <2>11. reply.value.result = keep(a.result, wanted)
      BY <2>4, <2>9, <2>10
    <2> QED BY <2>11 DEF wanted, r, a
  <1>2. GatewayInv => ChildrenUnderSixteen
    BY <1>1 DEF ChildrenUnderSixteen
  <1> QED BY <1>2, GatewayInvariance, PTL

\* The activity is told of the one answer there is.
LEMMA ActivityIsTold ==
  ASSUME NEW r \in Requests, r.service = "wisdm", r.op = "activity"
  PROVE  /\ Threw(handler(r, <<>>)) \/ Asked(r, handler(r, <<>>))
         /\ \A a : \/ Threw(handler(r, <<a>>))
                   \/ /\ a # NoAnswer /\ asksForActivity(r.query)
                      /\ handler(r, <<a>>) = Return(activityReply(r.query, a))
  <1>0. \A n \in {400, 503} : Threw(Throw(n))
    BY StepKinds DEF Threw
  <1> DEFINE to == getSltdEndpoint(r.env)
             envelope == buildEnvelope(r.env)
             q(got) == callService(to, envelope, "GetStatistics", <<>>, got, 1)
             v(xml) == Return(activityReply(r.query, xml))
  <1>1. \A got : handler(r, got) = IF ~asksForActivity(r.query) THEN Throw(400)
                                   ELSE IF q(got).kind = "return" THEN v(q(got).value)
                                   ELSE q(got)
    BY ActivityIsAsked
  <1>2. \/ \A got : Threw(q(got))
        \/ /\ Asked(r, q(<<>>))
           /\ \A a : q(<<a>>) = IF a = NoAnswer THEN Throw(503) ELSE Return(a)
    <2>1. Served(r, to, envelope, "GetStatistics", <<>>)
      BY ServiceCalls
    <2> QED BY <2>1 DEF Served
  <1> HIDE DEF q, v
  <1>3. CASE ~asksForActivity(r.query)
    BY <1>0, <1>1, <1>3
  <1>4. CASE asksForActivity(r.query) /\ \A got : Threw(q(got))
    BY <1>1, <1>4 DEF Threw
  <1>5. CASE /\ asksForActivity(r.query) /\ Asked(r, q(<<>>))
             /\ \A a : q(<<a>>) = IF a = NoAnswer THEN Throw(503) ELSE Return(a)
    <2>1. Asked(r, handler(r, <<>>))
      BY <1>1, <1>5, Kinds
    <2>2. ASSUME NEW a
          PROVE  Threw(handler(r, <<a>>)) \/ (a # NoAnswer /\ handler(r, <<a>>) = v(a))
      <3>1. CASE a = NoAnswer
        BY <1>0, <1>1, <1>5, <3>1, StepKinds
      <3>2. CASE a # NoAnswer
        BY <1>1, <1>5, <3>2, StepKinds
      <3> QED BY <3>1, <3>2
    <2> QED BY <1>5, <2>1, <2>2 DEF v
  <1> QED BY <1>2, <1>3, <1>4, <1>5

\* The months that are asked for are given as months, or not at all.
LEMMA MonthsAsked ==
  ASSUME NEW v, optional(v, IsWisdmMonth(trim(v)))
  PROVE  /\ v.kind = "month" => normalizeOptional(v) = v /\ v # absent
         /\ v.kind # "month" => normalizeOptional(v) = absent
  BY DEF optional, IsWisdmMonth, isValidWisdmMonth, isString, trim, normalizeOptional, isNil,
         absent, empty, blank

\* A type that says nothing asks for every type.
LEMMA TypeAsked ==
  ASSUME NEW v
  PROVE  IF isNil(v) \/ v \in {empty, blank} THEN normalizeOptional(v) = absent
         ELSE normalizeOptional(v) = v /\ v # absent
  BY DEF trim, normalizeOptional, isNil, absent, empty, blank

\* What is asked for is what is shown, each with its period and its action.
LEMMA ShownAsAsked ==
  ASSUME NEW q, asksForActivity(q), NEW items, isList(items)
  PROVE  LET wanted(i) ==
               /\ i.action # NoText
               /\ \/ isNil(q.typeOfDocument) \/ q.typeOfDocument \in {empty, blank}
                  \/ i.document = q.typeOfDocument
               /\ q.from.kind = "month" => i.period >= q.from.month
               /\ q.to.kind = "month" => i.period <= q.to.month
         IN actionsShown(q, items) = keep(items, {i \in Range(items) : wanted(i)})
  <1> DEFINE type == normalizeOptional(q.typeOfDocument)
             from == normalizeOptional(q.from)
             until == normalizeOptional(q.to)
             wanted(i) ==
               /\ i.action # NoText
               /\ \/ isNil(q.typeOfDocument) \/ q.typeOfDocument \in {empty, blank}
                  \/ i.document = q.typeOfDocument
               /\ q.from.kind = "month" => i.period >= q.from.month
               /\ q.to.kind = "month" => i.period <= q.to.month
             shown(i) == i.action # NoText /\ isAskedFor(toActivityEntry(i), type, from, until)
  <1>1. /\ q.from.kind = "month" => from = q.from /\ from # absent
        /\ q.from.kind # "month" => from = absent
        /\ q.to.kind = "month" => until = q.to /\ until # absent
        /\ q.to.kind # "month" => until = absent
    BY MonthsAsked DEF asksForActivity, WisdmActivityQueryDto
  <1>2. IF isNil(q.typeOfDocument) \/ q.typeOfDocument \in {empty, blank} THEN type = absent
        ELSE type = q.typeOfDocument /\ type # absent
    BY TypeAsked
  <1> HIDE DEF type, from, until
  <1>3. ASSUME NEW i PROVE shown(i) <=> wanted(i)
    <2> DEFINE entry == toActivityEntry(i)
    <2>1. entry.period = i.period /\ entry.typeOfDocument = i.document
      BY DEF toActivityEntry
    <2> HIDE DEF entry
    <2>2. isAskedFor(entry, type, from, until) <=>
            /\ type = absent \/ i.document = type
            /\ from = absent \/ i.period >= from.month
            /\ until = absent \/ i.period <= until.month
      BY <2>1 DEF isAskedFor
    <2> QED BY <1>1, <1>2, <2>2 DEF entry
  <1> HIDE DEF wanted, shown
  <1>4. {i \in Range(items) : shown(i)} = {i \in Range(items) : wanted(i)}
    BY <1>3
  <1>5. actionsShown(q, items) = keep(items, {i \in Range(items) : shown(i)})
    BY DEF actionsShown, shown, type, from, until
  <1> QED BY <1>4, <1>5 DEF wanted

\* The activity of the type and the months that were asked for is shown, all of it and
\* no other: getActivity and its filter.
THEOREM ActivityIsAsAsked == GatewaySpec => []ActivityAsAsked
  <1>1. ASSUME GatewayInv, received.service = "wisdm", received.op = "activity", isOk
        PROVE  LET q == received.query
                   wanted(i) ==
                     /\ i.action # NoText
                     /\ \/ isNil(q.typeOfDocument) \/ q.typeOfDocument \in {empty, blank}
                        \/ i.document = q.typeOfDocument
                     /\ q.from.kind = "month" => i.period >= q.from.month
                     /\ q.to.kind = "month" => i.period <= q.to.month
                   shown == reply.value.entries
                   expected == keep(answers[1].items, {i \in Range(answers[1].items) : wanted(i)})
               IN /\ Len(shown) = Len(expected)
                  /\ \A k \in DOMAIN shown :
                       shown[k].period = expected[k].period /\ shown[k].action = expected[k].action
    <2> DEFINE r == received
               a == answers[1]
               q == r.query
               wanted(i) ==
                 /\ i.action # NoText
                 /\ \/ isNil(q.typeOfDocument) \/ q.typeOfDocument \in {empty, blank}
                    \/ i.document = q.typeOfDocument
                 /\ q.from.kind = "month" => i.period >= q.from.month
                 /\ q.to.kind = "month" => i.period <= q.to.month
               expected == keep(a.items, {i \in Range(a.items) : wanted(i)})
               entries == [k \in DOMAIN expected |-> toActivityEntry(expected[k])]
    <2>1. r \in Requests /\ Stands(r, asked, answers, reply)
      BY <1>1 DEF GatewayInv, Idle, NoRequest
    <2>2. reply.kind = "return" /\ reply.value.base.ok
      BY <1>1 DEF isOk
    <2>3. a \in Came(r, 1) /\ reply = handler(r, <<a>>)
      <3>1. \A x : handler(r, <<x>>).kind # "ask"
        <4>1. \A v : Return(v).kind # "ask"
          BY StepKinds
        <4> QED BY <1>1, <2>1, <4>1, ActivityIsTold, Kinds
      <3>2. Threw(handler(r, <<>>)) \/ Asked(r, handler(r, <<>>))
        BY <1>1, <2>1, ActivityIsTold
      <3> HIDE DEF r
      <3> QED BY <2>1, <2>2, <3>1, <3>2, EndsAfterOne DEF r
    <2>4. a # NoAnswer /\ asksForActivity(q) /\ reply = Return(activityReply(q, a))
      BY <1>1, <2>1, <2>2, <2>3, ActivityIsTold DEF Threw
    <2>5. isList(a.items)
      <3>1. a \in AnswersTo(r, 1)
        BY <2>3, <2>4 DEF Came
      <3> QED BY <1>1, <2>1, <3>1, AnswersAssumption
    <2>6. actionsShown(q, a.items) = expected
      BY <2>4, <2>5, ShownAsAsked
    <2>7. expected \in Seq(Range(a.items))
      BY <2>5, KeptElements DEF isList
    <2> HIDE DEF r, a, q, expected
    <2>8. reply.value = activityReply(q, a)
      BY <2>4, StepKinds
    <2>9. mapBaseResponse(a, TRUE).ok
      <3>1. reply.value.base = mapBaseResponse(a, TRUE)
        BY <2>4, ActivityBase
      <3> QED BY <2>2, <3>1
    <2>10. reply.value.entries = entries
      <3>1. activityReply(q, a) = [base |-> mapBaseResponse(a, TRUE),
                                  entries |-> IF mapBaseResponse(a, TRUE).ok THEN entries ELSE <<>>]
        BY <2>6 DEF activityReply
      <3> HIDE DEF entries
      <3>2. activityReply(q, a) = [base |-> mapBaseResponse(a, TRUE), entries |-> entries]
        BY <2>9, <3>1
      <3>3. activityReply(q, a).entries = entries
        BY <3>2
      <3> QED BY <2>8, <3>3
    <2>11. Len(expected) \in Nat /\ DOMAIN expected = 1 .. Len(expected)
      BY <2>7
    <2>12. DOMAIN entries = DOMAIN expected /\ Len(entries) = Len(expected)
      BY <2>11
    <2>13. \A k \in DOMAIN entries : entries[k] = toActivityEntry(expected[k])
      BY <2>12
    <2> HIDE DEF entries
    <2>14. \A i : toActivityEntry(i).period = i.period /\ toActivityEntry(i).action = i.action
      BY DEF toActivityEntry
    <2>15. \A k \in DOMAIN entries :
             entries[k].period = expected[k].period /\ entries[k].action = expected[k].action
      BY <2>13, <2>14
    <2> HIDE DEF wanted
    <2>16. /\ Len(reply.value.entries) = Len(expected)
           /\ \A k \in DOMAIN reply.value.entries :
                /\ reply.value.entries[k].period = expected[k].period
                /\ reply.value.entries[k].action = expected[k].action
      BY <2>10, <2>12, <2>15
    <2> QED BY <2>16 DEF expected, wanted, a, q, r
  <1>2. GatewayInv => ActivityAsAsked
    BY <1>1 DEF ActivityAsAsked
  <1> QED BY <1>2, GatewayInvariance, PTL

-----------------------------------------------------------------------------
(* The persons that are told are those that were asked for.                 *)

\* A search of persons ends with no person, or asks a second time about what its first
\* call has found.
LEMMA PersonsAreTold ==
  ASSUME NEW r \in Requests, r.service = "mcs", r.op = "persons"
  PROVE  /\ Threw(handler(r, <<>>)) \/ Asked(r, handler(r, <<>>))
         /\ \A a : \/ Threw(handler(r, <<a>>))
                   \/ handler(r, <<a>>) = Return(<<>>)
                   \/ /\ handler(r, <<a>>) = AskForDetails(a)
                      /\ \A c : \/ Threw(handler(r, <<a, c>>))
                                \/ /\ validStatus(c.status)
                                   /\ handler(r, <<a, c>>) = Return(personsTold(r.body, c))
  <1> DEFINE b == r.body
  <1>1. \A got : handler(r, got) = searchPersons(r.env, b, got)
    BY DEF handler, mcsHandler
  <1>2. CASE \A got : searchPersons(r.env, b, got) = Throw(400)
    <2>1. \A got : Threw(handler(r, got))
      BY <1>1, <1>2, StepKinds DEF Threw
    <2> QED BY <2>1
  <1>3. CASE \E path, body :
               /\ path # "CreateOrUpdateSLTDRecord"
               /\ \A got : searchPersons(r.env, b, got) = findPersons(r.env, path, body, b, got)
    <2>1. PICK path, body :
            /\ path # "CreateOrUpdateSLTDRecord"
            /\ \A got : searchPersons(r.env, b, got) = findPersons(r.env, path, body, b, got)
      BY <1>3
    <2>2. \A got : handler(r, got) = findPersons(r.env, path, body, b, got)
      BY <1>1, <2>1
    <2> HIDE DEF b
    <2>3. FindsPersons(r, r.env, path, body, b)
      BY <2>1, FindPersons
    <2> QED BY <2>2, <2>3 DEF FindsPersons, b
  <1> QED BY <1>2, <1>3, SearchesPersons

\* A search that is told of two calls tells what the second has brought.
LEMMA PersonsEnd ==
  ASSUME NEW r \in Requests, r.service = "mcs", r.op = "persons",
         NEW calls, NEW got, NEW end, Stands(r, calls, got, end), end.kind = "return"
  PROVE  \/ end = Return(<<>>) /\ Len(calls) = 1
         \/ /\ Ask(calls[2]) = AskForDetails(got[1])
            /\ got[2] \in AnswersTo(r, 2) /\ end = Return(personsTold(r.body, got[2]))
  <1>0. Pending.kind # "return"
    BY DEF Pending
  <1>1. CASE EndedAtOnce(r, calls, got, end)
    <2>1. end = handler(r, <<>>) /\ end.kind # "ask"
      BY <1>1 DEF EndedAtOnce, Ends
    <2> QED BY <2>1, PersonsAreTold, Kinds DEF Threw
  <1>2. CASE EndedAfterFirst(r, calls, got, end)
    <2>1. end = handler(r, <<got[1]>>) /\ Len(calls) = 1
      BY <1>2 DEF EndedAfterFirst, Ends, AsksFirst, One
    <2>2. AskForDetails(got[1]).kind # "return"
      BY StepKinds DEF AskForDetails
    <2> QED BY <2>1, <2>2, PersonsAreTold DEF Threw
  <1>3. CASE EndedAfterSecond(r, calls, got, end)
    <2>1. /\ handler(r, <<got[1]>>) = Ask(calls[2]) /\ got[2] \in Came(r, 2)
          /\ end = handler(r, <<got[1], got[2]>>)
      BY <1>3 DEF EndedAfterSecond, AsksSecond, Ends
    <2>2. handler(r, <<got[1]>>).kind = "ask"
      BY <2>1, StepKinds
    <2>3. \A v : Return(v).kind # "ask"
      BY StepKinds
    <2>4. /\ handler(r, <<got[1]>>) = AskForDetails(got[1])
          /\ validStatus(got[2].status) /\ end = Return(personsTold(r.body, got[2]))
      BY <2>1, <2>2, <2>3, PersonsAreTold DEF Threw
    <2>5. got[2] \in AnswersTo(r, 2)
      BY <2>1, <2>4 DEF Came, NoAnswer, validStatus
    <2> QED BY <2>1, <2>4, <2>5
  <1>4. CASE EndedAfterBoth(r, calls, got, end)
    <2>1. handler(r, <<>>) = AskAll(<<calls[1], calls[2]>>)
      BY <1>4 DEF EndedAfterBoth, AsksBoth
    <2>2. handler(r, <<>>).kind = "ask" /\ Len(handler(r, <<>>).calls) = 2
      BY <2>1, StepKinds
    <2> QED BY <2>2, PersonsAreTold, Kinds
  <1> QED BY <1>0, <1>1, <1>2, <1>3, <1>4 DEF Stands, WaitsForFirst, WaitsForSecond, WaitsForBoth

\* firstGiven finds what the first of the documents tells that has the field.
LEMMA FirstGiven ==
  ASSUME NEW docs, isList(docs), NEW field
  PROVE  /\ firstGiven(docs, field) = firstTold(docs, field)
         /\ firstGiven(docs, field) # {} => \E k \in DOMAIN docs : firstGiven(docs, field) = docs[k][field]
  <1> DEFINE having == {k \in DOMAIN docs : docs[k][field] # {}}
             earliest == {i \in DOMAIN docs : \A j \in 1 .. i - 1 : docs[j][field] = {}}
  <1>1. firstGiven(docs, field) = IF having = {} THEN {} ELSE docs[Min(having)][field]
    BY DEF firstGiven
  <1>2. firstTold(docs, field) = UNION {docs[k][field] : k \in earliest}
    BY DEF firstTold
  <1>3. \E last \in Nat : DOMAIN docs = 1 .. last
    BY DEF isList
  <1>4. CASE having = {}
    <2>1. \A k \in earliest : docs[k][field] = {}
      BY <1>4
    <2> HIDE DEF having, earliest
    <2> QED BY <1>1, <1>2, <1>4, <2>1
  <1>5. CASE having # {}
    <2> HIDE DEF having
    <2>1. having \in SUBSET Nat
      BY <1>3 DEF having
    <2>2. PICK k \in having : \A m \in having : ~(m < k)
      BY <1>5, <2>1, NoLeastFailure
    <2>3. Min(having) = k
      <3>1. \A m \in having : k <= m /\ (m <= k => m = k)
        BY <2>1, <2>2
      <3> QED BY <3>1 DEF Min
    <2>4. k \in DOMAIN docs /\ docs[k][field] # {}
      BY <2>2 DEF having
    <2>5. k \in earliest
      <3>1. ASSUME NEW j \in 1 .. k - 1 PROVE docs[j][field] = {}
        <4>1. j \in DOMAIN docs /\ j < k
          BY <1>3, <2>4
        <4> QED BY <2>2, <4>1 DEF having
      <3> QED BY <2>4, <3>1
    <2>6. ASSUME NEW i \in earliest PROVE i = k \/ docs[i][field] = {}
      <3>1. i \in DOMAIN docs /\ \A j \in 1 .. i - 1 : docs[j][field] = {}
        OBVIOUS
      <3>2. CASE docs[i][field] # {}
        <4>1. i \in having
          BY <3>1, <3>2 DEF having
        <4>2. ~(k < i)
          <5>1. k < i => k \in 1 .. i - 1
            BY <1>3, <2>4, <3>1
          <5> QED BY <2>4, <3>1, <5>1
        <4> QED BY <2>1, <2>2, <4>1, <4>2
      <3> QED BY <3>2
    <2> HIDE DEF earliest
    <2>7. UNION {docs[i][field] : i \in earliest} = docs[k][field]
      BY <2>5, <2>6
    <2> QED BY <1>1, <1>2, <1>5, <2>3, <2>4, <2>7
  <1> QED BY <1>4, <1>5

\* The date of birth among somebody's documents is one date, or none.
LEMMA BornOnce ==
  ASSUME NEW docs, isList(docs), \A doc \in Range(docs) : isDistance(doc.birthDate)
  PROVE  isDistance(firstGiven(docs, "birthDate"))
  <1>1. isDistance({})
    BY DEF isDistance
  <1>2. ASSUME NEW k \in DOMAIN docs PROVE isDistance(docs[k]["birthDate"])
    <2>1. docs[k] \in Range(docs)
      BY DEF Range
    <2> QED BY <2>1
  <1> QED BY <1>1, <1>2, FirstGiven

\* The age that filterPersons reckons is the number of birthdays that have come.
LEMMA AgeReckoned ==
  ASSUME NEW value, isDistance(value), NEW d \in readable(value), NEW n \in Int
  PROVE  /\ calculateAge(value) >= n => reached(d, n)
         /\ calculateAge(value) <= n => ~reached(d, n + 1)
  <1>1. readable(value) = {d} /\ {d.years, d.months, d.days} \subseteq Int
    BY DEF isDistance, readable
  <1>2. calculateAge(value) = yearsReached(d)
    BY <1>1 DEF calculateAge
  <1>3. /\ yearsReached(d) \in Int /\ n + 1 \in Int
        /\ yearsReached(d) >= n <=> reached(d, n)
        /\ yearsReached(d) >= n + 1 <=> reached(d, n + 1)
    <2>1. n + 1 \in Int
      OBVIOUS
    <2> QED BY <1>1, <2>1, YearsReached
  <1>4. yearsReached(d) <= n => ~(yearsReached(d) >= n + 1)
    BY <1>3
  <1> QED BY <1>2, <1>3, <1>4

\* Whom the filter leaves is of the age and the sex that were asked for.
LEMMA ToldPersonsFit ==
  ASSUME NEW f, f.ageMin \cup f.ageMax \subseteq Int,
         NEW c, \A persons \in c.list :
                  /\ isList(persons)
                  /\ \A person \in Range(persons) :
                       /\ isList(person.documents)
                       /\ \A document \in Range(person.documents) : isDistance(document.birthDate),
         NEW person \in Range(personsTold(f, c))
  PROVE  fitsSearch(person, f)
  <1> DEFINE persons == listOf(c)
             age(p) == calculateAge(firstGiven(p.documents, "birthDate"))
             sex(p) == firstGiven(p.documents, "genus")
             fits(p) == /\ \A min \in f.ageMin : age(p) >= min
                        /\ \A max \in f.ageMax : age(p) <= max
                        /\ \/ f.gender = "MALE" /\ sex(p) = {"M"}
                           \/ f.gender = "FEMALE" /\ sex(p) = {"F"}
                           \/ f.gender \in unsaid
             fitting == {p \in Range(persons) : fits(p)}
             born == readable(firstTold(person.documents, "birthDate"))
  <1>0. "MALE" \notin unsaid /\ "FEMALE" \notin unsaid
    BY Zenon DEF unsaid
  <1>1. CASE ~isFiltered(f)
    <2>1. f.ageMin \ {0} = {} /\ f.ageMax \ {0} = {} /\ f.gender \in unsaid
      BY Zenon, <1>1 DEF isFiltered, unsaid
    <2>2. \A min \in f.ageMin : min <= 0
      BY <2>1
    <2> QED BY <1>0, <2>1, <2>2 DEF fitsSearch
  <1>2. CASE isFiltered(f)
    <2>1. filterPersons(persons, f) = keep(persons, fitting)
      BY DEF filterPersons
    <2>2. isList(persons)
      <3>1. isList(<<>>)
        BY DEF isList
      <3> QED BY <3>1 DEF listOf
    <2>3. Range(keep(persons, fitting)) = Range(persons) \cap fitting
      <3> HIDE DEF fitting, persons
      <3> QED BY <2>2, KeptElements DEF isList
    <2>4. person \in Range(persons) /\ fits(person)
      <3>1. personsTold(f, c) = filterPersons(persons, f)
        BY <1>2 DEF personsTold
      <3>2. person \in fitting
        <4> HIDE DEF fitting, persons
        <4> QED BY <2>1, <2>3, <3>1
      <3> HIDE DEF fits
      <3> QED BY <3>2
    <2>5. c.list # {} => persons \in c.list
      BY DEF listOf
    <2>6. c.list = {} => Range(persons) = {}
      BY DEF listOf, Range
    <2>7. /\ isList(person.documents)
          /\ \A document \in Range(person.documents) : isDistance(document.birthDate)
      <3> HIDE DEF persons, fits
      <3> QED BY <2>4, <2>5, <2>6
    <2>8. /\ isDistance(firstGiven(person.documents, "birthDate"))
          /\ firstGiven(person.documents, "birthDate") = firstTold(person.documents, "birthDate")
          /\ sex(person) = firstTold(person.documents, "genus")
      BY <2>7, BornOnce, FirstGiven
    <2>9. /\ f.gender \in unsaid \cup {"MALE", "FEMALE"}
          /\ f.gender = "MALE" => sex(person) = {"M"}
          /\ f.gender = "FEMALE" => sex(person) = {"F"}
      BY <1>0, <2>4
    <2>10. ASSUME NEW d \in born
           PROVE  /\ \A min \in f.ageMin \ {0} : reached(d, min)
                  /\ \A max \in f.ageMax \ {0} : ~reached(d, max + 1)
      <3>0. d \in readable(firstGiven(person.documents, "birthDate"))
        BY <2>8
      <3>1. ASSUME NEW min \in f.ageMin PROVE reached(d, min)
        <4>1. min \in Int /\ age(person) >= min
          BY <2>4
        <4> QED BY <2>8, <3>0, <4>1, AgeReckoned
      <3>2. ASSUME NEW max \in f.ageMax PROVE ~reached(d, max + 1)
        <4>1. max \in Int /\ age(person) <= max
          BY <2>4
        <4> QED BY <2>8, <3>0, <4>1, AgeReckoned
      <3> QED BY <3>1, <3>2
    <2>11. ASSUME born = {}, NEW min \in f.ageMin PROVE min <= 0
      <3>1. age(person) = 0
        BY <2>8, <2>11 DEF calculateAge
      <3>2. min \in Int /\ age(person) >= min
        BY <2>4
      <3> QED BY <3>1, <3>2
    <2> HIDE DEF sex
    <2> QED BY <2>8, <2>9, <2>10, <2>11 DEF fitsSearch
  <1> QED BY <1>1, <1>2

\* Whoever a search tells of is of the age and the sex that were asked for, and is one of
\* those its first call has found: filterPersons, calculateAge, getPersonsDetailsBySsnList.
THEOREM ToldPersonsWereAskedFor == GatewaySpec => []PersonsFit
  <1>1. ASSUME GatewayInv, received.service = "mcs", received.op = "persons",
               reply.kind = "return"
        PROVE  /\ Len(asked) = 2 => asked[2].body.ssn_list = listOf(answers[1])
               /\ \A person \in Range(reply.value) : fitsSearch(person, received.body)
    <2> DEFINE r == received
    <2>1. r \in Requests /\ Stands(r, asked, answers, reply)
      BY <1>1 DEF GatewayInv, Idle, NoRequest
    <2>2. r.body.ageMin \cup r.body.ageMax \subseteq Int
      BY <1>1, <2>1, RequestsAssumption
    <2>3. \/ reply = Return(<<>>) /\ Len(asked) = 1
          \/ /\ Ask(asked[2]) = AskForDetails(answers[1])
             /\ answers[2] \in AnswersTo(r, 2) /\ reply = Return(personsTold(r.body, answers[2]))
      <3> HIDE DEF r
      <3>1. r.service = "mcs" /\ r.op = "persons"
        BY <1>1 DEF r
      <3> QED BY <1>1, <2>1, <3>1, PersonsEnd
    <2>4. CASE reply = Return(<<>>) /\ Len(asked) = 1
      <3>1. reply.value = <<>>
        BY <2>4, StepKinds
      <3>2. Range(reply.value) = {}
        BY <3>1 DEF Range
      <3> QED BY <2>4, <3>2
    <2>5. CASE /\ Ask(asked[2]) = AskForDetails(answers[1])
               /\ answers[2] \in AnswersTo(r, 2) /\ reply = Return(personsTold(r.body, answers[2]))
      <3>1. asked[2].body.ssn_list = listOf(answers[1])
        <4> DEFINE second == [to |-> "mcs", operation |-> "by-ssn-list",
                              body |-> [ssn_list |-> listOf(answers[1])]]
        <4>1. Ask(asked[2]) = Ask(second)
          BY <2>5 DEF AskForDetails
        <4>2. second.body.ssn_list = listOf(answers[1])
          OBVIOUS
        <4> HIDE DEF second
        <4>3. Ask(asked[2]).calls = <<asked[2]>> /\ Ask(second).calls = <<second>>
          BY StepKinds
        <4>4. asked[2] = second
          BY <4>1, <4>3
        <4> QED BY <4>2, <4>4
      <3>2. reply.value = personsTold(r.body, answers[2])
        BY <2>5, StepKinds
      <3>3. \A persons \in answers[2].list :
              /\ isList(persons)
              /\ \A person \in Range(persons) :
                   /\ isList(person.documents)
                   /\ \A document \in Range(person.documents) : isDistance(document.birthDate)
        <4>1. 2 \in 1 .. 2
          OBVIOUS
        <4> QED BY <1>1, <2>1, <2>5, <4>1, AnswersAssumption
      <3> HIDE DEF r
      <3>4. \A person \in Range(reply.value) : fitsSearch(person, r.body)
        BY <2>2, <3>2, <3>3, ToldPersonsFit
      <3> QED BY <3>1, <3>4 DEF r
    <2> QED BY <2>3, <2>4, <2>5
  <1>2. GatewayInv => PersonsFit
    BY <1>1 DEF PersonsFit
  <1> QED BY <1>2, GatewayInvariance, PTL

-----------------------------------------------------------------------------
(* What the tax information shows of employers.                             *)

\* A position held now, and an employer of somebody.
heldPosition(p) == p.started /\ ~p.ended

employedWith(e) == \E l \in e.PositionInfo : \E p \in Range(l) : heldPosition(p)

\* A list that keeps nothing had nothing that was wanted.
LEMMA NothingKept ==
  ASSUME NEW l, isList(l), NEW wanted
  PROVE  keep(l, wanted) = <<>> <=> Range(l) \cap wanted = {}
  <1> DEFINE kept == keep(l, wanted)
  <1>1. kept \in Seq(Range(l)) /\ Range(kept) = Range(l) \cap wanted
    BY KeptElements DEF isList
  <1> HIDE DEF kept
  <1>2. kept # <<>> => kept[1] \in Range(kept)
    <2>1. kept # <<>> => 1 \in DOMAIN kept
      BY <1>1
    <2> QED BY <2>1 DEF Range
  <1>3. Range(<<>>) = {}
    BY DEF Range
  <1> QED BY <1>1, <1>2, <1>3 DEF kept

\* The positions that are left are those held now, and some are left to those employed.
LEMMA PositionsHeld ==
  ASSUME NEW info, \A l \in info : isList(l)
  PROVE  /\ filterActualPositionInfo(info) \ {<<>>} # {}
              <=> \E l \in info : \E p \in Range(l) : heldPosition(p)
         /\ (\E l \in info : \E p \in Range(l) : heldPosition(p))
              => \E l \in filterActualPositionInfo(info) : \E p \in Range(l) : heldPosition(p)
         /\ \A l \in filterActualPositionInfo(info) : \A p \in Range(l) : heldPosition(p)
  <1> DEFINE held(l) == {p \in Range(l) : p.started /\ ~p.ended}
             left == {keep(l, held(l)) : l \in info}
  <1>1. filterActualPositionInfo(info) = left
    BY DEF filterActualPositionInfo
  <1>2. \A l : held(l) = {p \in Range(l) : heldPosition(p)}
    BY DEF heldPosition
  <1> HIDE DEF held
  <1>3. \A l \in info : /\ keep(l, held(l)) = <<>> <=> held(l) = {}
                        /\ Range(keep(l, held(l))) = held(l)
    <2>1. \A l : Range(l) \cap held(l) = held(l)
      BY <1>2
    <2>2. ASSUME NEW l \in info
          PROVE  /\ keep(l, held(l)) = <<>> <=> held(l) = {}
                 /\ Range(keep(l, held(l))) = held(l)
      <3>1. isList(l)
        OBVIOUS
      <3> QED BY <2>1, <3>1, NothingKept, KeptElements DEF isList
    <2> QED BY <2>2
  <1>4. left \ {<<>>} # {} <=> \E l \in info : held(l) # {}
    BY <1>3
  <1>5. \A l \in left : \A p \in Range(l) : heldPosition(p)
    BY <1>2, <1>3
  <1>6. (\E l \in info : held(l) # {}) => \E l \in left : \E p \in Range(l) : heldPosition(p)
    BY <1>2, <1>3
  <1>7. (\E l \in info : held(l) # {}) <=> \E l \in info : \E p \in Range(l) : heldPosition(p)
    BY <1>2
  <1> HIDE DEF left
  <1> QED BY <1>1, <1>4, <1>5, <1>6, <1>7

\* Those with a position held now are shown, with such positions only, and without what
\* they pay.
LEMMA EmployersShown ==
  ASSUME NEW employers, isList(employers),
         \A e \in Range(employers) : \A l \in e.PositionInfo : isList(l)
  PROVE  /\ Len(filterActualEmployerInfo(employers))
              = Len(keep(employers, {e \in Range(employers) : employedWith(e)}))
         /\ \A e \in Range(filterActualEmployerInfo(employers)) :
              /\ e.fields \cap {"Salary", "Benefit", "Net_income", "Contract_revenue"} = {}
              /\ employedWith(e) /\ \A l \in e.PositionInfo : \A p \in Range(l) : heldPosition(p)
  <1> DEFINE pay == {"Salary", "Benefit", "Net_income", "Contract_revenue"}
             actual(e) == [fields |-> e.fields \ pay,
                           PositionInfo |-> filterActualPositionInfo(e.PositionInfo)]
             actuals == [k \in DOMAIN employers |-> actual(employers[k])]
             leftOver == {e \in Range(actuals) : e.PositionInfo \ {<<>>} # {}}
             employing == {e \in Range(employers) : employedWith(e)}
  <1>1. filterActualEmployerInfo(employers) = keep(actuals, leftOver)
    BY DEF filterActualEmployerInfo
  <1>2. \A e : /\ actual(e).fields \cap pay = {}
               /\ actual(e).PositionInfo = filterActualPositionInfo(e.PositionInfo)
    OBVIOUS
  <1> HIDE DEF actual, pay
  <1>3. /\ Len(employers) \in Nat /\ DOMAIN employers = 1 .. Len(employers)
        /\ \A k \in 1 .. Len(employers) : employers[k] \in Range(employers)
    BY DEF isList, Range
  <1>4. /\ actuals \in Seq(Range(actuals)) /\ Len(actuals) = Len(employers)
        /\ \A k \in 1 .. Len(employers) : actuals[k] = actual(employers[k])
        /\ Range(actuals) = {actual(employers[k]) : k \in 1 .. Len(employers)}
    <2>1. /\ DOMAIN actuals = 1 .. Len(employers)
          /\ \A k \in 1 .. Len(employers) : actuals[k] = actual(employers[k])
      BY <1>3
    <2>2. Range(actuals) = {actual(employers[k]) : k \in 1 .. Len(employers)}
      BY <2>1 DEF Range
    <2>3. actuals = [k \in 1 .. Len(employers) |-> actual(employers[k])]
      BY <1>3
    <2>4. \A k \in 1 .. Len(employers) : actual(employers[k]) \in Range(actuals)
      BY <2>2
    <2> QED BY <1>3, <2>1, <2>2, <2>3, <2>4
  <1>5. \A k \in 1 .. Len(employers) :
          /\ actuals[k].PositionInfo \ {<<>>} # {} <=> employedWith(employers[k])
          /\ employedWith(employers[k]) => employedWith(actuals[k])
          /\ \A l \in actuals[k].PositionInfo : \A p \in Range(l) : heldPosition(p)
          /\ actuals[k].fields \cap pay = {}
    <2> HIDE DEF actuals
    <2>1. ASSUME NEW k \in 1 .. Len(employers)
          PROVE  /\ actuals[k].PositionInfo \ {<<>>} # {} <=> employedWith(employers[k])
                 /\ employedWith(employers[k]) => employedWith(actuals[k])
                 /\ \A l \in actuals[k].PositionInfo : \A p \in Range(l) : heldPosition(p)
                 /\ actuals[k].fields \cap pay = {}
      <3> DEFINE info == employers[k].PositionInfo
      <3>1. \A l \in info : isList(l)
        BY <1>3
      <3>2. actuals[k].PositionInfo = filterActualPositionInfo(info) /\ actuals[k].fields \cap pay = {}
        BY <1>2, <1>4
      <3>3. employedWith(employers[k]) <=> \E l \in info : \E p \in Range(l) : heldPosition(p)
        BY DEF employedWith
      <3>4. employedWith(actuals[k])
              <=> \E l \in filterActualPositionInfo(info) : \E p \in Range(l) : heldPosition(p)
        BY <3>2 DEF employedWith
      <3> HIDE DEF info
      <3> QED BY <3>1, <3>2, <3>3, <3>4, PositionsHeld
    <2> QED BY <2>1
  <1>6. \A k \in 1 .. Len(employers) : employers[k] \in employing <=> actuals[k] \in leftOver
    <2>1. \A k \in 1 .. Len(employers) : actuals[k] \in Range(actuals)
      BY <1>4
    <2> HIDE DEF actuals
    <2> QED BY <1>3, <1>5, <2>1
  <1>7. Len(keep(actuals, leftOver)) = Len(keep(employers, employing))
    <2> HIDE DEF actuals, leftOver, employing
    <2>1. employers \in Seq(Range(employers))
      BY DEF isList
    <2>2. actuals \in Seq(Range(actuals)) /\ Len(employers) = Len(actuals)
      BY <1>4
    <2> DEFINE shown == Range(actuals)
               known == Range(employers)
    <2> HIDE DEF shown, known
    <2>3. employers \in Seq(known) /\ actuals \in Seq(shown)
      BY <2>1, <2>2 DEF known, shown
    <2>4. Len(keep(employers, employing)) = Len(keep(actuals, leftOver))
      BY SMTT(60), <1>6, <2>2, <2>3, KeptAlike
    <2> QED BY <2>4
  <1>8. ASSUME NEW e \in Range(keep(actuals, leftOver))
        PROVE  /\ e.fields \cap pay = {} /\ employedWith(e)
               /\ \A l \in e.PositionInfo : \A p \in Range(l) : heldPosition(p)
    <2>1. e \in Range(actuals) /\ e \in leftOver
      <3> HIDE DEF actuals, leftOver
      <3> QED BY <1>4, <1>8, KeptElements
    <2> HIDE DEF actuals
    <2>2. PICK k \in 1 .. Len(employers) : e = actuals[k]
      BY <1>4, <2>1
    <2>3. e.PositionInfo \ {<<>>} # {}
      BY <2>1
    <2> QED BY <1>5, <2>2, <2>3
  <1> HIDE DEF actuals, leftOver
  <1> QED BY <1>1, <1>7, <1>8 DEF pay, employing

\* The tax information is asked for with one call, or not at all.
LEMMA TaxInfoIsTold ==
  ASSUME NEW r \in Requests, r.service = "register", r.op = "taxInfo"
  PROVE  /\ Threw(handler(r, <<>>)) \/ Asked(r, handler(r, <<>>))
         /\ \A a : \/ Threw(handler(r, <<a>>))
                   \/ /\ validStatus(a.status)
                      /\ handler(r, <<a>>) = Return(filterActualTaxInfo(a))
  <1> DEFINE b == r.body
             period == endingToday(startingAt(b, "01.01.1991"))
             q(got) == request("revenue committee", "/get_tax_info/v1", period, got)
  <1>0. \A n \in {400, 500} : Threw(Throw(n))
    BY StepKinds DEF Threw
  <1>1. \A got : handler(r, got) = IF GetTaxInfoBySsnDto(b) THEN getTaxInfo(b, got) ELSE Throw(400)
    BY DEF handler, registerHandler, Validated
  <1>2. \A got : getTaxInfo(b, got) = IF q(got).kind = "return"
                                      THEN Return(filterActualTaxInfo(q(got).value)) ELSE q(got)
    BY DEF getTaxInfo, AndThen
  <1>3. Asked(r, getTaxInfo(b, <<>>))
    BY SingleLookups
  <1>4. \A a : q(<<a>>) = IF validStatus(a.status) THEN Return(a) ELSE Throw(500)
    <2> HIDE DEF period
    <2> QED BY ZenonT(60), Requested
  <1> HIDE DEF q
  <1>5. ASSUME NEW a
        PROVE  \/ Threw(handler(r, <<a>>))
               \/ validStatus(a.status) /\ handler(r, <<a>>) = Return(filterActualTaxInfo(a))
    <2>1. CASE ~GetTaxInfoBySsnDto(b)
      BY <1>0, <1>1, <2>1
    <2>2. CASE GetTaxInfoBySsnDto(b) /\ validStatus(a.status)
      BY <1>1, <1>2, <1>4, <2>2, StepKinds
    <2>3. CASE GetTaxInfoBySsnDto(b) /\ ~validStatus(a.status)
      BY <1>0, <1>1, <1>2, <1>4, <2>3, StepKinds
    <2> QED BY <2>1, <2>2, <2>3
  <1> QED BY <1>0, <1>1, <1>3, <1>5

\* Employers are disclosed as far as somebody works for them now, with nothing of what
\* they pay, and none of those is left out: filterActualEmployerInfo.
THEOREM OnlyActualEmployersDisclosed == GatewaySpec => []EmployersDisclosed
  <1>1. ASSUME GatewayInv, received.service = "register", received.op = "taxInfo",
               reply.kind = "return"
        PROVE  /\ Len(reply.value.EmployerInfo)
                    = Len(keep(listIn(answers[1]),
                            {e \in Range(listIn(answers[1])) : employedWith(e)}))
               /\ \A e \in Range(reply.value.EmployerInfo) :
                    /\ e.fields \cap {"Salary", "Benefit", "Net_income", "Contract_revenue"} = {}
                    /\ employedWith(e)
                    /\ \A l \in e.PositionInfo : \A p \in Range(l) : heldPosition(p)
    <2> DEFINE r == received
               a == answers[1]
    <2>1. r \in Requests  /\ Stands(r, asked, answers, reply)
      BY <1>1 DEF GatewayInv, Idle, NoRequest
    <2>2. a \in Came(r, 1) /\ reply = handler(r, <<a>>)
      <3>1. \A x : handler(r, <<x>>).kind # "ask"
        <4>1. \A v : Return(v).kind # "ask"
          BY StepKinds
        <4> QED BY ZenonT(60), <1>1, <2>1, <4>1, TaxInfoIsTold, Kinds
      <3>2. Threw(handler(r, <<>>)) \/ Asked(r, handler(r, <<>>))
        BY <1>1, <2>1, TaxInfoIsTold
      <3> HIDE DEF r
      <3> QED BY <1>1, <2>1, <3>1, <3>2, EndsAfterOne DEF r
    <2>3. validStatus(a.status) /\ reply = Return(filterActualTaxInfo(a))
      BY <1>1, <2>1, <2>2, TaxInfoIsTold DEF Threw
    <2>4. reply.value.EmployerInfo = filterActualEmployerInfo(listIn(a))
      <3>1. filterActualTaxInfo(a).EmployerInfo = filterActualEmployerInfo(listIn(a))
        BY DEF filterActualTaxInfo
      <3>2. reply.value = filterActualTaxInfo(a)
        BY <2>3, StepKinds
      <3> QED BY <3>1, <3>2
    <2>5. a \in AnswersTo(r, 1)
      BY <2>2, <2>3 DEF Came, NoAnswer, validStatus
    <2>6. /\ isList(listIn(a))
          /\ \A e \in Range(listIn(a)) : \A l \in e.PositionInfo : isList(l)
      <3>1. \A employers \in a.result :
              isList(employers) /\ \A e \in Range(employers) : \A l \in e.PositionInfo : isList(l)
        <4>1. 1 \in 1 .. 2
          OBVIOUS
        <4> QED BY <1>1, <2>1, <2>5, <4>1, AnswersAssumption
      <3>2. isList(<<>>) /\ Range(<<>>) = {}
        BY DEF isList, Range
      <3> QED BY <3>1, <3>2 DEF listIn, orNone
    <2> HIDE DEF r, a
    <2>7. /\ Len(reply.value.EmployerInfo)
               = Len(keep(listIn(a), {e \in Range(listIn(a)) : employedWith(e)}))
          /\ \A e \in Range(reply.value.EmployerInfo) :
               /\ e.fields \cap {"Salary", "Benefit", "Net_income", "Contract_revenue"} = {}
               /\ employedWith(e)
               /\ \A l \in e.PositionInfo : \A p \in Range(l) : heldPosition(p)
      <3> DEFINE employers == listIn(a)
      <3> HIDE DEF employers
      <3>1. isList(employers) /\ \A e \in Range(employers) : \A l \in e.PositionInfo : isList(l)
        BY <2>6 DEF employers
      <3> QED BY <2>4, <3>1, EmployersShown DEF employers
    <2> QED BY <2>7 DEF a
  <1>2. GatewayInv => EmployersDisclosed
    BY <1>1 DEF EmployersDisclosed, employedWith, heldPosition
  <1> QED BY <1>2, GatewayInvariance, PTL
=============================================================================
