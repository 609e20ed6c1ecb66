---------------------------- MODULE PersonSearch ----------------------------
(***************************************************************************)
(* Persons of the migration and citizenship service (MCS), and the civil   *)
(* acts of their children: which search a body selects, what it requires,  *)
(* the calls it takes and the filters on what comes back.                  *)
(*                                                                         *)
(* A text is "" where it is missing.  A value that may be missing is a set *)
(* of at most one.  A date is its distance from today by calendar fields:  *)
(* its year, month and day subtracted from today's; or a text that is no   *)
(* date as the code reads one.                                             *)
(***************************************************************************)
EXTENDS Flow, SequencesExt

ago(years, months, days) == [years |-> years, months |-> months, days |-> days]
unreadable == [unreadable |-> TRUE]

readable(birthDate) == birthDate \ {unreadable}

\* Mutants of calculateAge and isAtLeastAge: the birthday has always passed.
calculateAgeOfYears(birthDate) ==
  IF readable(birthDate) = {} THEN 0 ELSE (CHOOSE d \in readable(birthDate) : TRUE).years

isAtLeastAgeOfYears(birthDate, minimumAge) ==
  \E d \in readable(birthDate) : d.years >= minimumAge

yearsReached(d) ==
  d.years - (IF d.months < 0 \/ (d.months = 0 /\ d.days < 0) THEN 1 ELSE 0)

\* 0 for a date that is missing or cannot be read.
calculateAge(birthDate) ==
  IF readable(birthDate) = {} THEN 0 ELSE yearsReached(CHOOSE d \in readable(birthDate) : TRUE)

isAtLeastAge(birthDate, minimumAge) ==
  \E d \in readable(birthDate) : yearsReached(d) >= minimumAge

-----------------------------------------------------------------------------
(* MigrationCitizenServiceIntegration *)

\* An answer carries a list at the path that is asked for, or it does not.
McsAnswer(status, list) == [status |-> status, list |-> list]

listOf(answer) == IF answer.list = {} THEN <<>> ELSE CHOOSE l \in answer.list : TRUE

executeAddressRequest(env, path, answers) ==
  IF ~env.addressUrl THEN Throw(500)
  ELSE AndThen(AwaitValid([to |-> "mcs", operation |-> "address", body |-> path], answers, 1,
                          Throw(500)), LAMBDA answer : Return(listOf(answer)))

\* The comment above it promises an empty list on an error: it throws.
executePersonsRequest(env, path, body, answers, n) ==
  IF ~env.personsUrl THEN Throw(500)
  ELSE AndThen(AwaitValid([to |-> "mcs", operation |-> path, body |-> body], answers, n,
                          Throw(500)), LAMBDA answer : Return(listOf(answer)))

-----------------------------------------------------------------------------
(* MigrationCitizenService *)

\* Only there may an address do without a residence.
withoutResidence(q) == q.region = "YEREVAN" \/ q.community = "GYUMRI"

\* null without what the catalog asks for.
getCommunities(env, q, answers) ==
  IF q.region = "" THEN Return({})
  ELSE AndThen(executeAddressRequest(env, [region |-> q.region], answers),
               LAMBDA l : Return({l}))

getResidences(env, q, answers) ==
  IF q.region = "" \/ q.community = "" THEN Return({})
  ELSE AndThen(executeAddressRequest(env, [region |-> q.region, community |-> q.community],
                                     answers), LAMBDA l : Return({l}))

getStreets(env, q, answers) ==
  IF q.region = "" \/ q.community = "" \/ (q.residence = "" /\ ~withoutResidence(q))
  THEN Return({})
  ELSE AndThen(executeAddressRequest(env, [region |-> q.region, community |-> q.community,
                                           residence |-> q.residence], answers),
               LAMBDA l : Return({l}))

hasName(f) == f.firstName # "" \/ f.lastName # "" \/ f.patronomicName # ""

\* Of a person's documents, the first that has the field, readable or not.
firstGiven(docs, field) ==
  LET given == {k \in DOMAIN docs : docs[k][field] # {}}
  IN IF given = {} THEN {} ELSE docs[Min(given)][field]

\* No gender is asked for.
unsaid == {"", " "}

filterPersons(persons, filters) ==
  LET fits(person) ==
        LET age == calculateAge(firstGiven(person.documents, "birthDate"))
            sex == firstGiven(person.documents, "genus")
        IN /\ \A min \in filters.ageMin : age >= min
           /\ \A max \in filters.ageMax : age <= max
           /\ \/ filters.gender = "MALE" /\ sex = {"M"}
              \/ filters.gender = "FEMALE" /\ sex = {"F"}
              \/ filters.gender \in unsaid
  IN keep(persons, {person \in Range(persons) : fits(person)})

\* A bound of 0 by itself does not start the filter.
isFiltered(filters) == filters.ageMin \ {0} # {} \/ filters.ageMax \ {0} # {} \/ filters.gender # ""

getPersonsDetailsBySsnList(env, pnums, answers) ==
  executePersonsRequest(env, "by-ssn-list", [ssn_list |-> pnums], answers, 2)

\* The persons a search finds: their numbers, then their details, then the filter.
findPersons(env, path, body, filters, answers) ==
  AndThen(executePersonsRequest(env, path, body, answers, 1), LAMBDA pnums :
    IF pnums = <<>> THEN Return(<<>>)
    ELSE AndThen(getPersonsDetailsBySsnList(env, pnums, answers), LAMBDA persons :
           Return(IF isFiltered(filters) THEN filterPersons(persons, filters) ELSE persons)))

registInAddr(f) ==
  IF f.registrationType = "EVER" THEN "EVER_REGISTERED" ELSE "CURRENTLY_REGISTERED"

\* What is known of the person: a name is complete or a part of one.
additionalData(f) ==
  [firstName |-> <<f.firstName, f.firstNameMatchType = "exact">>,
   lastName |-> <<f.lastName, f.lastNameMatchType = "exact">>,
   patronomicName |-> <<f.patronomicName, f.patronomicNameMatchType = "exact">>,
   birthDate |-> f.birthDate]

\* The older spelling of apartment is read where the newer is missing.
getPersonsByAddress(env, f, answers) ==
  LET apartment == IF f.apartment # "" THEN f.apartment ELSE f.appartment
  IN IF \/ f.region = "" \/ f.community = "" \/ f.street = ""
        \/ f.residence = "" /\ ~withoutResidence(f)
        \/ apartment = "" /\ f.building = ""
     THEN Throw(400)
     ELSE findPersons(env, "by-addr",
            [regist_in_addr |-> registInAddr(f), region |-> f.region, community |-> f.community,
             residence |-> f.residence, street |-> f.street, building |-> f.building,
             apartment |-> apartment], f, answers)

searchPersonByBirthAddress(env, f, answers) ==
  IF f.region = "" \/ f.community = "" \/ ~hasName(f) THEN Throw(400)
  ELSE findPersons(env, "by-birth-addr",
         [birth_region |-> f.region, birth_community |-> f.community,
          additional_data |-> additionalData(f)], f, answers)

\* Whatever of the address is given goes along, required or not.
buildPersonSearchByAddressBody(f, requiredFields) ==
  IF (\E field \in requiredFields : f[field] = "") \/ ~hasName(f) THEN Throw(400)
  ELSE Return([regist_in_addr |-> registInAddr(f), region |-> f.region,
               community |-> f.community, street |-> f.street, building |-> f.building,
               additional_data |-> additionalData(f)])

searchPersonsByAddress(env, path, f, requiredFields, answers) ==
  AndThen(buildPersonSearchByAddressBody(f, requiredFields), LAMBDA body :
    findPersons(env, path, body, f, answers))

searchByRegionCommunity(env, f, answers) ==
  searchPersonsByAddress(env, "by-addr-rc", f, {"region", "community"}, answers)

searchByRegionCommunityStreet(env, f, answers) ==
  searchPersonsByAddress(env, "by-addr-rcs", f, {"region", "community", "street"}, answers)

searchByRegionCommunityStreetBuilding(env, f, answers) ==
  searchPersonsByAddress(env, "by-addr-rcsb", f,
                         {"region", "community", "street", "building"}, answers)

searchPersons(env, f, answers) ==
  CASE f.addressType = "BIRTH" -> searchPersonByBirthAddress(env, f, answers)
    [] f.addressType # "BIRTH" /\ ~hasName(f) -> getPersonsByAddress(env, f, answers)
    [] f.addressType # "BIRTH" /\ hasName(f) ->
         IF f.building # "" THEN searchByRegionCommunityStreetBuilding(env, f, answers)
         ELSE IF f.street # "" THEN searchByRegionCommunityStreet(env, f, answers)
         ELSE IF f.community # "" THEN searchByRegionCommunity(env, f, answers)
         ELSE Throw(400)

mcsHandler(r, answers) ==
  CASE r.op = "communities" -> getCommunities(r.env, r.body, answers)
    [] r.op = "residences" -> getResidences(r.env, r.body, answers)
    [] r.op = "streets" -> getStreets(r.env, r.body, answers)
    [] r.op = "persons" -> searchPersons(r.env, r.body, answers)

-----------------------------------------------------------------------------
(* CivilActsRegistration: an answer holds documents, by their keys, each the *)
(* record of an act; a birth names the child.                               *)

\* The endpoint is configured, or the service does not start.
civilActs(body, answers) ==
  IF body.ssn = "" \/ body.firstName = "" \/ body.lastName = "" THEN Throw(400)
  ELSE AwaitValid([to |-> "civilActs", operation |-> "documents", body |-> body], answers, 1,
                  Throw(500))

getCivilActsInfoBySsn(body, answers) ==
  AndThen(civilActs(body, answers), LAMBDA response :
    Return(IF response.outcome = "failed" THEN <<>> ELSE response.result))

normalizePsn(psn) == IF psn = " " THEN "" ELSE psn

filterChildDocuments(result, searchedSsn) ==
  LET childOf(document) ==
        /\ document.type = "birth"
        /\ normalizePsn(document.child) # normalizePsn(searchedSsn)
        /\ ~isAtLeastAge(document.birthDate, 16)
  IN keep(result, {document \in Range(result) : childOf(document)})

\* A failed answer passes as it is, with what documents it has.
getCivilActsInfoBySsnRaw(body, answers) ==
  AndThen(civilActs(body, answers), LAMBDA response :
    Return([outcome |-> response.outcome,
            result |-> filterChildDocuments(response.result, body.ssn)]))

civilActsHandler(r, answers) ==
  CASE r.op = "acts" -> getCivilActsInfoBySsn(r.body, answers)
    [] r.op = "children" -> getCivilActsInfoBySsnRaw(r.body, answers)
=============================================================================
