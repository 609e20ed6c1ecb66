----------------------------- MODULE BootProofs -----------------------------
(***************************************************************************)
(* Proofs about Boot, for every set of instances and builds, every change  *)
(* of the environment and any number of crashes.                           *)
(***************************************************************************)
EXTENDS Boot, SequenceTheorems, TLAPS

-----------------------------------------------------------------------------
(* The inductive invariant. *)

\* What a process on its way to bulkCreate did not find missing is there.
MissingIsAllThatIsMissing ==
  \A i \in Instance :
    /\ phase[i] = "insert" => discoverPermissions(i) \ missing[i] \subseteq permissions
    /\ phase[i] = "serving" => discoverPermissions(i) \subseteq permissions

\* What a process has seen to be absent, and finds there after all, was made by
\* another one in the meantime.
RaceNeedsCompany ==
  \A i \in Instance :
    /\ phase[i] = "create" /\ exists(i) => company[i]
    /\ phase[i] = "insert" /\ missing[i] \cap permissions # {} => company[i]

\* The row of an instance stays as long as nobody has seeded its user anew.
OwnRowStays ==
  \A i \in Instance :
    /\ phase[i] \in {"find", "insert", "serving"}
    /\ \A e \in seededSince[i] : e.username = env[i].username => e = env[i]
    => env[i] \in users

IInv ==
  /\ BootTypeOK
  /\ MissingIsAllThatIsMissing
  /\ RaceNeedsCompany
  /\ OwnRowStays
  /\ ConflictOnlyInCompany

-----------------------------------------------------------------------------
(* Lemmas. *)

\* The schema is created by at least one statement, in the order of a sequence.
LEMMA SchemaIsAList ==
  /\ Objects = 1 .. Len(SchemaObjects)
  /\ Len(SchemaObjects) \in Nat \ {0}
<1>1. Len(SchemaObjects) = 9
  BY DEF SchemaObjects, syncModels, migrateUsersTable, migrateRequestLogsTable,
         migrateIntegrationCallLogsTable
<1>2. DOMAIN SchemaObjects = 1 .. 9
  BY DEF SchemaObjects, syncModels, migrateUsersTable, migrateRequestLogsTable,
         migrateIntegrationCallLogsTable
<1> QED BY <1>1, <1>2 DEF Objects

\* The bound on crashes is a number.
LEMMA CrashesAreCounted ==
  MaxCrashes \in Nat
  BY BootAssumption, Zenon

\* The names the scanner makes of the routes of a build.
LEMMA NamesAreTyped ==
  ASSUME NEW i \in Instance
  PROVE  discoverPermissions(i) \in SUBSET (STRING \X STRING)
<1>1. ASSUME NEW route \in RoutesOf[i]
      PROVE  scannedPermission(route) \in STRING \X STRING
  <2>1. route \in Route
    BY BootAssumption
  <2> QED BY <2>1 DEF scannedPermission, Route
<1> QED BY <1>1 DEF discoverPermissions

\* Having somebody about is noticed once and for all.
LEMMA CompanyIsNoticed ==
  ASSUME NEW i \in Instance, BootTypeOK
  PROVE  /\ noticed(i) \in [Instance -> BOOLEAN]
         /\ \A j \in Instance : company[j] => noticed(i)[j]
         /\ \A j \in Instance \ {i} : phase[j] # "down" => noticed(i)[j]
  BY DEF noticed, BootTypeOK

\* The upsert leaves the row it was given and those of other users.
LEMMA UpsertKeepsOthers ==
  ASSUME NEW e
  PROVE  /\ e \in upsert(e)
         /\ upsert(e) \subseteq users \cup {e}
         /\ \A u \in users : u.username # e.username => u \in upsert(e)
  BY DEF upsert

\* A process goes on to the next statement, and past the last one to the seed.
LEMMA AdvanceIsTyped ==
  ASSUME NEW i \in Instance, BootTypeOK, advance(i)
  PROVE  /\ object' \in [Instance -> Objects]
         /\ phase' \in [Instance -> Phases]
         /\ phase'[i] \in {"check", "seed"}
         /\ \A j \in Instance \ {i} : phase'[j] = phase[j] /\ object'[j] = object[j]
<1>1. /\ object[i] \in Objects /\ object \in [Instance -> Objects]
      /\ phase \in [Instance -> Phases]
      /\ "check" \in Phases /\ "seed" \in Phases
  BY DEF BootTypeOK, Phases
<1>2. CASE object[i] < Len(SchemaObjects) /\ object' = [object EXCEPT ![i] = @ + 1]
           /\ goTo(i, "check")
  <2>1. object[i] + 1 \in Objects
    BY <1>1, <1>2, SchemaIsAList
  <2> QED BY <1>1, <1>2, <2>1 DEF goTo
<1>3. CASE UNCHANGED object /\ goTo(i, "seed")
  BY <1>1, <1>3 DEF goTo
<1> QED BY <1>2, <1>3 DEF advance

-----------------------------------------------------------------------------
(* The steps of a process preserve the invariant. *)

\* Before any process runs there is nothing to be wrong about.
LEMMA InitEstablishes ==
  BootInit => IInv
<1> SUFFICES ASSUME BootInit PROVE IInv
  OBVIOUS
<1>1. BootTypeOK
  <2>1. 1 \in Objects /\ 0 \in 0 .. MaxCrashes
    BY SchemaIsAList, CrashesAreCounted
  <2> QED BY <2>1 DEF BootInit, BootTypeOK, Phases
<1> QED BY <1>1 DEF IInv, BootInit, MissingIsAllThatIsMissing, RaceNeedsCompany, OwnRowStays,
                    ConflictOnlyInCompany

\* A process that starts has noticed nothing yet, and has its own credentials to seed.
LEMMA StartPreserves ==
  ASSUME IInv, NEW i \in Instance, Start(i)
  PROVE  IInv'
<1> USE DEF IInv
<1>1. BootTypeOK'
  <2>1. 1 \in Objects
    BY SchemaIsAList
  <2>2. phase' \in [Instance -> Phases] /\ object' \in [Instance -> Objects]
    BY <2>1 DEF Start, goTo, BootTypeOK, Phases
  <2>3. env' \in [Instance -> Environments]
    BY DEF Start, BootTypeOK
  <2>4. company' \in [Instance -> BOOLEAN] /\ conflicted' \in [Instance -> BOOLEAN]
    BY CompanyIsNoticed DEF Start, BootTypeOK
  <2> QED BY <2>2, <2>3, <2>4 DEF Start, database, BootTypeOK
<1>2. MissingIsAllThatIsMissing'
  BY DEF Start, goTo, database, BootTypeOK, Phases, MissingIsAllThatIsMissing
<1>3. RaceNeedsCompany'
  BY CompanyIsNoticed DEF Start, goTo, database, BootTypeOK, Phases, RaceNeedsCompany, exists
<1>4. OwnRowStays'
  BY DEF Start, goTo, database, BootTypeOK, Phases, OwnRowStays
<1>5. ConflictOnlyInCompany'
  BY CompanyIsNoticed DEF Start, goTo, BootTypeOK, ConflictOnlyInCompany
<1> QED BY <1>1, <1>2, <1>3, <1>4, <1>5

\* Looking whether an object exists: what is seen to be absent is absent at that moment.
LEMMA CheckPreserves ==
  ASSUME IInv, NEW i \in Instance, Check(i)
  PROVE  IInv'
<1> USE DEF IInv
<1>1. /\ object' \in [Instance -> Objects]
      /\ phase' \in [Instance -> Phases]
      /\ phase'[i] \in {"check", "seed", "create"}
      /\ phase'[i] = "create" => ~exists(i) /\ object' = object /\ catalog' = catalog
      /\ \A j \in Instance \ {i} : phase'[j] = phase[j] /\ object'[j] = object[j]
  BY AdvanceIsTyped DEF Check, goTo, BootTypeOK, Phases
<1>2. catalog \subseteq catalog' /\ catalog' \subseteq {SchemaObjects[o] : o \in Objects}
  BY DEF Check, BootTypeOK
<1>3. BootTypeOK'
  BY <1>1, <1>2, CompanyIsNoticed DEF Check, BootTypeOK
<1>4. MissingIsAllThatIsMissing'
  BY <1>1 DEF Check, MissingIsAllThatIsMissing, discoverPermissions, scannedPermission
<1>5. RaceNeedsCompany'
  <2> SUFFICES ASSUME NEW j \in Instance
               PROVE  /\ phase'[j] = "create" /\ exists(j)' => company'[j]
                      /\ phase'[j] = "insert" /\ missing'[j] \cap permissions' # {} => company'[j]
    BY DEF RaceNeedsCompany
  <2>1. CASE j = i
    BY <1>1, <2>1 DEF Check, exists
  <2>2. CASE j # i
    BY <1>1, <2>2, CompanyIsNoticed DEF Check
  <2> QED BY <2>1, <2>2
<1>6. OwnRowStays'
  BY <1>1 DEF Check, OwnRowStays
<1>7. ConflictOnlyInCompany'
  BY CompanyIsNoticed DEF Check, ConflictOnlyInCompany
<1> QED BY <1>3, <1>4, <1>5, <1>6, <1>7

\* Creating it, or failing because another one has in between.
LEMMA CreatePreserves ==
  ASSUME IInv, NEW i \in Instance, Create(i)
  PROVE  IInv'
<1> USE DEF IInv
<1>1. /\ object' \in [Instance -> Objects]
      /\ phase' \in [Instance -> Phases]
      /\ phase'[i] \in {"check", "seed", "down"}
      /\ \A j \in Instance \ {i} : phase'[j] = phase[j] /\ object'[j] = object[j]
  BY AdvanceIsTyped DEF Create, conflict, goTo, BootTypeOK, Phases
<1>2. catalog' \subseteq {SchemaObjects[o] : o \in Objects} /\ permissions' = permissions
  BY DEF Create, conflict, BootTypeOK
<1>3. /\ conflicted' \in [Instance -> BOOLEAN]
      /\ \A j \in Instance : conflicted'[j] => conflicted[j] \/ (j = i /\ exists(i))
  BY DEF Create, conflict, exists, BootTypeOK
<1>4. BootTypeOK'
  BY <1>1, <1>2, <1>3, CompanyIsNoticed DEF Create, BootTypeOK
<1>5. MissingIsAllThatIsMissing'
  BY <1>1, <1>2 DEF Create, MissingIsAllThatIsMissing, discoverPermissions, scannedPermission
<1>6. RaceNeedsCompany'
  <2> SUFFICES ASSUME NEW j \in Instance
               PROVE  /\ phase'[j] = "create" /\ exists(j)' => company'[j]
                      /\ phase'[j] = "insert" /\ missing'[j] \cap permissions' # {} => company'[j]
    BY DEF RaceNeedsCompany
  <2>1. CASE j = i
    BY <1>1, <2>1
  <2>2. CASE j # i
    BY <1>1, <2>2, CompanyIsNoticed DEF Create
  <2> QED BY <2>1, <2>2
<1>7. OwnRowStays'
  BY <1>1 DEF Create, OwnRowStays
<1>8. ConflictOnlyInCompany'
  <2>1. \A j \in Instance : company[j] => company'[j]
    BY CompanyIsNoticed DEF Create
  <2>2. exists(i) => company[i]
    BY DEF Create, RaceNeedsCompany
  <2> QED BY <1>3, <2>1, <2>2 DEF ConflictOnlyInCompany
<1> QED BY <1>4, <1>5, <1>6, <1>7, <1>8

\* Seeding the default user puts the own credentials there.
LEMMA SeedPreserves ==
  ASSUME IInv, NEW i \in Instance, seedDefaultUser(i)
  PROVE  IInv'
<1> USE DEF IInv
<1>1. /\ phase' \in [Instance -> Phases]
      /\ phase'[i] = "find"
      /\ \A j \in Instance \ {i} : phase'[j] = phase[j]
  BY DEF seedDefaultUser, goTo, BootTypeOK, Phases
<1>2. /\ seededSince' \in [Instance -> SUBSET Environments]
      /\ seededSince'[i] = {}
      /\ \A j \in Instance \ {i} : seededSince'[j] = seededSince[j] \cup {env[i]}
  BY DEF seedDefaultUser, BootTypeOK
<1>3. BootTypeOK'
  BY <1>1, <1>2, UpsertKeepsOthers, CompanyIsNoticed DEF seedDefaultUser, BootTypeOK
<1>4. MissingIsAllThatIsMissing'
  BY <1>1 DEF seedDefaultUser, MissingIsAllThatIsMissing, discoverPermissions, scannedPermission
<1>5. RaceNeedsCompany'
  BY <1>1, CompanyIsNoticed DEF seedDefaultUser, RaceNeedsCompany, exists
<1>6. OwnRowStays'
  <2> SUFFICES ASSUME NEW j \in Instance,
                      phase'[j] \in {"find", "insert", "serving"},
                      \A e \in seededSince'[j] : e.username = env[j].username => e = env[j]
               PROVE  env[j] \in users'
    BY DEF OwnRowStays, seedDefaultUser
  <2>1. users' = upsert(env[i])
    BY DEF seedDefaultUser
  <2>2. CASE j = i \/ env[j] = env[i]
    BY <2>1, <2>2, UpsertKeepsOthers
  <2>3. CASE j # i /\ env[j] # env[i]
    <3>1. env[j] \in users
      BY <1>1, <1>2, <2>3 DEF OwnRowStays
    <3>2. env[i].username # env[j].username
      BY <1>2, <2>3
    <3> QED BY <2>1, <3>1, <3>2, UpsertKeepsOthers
  <2> QED BY <2>2, <2>3
<1>7. ConflictOnlyInCompany'
  BY CompanyIsNoticed DEF seedDefaultUser, ConflictOnlyInCompany
<1> QED BY <1>3, <1>4, <1>5, <1>6, <1>7

\* Of the permissions a start looks for, those it does not miss are there.
LEMMA FindPreserves ==
  ASSUME IInv, NEW i \in Instance, FindPermissions(i)
  PROVE  IInv'
<1> USE DEF IInv
<1>1. /\ phase' \in [Instance -> Phases]
      /\ phase'[i] = IF absent(i) = {} THEN "serving" ELSE "insert"
      /\ missing' \in [Instance -> SUBSET (STRING \X STRING)]
      /\ missing'[i] = absent(i)
      /\ \A j \in Instance \ {i} : phase'[j] = phase[j] /\ missing'[j] = missing[j]
  BY NamesAreTyped DEF FindPermissions, goTo, absent, BootTypeOK, Phases
<1>2. BootTypeOK'
  BY <1>1, CompanyIsNoticed DEF FindPermissions, database, BootTypeOK
<1>3. MissingIsAllThatIsMissing'
  <2> SUFFICES ASSUME NEW j \in Instance
               PROVE  /\ phase'[j] = "insert"
                           => discoverPermissions(j) \ missing'[j] \subseteq permissions'
                      /\ phase'[j] = "serving" => discoverPermissions(j) \subseteq permissions'
    BY DEF MissingIsAllThatIsMissing, discoverPermissions, scannedPermission
  <2>1. permissions' = permissions
    BY DEF FindPermissions, database
  <2>2. CASE j = i
    BY <1>1, <2>1, <2>2 DEF absent
  <2>3. CASE j # i
    BY <1>1, <2>1, <2>3 DEF MissingIsAllThatIsMissing
  <2> QED BY <2>2, <2>3
<1>4. RaceNeedsCompany'
  <2> SUFFICES ASSUME NEW j \in Instance
               PROVE  /\ phase'[j] = "create" /\ exists(j)' => company'[j]
                      /\ phase'[j] = "insert" /\ missing'[j] \cap permissions' # {} => company'[j]
    BY DEF RaceNeedsCompany
  <2>1. permissions' = permissions /\ exists(j)' = exists(j)
    BY DEF FindPermissions, database, exists
  <2>2. CASE j = i
    BY <1>1, <2>1, <2>2 DEF absent
  <2>3. CASE j # i
    BY <1>1, <2>1, <2>3, CompanyIsNoticed DEF FindPermissions, RaceNeedsCompany
  <2> QED BY <2>2, <2>3
<1>5. OwnRowStays'
  <2>1. UNCHANGED <<users, seededSince, env>> /\ phase[i] = "find"
    BY DEF FindPermissions, database
  <2> QED BY <1>1, <2>1 DEF OwnRowStays
<1>6. ConflictOnlyInCompany'
  BY CompanyIsNoticed DEF FindPermissions, ConflictOnlyInCompany
<1> QED BY <1>2, <1>3, <1>4, <1>5, <1>6

\* Inserting the missing ones completes them, or fails because another one was first.
LEMMA InsertPreserves ==
  ASSUME IInv, NEW i \in Instance, InsertPermissions(i)
  PROVE  IInv'
<1> USE DEF IInv
<1> DEFINE lost == missing[i] \cap permissions # {}
<1>1. /\ phase' \in [Instance -> Phases]
      /\ phase'[i] = IF lost THEN "down" ELSE "serving"
      /\ \A j \in Instance \ {i} : phase'[j] = phase[j]
      /\ permissions' = IF lost THEN permissions ELSE permissions \cup missing[i]
      /\ catalog' = catalog
  BY DEF InsertPermissions, conflict, goTo, BootTypeOK, Phases
<1>2. /\ conflicted' \in [Instance -> BOOLEAN]
      /\ \A j \in Instance : conflicted'[j] => conflicted[j] \/ (j = i /\ lost)
  BY DEF InsertPermissions, conflict, BootTypeOK
<1>3. BootTypeOK'
  <2>1. permissions' \subseteq (STRING \X STRING)
    BY <1>1 DEF BootTypeOK
  <2> QED BY <1>1, <1>2, <2>1, CompanyIsNoticed DEF InsertPermissions, BootTypeOK
<1>4. MissingIsAllThatIsMissing'
  <2> SUFFICES ASSUME NEW j \in Instance
               PROVE  /\ phase'[j] = "insert"
                           => discoverPermissions(j) \ missing[j] \subseteq permissions'
                      /\ phase'[j] = "serving" => discoverPermissions(j) \subseteq permissions'
    BY DEF MissingIsAllThatIsMissing, discoverPermissions, scannedPermission, InsertPermissions
  <2>1. permissions \subseteq permissions' /\ phase[i] = "insert"
    BY <1>1 DEF InsertPermissions
  <2>2. CASE j = i
    BY <1>1, <2>1, <2>2 DEF MissingIsAllThatIsMissing
  <2>3. CASE j # i
    BY <1>1, <2>1, <2>3 DEF MissingIsAllThatIsMissing
  <2> QED BY <2>2, <2>3
<1>5. RaceNeedsCompany'
  <2> SUFFICES ASSUME NEW j \in Instance
               PROVE  /\ phase'[j] = "create" /\ exists(j)' => company'[j]
                      /\ phase'[j] = "insert" /\ missing'[j] \cap permissions' # {} => company'[j]
    BY DEF RaceNeedsCompany
  <2>1. CASE j = i
    BY <1>1, <2>1
  <2>2. CASE j # i
    BY <1>1, <2>2, CompanyIsNoticed DEF InsertPermissions
  <2> QED BY <2>1, <2>2
<1>6. OwnRowStays'
  <2>1. UNCHANGED <<users, seededSince, env>> /\ phase[i] = "insert"
    BY DEF InsertPermissions
  <2> QED BY <1>1, <2>1 DEF OwnRowStays
<1>7. ConflictOnlyInCompany'
  <2>1. \A j \in Instance : company[j] => company'[j]
    BY CompanyIsNoticed DEF InsertPermissions
  <2>2. lost => company[i]
    BY DEF InsertPermissions, RaceNeedsCompany
  <2> QED BY <1>2, <2>1, <2>2 DEF ConflictOnlyInCompany
<1> QED BY <1>3, <1>4, <1>5, <1>6, <1>7

\* A process that ends takes nothing along that the database holds.
LEMMA CrashPreserves ==
  ASSUME IInv, NEW i \in Instance, Crash(i)
  PROVE  IInv'
<1> USE DEF IInv
<1>1. /\ phase' \in [Instance -> Phases]
      /\ phase'[i] = "down"
      /\ \A j \in Instance \ {i} : phase'[j] = phase[j]
      /\ crashes' \in 0 .. MaxCrashes
  BY CrashesAreCounted DEF Crash, goTo, BootTypeOK, Phases
<1>2. BootTypeOK'
  BY <1>1 DEF Crash, database, history, BootTypeOK
<1>3. MissingIsAllThatIsMissing'
  BY <1>1 DEF Crash, database, MissingIsAllThatIsMissing, discoverPermissions, scannedPermission
<1>4. RaceNeedsCompany'
  BY <1>1 DEF Crash, database, history, RaceNeedsCompany, exists
<1>5. OwnRowStays'
  BY <1>1 DEF Crash, database, history, OwnRowStays
<1>6. ConflictOnlyInCompany'
  BY DEF Crash, history, ConflictOnlyInCompany
<1> QED BY <1>2, <1>3, <1>4, <1>5, <1>6

\* A step that changes nothing.
LEMMA StutterPreserves ==
  ASSUME IInv, UNCHANGED bootVars
  PROVE  IInv'
<1>1. /\ BootTypeOK' /\ ConflictOnlyInCompany' /\ OwnRowStays'
  BY DEF IInv, bootVars, processVars, database, history, BootTypeOK, ConflictOnlyInCompany,
         OwnRowStays
<1>2. MissingIsAllThatIsMissing' /\ RaceNeedsCompany'
  BY DEF IInv, bootVars, processVars, database, history, MissingIsAllThatIsMissing,
         discoverPermissions, scannedPermission, RaceNeedsCompany, exists
<1> QED BY <1>1, <1>2 DEF IInv

-----------------------------------------------------------------------------
(* Theorems. *)

\* The invariant holds throughout, whatever races and crashes there are.
THEOREM Invariance == BootSpec => []IInv
<1>1. BootInit => IInv
  BY InitEstablishes
<1>2. IInv /\ [BootNext]_bootVars => IInv'
  <2> SUFFICES ASSUME IInv, [BootNext]_bootVars PROVE IInv'
    OBVIOUS
  <2>1. CASE UNCHANGED bootVars
    BY <2>1, StutterPreserves
  <2>2. ASSUME NEW i \in Instance, Run(i) \/ Crash(i) PROVE IInv'
    BY <2>2, StartPreserves, CheckPreserves, CreatePreserves, SeedPreserves, FindPreserves,
       InsertPreserves, CrashPreserves DEF Run
  <2> QED BY <2>1, <2>2 DEF BootNext
<1> QED BY <1>1, <1>2, PTL DEF BootSpec

\* Every variable keeps its type; a start never leaves the list of statements.
THEOREM TypesCorrect == BootSpec => []BootTypeOK
<1>1. IInv => BootTypeOK
  BY DEF IInv
<1> QED BY <1>1, Invariance, PTL

\* However starts overlap, fail and are repeated, an instance that serves has a
\* permission for each of its routes, under the name the guard asks for.
THEOREM RoutesHavePermissions == BootSpec => []EveryRouteHasItsPermission
<1>1. IInv => EveryRouteHasItsPermission
  BY DEF IInv, MissingIsAllThatIsMissing, EveryRouteHasItsPermission, discoverPermissions,
         scannedPermission, requiredPermission
<1> QED BY <1>1, Invariance, PTL

\* The credentials of an instance's environment open it until another instance
\* seeds another password for the same user.
THEOREM CredentialsAccepted == BootSpec => []OwnCredentialsAccepted
<1>1. IInv => OwnCredentialsAccepted
  <2> SUFFICES ASSUME IInv, NEW i \in Instance, env[i] \in users
               PROVE  validateBasicCredentials(env[i].username, env[i].password)
    BY DEF IInv, OwnRowStays, OwnCredentialsAccepted
  <2>1. env[i] \in Environments
    BY DEF IInv, BootTypeOK
  <2>2. env[i].username # "" /\ env[i].password # ""
    BY <2>1, BootAssumption
  <2> QED BY <2>2 DEF validateBasicCredentials
<1> QED BY <1>1, Invariance, PTL

\* A start that nobody else disturbs never fails on what earlier ones have left.
THEOREM StartsAreRepeatable == BootSpec => []ConflictOnlyInCompany
<1>1. IInv => ConflictOnlyInCompany
  BY DEF IInv
<1> QED BY <1>1, Invariance, PTL
=============================================================================
