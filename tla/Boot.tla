-------------------------------- MODULE Boot --------------------------------
(***************************************************************************)
(* The start of the gateway against its PostgreSQL database, by several    *)
(* instances at a time and again after every crash: sequelize.sync() of    *)
(* the RBAC tables while the providers are built, AuthDbMigrationService   *)
(* in onModuleInit, PermissionScannerService in onApplicationBootstrap,    *)
(* and only then listen.  An error in any of these ends the process, and   *)
(* whatever runs it starts it again, possibly with another environment.    *)
(***************************************************************************)
EXTENDS Naturals, Sequences

CONSTANTS
  Instance,      \* the instances that share the database
  RoutesOf,      \* RoutesOf[i]: the routes of the build that i runs
  Environments,  \* the credentials a start may find in its environment
  MaxCrashes     \* bound: how often instances are stopped from outside

Verbs == {"search", "get", "create", "update", "delete"}

\* A controller method that has a route; `verb` is the rule its name begins
\* with, or its own name in lower case where no rule fits.
Route == [controller : STRING, verb : STRING]

ASSUME BootAssumption ==
  /\ RoutesOf \in [Instance -> SUBSET Route]
  /\ Environments \subseteq [username : STRING \ {""}, password : STRING \ {""}]
  /\ MaxCrashes \in Nat

VARIABLES
  phase,        \* phase[i]: what the process of i does next
  object,       \* object[i]: the schema object it has come to
  env,          \* env[i]: CLIENT_APPLICATION_1_USERNAME and _PASSWORD
  missing,      \* missing[i]: the permissions its findAll did not return
  catalog,      \* the schema objects of the database
  users,        \* the rows of `users`, as [username, password]
  permissions,  \* the names in `permissions`
  crashes,
  conflicted,   \* history: the last process of i ended on a database conflict
  company,      \* history: another instance ran while that process did
  seededSince   \* history: seededSince[i], the credentials seeded since i's own

processVars == <<phase, object, env, missing>>
database == <<catalog, users, permissions>>
history == <<conflicted, company, seededSince>>
bootVars == <<processVars, database, crashes, history>>

Phases == {"down", "check", "create", "seed", "find", "insert", "serving"}

\* What the statements before the seed create, in the order they are issued.
syncModels == <<"api_clients", "permissions", "api_client_permissions">>
migrateUsersTable == <<"users">>
migrateRequestLogsTable ==
  <<"request_logs", "request_logs timing columns", "request_logs indexes">>
migrateIntegrationCallLogsTable ==
  <<"integration_call_logs", "integration_call_logs indexes">>

SchemaObjects ==
  syncModels \o migrateUsersTable \o migrateRequestLogsTable \o migrateIntegrationCallLogsTable

\* ALTER TABLE locks the table before it looks whether the columns exist.
LockedFirst == {"request_logs timing columns"}

Objects == DOMAIN SchemaObjects

BootInit ==
  /\ phase = [i \in Instance |-> "down"]
  /\ object = [i \in Instance |-> 1]
  /\ env \in [Instance -> Environments]
  /\ missing = [i \in Instance |-> {}]
  /\ catalog = {}
  /\ users = {}
  /\ permissions = {}
  /\ crashes = 0
  /\ conflicted = [i \in Instance |-> FALSE]
  /\ company = [i \in Instance |-> FALSE]
  /\ seededSince = [i \in Instance |-> {}]

-----------------------------------------------------------------------------
(* Names of permissions, once in the scanner and once in the guard. *)

scannedPermission(route) == <<route.controller, route.verb>>
requiredPermission(route) == <<route.controller, route.verb>>

\* Mutant of discoverPermissions: methods no rule fits are passed over.
discoverPermissionsByRule(i) ==
  {scannedPermission(route) : route \in {r \in RoutesOf[i] : r.verb \in Verbs}}

discoverPermissions(i) == {scannedPermission(route) : route \in RoutesOf[i]}

-----------------------------------------------------------------------------
(* A process.  `noticed` is the trace a step of i leaves with the others.   *)

noticed(i) == [j \in Instance |-> company[j] \/ (j # i /\ phase[j] # "down")]

goTo(i, p) == phase' = [phase EXCEPT ![i] = p]

Start(i) ==
  /\ phase[i] = "down"
  /\ \E e \in Environments : env' = [env EXCEPT ![i] = e]
  /\ goTo(i, "check")
  /\ object' = [object EXCEPT ![i] = 1]
  /\ missing' = [missing EXCEPT ![i] = {}]
  /\ conflicted' = [conflicted EXCEPT ![i] = FALSE]
  /\ company' = [noticed(i) EXCEPT ![i] = \E j \in Instance : phase[j] # "down"]
  /\ UNCHANGED <<database, crashes, seededSince>>

\* The process ends with the error; the statement that failed did nothing.
conflict(i) ==
  /\ goTo(i, "down")
  /\ conflicted' = [conflicted EXCEPT ![i] = TRUE]
  /\ UNCHANGED <<catalog, permissions>>

\* Mutant of advance: one statement too many.
advancePastEnd(i) ==
  /\ object' = [object EXCEPT ![i] = @ + 1]
  /\ goTo(i, IF object[i] <= Len(SchemaObjects) THEN "check" ELSE "seed")

advance(i) ==
  \/ /\ object[i] < Len(SchemaObjects)
     /\ object' = [object EXCEPT ![i] = @ + 1]
     /\ goTo(i, "check")
  \/ /\ object[i] = Len(SchemaObjects)
     /\ UNCHANGED object
     /\ goTo(i, "seed")

\* Mutant of exists: the statements lack IF NOT EXISTS.
existsNever(i) == FALSE

exists(i) == SchemaObjects[object[i]] \in catalog

\* The first half of a CREATE ... IF NOT EXISTS, or the whole of an ALTER.
Check(i) ==
  /\ phase[i] = "check"
  /\ \/ exists(i) /\ advance(i)
     \/ ~exists(i) /\ SchemaObjects[object[i]] \in LockedFirst /\ advance(i)
     \/ ~exists(i) /\ SchemaObjects[object[i]] \notin LockedFirst
        /\ goTo(i, "create") /\ UNCHANGED object
  /\ catalog' = IF SchemaObjects[object[i]] \in LockedFirst
                THEN catalog \cup {SchemaObjects[object[i]]}
                ELSE catalog
  /\ company' = noticed(i)
  /\ UNCHANGED <<env, missing, users, permissions, crashes, conflicted, seededSince>>

\* The second half, which a concurrent transaction may have forestalled: the
\* unique indexes of the system catalog then refuse the statement.
Create(i) ==
  /\ phase[i] = "create"
  /\ \/ /\ SchemaObjects[object[i]] \notin catalog
        /\ catalog' = catalog \cup {SchemaObjects[object[i]]}
        /\ advance(i)
        /\ UNCHANGED <<permissions, conflicted>>
     \/ /\ SchemaObjects[object[i]] \in catalog
        /\ conflict(i)
        /\ UNCHANGED object
  /\ company' = noticed(i)
  /\ UNCHANGED <<env, missing, users, crashes, seededSince>>

\* Mutant of upsert: ON CONFLICT (username) DO NOTHING.
upsertDoNothing(e) == IF \E u \in users : u.username = e.username THEN users ELSE users \cup {e}

upsert(e) == {u \in users : u.username # e.username} \cup {e}

seedDefaultUser(i) ==
  /\ phase[i] = "seed"
  /\ users' = upsert(env[i])
  /\ seededSince' = [[j \in Instance |-> seededSince[j] \cup {env[i]}] EXCEPT ![i] = {}]
  /\ goTo(i, "find")
  /\ company' = noticed(i)
  /\ UNCHANGED <<object, env, missing, catalog, permissions, crashes, conflicted>>

\* Mutant of absent: the names that exist are not taken out.
absentAll(i) == discoverPermissions(i)

absent(i) == discoverPermissions(i) \ permissions

\* ensurePermissionsExist up to its second await.
FindPermissions(i) ==
  /\ phase[i] = "find"
  /\ missing' = [missing EXCEPT ![i] = absent(i)]
  /\ goTo(i, IF absent(i) = {} THEN "serving" ELSE "insert")
  /\ company' = noticed(i)
  /\ UNCHANGED <<object, env, database, crashes, conflicted, seededSince>>

\* bulkCreate: one INSERT, which the unique index on the name accepts as a
\* whole or refuses as a whole.
InsertPermissions(i) ==
  /\ phase[i] = "insert"
  /\ \/ /\ missing[i] \cap permissions = {}
        /\ permissions' = permissions \cup missing[i]
        /\ goTo(i, "serving")
        /\ UNCHANGED <<catalog, conflicted>>
     \/ missing[i] \cap permissions # {} /\ conflict(i)
  /\ company' = noticed(i)
  /\ UNCHANGED <<object, env, missing, users, crashes, seededSince>>

\* A process dies, is stopped, or gives up because another service it connects
\* to while starting does not answer.
Crash(i) ==
  /\ phase[i] # "down"
  /\ crashes < MaxCrashes
  /\ crashes' = crashes + 1
  /\ goTo(i, "down")
  /\ UNCHANGED <<object, env, missing, database, history>>

Run(i) ==
  \/ Start(i)
  \/ Check(i)
  \/ Create(i)
  \/ seedDefaultUser(i)
  \/ FindPermissions(i)
  \/ InsertPermissions(i)

BootNext == \E i \in Instance : Run(i) \/ Crash(i)

BootSpec == BootInit /\ [][BootNext]_bootVars

\* A statement of the database ends, and an instance that is down is started
\* again; nothing has to crash.
BootFairness == \A i \in Instance : WF_bootVars(Run(i))

FairBootSpec == BootSpec /\ BootFairness

-----------------------------------------------------------------------------
(* Properties. *)

\* AuthService.validateBasicCredentials against the hash of a seeded row.
validateBasicCredentials(username, password) ==
  /\ username # "" /\ password # ""
  /\ \E u \in users : u.username = username /\ u.password = password

\* Each variable has its type.
BootTypeOK ==
  /\ phase \in [Instance -> Phases]
  /\ object \in [Instance -> Objects]
  /\ env \in [Instance -> Environments]
  /\ missing \in [Instance -> SUBSET (STRING \X STRING)]
  /\ catalog \subseteq {SchemaObjects[o] : o \in Objects}
  /\ users \subseteq Environments
  /\ permissions \subseteq (STRING \X STRING)
  /\ crashes \in 0 .. MaxCrashes
  /\ conflicted \in [Instance -> BOOLEAN]
  /\ company \in [Instance -> BOOLEAN]
  /\ seededSince \in [Instance -> SUBSET Environments]

\* An instance that serves finds a permission in the database for each of its
\* routes, under the name PermissionGuard asks for: whatever it read before
\* other instances wrote, crashed or failed.
EveryRouteHasItsPermission ==
  \A i \in Instance : phase[i] = "serving" =>
    \A route \in RoutesOf[i] : requiredPermission(route) \in permissions

\* An instance that serves accepts the credentials of its own environment, as
\* long as no instance has seeded another password for that user after it.
OwnCredentialsAccepted ==
  \A i \in Instance :
    /\ phase[i] \in {"find", "insert", "serving"}
    /\ \A e \in seededSince[i] : e.username = env[i].username => e = env[i]
    => validateBasicCredentials(env[i].username, env[i].password)

\* Every start is repeatable: whatever crashes have left in the database, a
\* start fails on a conflict only where another instance ran at the same time.
ConflictOnlyInCompany ==
  \A i \in Instance : conflicted[i] => company[i]

\* However the instances race, and wherever they are stopped, all of them come
\* to serve: a lost race is over after the restart.
EveryInstanceServes == <>[](\A i \in Instance : phase[i] = "serving")

=============================================================================
