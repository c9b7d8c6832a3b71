------------------------------ MODULE Migration ------------------------------
(***************************************************************************)
(* Databases on their way to version 1.1.0, where a set has a device id of *)
(* its own.  Servers migrate the databases they find, or check that it was *)
(* done, before they serve; a tenant's database is also migrated when the  *)
(* tenant is provisioned and by the migrate command.  Each of these is a   *)
(* migrator here.  They may run at the same time, be stopped anywhere and  *)
(* start again, while servers that are up write to the databases.          *)
(***************************************************************************)
CONSTANTS
    Migrators,  \* servers that start, commands, requests to provision
    Tenants,    \* databases of tenants
    DefaultDb,  \* the database of requests without a tenant
    Places,     \* places for documents in a collection
    AuthIds,    \* ids of sets, which once were ids of devices
    Many,       \* sets with several attributes, encoded in any order each time
    Statuses,   \* what else a document tells about its set
    Updaters,   \* status updates under way at a time
    NoDoc,      \* no document
    NoDb        \* no database

Dbs == Tenants \cup {DefaultDb}

ASSUME OneDefault == DefaultDb \notin Tenants /\ NoDb \notin Dbs

\* A device id is missing from a document of the old shape, is the set's own id
\* after the migration, or was given by a request.
Doc == [id : AuthIds, device : {"unset", "own", "given"}, status : Statuses]

ASSUME NoDocument == NoDoc \notin Doc

\* What a status update has read of a set.
Read == [db : Dbs, id : AuthIds, device : {"unset", "own", "given"}]

VARIABLES
    docs,      \* documents of each database, by place
    indexed,   \* databases whose index makes ids unique
    listed,    \* databases that exist
    recorded,  \* databases whose migration to 1.1.0 is recorded
    mig,       \* migrators
    kept,      \* sets of each database that no request deleted (history)
    early,     \* databases that requests came to before the record (history)
    held       \* what each status update under way has read: one set, or none yet

vars == <<docs, indexed, listed, recorded, mig, kept, early, held>>

Of(c, i) == {p \in Places : c[p] # NoDoc /\ c[p].id = i}

Unique(c) == \A i \in AuthIds : \A p, q \in Of(c, i) : p = q

\* "server" only checks versions; "automigrate" and "tenant" migrate.  "found" and
\* "rival" are history: the databases of a server, and whether another migrator
\* recorded the one that this is at.
Migrator ==
    [at : {"idle", "next", "up", "index", "record", "serving"},
     kind : {"server", "automigrate", "tenant"},
     found : SUBSET Dbs, todo : SUBSET Dbs, db : Dbs \cup {NoDb},
     rest : SUBSET Places, batch : SUBSET Doc, rival : BOOLEAN]

Idle == [at |-> "idle", kind |-> "server", found |-> {}, todo |-> {}, db |-> NoDb,
         rest |-> {}, batch |-> {}, rival |-> FALSE]

TypeOK ==
    /\ docs \in [Dbs -> [Places -> Doc \cup {NoDoc}]]
    /\ indexed \subseteq listed /\ \A d \in indexed : Unique(docs[d])
    /\ recorded \subseteq indexed /\ listed \subseteq Dbs
    /\ mig \in [Migrators -> Migrator]
    /\ kept \in [Dbs -> SUBSET AuthIds]
    /\ early \subseteq Dbs
    /\ held \in [Updaters -> SUBSET Read]

\* What an earlier version left: documents of the old shape, with or without index,
\* as this one does not tell.
Init ==
    /\ docs \in [Dbs -> {c \in [Places -> {e \in Doc : e.device = "unset"} \cup {NoDoc}] :
                            Unique(c)}]
    /\ indexed \in SUBSET Dbs
    /\ listed = {d \in Dbs : d \in indexed \/ \E p \in Places : docs[d][p] # NoDoc}
    /\ recorded = {}
    /\ mig = [m \in Migrators |-> Idle]
    /\ kept = [d \in Dbs |-> {i \in AuthIds : Of(docs[d], i) # {}}]
    /\ early = {}
    /\ held = [u \in Updaters |-> {}]

-----------------------------------------------------------------------------
(* Which databases.                                                        *)

Goes(m, state) ==
    /\ mig' = [mig EXCEPT ![m] = state]
    /\ UNCHANGED <<docs, indexed, listed, recorded, kept, early, held>>

Starts(m, kind, dbs) ==
    /\ mig[m].at = "idle"
    /\ Goes(m, [Idle EXCEPT !.at = "next", !.kind = kind, !.found = dbs, !.todo = dbs])

\* Wrong: looks at the default database only.
MigrateDefault(m) == \E kind \in {"server", "automigrate"} : Starts(m, kind, {DefaultDb})

\* A server takes the tenants' databases that exist, or else the default one.
Migrate(m) ==
    \E kind \in {"server", "automigrate"} :
        Starts(m, kind, IF listed \cap Tenants = {} THEN {DefaultDb} ELSE listed \cap Tenants)

\* Provisioning and the migrate command take one.
MigrateTenant(m) == \E d \in Dbs : Starts(m, "tenant", {d})

\* An error of the database, or the end of the process.
Stop(m) == mig[m].at # "idle" /\ Goes(m, Idle)

\* Wrong: a database that needs migration is passed over.
ApplyLenient(m) ==
    /\ mig[m].at = "next"
    /\ \E d \in mig[m].todo :
          IF d \in recorded \/ mig[m].kind = "server"
          THEN Goes(m, [mig[m] EXCEPT !.todo = @ \ {d}])
          ELSE Goes(m, [mig[m] EXCEPT !.todo = @ \ {d}, !.at = "up", !.db = d, !.rest = Places])

\* Wrong: does not look at the record.
ApplyAlways(m) ==
    /\ mig[m].at = "next"
    /\ \E d \in mig[m].todo :
          IF mig[m].kind = "server"
          THEN Goes(m, IF d \in recorded THEN [mig[m] EXCEPT !.todo = @ \ {d}] ELSE Idle)
          ELSE Goes(m, [mig[m] EXCEPT !.todo = @ \ {d}, !.at = "up", !.db = d, !.rest = Places])

\* Reads the record of the next database: passes over one that is migrated already,
\* and fails or migrates otherwise.
Apply(m) ==
    /\ mig[m].at = "next"
    /\ \E d \in mig[m].todo :
          \/ d \in recorded /\ Goes(m, [mig[m] EXCEPT !.todo = @ \ {d}])
          \/ d \notin recorded /\ mig[m].kind = "server" /\ Goes(m, Idle)
          \/ /\ d \notin recorded /\ mig[m].kind # "server"
             /\ Goes(m, [mig[m] EXCEPT !.todo = @ \ {d}, !.at = "up", !.db = d, !.rest = Places])

\* After the last database a server serves.
Finish(m) ==
    /\ mig[m].at = "next" /\ mig[m].todo = {}
    /\ Goes(m, IF mig[m].kind = "tenant" THEN Idle ELSE [mig[m] EXCEPT !.at = "serving"])

-----------------------------------------------------------------------------
(* One database.                                                           *)

\* The cursor fetches documents in batches.
Fetch(m) ==
    /\ mig[m].at = "up"
    /\ \E ps \in SUBSET mig[m].rest \ {{}} :
          Goes(m, [mig[m] EXCEPT
                      !.rest = @ \ ps,
                      !.batch = @ \cup ({docs[mig[m].db][p] : p \in ps} \ {NoDoc})])

Migrated(old) == [old EXCEPT !.device = "own"]

\* The selector is a whole document, but a field that is missing from it selects
\* nothing; the order of attributes has to be the stored one.
Selects(old, doc) ==
    /\ doc # NoDoc
    /\ doc.id = old.id /\ doc.status = old.status
    /\ old.device \in {"unset", doc.device}

Wrote(d, c) ==
    /\ docs' = [docs EXCEPT ![d] = c]
    /\ UNCHANGED <<indexed, recorded, kept, early, held>>

\* Replaces a document that is selected.  If there is none, inserts one.
Upsert(m, old, c) ==
    LET selected == {p \in Places : Selects(old, c[p])}
    IN \/ \E p \in selected : Wrote(mig[m].db, [c EXCEPT ![p] = Migrated(old)])
       \/ /\ selected = {} \/ old.id \in Many
          /\ mig[m].db \in indexed => Of(c, old.id) = {}
          /\ \E p \in Places : c[p] = NoDoc /\ Wrote(mig[m].db, [c EXCEPT ![p] = Migrated(old)])

Up(m) ==
    /\ mig[m].at = "up"
    /\ \E old \in mig[m].batch :
          /\ Upsert(m, old, docs[mig[m].db])
          /\ mig' = [mig EXCEPT ![m].batch = @ \ {old}]
    /\ listed' = listed \cup {mig[m].db}

\* Wrong: some documents are left.
CloseEarly(m) ==
    /\ mig[m].at = "up" /\ mig[m].rest = {}
    /\ Goes(m, [mig[m] EXCEPT !.at = "index", !.batch = {}])

Close(m) ==
    /\ mig[m].at = "up" /\ mig[m].rest = {} /\ mig[m].batch = {}
    /\ Goes(m, [mig[m] EXCEPT !.at = "index"])

\* Wrong: goes on without the index.
EnsureIndexesAnyway(m) ==
    /\ mig[m].at = "index"
    /\ mig' = [mig EXCEPT ![m].at = "record"]
    /\ indexed' = indexed \cup {mig[m].db}
    /\ listed' = listed \cup {mig[m].db}
    /\ UNCHANGED <<docs, recorded, kept, early, held>>

\* Ids that are not unique are an error.
EnsureIndexes(m) ==
    /\ mig[m].at = "index"
    /\ Unique(docs[mig[m].db])
    /\ mig' = [mig EXCEPT ![m].at = "record"]
    /\ indexed' = indexed \cup {mig[m].db}
    /\ listed' = listed \cup {mig[m].db}
    /\ UNCHANGED <<docs, recorded, kept, early, held>>

UpdateMigrationInfo(m) ==
    /\ mig[m].at = "record"
    /\ recorded' = recorded \cup {mig[m].db}
    /\ mig' = [n \in Migrators |->
                  IF n = m THEN [mig[m] EXCEPT !.at = "next", !.db = NoDb, !.rival = FALSE]
                  ELSE [mig[n] EXCEPT !.rival = @ \/ mig[n].db = mig[m].db]]
    /\ UNCHANGED <<docs, indexed, listed, kept, early, held>>

-----------------------------------------------------------------------------
(* Requests to the servers that are up, to any database.  A status update  *)
(* reads a set, asks deviceauth and then writes; the others write once.    *)

Served(d) ==
    /\ \E m \in Migrators : mig[m].at = "serving"
    /\ early' = IF d \in recorded THEN early ELSE early \cup {d}
    /\ UNCHANGED <<recorded, mig>>

\* An upsert by id, of the fields that are not empty; the index comes first.
PutDeviceAuth(d, i, device, status) ==
    /\ Unique(docs[d])
    /\ indexed' = indexed \cup {d} /\ listed' = listed \cup {d}
    /\ \/ \E p \in Of(docs[d], i) :
             docs' = [docs EXCEPT ![d][p].device = IF device = "unset" THEN @ ELSE device,
                                  ![d][p].status = status]
       \/ /\ Of(docs[d], i) = {}
          /\ \E p \in Places :
                /\ docs[d][p] = NoDoc
                /\ docs' = [docs EXCEPT ![d][p] =
                              [id |-> i, device |-> device, status |-> status]]

\* A preauthorization is one of a set that is not there.
SubmitDeviceAuth(d, i) ==
    /\ Served(d)
    /\ \E status \in Statuses : PutDeviceAuth(d, i, "given", status)
    /\ kept' = [kept EXCEPT ![d] = @ \cup {i}]
    /\ UNCHANGED held

\* A status update begins: it finds the set.
GetDeviceAuth(u, d, i) ==
    /\ held[u] = {}
    /\ Served(d)
    /\ \E p \in Of(docs[d], i) :
          held' = [held EXCEPT ![u] = {[db |-> d, id |-> i, device |-> docs[d][p].device]}]
    /\ UNCHANGED <<docs, indexed, listed, kept>>

\* It ends without a write: deviceauth refused or did not answer, the database failed,
\* or the process ended.
GiveUp(u) ==
    /\ held[u] # {}
    /\ held' = [held EXCEPT ![u] = {}]
    /\ UNCHANGED <<docs, indexed, listed, recorded, mig, kept, early>>

\* It writes the new status with the device id that it read, whatever became of the set
\* since.  The write may reach the database when the server has already stopped.
UpdateDeviceAuthStatus(u) ==
    \E r \in held[u] :
        /\ \E status \in Statuses : PutDeviceAuth(r.db, r.id, r.device, status)
        /\ kept' = [kept EXCEPT ![r.db] = @ \cup {r.id}]
        /\ held' = [held EXCEPT ![u] = {}]
        /\ UNCHANGED <<recorded, mig, early>>

\* deviceauth takes a preauthorized set: the status of one that is there.
AcceptDevicePreAuth(d, i) ==
    /\ Served(d)
    /\ Of(docs[d], i) # {}
    /\ \E status \in Statuses : PutDeviceAuth(d, i, "unset", status)
    /\ UNCHANGED <<kept, held>>

DeleteDeviceAuth(d, i) ==
    /\ Served(d)
    /\ \E p \in Of(docs[d], i) : docs' = [docs EXCEPT ![d][p] = NoDoc]
    /\ kept' = [kept EXCEPT ![d] = @ \ {i}]
    /\ UNCHANGED <<indexed, listed, held>>

Run(m) ==
    \/ Apply(m) \/ Finish(m) \/ Fetch(m) \/ Up(m) \/ Close(m)
    \/ EnsureIndexes(m) \/ UpdateMigrationInfo(m)

Next ==
    \/ \E m \in Migrators : Migrate(m) \/ MigrateTenant(m) \/ Stop(m) \/ Run(m)
    \/ \E d \in Dbs, i \in AuthIds :
          \/ SubmitDeviceAuth(d, i)
          \/ AcceptDevicePreAuth(d, i)
          \/ DeleteDeviceAuth(d, i)
          \/ \E u \in Updaters : GetDeviceAuth(u, d, i)
    \/ \E u \in Updaters : UpdateDeviceAuthStatus(u) \/ GiveUp(u)

Spec == Init /\ [][Next]_vars

-----------------------------------------------------------------------------
(* Properties.                                                             *)

\* Where the documents of the old shape are in a database.
OldShape(d) == {p \in Places : docs[d][p] # NoDoc /\ docs[d][p].device = "unset"}

\* A database that no request came to before its migration was recorded has each set
\* exactly once and with a device id, however often the migration was stopped and
\* run again, and whoever else ran it meanwhile: none is left out, lost or doubled.
MigratedOnce ==
    \A d \in recorded \ early :
        /\ \A i \in kept[d] : \E p \in Places : Of(docs[d], i) = {p}
        /\ OldShape(d) = {}

\* A server that is up has found the databases it looked for migrated, by itself or
\* by others; with one that is not it does not come up.
ServesMigrated ==
    \A m \in Migrators : mig[m].at = "serving" => mig[m].found \subseteq recorded

\* While a server is up, only the default database may hold documents of the old
\* shape: because the server found tenants' databases and looked no further, or
\* because another that had done so let requests write before the migration.
OldShapeOnlyInDefault ==
    \A m \in Migrators, d \in Dbs :
        mig[m].at = "serving" /\ OldShape(d) # {} =>
            d = DefaultDb /\ (d \in early \/ d \notin mig[m].found)

\* m writes a set's own id over the device id that a request gave.
Overwrites(m) ==
    \E p \in Places :
        LET old == docs[mig[m].db][p] new == docs'[mig[m].db][p]
        IN NoDoc \notin {old, new} /\ old.device = "given" /\ new.device = "own"

\* m brings a set back that a request deleted.
Revives(m) ==
    \E i \in AuthIds \ kept[mig[m].db] :
        Of(docs[mig[m].db], i) = {} /\ Of(docs'[mig[m].db], i) # {}

\* A migration undoes what a request did, in one of these ways, only if requests came
\* before the database was recorded, or another migrator recorded it while this one
\* was under way.
UndoingIsExplained ==
    [][\A m \in Migrators :
          Up(m) /\ (Overwrites(m) \/ Revives(m)) =>
              mig[m].db \in early \/ mig[m].rival]_vars

\* What requests see of the documents of a set.
Seen(d, i) == {[status |-> docs[d][p].status, given |-> docs[d][p].device = "given"] :
                  p \in Of(docs[d], i)}

Store == INSTANCE SetStore
             WITH sets <- [d \in Dbs |-> [i \in AuthIds |-> Seen(d, i)]],
                  asked <- [u \in Updaters |->
                              {[db |-> r.db, id |-> r.id, given |-> r.device = "given"] :
                                  r \in held[u]}],
                  raced <- {mig[m].db : m \in {n \in Migrators : mig[n].rival}}

\* Migrations are not seen: whoever runs them, stops or starts them again, a set keeps
\* what its documents told until a request changes it, if with what it read before, and a
\* set that was deleted stays away unless an update that had read it writes, but for
\* databases with early requests or late migrators (migration_1_1_0.go).
MigrationIsNotSeen == Store!Spec

\* What src/store/mongo/migration_1_1_0.go:31-34 says of the migration: it moves
\* device ids that were ids.  It does so for every document, of either shape.
GivenIdsStay == [][\A m \in Migrators : Up(m) => ~Overwrites(m)]_vars
=============================================================================
