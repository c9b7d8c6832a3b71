--------------------------- MODULE DataStoreMongo ---------------------------
(***************************************************************************)
(* The "devices" collection of one tenant database, and what the methods   *)
(* of store/mongo.DataStoreMongo do to it when the database carries them   *)
(* out.  A collection maps every authentication set id to a document or to *)
(* NoDoc: the unique index on "id" leaves at most one document per id.     *)
(* A document keeps the fields that the service decides on; key, attributes*)
(* and request_time are always written together with the identity and      *)
(* share its fate.  Unset is the Go zero value: such a field is omitted    *)
(* from documents, from filters and from $set.                             *)
(***************************************************************************)
CONSTANTS
    AuthIds,     \* ids of authentication sets
    DeviceIds,   \* ids of devices; a device owns any number of sets
    Idents,      \* identity data of devices
    Unset,       \* the zero value of a field
    NoDoc        \* what the collection holds for an id it does not know

Status == {"pending", "accepted", "rejected", "preauthorized"}

\* model.DeviceAuth, of which any field may be missing.
Doc == [deviceId : DeviceIds \cup {Unset},
        identity : Idents \cup {Unset},
        status   : Status \cup {Unset}]

Collection == [AuthIds -> Doc \cup {NoDoc}]

Blank == [deviceId |-> Unset, identity |-> Unset, status |-> Unset]

-----------------------------------------------------------------------------

Exists(c, i) == c[i] # NoDoc

\* Wrong: replaces the document.
GenDeviceAuthUpdateAll(old, dev) == dev

\* {"$set": genDeviceAuthUpdate(dev)}: only the fields that dev carries.
GenDeviceAuthUpdate(old, dev) ==
    LET Given(new, was) == IF new # Unset THEN new ELSE was
    IN [deviceId |-> Given(dev.deviceId, old.deviceId),
        identity |-> Given(dev.identity, old.identity),
        status   |-> Given(dev.status, old.status)]

\* Upsert by id: a set that is not there is created from dev's fields.
PutDeviceAuth(c, i, dev) ==
    [c EXCEPT ![i] =
        GenDeviceAuthUpdate(IF Exists(c, i) THEN c[i] ELSE Blank, dev)]

\* Update by id; it applies to a set that exists, else it is ErrNotFound.
UpdateDeviceAuth(c, i, dev) ==
    [c EXCEPT ![i] = GenDeviceAuthUpdate(c[i], dev)]

InsertDeviceAuth(c, i, dev) == [c EXCEPT ![i] = dev]

\* Remove of one id, or RemoveAll of several.
DeleteDeviceAuths(c, ids) == [i \in AuthIds |-> IF i \in ids THEN NoDoc ELSE c[i]]

\* Wrong: still filters on the set id that device ids once were.
OfDeviceById(c, d) == {i \in AuthIds : Exists(c, i) /\ i = d}

\* The filters of RemoveAll by device and of Find by identity data.
OfDevice(c, d) == {i \in AuthIds : Exists(c, i) /\ c[i].deviceId = d}

OfIdentity(c, n) == {i \in AuthIds : Exists(c, i) /\ c[i].identity = n}
=============================================================================
