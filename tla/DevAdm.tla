------------------------------- MODULE DevAdm -------------------------------
(***************************************************************************)
(* The requests that change authentication sets, from the HTTP handlers of *)
(* api/http through devadm.DevAdm to the database and to the deviceauth    *)
(* service.  Every request runs in its own goroutine (or in another replica*)
(* of the service): between its database operations and its call to        *)
(* deviceauth any other request may take steps.  Nothing orders two        *)
(* requests for the same set: there is no lock and no transaction.         *)
(*                                                                         *)
(* A handler is a sequence of phases, pc[r]:                               *)
(*   idle    the request has not arrived                                   *)
(*   check   the handler is about to read the database                     *)
(*   wait    the handler waits for deviceauth to answer its call           *)
(*   write   the handler is about to write the database                    *)
(*   done    the response has been written                                 *)
(*   crashed the process stopped before that                               *)
(***************************************************************************)
EXTENDS DataStoreMongo

CONSTANTS
    Reqs,        \* the requests of a behaviour; each arrives at most once
    Offered,     \* the operations that clients ask for
    Faults       \* the faults that may happen: "db", "timeout", "crash"

\* InsertDeviceAuth draws fresh ObjectIds for the set and for its device: the
\* ones that request r would draw are called r.
ASSUME MintedIds == Reqs \subseteq AuthIds /\ Reqs \subseteq DeviceIds

Ops == {"submit", "update", "acceptPreauth", "delete", "deleteInternal",
        "deleteByDevice", "preauthorize"}

ASSUME ZeroValues ==
    /\ Unset \notin AuthIds \cup DeviceIds \cup Idents \cup Status \cup Ops
    /\ NoDoc \notin Doc

ASSUME OfferedOps == Offered \subseteq Ops \cup {"badRequest"}

ASSUME FaultKinds == Faults \subseteq {"db", "timeout", "crash"}

VARIABLES
    pc,          \* pc[r]: the phase of request r
    req,         \* req[r]: the operation and the set id it addresses
    dev,         \* dev[r]: the model.DeviceAuth that the handler holds
    call,        \* call[r]: r's call to deviceauth, as deviceauth sees it
    reply,       \* reply[r]: the HTTP status that r was answered with
    store,       \* the collection
    devauth,     \* devauth[i]: the status deviceauth was last told for set i
    past         \* past[r]: the requests that were over when r arrived (history)

vars == <<pc, req, dev, call, reply, store, devauth, past>>

Phases == {"idle", "check", "wait", "write", "done", "crashed"}

\* ok: carried out; usage: 422 with an API error; error: any other answer.
Calls == {"none", "sent", "ok", "usage", "error"}

Replies == {0, 200, 201, 204, 400, 404, 409, 422, 500}

TypeOK ==
    /\ pc \in [Reqs -> Phases]
    /\ req \in [Reqs -> [op : Ops \cup {Unset}, id : AuthIds \cup {Unset}]]
    /\ dev \in [Reqs -> Doc]
    /\ call \in [Reqs -> Calls]
    /\ reply \in [Reqs -> Replies]
    /\ store \in Collection
    /\ devauth \in [AuthIds -> Status \cup {Unset}]
    /\ past \in [Reqs -> SUBSET Reqs]

Init ==
    /\ pc = [r \in Reqs |-> "idle"]
    /\ req = [r \in Reqs |-> [op |-> Unset, id |-> Unset]]
    /\ dev = [r \in Reqs |-> Blank]
    /\ call = [r \in Reqs |-> "none"]
    /\ reply = [r \in Reqs |-> 0]
    /\ store = [i \in AuthIds |-> NoDoc]
    /\ devauth = [i \in AuthIds |-> Unset]
    /\ past = [r \in Reqs |-> {}]

-----------------------------------------------------------------------------
(* Arrival: the handler has validated its input and picked an operation.   *)

InFlight == {r \in Reqs : pc[r] \in {"check", "wait", "write"}}

Over == {r \in Reqs : pc[r] \in {"done", "crashed"}}

\* The ids a client can name: its own, and those drawn by an insertion, which listings and
\* deviceauth tell even when the set is gone again.  (If the insertion stored nothing and
\* nobody was told, the id is no different from one of the client's own.)
KnownIds ==
    {i \in AuthIds : i \in Reqs => req[i].op = "preauthorize" /\ dev[i].deviceId # Unset}

KnownDevices == {d \in DeviceIds : d \in Reqs => d \in KnownIds}

Arrive(r, op, i, d, phase) ==
    /\ pc[r] = "idle"
    /\ op \in Offered
    /\ pc' = [pc EXCEPT ![r] = phase]
    /\ req' = [req EXCEPT ![r] = [op |-> op, id |-> i]]
    /\ dev' = [dev EXCEPT ![r] = d]
    /\ past' = [past EXCEPT ![r] = Over]
    /\ UNCHANGED <<call, reply, store, devauth>>

\* PUT /devices/{id}: deviceauth submits a set, complete and to be pending.
SubmitDeviceHandler(r) ==
    \E i \in KnownIds, d \in KnownDevices, n \in Idents :
        Arrive(r, "submit", i,
               [deviceId |-> d, identity |-> n, status |-> "pending"], "write")

\* PUT /devices/{id}/status with one of the two statuses it takes.
UpdateDeviceStatusHandler(r) ==
    \E i \in KnownIds, s \in {"accepted", "rejected"} :
        Arrive(r, "update", i, [Blank EXCEPT !.status = s], "check")

\* PUT /devices/{id}/status of the internal API; "accepted" is all it takes.
AcceptPreauthorizedHandler(r) ==
    \E i \in KnownIds :
        Arrive(r, "acceptPreauth", i, [Blank EXCEPT !.status = "accepted"], "check")

\* DELETE /devices/{id} of the management API.
DeleteDeviceManagementHandler(r) ==
    \E i \in KnownIds : Arrive(r, "delete", i, Blank, "check")

\* DELETE /devices/{id} of the internal API.
DeleteDeviceHandler(r) ==
    \E i \in KnownIds : Arrive(r, "deleteInternal", i, Blank, "write")

\* DELETE /devices?device_id= of the internal API.
DeleteDevicesHandler(r) ==
    \E d \in KnownDevices :
        Arrive(r, "deleteByDevice", Unset, [Blank EXCEPT !.deviceId = d], "write")

\* POST /devices: the ids of the new set are drawn when it is inserted.
PostDevicesHandler(r) ==
    \E n \in Idents :
        Arrive(r, "preauthorize", r,
               [deviceId |-> Unset, identity |-> n, status |-> "preauthorized"],
               "check")

\* A body or a parameter that any handler refuses before it does anything.
BadRequest(r) ==
    /\ pc[r] = "idle"
    /\ "badRequest" \in Offered
    /\ pc' = [pc EXCEPT ![r] = "done"]
    /\ reply' = [reply EXCEPT ![r] = 400]
    /\ UNCHANGED <<req, dev, call, store, devauth, past>>

-----------------------------------------------------------------------------
(* Phases of a handler.                                                    *)

At(r, op, phase) == pc[r] = phase /\ req[r].op = op

Go(r, phase) == pc' = [pc EXCEPT ![r] = phase] /\ reply' = reply

Answer(r, code) ==
    /\ pc' = [pc EXCEPT ![r] = "done"]
    /\ reply' = [reply EXCEPT ![r] = code]

\* A failed read tells the handler nothing and changes nothing.
ReadFails(r) == "db" \in Faults /\ Answer(r, 500)

\* A write that the database acknowledges, or one that it does not: then it
\* may have been carried out all the same.
Write(r, after, code) ==
    \/ store' = after /\ Answer(r, code)
    \/ "db" \in Faults /\ store' \in {store, after} /\ Answer(r, 500)

\* The handler calls deviceauth and waits, for as long as its timeout allows.
Propagate(r) ==
    /\ Go(r, "wait")
    /\ call' = [call EXCEPT ![r] = "sent"]

\* The set that a request addresses is in the database.
Found(r) == Exists(store, req[r].id)

-----------------------------------------------------------------------------
(* SubmitDeviceAuth                                                        *)

SubmitDeviceAuth(r) ==
    /\ At(r, "submit", "write")
    /\ Write(r, PutDeviceAuth(store, req[r].id, dev[r]), 204)
    /\ UNCHANGED <<req, dev, call, devauth, past>>

-----------------------------------------------------------------------------
(* AcceptDeviceAuth, RejectDeviceAuth: deviceauth first, then the database.*)

\* Wrong: no return when the set is not there.
UpdateStatusLookupMissing(r) ==
    /\ At(r, "update", "check")
    /\ dev' = [dev EXCEPT ![r].deviceId =
                 IF Found(r) THEN store[req[r].id].deviceId ELSE Unset]
    /\ Propagate(r)
    /\ UNCHANGED <<req, store, devauth, past>>

\* Wrong: writes before deviceauth has agreed.
UpdateStatusLookupNoCall(r) ==
    /\ At(r, "update", "check")
    /\ \/ /\ Found(r)
          /\ dev' = [dev EXCEPT ![r].deviceId = store[req[r].id].deviceId]
          /\ Go(r, "write")
       \/ ~Found(r) /\ Answer(r, 404) /\ UNCHANGED dev
    /\ UNCHANGED <<req, call, store, devauth, past>>

\* The handler takes the set's device from the document it has just read.
UpdateStatusLookup(r) ==
    /\ At(r, "update", "check")
    /\ \/ /\ Found(r)
          /\ dev' = [dev EXCEPT ![r].deviceId = store[req[r].id].deviceId]
          /\ Propagate(r)
       \/ /\ ~Found(r)
          /\ Answer(r, 404)
          /\ UNCHANGED <<dev, call>>
       \/ /\ ReadFails(r)
          /\ UNCHANGED <<dev, call>>
    /\ UNCHANGED <<req, store, devauth, past>>

\* Wrong: takes a server error for success.
UpdateStatusAnsweredLax(r) ==
    /\ At(r, "update", "wait")
    /\ \/ call[r] \in {"ok", "error"} /\ Go(r, "write")
       \/ call[r] = "usage" /\ Answer(r, 422)
    /\ UNCHANGED <<req, dev, call, store, devauth, past>>

UpdateStatusAnswered(r) ==
    /\ At(r, "update", "wait")
    /\ \/ call[r] = "ok" /\ Go(r, "write")
       \/ call[r] = "usage" /\ Answer(r, 422)
       \/ call[r] = "error" /\ Answer(r, 500)
    /\ UNCHANGED <<req, dev, call, store, devauth, past>>

UpdateStatusPut(r) ==
    /\ At(r, "update", "write")
    /\ Write(r, PutDeviceAuth(store, req[r].id, dev[r]), 200)
    /\ UNCHANGED <<req, dev, call, devauth, past>>

-----------------------------------------------------------------------------
(* AcceptDevicePreAuth: the check and the strict update are two operations;*)
(* a set that is gone by the second is an internal error.                  *)

\* Wrong: does not look at the status.
AcceptPreAuthCheckAny(r) ==
    /\ At(r, "acceptPreauth", "check")
    /\ \/ ~Found(r) /\ Answer(r, 404)
       \/ Found(r) /\ Go(r, "write")
    /\ UNCHANGED <<req, dev, call, store, devauth, past>>

AcceptPreAuthCheck(r) ==
    /\ At(r, "acceptPreauth", "check")
    /\ \/ ~Found(r) /\ Answer(r, 404)
       \/ Found(r) /\ store[req[r].id].status # "preauthorized" /\ Answer(r, 409)
       \/ Found(r) /\ store[req[r].id].status = "preauthorized" /\ Go(r, "write")
       \/ ReadFails(r)
    /\ UNCHANGED <<req, dev, call, store, devauth, past>>

AcceptPreAuthUpdate(r) ==
    /\ At(r, "acceptPreauth", "write")
    /\ \/ Found(r) /\ Write(r, UpdateDeviceAuth(store, req[r].id, dev[r]), 200)
       \/ ~Found(r) /\ Answer(r, 500) /\ UNCHANGED store
    /\ UNCHANGED <<req, dev, call, devauth, past>>

-----------------------------------------------------------------------------
(* DeleteDeviceAuthPropagate and DeleteDeviceAuth.  A set that is not there*)
(* is a success to both handlers.                                          *)

DeletePropagateLookup(r) ==
    /\ At(r, "delete", "check")
    /\ \/ /\ Found(r)
          /\ dev' = [dev EXCEPT ![r] = store[req[r].id]]
          /\ Propagate(r)
       \/ /\ ~Found(r)
          /\ Answer(r, 204)
          /\ UNCHANGED <<dev, call>>
       \/ /\ ReadFails(r)
          /\ UNCHANGED <<dev, call>>
    /\ UNCHANGED <<req, store, devauth, past>>

\* Wrong: goes on when deviceauth has failed.
DeletePropagateAnsweredLax(r) ==
    /\ At(r, "delete", "wait")
    /\ call[r] \in {"ok", "usage", "error"}
    /\ Go(r, "write")
    /\ UNCHANGED <<req, dev, call, store, devauth, past>>

\* Wrong: leaves the set in the database.
DeletePropagateAnsweredEarly(r) ==
    /\ At(r, "delete", "wait")
    /\ \/ call[r] = "ok" /\ Answer(r, 204)
       \/ call[r] \in {"usage", "error"} /\ Answer(r, 500)
    /\ UNCHANGED <<req, dev, call, store, devauth, past>>

DeletePropagateAnswered(r) ==
    /\ At(r, "delete", "wait")
    /\ \/ call[r] = "ok" /\ Go(r, "write")
       \/ call[r] \in {"usage", "error"} /\ Answer(r, 500)
    /\ UNCHANGED <<req, dev, call, store, devauth, past>>

DeleteDeviceAuth(r) ==
    /\ At(r, "delete", "write") \/ At(r, "deleteInternal", "write")
    /\ Write(r, DeleteDeviceAuths(store, {req[r].id}), 204)
    /\ UNCHANGED <<req, dev, call, devauth, past>>

\* DeleteDeviceData: DeleteDeviceAuthByDevice drops the database's error, so
\* that the handler answers 204 whatever part of the sets was removed.
DeleteDeviceData(r) ==
    /\ At(r, "deleteByDevice", "write")
    /\ LET owned == OfDevice(store, dev[r].deviceId)
       IN \/ store' = DeleteDeviceAuths(store, owned)
          \/ /\ "db" \in Faults
             /\ \E removed \in SUBSET owned :
                    store' = DeleteDeviceAuths(store, removed)
    /\ Answer(r, 204)
    /\ UNCHANGED <<req, dev, call, devauth, past>>

-----------------------------------------------------------------------------
(* PreauthorizeDevice: look for the identity, insert, then tell deviceauth.*)
(* A set whose propagation fails stays in the database.                    *)

\* Wrong: finds only sets that are preauthorized, too.
PreauthorizeCheckSome(r) ==
    /\ At(r, "preauthorize", "check")
    /\ LET same == {i \in OfIdentity(store, dev[r].identity) :
                       store[i].status = "preauthorized"}
       IN \/ same # {} /\ Answer(r, 409)
          \/ same = {} /\ Go(r, "write")
    /\ UNCHANGED <<req, dev, call, store, devauth, past>>

PreauthorizeCheck(r) ==
    /\ At(r, "preauthorize", "check")
    /\ \/ OfIdentity(store, dev[r].identity) # {} /\ Answer(r, 409)
       \/ OfIdentity(store, dev[r].identity) = {} /\ Go(r, "write")
       \/ ReadFails(r)
    /\ UNCHANGED <<req, dev, call, store, devauth, past>>

PreauthorizeInsert(r) ==
    /\ At(r, "preauthorize", "write")
    /\ LET drawn == [dev[r] EXCEPT !.deviceId = r]
           after == InsertDeviceAuth(store, r, drawn)
       IN /\ dev' = [dev EXCEPT ![r] = drawn]
          /\ \/ store' = after /\ Propagate(r)
             \/ /\ "db" \in Faults
                /\ store' \in {store, after}
                /\ Answer(r, 500)
                /\ UNCHANGED call
    /\ UNCHANGED <<req, devauth, past>>

PreauthorizeAnswered(r) ==
    /\ At(r, "preauthorize", "wait")
    /\ \/ call[r] = "ok" /\ Answer(r, 201)
       \/ call[r] \in {"usage", "error"} /\ Answer(r, 500)
    /\ UNCHANGED <<req, dev, call, store, devauth, past>>

-----------------------------------------------------------------------------
(* The call to deviceauth.                                                 *)

\* Wrong: a status that the API does not have.
GiveUpGateway(r) ==
    /\ pc[r] = "wait"
    /\ Answer(r, 504)
    /\ UNCHANGED <<req, dev, call, store, devauth, past>>

\* Wrong: no timeout for deletions.
GiveUpNotDelete(r) ==
    /\ pc[r] = "wait" /\ req[r].op # "delete"
    /\ Answer(r, 500)
    /\ UNCHANGED <<req, dev, call, store, devauth, past>>

\* The context of the call expires, its connection fails, or the client that
\* waits for the response goes away.  deviceauth may have carried the call out
\* already, and may do so later: giving up takes nothing back.
GiveUp(r) ==
    /\ "timeout" \in Faults
    /\ pc[r] = "wait"
    /\ Answer(r, 500)
    /\ UNCHANGED <<req, dev, call, store, devauth, past>>

\* deviceauth carries out a call, whoever still waits for it.
DevauthApply(r) ==
    /\ call[r] = "sent"
    /\ call' = [call EXCEPT ![r] = "ok"]
    /\ devauth' = [devauth EXCEPT ![req[r].id] =
                     IF req[r].op = "delete" THEN Unset ELSE dev[r].status]
    /\ UNCHANGED <<pc, req, dev, reply, store, past>>

DevauthRefuse(r) ==
    /\ call[r] = "sent"
    /\ \E answer \in {"usage", "error"} : call' = [call EXCEPT ![r] = answer]
    /\ UNCHANGED <<pc, req, dev, reply, store, devauth, past>>

\* The process stops: its handlers are gone, what it wrote and sent is not
\* (writes are acknowledged from the journal, SetSafe W 1, J true).
Crash ==
    /\ "crash" \in Faults
    /\ InFlight # {}
    /\ pc' = [r \in Reqs |-> IF r \in InFlight THEN "crashed" ELSE pc[r]]
    /\ UNCHANGED <<req, dev, call, reply, store, devauth, past>>

-----------------------------------------------------------------------------

Arrival(r) ==
    \/ SubmitDeviceHandler(r)
    \/ UpdateDeviceStatusHandler(r)
    \/ AcceptPreauthorizedHandler(r)
    \/ DeleteDeviceManagementHandler(r)
    \/ DeleteDeviceHandler(r)
    \/ DeleteDevicesHandler(r)
    \/ PostDevicesHandler(r)
    \/ BadRequest(r)

Handle(r) ==
    \/ SubmitDeviceAuth(r)
    \/ UpdateStatusLookup(r)
    \/ UpdateStatusAnswered(r)
    \/ UpdateStatusPut(r)
    \/ AcceptPreAuthCheck(r)
    \/ AcceptPreAuthUpdate(r)
    \/ DeletePropagateLookup(r)
    \/ DeletePropagateAnswered(r)
    \/ DeleteDeviceAuth(r)
    \/ DeleteDeviceData(r)
    \/ PreauthorizeCheck(r)
    \/ PreauthorizeInsert(r)
    \/ PreauthorizeAnswered(r)
    \/ GiveUp(r)

Devauth(r) == DevauthApply(r) \/ DevauthRefuse(r)

Next ==
    \/ \E r \in Reqs : Arrival(r) \/ Handle(r) \/ Devauth(r)
    \/ Crash

Spec == Init /\ [][Next]_vars

\* The Go scheduler runs every goroutine, database operations return within
\* the driver's timeouts, and the call to deviceauth within its context's.
\* Nothing is assumed of clients or of deviceauth.
Fairness == \A r \in Reqs : WF_vars(Handle(r))

FairSpec == Spec /\ Fairness
=============================================================================
