---------------------------- MODULE DevAdmClaims ----------------------------
(***************************************************************************)
(* What the documents of the repository say about these requests and the   *)
(* code does not keep.  Each is refuted by a run of its own; the README    *)
(* quotes the document and describes the behaviour that TLC finds.         *)
(***************************************************************************)
EXTENDS DevAdmProperties, TLC

\* Requests have no order and no identity of their own.
Symmetry == Permutations(Reqs)

\* docs/management_api.yml:99, POST /devices: "The device identity data set must
\* not yet exist in the DB (regardless of status)".  PreauthorizeDevice looks
\* for it before it inserts, and nothing holds between the two.
PreauthorizedIdentityIsNew ==
    [][\A r \in Reqs :
          PreauthorizeInsert(r) /\ store' # store =>
              OfIdentity(store, dev[r].identity) = {}]_vars

\* docs/internal_api.yml:66, PUT /devices/{id}/status: "The only possible status
\* transition using this endpoint is from 'preauthorized' to 'accepted'".
\* AcceptDevicePreAuth updates by id alone, whatever the status has become.
ClaimsOnlyPreauthorized ==
    [][\A r \in Reqs :
          AcceptPreAuthUpdate(r) /\ store' # store =>
              store[req[r].id].status = "preauthorized"]_vars

\* docs/management_api.yml:275-279, PUT /devices/{id}/status: the valid
\* transitions are between 'accepted' and 'rejected' and from 'pending' to
\* either; :308, any other is a bad request.  updateDeviceAuthStatus does not
\* look at the status of the set.
OnlyValidTransitions ==
    [][\A r \in Reqs :
          UpdateStatusPut(r) /\ store' # store /\ Found(r) =>
              store[req[r].id].status \in {"pending"} \cup Decided]_vars

\* docs/internal_api.yml:34, DELETE /devices: 204 means "Authentication data sets
\* removed.", and :39 an error is a 500.  DeleteDeviceAuthByDevice returns nil
\* for an error of the database.
DeviceDataRemoved ==
    [][\A r \in Reqs :
          DeleteDeviceData(r) /\ reply'[r] = 204 =>
              OfDevice(store', dev[r].deviceId) = {}]_vars
=============================================================================
