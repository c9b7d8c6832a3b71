-------------------------- MODULE DevAdmProperties --------------------------
(***************************************************************************)
(* What the requests of DevAdm promise about authentication sets.  The code*)
(* holds no lock across its database operations and its call to deviceauth,*)
(* so several promises can only be kept by requests that do not overlap;   *)
(* such a property says which overlap an anomaly needs.                    *)
(***************************************************************************)
EXTENDS DevAdm

Arrived(r) == req[r].op # Unset

\* r and q were in flight at the same time.
Overlapped(r, q) ==
    r # q /\ Arrived(r) /\ Arrived(q) /\ r \notin past[q] /\ q \notin past[r]

\* r may write or remove set i.
Touches(r, i) == req[r].id = i \/ req[r].op = "deleteByDevice"

Decided == {"accepted", "rejected"}

-----------------------------------------------------------------------------
(* Safety                                                                  *)

\* Nobody is let in or shut out without authority: a set is accepted or
\* rejected in the database only if deviceauth carried out that very decision
\* for it, or if it was preauthorized and deviceauth claimed it (devadm.go:
\* updateDeviceAuthStatus propagates before it writes, AcceptDevicePreAuth
\* checks before it writes).
DecisionsAuthorised ==
    \A i \in AuthIds :
        Exists(store, i) /\ store[i].status \in Decided =>
            \E r \in Reqs :
                /\ req[r].id = i
                /\ dev[r].status = store[i].status
                /\ \/ req[r].op = "update" /\ call[r] = "ok"
                   \/ /\ req[r].op = "acceptPreauth"
                      /\ \E q \in Reqs : q = i /\ req[q].op = "preauthorize"

\* A client that is told of success can rely on deviceauth: if the handler
\* called it at all, it has carried the call out.  A handler that gave up
\* waiting never reports success (client_deviceauth.go: every answer but the
\* expected one, and every transport error, is an error).
SuccessMeansApplied ==
    \A r \in Reqs :
        reply[r] \in {200, 201, 204} /\ call[r] # "none" => call[r] = "ok"

\* A preauthorized set shares its identity with another set only if a request
\* that was not over when the preauthorization arrived wrote that other set:
\* what earlier requests left is always found (devadm.go: PreauthorizeDevice
\* looks for the identity before it inserts).
ConflictsAreConcurrent ==
    \A i \in Reqs, j \in AuthIds :
        /\ i # j
        /\ Exists(store, i) /\ store[i].status = "preauthorized"
        /\ j \in OfIdentity(store, store[i].identity)
        => \E r \in Reqs :
              /\ req[r].id = j
              /\ req[r].op \in {"submit", "preauthorize"}
              /\ r \notin past[i]

\* A set without identity data is what a status update leaves of a set that a
\* deletion removed between the update's read and its upsert; nothing else
\* makes one (devadm.go: updateDeviceAuthStatus, PutDeviceAuth).
PartialSetsAreConcurrent ==
    \A i \in AuthIds :
        Exists(store, i) /\ store[i].identity = Unset =>
            \E r, q \in Reqs :
                /\ req[r].op = "update" /\ req[r].id = i
                /\ req[q].op \in {"delete", "deleteInternal", "deleteByDevice"}
                /\ Touches(q, i)
                /\ Overlapped(r, q)

\* A set whose deletion was acknowledged is back only if a submission of it was
\* not over when the deletion arrived, or a status update overlapped the
\* deletion: no finished request and no retry brings it back.
DeletedStaysDeleted ==
    \A r \in Reqs :
        /\ req[r].op \in {"delete", "deleteInternal"}
        /\ reply[r] = 204
        /\ Exists(store, req[r].id)
        => \E q \in Reqs :
              /\ req[q].id = req[r].id
              /\ \/ req[q].op = "submit" /\ q \notin past[r]
                 \/ req[q].op = "update" /\ Overlapped(r, q)

\* What a request that succeeded has made of set i.  A removal of a device's sets
\* succeeds even if the database fails.
Holds(r, i) ==
    /\ req[r].op \in {"submit", "preauthorize"} => store[i] = dev[r]
    /\ req[r].op \in {"update", "acceptPreauth"} =>
          Exists(store, i) /\ store[i].status = dev[r].status
    /\ req[r].op \in {"delete", "deleteInternal"} => ~Exists(store, i)
    /\ req[r].op = "deleteByDevice" /\ "db" \notin Faults =>
          ~(Exists(store, i) /\ store[i].deviceId = dev[r].deviceId)

\* An answer by which a request is refused.
Refused(r) == reply[r] \in {400, 404, 409, 422}

\* What a success says of a set stays true until another request for the set
\* changes it: one that was not refused, and not over when the successful one
\* arrived.  So no answer comes before its write, no write is lost or left for
\* later, and a request that is refused has changed nothing (devadm.go: each
\* operation returns after its last write).
SuccessStands ==
    \A r \in Reqs, i \in AuthIds :
        Touches(r, i) /\ reply[r] \in {200, 201, 204} =>
            \/ Holds(r, i)
            \/ \E q \in Reqs \ past[r] : q # r /\ Touches(q, i) /\ ~Refused(q)

\* Every request that concerns set i has been answered, none with an internal
\* error, and no two of them overlapped.
Undisturbed(i) ==
    \A r \in Reqs : Touches(r, i) =>
        /\ pc[r] = "done" /\ reply[r] # 500
        /\ \A q \in Reqs : Touches(q, i) => ~Overlapped(r, q)

\* Requests of the internal API, by which deviceauth tells the service what it
\* has done itself.
OnlyManaged(i) ==
    \A r \in Reqs : Touches(r, i) =>
        req[r].op \in {"submit", "update", "delete", "preauthorize"}

\* deviceauth and the database agree about a set, decided, preauthorized or
\* deleted, unless requests for it overlapped, or one of them ended in an
\* internal error or a crash: only these can make the two services diverge.
DivergenceIsExplained ==
    \A i \in AuthIds :
        Undisturbed(i) /\ OnlyManaged(i) =>
            IF ~Exists(store, i) THEN devauth[i] = Unset
            ELSE store[i].status # "pending" => devauth[i] = store[i].status

-----------------------------------------------------------------------------
(* Action properties                                                       *)

\* The internal acceptance takes a set out of another status than
\* "preauthorized" only if a request that changes its status ran between its
\* check and its update (devadm.go: AcceptDevicePreAuth).
LateAcceptanceIsConcurrent ==
    [][\A r \in Reqs :
          AcceptPreAuthUpdate(r) /\ store' # store =>
              \/ store[req[r].id].status = "preauthorized"
              \/ \E q \in Reqs :
                    /\ req[q].id = req[r].id
                    /\ req[q].op \in {"submit", "update"}
                    /\ Overlapped(r, q)]_vars

\* A decision about a set that is there changes its status and leaves its
\* identity alone; it moves the set to another device only after a submission of
\* the set overlapped this or an earlier decision, which then wrote back the
\* device id that it had read before it called deviceauth (devadm.go:
\* updateDeviceAuthStatus).
DecisionKeepsSet ==
    [][\A r \in Reqs :
          UpdateStatusPut(r) /\ Found(r) /\ store' # store =>
              LET old == store[req[r].id]
                  new == store'[req[r].id]
              IN /\ new.identity = old.identity
                 /\ new.deviceId = old.deviceId
                    \/ \E p, q \in Reqs :
                          /\ {req[p].id, req[q].id} = {req[r].id}
                          /\ req[p].op = "update" /\ req[q].op = "submit"
                          /\ Overlapped(p, q)]_vars

-----------------------------------------------------------------------------
(* Liveness                                                                *)

\* Every request is answered, whatever deviceauth does: a call that deviceauth
\* never answers ends with its context (client_deviceauth.go: WithTimeout, and
\* a default when the configuration has no timeout).  A crash ends it, too.
EveryRequestEnds ==
    \A r \in Reqs : r \in InFlight ~> r \in Over

-----------------------------------------------------------------------------
(* Refinement                                                              *)

\* The status of a set that is not there is Unset.
StatusOf(c) == [i \in AuthIds |-> IF Exists(c, i) THEN c[i].status ELSE Unset]

\* The decisions about set i that deviceauth has carried out.
Applied(i) ==
    {s \in Decided : \E r \in Reqs :
        /\ req[r] = [op |-> "update", id |-> i]
        /\ dev[r].status = s
        /\ call[r] = "ok"}

\* The sets whose ids have been drawn, which is when they are inserted.
Drawn == {r \in Reqs : req[r].op = "preauthorize" /\ dev[r].deviceId # Unset}

Lifecycle == INSTANCE AuthSetLifecycle
                 WITH status  <- StatusOf(store),
                      told    <- [i \in AuthIds |-> Applied(i)],
                      vouched <- Drawn

\* However requests overlap, fail or are cut off, each set's status keeps to
\* the life cycle of AuthSetLifecycle (devadm.go and datastore_mongo.go).
KeepsLifecycle == Lifecycle!Spec

\* The tenant whose token all requests bear, and a header without a token.
Tenant == "tenant"
NoToken == "garbage"

ASSUME TenantHasName == Unset \notin {Tenant, NoToken}

\* The requests as Tenancy sees them: a request is at "check" until it calls deviceauth
\* or writes, and at "wait" until it writes what deviceauth has agreed to.
TenancyPhase(r) ==
    CASE pc[r] = "crashed" -> "done"
      [] pc[r] = "write" /\ req[r].op \in {"update", "delete"} -> "wait"
      [] pc[r] = "write" /\ req[r].op \notin {"update", "delete", "acceptPreauth"} -> "check"
      [] OTHER -> pc[r]

TenancyCall(r) == IF call[r] \in {"usage", "error"} THEN "failed" ELSE call[r]

\* The header goes along once with a status update and twice with the other calls.
TenancySent(r) ==
    CASE call[r] = "none" -> <<>>
      [] call[r] # "none" /\ req[r].op = "update" -> <<Tenant>>
      [] OTHER -> <<Tenant, Tenant>>

Requests == INSTANCE Tenancy
                WITH AuthIds <- {Tenant} \X AuthIds,
                     Ids     <- AuthIds,
                     Tenants <- {Tenant},
                     DefaultDb <- Tenant,
                     None    <- Unset,
                     Garbage <- NoToken,
                     Offered <- Offered \ {"badRequest"},
                     status  <- [a \in {Tenant} \X AuthIds |-> StatusOf(store)[a[2]]],
                     told    <- [a \in {Tenant} \X AuthIds |-> Applied(a[2])],
                     vouched <- {Tenant} \X Drawn,
                     pc      <- [r \in Reqs |-> TenancyPhase(r)],
                     req     <- [r \in Reqs |->
                                    [op |-> req[r].op, id |-> req[r].id,
                                     to |-> IF req[r].op = "update" THEN dev[r].status
                                            ELSE Unset]],
                     header  <- [r \in Reqs |-> IF Arrived(r) THEN Tenant ELSE Unset],
                     ctx     <- [r \in Reqs |->
                                    [auth |-> IF Arrived(r) THEN <<Tenant>> ELSE <<>>,
                                     identity |-> IF Arrived(r) THEN Tenant ELSE Unset]],
                     call    <- [r \in Reqs |-> TenancyCall(r)],
                     sent    <- [r \in Reqs |-> TenancySent(r)]

\* The requests of one tenant, with their documents, faults and phases, are requests as
\* Tenancy tells them: what is shown there of several tenants is about this code.
KeepsTenancy == Requests!ServerSpec
=============================================================================
