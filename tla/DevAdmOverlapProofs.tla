------------------------- MODULE DevAdmOverlapProofs -------------------------
(***************************************************************************)
(* Proofs of what DevAdm's properties say of requests that overlap, for any*)
(* requests, sets, devices, identities and faults.  Each of these          *)
(* properties follows from an invariant about a request between its read   *)
(* and its write: what it has read still holds, or what it has begun is all*)
(* that the two services differ in, or some other request, in flight at the*)
(* same time, is to blame.  A blame is for ever (Stays): who was over when *)
(* a request came does not change.                                         *)
(***************************************************************************)
EXTENDS DevAdmProofs

USE MintedIds, ZeroValues

-----------------------------------------------------------------------------
(* What a step of a handler writes, field by field.                        *)

Removals == {"delete", "deleteInternal", "deleteByDevice"}

\* A write of r's set: an upsert, an update of a set that exists, an insertion.
Written(r, i) ==
    /\ pc[r] = "write" /\ req[r].id = i
    /\ \/ /\ req[r].op \in {"submit", "update"}
          /\ store'[i] = GenDeviceAuthUpdate(IF Exists(store, i) THEN store[i] ELSE Blank, dev[r])
       \/ /\ req[r].op = "acceptPreauth" /\ Exists(store, i)
          /\ store'[i] = GenDeviceAuthUpdate(store[i], dev[r])
       \/ /\ req[r].op = "preauthorize" /\ i = r
          /\ store'[i] = [dev[r] EXCEPT !.deviceId = r]

Removed(r, i) ==
    pc[r] = "write" /\ req[r].op \in Removals /\ Touches(r, i) /\ store'[i] = NoDoc

\* A handler changes only sets that its request may write or remove.
LEMMA HandleWrites ==
    ASSUME TypeInv, Carries, Draws, NEW r \in Reqs, Handle(r), NEW i \in AuthIds
    PROVE  store'[i] = store[i] \/ Written(r, i) \/ Removed(r, i)
<1>0. store \in Collection
  BY DEF TypeInv, TypeOK
<1>1. CASE SubmitDeviceAuth(r) \/ UpdateStatusPut(r)
  <2>1. /\ pc[r] = "write" /\ req[r].op \in {"submit", "update"}
        /\ store' \in {store, PutDeviceAuth(store, req[r].id, dev[r])}
    BY <1>1, WriteShape DEF SubmitDeviceAuth, UpdateStatusPut, At
  <2> QED
    BY <1>0, <2>1 DEF PutDeviceAuth, Collection, Written
<1>2. CASE AcceptPreAuthUpdate(r)
  <2>1. /\ pc[r] = "write" /\ req[r].op = "acceptPreauth"
        /\ \/ store' = store
           \/ Exists(store, req[r].id) /\ store' = UpdateDeviceAuth(store, req[r].id, dev[r])
    BY <1>2, WriteShape DEF AcceptPreAuthUpdate, At, Found
  <2> QED
    BY <1>0, <2>1 DEF UpdateDeviceAuth, Collection, Written
<1>3. CASE DeleteDeviceAuth(r)
  <2>1. /\ pc[r] = "write" /\ req[r].op \in Removals
        /\ store' \in {store, DeleteDeviceAuths(store, {req[r].id})}
    BY <1>3, WriteShape DEF DeleteDeviceAuth, At, Removals
  <2> QED
    BY <2>1 DEF DeleteDeviceAuths, Removed, Touches
<1>4. CASE DeleteDeviceData(r)
  BY <1>4 DEF DeleteDeviceData, At, DeleteDeviceAuths, Removed, Removals, Touches
<1>5. CASE PreauthorizeInsert(r)
  <2>1. /\ pc[r] = "write" /\ req[r].op = "preauthorize" /\ req[r].id = r
        /\ store' \in {store, InsertDeviceAuth(store, r, [dev[r] EXCEPT !.deviceId = r])}
    BY <1>5 DEF PreauthorizeInsert, At, Draws
  <2> QED
    BY <1>0, <2>1 DEF InsertDeviceAuth, Collection, Written
<1> QED
  BY <1>1, <1>2, <1>3, <1>4, <1>5
     DEF Handle, UpdateStatusLookup, UpdateStatusAnswered, AcceptPreAuthCheck,
         DeletePropagateLookup, DeletePropagateAnswered, PreauthorizeCheck,
         PreauthorizeAnswered, GiveUp

\* A handler keeps what its request carries, but for a device id it looks up or draws;
\* an update and a deletion call deviceauth about a set that is there; a deletion
\* that succeeds has left nothing.
LEMMA HandleDev ==
    ASSUME TypeInv, Carries, Draws, NEW r \in Reqs, Handle(r)
    PROVE  /\ req[r].op # "delete" => dev'[r].identity = dev[r].identity
           /\ req[r].op \notin {"update", "delete", "preauthorize"} => dev'[r] = dev[r]
           /\ req[r].op = "update" =>
                 IF pc'[r] = "wait"
                 THEN /\ pc[r] = "check" /\ Exists(store, req[r].id) /\ store' = store
                      /\ dev'[r].deviceId = store[req[r].id].deviceId
                 ELSE dev'[r] = dev[r]
           /\ req[r].op \in {"delete", "deleteInternal"} /\ reply'[r] = 204 /\ reply[r] # 204 =>
                 ~Exists(store', req[r].id)
<1>0. store \in Collection /\ dev \in [Reqs -> Doc] /\ dev[r] \in Doc
  BY DEF TypeInv, TypeOK
<1>1. CASE UpdateStatusLookup(r)
  <2>1. /\ req[r].op = "update" /\ pc[r] = "check" /\ store' = store
    BY <1>1 DEF UpdateStatusLookup, At
  <2>2. CASE /\ Found(r) /\ dev' = [dev EXCEPT ![r].deviceId = store[req[r].id].deviceId]
             /\ Propagate(r)
    <3>1. pc'[r] = "wait"
      BY <2>2, PropagateShape
    <3>2. dev'[r] = [dev[r] EXCEPT !.deviceId = store[req[r].id].deviceId]
      BY <1>0, <2>2
    <3>3. /\ dev'[r].identity = dev[r].identity
          /\ dev'[r].deviceId = store[req[r].id].deviceId
      BY <1>0, <3>2 DEF Doc
    <3> QED
      BY <2>1, <2>2, <3>1, <3>3 DEF Found
  <2>3. CASE dev' = dev /\ (Answer(r, 404) \/ Answer(r, 500))
    BY <2>1, <2>3, AnswerShape
  <2> QED
    BY <1>1, <2>2, <2>3 DEF UpdateStatusLookup, ReadFails
<1>2. CASE PreauthorizeInsert(r)
  <2>1. req[r].op = "preauthorize" /\ dev'[r] = [dev[r] EXCEPT !.deviceId = r]
    BY <1>0, <1>2 DEF PreauthorizeInsert, At
  <2> QED
    BY <1>0, <2>1 DEF Doc
<1>3. CASE DeletePropagateLookup(r)
  <2>1. req[r].op = "delete" /\ store' = store
    BY <1>3 DEF DeletePropagateLookup, At
  <2>2. reply'[r] = 204 /\ reply[r] # 204 => ~Found(r)
    BY <1>3, PropagateShape, AnswerShape DEF DeletePropagateLookup, ReadFails
  <2> QED
    BY <2>1, <2>2 DEF Found
<1>4. CASE DeleteDeviceAuth(r)
  <2>1. /\ dev' = dev /\ req[r].op \in {"delete", "deleteInternal"}
        /\ Write(r, DeleteDeviceAuths(store, {req[r].id}), 204)
    BY <1>4 DEF DeleteDeviceAuth, At
  <2>2. reply'[r] = 204 => store' = DeleteDeviceAuths(store, {req[r].id})
    BY <2>1, AnswerShape DEF Write
  <2>3. req[r].id \in AuthIds
    BY <2>1 DEF TypeInv, Addressed, Ops
  <2> QED
    BY <2>1, <2>2, <2>3 DEF DeleteDeviceAuths, Exists
<1>5. CASE DeletePropagateAnswered(r)
  BY <1>5, GoShape, AnswerShape DEF DeletePropagateAnswered, At
<1>6. CASE GiveUp(r)
  BY <1>6, AnswerShape DEF GiveUp
<1>7. CASE UpdateStatusAnswered(r) \/ UpdateStatusPut(r)
  BY <1>7, GoShape, AnswerShape, WriteShape DEF UpdateStatusAnswered, UpdateStatusPut, At
<1>8. CASE \/ SubmitDeviceAuth(r) \/ AcceptPreAuthCheck(r) \/ AcceptPreAuthUpdate(r)
           \/ DeleteDeviceData(r) \/ PreauthorizeCheck(r) \/ PreauthorizeAnswered(r)
  BY <1>8 DEF SubmitDeviceAuth, AcceptPreAuthCheck, AcceptPreAuthUpdate, DeleteDeviceData,
              PreauthorizeCheck, PreauthorizeAnswered, At
<1> QED
  BY <1>1, <1>2, <1>3, <1>4, <1>5, <1>6, <1>7, <1>8 DEF Handle

\* What an arrival fixes besides what Arrives names.
LEMMA ArrivalFields ==
    ASSUME TypeInv, Phased, NEW r \in Reqs, Arrival(r), ~BadRequest(r)
    PROVE  /\ pc[r] = "idle" /\ req[r].op = Unset /\ pc'[r] \in {"check", "write"}
           /\ past' = [past EXCEPT ![r] = Over]
           /\ req'[r].op \in Ops /\ UNCHANGED <<call, reply, store, devauth>>
           /\ req'[r].op \in {"update", "delete", "acceptPreauth", "preauthorize"} =>
                 pc'[r] = "check"
           /\ req'[r].op # "preauthorize" => req'[r].id \in KnownIds \cup {Unset}
           /\ \A q \in Reqs \ {r} :
                 pc'[q] = pc[q] /\ req'[q] = req[q] /\ dev'[q] = dev[q]
           /\ req'[r].op \in {"submit", "preauthorize"} => dev'[r].identity # Unset
           /\ req'[r].op \in {"update", "acceptPreauth"} =>
                 dev'[r].identity = Unset /\ dev'[r].deviceId = Unset
           /\ req'[r].op = "submit" => dev'[r].deviceId # Unset
<1>1. PICK op \in Ops, i \in AuthIds \cup {Unset}, d \in Doc, phase \in Phases :
         Arrives(r, op, i, d, phase)
  BY ArrivalShape
<1>2. /\ pc[r] = "idle" /\ req[r].op = Unset /\ pc'[r] \in {"check", "write"}
      /\ past' = [past EXCEPT ![r] = Over]
      /\ req'[r].op \in Ops /\ UNCHANGED <<call, reply, store, devauth>>
      /\ req'[r].op \in {"update", "delete", "acceptPreauth", "preauthorize"} =>
            pc'[r] = "check"
      /\ req'[r].op # "preauthorize" => req'[r].id \in KnownIds \cup {Unset}
      /\ \A q \in Reqs \ {r} : pc'[q] = pc[q] /\ req'[q] = req[q] /\ dev'[q] = dev[q]
  <2>1. Arrive(r, op, i, d, phase)
    BY <1>1 DEF Arrives
  <2>2. /\ pc[r] = "idle" /\ req[r].op = Unset
        /\ pc'[r] = phase /\ req'[r].op = op /\ req'[r].id = i
        /\ call' = call /\ reply' = reply /\ store' = store
        /\ \A q \in Reqs \ {r} : pc'[q] = pc[q] /\ req'[q] = req[q] /\ dev'[q] = dev[q]
    BY <2>1, ArriveFacts
  <2>3. past' = [past EXCEPT ![r] = Over] /\ devauth' = devauth
    BY <2>1 DEF Arrive
  <2> QED
    BY <1>1, <2>2, <2>3 DEF Arrives
<1>3. ASSUME NEW op2, NEW i2, NEW d2, NEW phase2, Arrive(r, op2, i2, d2, phase2)
      PROVE  req'[r].op = op2 /\ dev'[r] = d2
  BY <1>3 DEF Arrive, TypeInv, TypeOK
<1>4. ASSUME NEW s \in Status
      PROVE  [Blank EXCEPT !.status = s].identity = Unset
             /\ [Blank EXCEPT !.status = s].deviceId = Unset
  BY DEF Blank
<1> DEFINE Given ==
      /\ req'[r].op \in {"submit", "preauthorize"} => dev'[r].identity # Unset
      /\ req'[r].op \in {"update", "acceptPreauth"} =>
            dev'[r].identity = Unset /\ dev'[r].deviceId = Unset
      /\ req'[r].op = "submit" => dev'[r].deviceId # Unset
<1>5. CASE SubmitDeviceHandler(r)
  <2>1. PICK i2 \in KnownIds, d2 \in KnownDevices, n \in Idents :
           Arrive(r, "submit", i2,
                  [deviceId |-> d2, identity |-> n, status |-> "pending"], "write")
    BY <1>5 DEF SubmitDeviceHandler
  <2>2. /\ req'[r].op = "submit"
        /\ dev'[r] = [deviceId |-> d2, identity |-> n, status |-> "pending"]
    BY <2>1, <1>3
  <2>3. dev'[r].deviceId # Unset /\ dev'[r].identity # Unset
    BY <2>2 DEF KnownDevices
  <2>4. Given
    BY <2>2, <2>3
  <2> QED
    BY <1>2, <2>4
<1>6. CASE UpdateDeviceStatusHandler(r) \/ AcceptPreauthorizedHandler(r)
  <2>1. PICK s \in Status, op2 \in {"update", "acceptPreauth"}, i2 \in KnownIds :
           Arrive(r, op2, i2, [Blank EXCEPT !.status = s], "check")
    BY <1>6 DEF UpdateDeviceStatusHandler, AcceptPreauthorizedHandler, Status
  <2>2. req'[r].op = op2 /\ dev'[r] = [Blank EXCEPT !.status = s]
    BY <2>1, <1>3
  <2>3. Given
    BY <2>2, <1>4
  <2> QED
    BY <1>2, <2>3
<1>7. CASE PostDevicesHandler(r)
  <2>1. PICK n \in Idents :
           Arrive(r, "preauthorize", r,
                  [deviceId |-> Unset, identity |-> n, status |-> "preauthorized"], "check")
    BY <1>7 DEF PostDevicesHandler
  <2>2. /\ req'[r].op = "preauthorize"
        /\ dev'[r] = [deviceId |-> Unset, identity |-> n, status |-> "preauthorized"]
    BY <2>1, <1>3
  <2>3. Given
    BY <2>2
  <2> QED
    BY <1>2, <2>3
<1>8. CASE \/ DeleteDeviceManagementHandler(r) \/ DeleteDeviceHandler(r)
           \/ DeleteDevicesHandler(r)
  BY <1>2, <1>3, <1>8
     DEF DeleteDeviceManagementHandler, DeleteDeviceHandler, DeleteDevicesHandler
<1> QED
  BY <1>5, <1>6, <1>7, <1>8 DEF Arrival

-----------------------------------------------------------------------------
(* What any step does to requests in flight and to sets.                   *)

Waiting == {"wait", "write"}

\* What stays: what a request asks for, who was over when it came, how it ended.
Stays ==
    /\ Over \subseteq Over'
    /\ \A r \in Over : pc'[r] = pc[r] /\ reply'[r] = reply[r]
    /\ \A r \in Reqs : req[r].op # Unset => req'[r] = req[r] /\ past'[r] = past[r]
    /\ \A r \in Reqs : req[r].op = Unset => past'[r] \in {past[r], Over}

\* A set changes by the last step of a request in flight.
StoreSteps ==
    \A i \in AuthIds :
        \/ store'[i] = store[i]
        \/ \E p \in Reqs :
              /\ Written(p, i) \/ Removed(p, i)
              /\ req[p].op # "preauthorize" => pc'[p] = "done"

\* An update that waits or writes found its set, in this step or before.
UpdateSteps ==
    \A r \in Reqs :
        req'[r].op = "update" /\ pc'[r] \in Waiting =>
            /\ req[r].op = "update" /\ req'[r] = req[r]
            /\ \/ pc[r] \in Waiting /\ dev'[r] = dev[r]
               \/ /\ pc[r] = "check" /\ Exists(store, req[r].id) /\ store' = store
                  /\ dev'[r].deviceId = store[req[r].id].deviceId

\* An acceptance that writes found its set preauthorized.
AcceptSteps ==
    \A r \in Reqs :
        req'[r].op = "acceptPreauth" /\ pc'[r] = "write" =>
            /\ req[r].op = "acceptPreauth" /\ req'[r] = req[r]
            /\ \/ pc[r] = "write"
               \/ store' = store /\ store[req[r].id].status = "preauthorized"

\* A deletion that has succeeded left nothing in the step that it did.
DeleteSteps ==
    \A r \in Reqs :
        req'[r].op \in {"delete", "deleteInternal"} /\ reply'[r] = 204 =>
            /\ req[r].op = req'[r].op /\ req'[r] = req[r]
            /\ reply[r] = 204 \/ (r \in InFlight /\ ~Exists(store', req[r].id))

\* The preauthorizations that found no set with their identity.
Passed(r) == req[r].op = "preauthorize" /\ (pc[r] = "write" \/ dev[r].deviceId # Unset)

PassSteps ==
    \A r \in Reqs :
        Passed(r)' =>
            /\ req[r].op = "preauthorize" /\ dev'[r].identity = dev[r].identity
            /\ \/ Passed(r)
               \/ store' = store /\ OfIdentity(store, dev[r].identity) = {}

Effects ==
    Stays /\ StoreSteps /\ UpdateSteps /\ AcceptSteps /\ DeleteSteps /\ PassSteps

\* An arrival has these effects.
LEMMA ArrivalEffects ==
    ASSUME Inv, NEW r \in Reqs, Arrival(r)
    PROVE  Effects
<1> USE DEF Inv
<1>0. "preauthorize" # Unset /\ "update" # Unset /\ "acceptPreauth" # Unset
      /\ "delete" # Unset /\ "deleteInternal" # Unset
  BY DEF Ops
<1>1. CASE BadRequest(r)
  <2>1. /\ pc[r] = "idle" /\ req[r].op = Unset /\ req' = req /\ dev' = dev
        /\ store' = store /\ past' = past
        /\ pc' = [pc EXCEPT ![r] = "done"] /\ reply' = [reply EXCEPT ![r] = 400]
    BY <1>1 DEF BadRequest, Phased
  <2>2. \A q \in Reqs \ {r} : pc'[q] = pc[q] /\ reply'[q] = reply[q]
    BY <2>1 DEF TypeInv, TypeOK
  <2> QED
    BY <1>0, <2>1, <2>2
       DEF Effects, Stays, StoreSteps, UpdateSteps, AcceptSteps, DeleteSteps, PassSteps,
           Passed, Over
<1>2. CASE ~BadRequest(r)
  <2>1. /\ pc[r] = "idle" /\ req[r].op = Unset /\ pc'[r] \in {"check", "write"}
        /\ past' = [past EXCEPT ![r] = Over]
        /\ UNCHANGED <<reply, store>>
        /\ req'[r].op \in {"update", "delete", "acceptPreauth", "preauthorize"} =>
              pc'[r] = "check"
        /\ \A q \in Reqs \ {r} : pc'[q] = pc[q] /\ req'[q] = req[q] /\ dev'[q] = dev[q]
    BY <1>2, ArrivalFields
  <2>2. reply[r] = 0
    BY <2>1 DEF Phased
  <2>3. Stays
    BY <2>1 DEF Stays, Over, TypeInv, TypeOK
  <2>4. StoreSteps /\ UpdateSteps /\ AcceptSteps /\ DeleteSteps
    BY <1>0, <2>1, <2>2 DEF StoreSteps, UpdateSteps, AcceptSteps, DeleteSteps, Waiting
  <2>5. req'[r].op = "preauthorize" => pc'[r] = "check" /\ dev'[r].deviceId = Unset
    <3>1. PICK op \in Ops, i \in AuthIds \cup {Unset}, d \in Doc, phase \in Phases :
             Arrives(r, op, i, d, phase)
      BY <1>2, ArrivalShape
    <3> QED
      BY <2>1, <3>1, ArriveFacts DEF Arrives
  <2>6. PassSteps
    BY <1>0, <2>1, <2>5 DEF PassSteps, Passed
  <2> QED
    BY <2>3, <2>4, <2>6 DEF Effects
<1> QED
  BY <1>1, <1>2

\* So has a step of a handler.
LEMMA HandleEffects ==
    ASSUME Inv, NEW r \in Reqs, Handle(r)
    PROVE  Effects
<1> USE DEF Inv
<1>1. Own(r) /\ Moves(r)
  BY HandleShape
<1>2. /\ req' = req /\ past' = past
      /\ pc[r] \in {"check", "wait", "write"} /\ pc'[r] \in {"wait", "write", "done"}
      /\ \A q \in Reqs \ {r} : pc'[q] = pc[q] /\ dev'[q] = dev[q] /\ reply'[q] = reply[q]
  BY <1>1 DEF Own, Moves
<1>3. Stays
  BY <1>2 DEF Stays, Over
<1>4. StoreSteps
  <2>1. pc[r] = "write" /\ req[r].op # "preauthorize" /\ pc'[r] # "done" => store' = store
    BY <1>1 DEF Moves
  <2> QED
    BY <2>1, HandleWrites DEF StoreSteps, Written, Removed
<1>5. UpdateSteps
  <2>1. req[r].op = "update" /\ pc'[r] \in Waiting =>
           \/ pc[r] \in Waiting /\ dev'[r] = dev[r]
           \/ /\ pc[r] = "check" /\ Exists(store, req[r].id) /\ store' = store
              /\ dev'[r].deviceId = store[req[r].id].deviceId
    BY <1>1, HandleDev DEF Moves, Waiting, Phased, CalledFirst
  <2> QED
    BY <1>2, <2>1 DEF UpdateSteps
<1>6. AcceptSteps
  BY <1>1, <1>2 DEF AcceptSteps, Moves
<1>7. DeleteSteps
  BY <1>2, HandleDev DEF DeleteSteps, InFlight
<1>8. PassSteps
  <2>1. ASSUME req[r].op = "preauthorize", pc'[r] = "write"
        PROVE  OfIdentity(store, dev[r].identity) = {}
    <3>1. PreauthorizeCheck(r) \/ PreauthorizeInsert(r) \/ PreauthorizeAnswered(r) \/ GiveUp(r)
      BY <2>1 DEF Handle, At, SubmitDeviceAuth, UpdateStatusLookup, UpdateStatusAnswered,
         UpdateStatusPut, AcceptPreAuthCheck, AcceptPreAuthUpdate, DeletePropagateLookup,
         DeletePropagateAnswered, DeleteDeviceAuth, DeleteDeviceData
    <3> QED
      BY <2>1, <3>1, AnswerShape, PropagateShape
         DEF PreauthorizeCheck, PreauthorizeInsert, PreauthorizeAnswered, GiveUp, ReadFails
  <2>2. req[r].op = "preauthorize" =>
           /\ dev'[r].identity = dev[r].identity
           /\ pc'[r] = "write" => store' = store
           /\ dev'[r].deviceId # Unset => Passed(r)
    BY <1>1, HandleDev DEF Moves, Passed
  <2>3. Passed(r)' =>
           /\ req[r].op = "preauthorize" /\ dev'[r].identity = dev[r].identity
           /\ \/ Passed(r)
              \/ store' = store /\ OfIdentity(store, dev[r].identity) = {}
    BY <1>2, <2>1, <2>2 DEF Passed
  <2> QED
    BY <1>2, <2>3 DEF PassSteps, Passed
<1> QED
  BY <1>3, <1>4, <1>5, <1>6, <1>7, <1>8 DEF Effects

\* So has every step.
LEMMA StepEffects == Inv /\ [Next]_vars => Effects
<1> SUFFICES ASSUME Inv, [Next]_vars PROVE Effects
  OBVIOUS
<1> USE DEF Inv, Effects, Stays, StoreSteps, UpdateSteps, AcceptSteps, DeleteSteps,
            PassSteps, Passed
<1>1. ASSUME NEW r \in Reqs, Arrival(r) PROVE Effects
  BY <1>1, ArrivalEffects
<1>2. ASSUME NEW r \in Reqs, Handle(r) PROVE Effects
  BY <1>2, HandleEffects
<1>3. ASSUME NEW r \in Reqs, Devauth(r) PROVE Effects
  BY <1>3 DEF Devauth, DevauthApply, DevauthRefuse, Over
<1>4. CASE Crash
  <2>1. /\ \A r \in Reqs : pc'[r] \in {pc[r], "crashed"}
        /\ Over \subseteq Over' /\ (\A r \in Over : pc'[r] = pc[r])
        /\ UNCHANGED <<req, dev, reply, store, past>>
    BY <1>4 DEF Crash, Over, InFlight, TypeInv, TypeOK
  <2> QED
    BY <2>1 DEF Waiting
<1>5. CASE UNCHANGED vars
  BY <1>5 DEF vars, Over
<1> QED
  BY <1>1, <1>2, <1>3, <1>4, <1>5 DEF Next

-----------------------------------------------------------------------------
(* Who overlaps whom, and which fields are given.                          *)

\* Only requests that are over can be in anyone's past.
PastOver == \A r \in Reqs : past[r] \subseteq Over

\* A request names a set when it comes.  A submission and a preauthorization give
\* the identity, a status does not; the device is given, looked up or drawn, and
\* no set is without one.
Fields ==
    /\ \A r \in Reqs :
          /\ req[r].op = Unset => req[r].id = Unset
          /\ req[r].op \in {"submit", "preauthorize"} => dev[r].identity # Unset
          /\ req[r].op \in {"update", "acceptPreauth"} => dev[r].identity = Unset
          /\ req[r].op = "submit" => dev[r].deviceId # Unset
          /\ req[r].op = "acceptPreauth" => dev[r].deviceId = Unset
          /\ req[r].op = "update" /\ pc[r] \in Waiting => dev[r].deviceId # Unset
    /\ \A i \in AuthIds : Exists(store, i) => store[i].deviceId # Unset

\* What the writers leave, by operation.
LEMMA WrittenFields ==
    ASSUME TypeInv, Carries, Fields, NEW r \in Reqs, NEW i \in AuthIds, Written(r, i)
    PROVE  /\ Exists(store', i) /\ r \in InFlight /\ req[r].id = i
           /\ req[r].op \in {"submit", "update", "acceptPreauth", "preauthorize"}
           /\ store'[i].status = dev[r].status
           /\ req[r].op = "submit" => store'[i].identity = dev[r].identity
           /\ req[r].op = "preauthorize" => i = r /\ store'[i].identity = dev[r].identity
           /\ req[r].op = "update" =>
                 store'[i].identity = IF Exists(store, i) THEN store[i].identity ELSE Unset
           /\ req[r].op \in {"submit", "update"} => store'[i].deviceId = dev[r].deviceId
           /\ req[r].op = "acceptPreauth" =>
                 /\ Exists(store, i) /\ store'[i].identity = store[i].identity
                 /\ store'[i].deviceId = store[i].deviceId
           /\ store'[i].deviceId # Unset
<1>0. dev[r] \in Doc /\ pc[r] = "write" /\ req[r].id = i /\ r # Unset
  BY DEF TypeInv, TypeOK, Written
<1>1. Exists(store, i) => store[i] \in Doc
  BY DEF TypeInv, TypeOK, Collection, Exists
<1>2. req[r].op \in {"submit", "update", "acceptPreauth"} => dev[r].status # Unset
  BY DEF Carries, Decided, Status
<1>3. CASE req[r].op \in {"submit", "update"}
  <2> DEFINE old == IF Exists(store, i) THEN store[i] ELSE Blank
  <2>1. old \in Doc /\ old.identity = IF Exists(store, i) THEN store[i].identity ELSE Unset
    BY <1>1 DEF Blank, Doc
  <2>2. store'[i] = GenDeviceAuthUpdate(old, dev[r])
    BY <1>3 DEF Written
  <2>3. GenDeviceAuthUpdate(old, dev[r]) \in Doc
    BY <1>0, <2>1, UpdateType
  <2> HIDE DEF old
  <2>4. /\ store'[i].status = dev[r].status /\ store'[i].deviceId = dev[r].deviceId
        /\ store'[i].identity = IF dev[r].identity # Unset THEN dev[r].identity
                                                         ELSE old.identity
    BY <1>0, <1>2, <1>3, <2>2 DEF GenDeviceAuthUpdate, Fields, Waiting
  <2> QED
    BY <1>0, <1>3, <2>1, <2>2, <2>3, <2>4 DEF Exists, InFlight, Fields, Waiting
<1>4. CASE req[r].op = "acceptPreauth"
  <2>1. Exists(store, i) /\ store'[i] = GenDeviceAuthUpdate(store[i], dev[r])
    BY <1>4 DEF Written
  <2>2. GenDeviceAuthUpdate(store[i], dev[r]) \in Doc
    BY <1>0, <1>1, <2>1, UpdateType
  <2>3. /\ store'[i].status = dev[r].status /\ store'[i].deviceId = store[i].deviceId
        /\ store'[i].identity = store[i].identity
    BY <1>2, <1>4, <2>1 DEF GenDeviceAuthUpdate, Fields
  <2> QED
    BY <1>0, <1>4, <2>1, <2>2, <2>3 DEF Exists, InFlight, Fields
<1>5. CASE req[r].op = "preauthorize"
  <2>1. i = r /\ store'[i] = [dev[r] EXCEPT !.deviceId = r]
    BY <1>5 DEF Written
  <2>2. [dev[r] EXCEPT !.deviceId = r] \in Doc
    BY <1>0 DEF Doc
  <2>3. /\ store'[i].status = dev[r].status /\ store'[i].deviceId = r
        /\ store'[i].identity = dev[r].identity
    BY <1>0, <2>1 DEF Doc
  <2> QED
    BY <1>0, <1>5, <2>1, <2>2, <2>3 DEF Exists, InFlight
<1> QED
  BY <1>3, <1>4, <1>5 DEF Written

\* A step only adds to the past of requests that arrive.
LEMMA PastStep == PastOver /\ Effects => PastOver'
<1> SUFFICES ASSUME PastOver, Effects, NEW r \in Reqs PROVE past'[r] \subseteq Over'
  BY DEF PastOver
<1> QED
  BY DEF PastOver, Effects, Stays

\* The fields are given, still.
LEMMA FieldsStep == Inv /\ Fields /\ [Next]_vars => Fields'
<1> SUFFICES ASSUME Inv, Fields, [Next]_vars PROVE Fields'
  OBVIOUS
<1> USE DEF Inv
<1>0. Effects
  BY StepEffects
<1> DEFINE Given(r) ==
      /\ req[r].op = Unset => req[r].id = Unset
      /\ req[r].op \in {"submit", "preauthorize"} => dev[r].identity # Unset
      /\ req[r].op \in {"update", "acceptPreauth"} => dev[r].identity = Unset
      /\ req[r].op = "submit" => dev[r].deviceId # Unset
      /\ req[r].op = "acceptPreauth" => dev[r].deviceId = Unset
<1>1. \A r \in Reqs : Given(r)
  BY DEF Fields
<1>2. ASSUME NEW r \in Reqs, NEW q \in Reqs, Arrival(r) PROVE Given(q)'
  BY <1>1, <1>2, ArrivalFields, ZeroValues DEF BadRequest
<1>3. ASSUME NEW r \in Reqs, NEW q \in Reqs, Handle(r) PROVE Given(q)'
  <2>1. Own(r)
    BY <1>3, HandleShape
  <2>2. /\ req[r].op # "delete" => dev'[r].identity = dev[r].identity
        /\ req[r].op \notin {"update", "delete", "preauthorize"} => dev'[r] = dev[r]
    BY <1>3, HandleDev
  <2> QED
    BY <1>1, <2>1, <2>2 DEF Own
<1>4. ASSUME NEW q \in Reqs PROVE Given(q)'
  <2>1. CASE \E r \in Reqs : Arrival(r) \/ Handle(r)
    BY <1>2, <1>3, <2>1
  <2>2. CASE (\E r \in Reqs : Devauth(r)) \/ Crash \/ UNCHANGED vars
    <3>1. req' = req /\ dev' = dev
      BY <2>2 DEF Devauth, DevauthApply, DevauthRefuse, Crash, vars
    <3> QED
      BY <1>1, <3>1
  <2> QED
    BY <2>1, <2>2 DEF Next
<1>5. \A q \in Reqs : req'[q].op = "update" /\ pc'[q] \in Waiting => dev'[q].deviceId # Unset
  <2> SUFFICES ASSUME NEW q \in Reqs, req'[q].op = "update", pc'[q] \in Waiting
               PROVE  dev'[q].deviceId # Unset
    OBVIOUS
  <2>1. req[q].id \in AuthIds
    BY <1>0 DEF Effects, UpdateSteps, TypeInv, Addressed, Ops
  <2> QED
    BY <1>0, <2>1 DEF Effects, UpdateSteps, Fields
<1>6. \A i \in AuthIds : Exists(store', i) => store'[i].deviceId # Unset
  <2> SUFFICES ASSUME NEW i \in AuthIds, Exists(store', i) PROVE store'[i].deviceId # Unset
    OBVIOUS
  <2>1. CASE store'[i] = store[i]
    BY <2>1 DEF Fields, Exists
  <2>2. CASE \E p \in Reqs : Written(p, i)
    BY <2>2, WrittenFields
  <2>3. CASE \E p \in Reqs : Removed(p, i)
    BY <2>3 DEF Removed, Exists
  <2> QED
    BY <1>0, <2>1, <2>2, <2>3 DEF Effects, StoreSteps
<1> QED
  BY <1>4, <1>5, <1>6 DEF Fields

Frame == Inv /\ PastOver /\ Fields

\* The three hold in every state.
LEMMA FrameInvariant == Spec => []Frame
<1>1. Init => Frame
  <2> SUFFICES ASSUME Init PROVE PastOver /\ Fields
    BY InvInit DEF Frame
  <2> QED
    BY DEF Init, PastOver, Fields, Exists, Ops
<1>2. Frame /\ [Next]_vars => Frame'
  BY InvStep, StepEffects, PastStep, FieldsStep DEF Frame
<1> QED
  BY <1>1, <1>2, PTL DEF Spec

\* Requests that have overlapped have done so for good.
LEMMA OverlapStays ==
    ASSUME Effects, NEW r \in Reqs, NEW q \in Reqs, Overlapped(r, q)
    PROVE  Overlapped(r, q)'
BY DEF Effects, Stays, Overlapped, Arrived

\* Two requests in flight overlap.
LEMMA FlightsOverlap ==
    ASSUME Frame, NEW r \in InFlight, NEW q \in InFlight, r # q
    PROVE  Overlapped(r, q)
<1>1. Arrived(r) /\ Arrived(q)
  BY DEF Frame, Inv, Phased, InFlight, Arrived, Ops
<1>2. r \notin Over /\ q \notin Over
  BY DEF InFlight, Over
<1> QED
  BY <1>1, <1>2 DEF Frame, PastOver, InFlight, Overlapped

-----------------------------------------------------------------------------
(* Partial sets.                                                           *)

\* Some deletion of r's set has overlapped r.
DeletedMeanwhile(r) ==
    \E q \in Reqs : req[q].op \in Removals /\ Touches(q, req[r].id) /\ Overlapped(r, q)

\* An update that has lost its set has overlapped the deletion.
LossExplained ==
    \A r \in Reqs :
        req[r].op = "update" /\ pc[r] \in Waiting /\ ~Exists(store, req[r].id) =>
            DeletedMeanwhile(r)

\* A deletion to blame stays to blame.
LEMMA BlameStays ==
    ASSUME Effects, NEW r \in Reqs, DeletedMeanwhile(r) PROVE DeletedMeanwhile(r)'
<1>1. PICK q \in Reqs : /\ req[q].op \in Removals /\ Touches(q, req[r].id)
                       /\ Overlapped(r, q)
  BY DEF DeletedMeanwhile
<1>2. req'[q] = req[q] /\ req'[r] = req[r] /\ Overlapped(r, q)'
  BY <1>1, OverlapStays DEF Effects, Stays, Overlapped, Arrived
<1> QED
  BY <1>1, <1>2 DEF DeletedMeanwhile, Touches

\* A step that takes the set from an update is a deletion's.
LEMMA LossStep == Frame /\ LossExplained /\ [Next]_vars => LossExplained'
<1> SUFFICES ASSUME Frame, LossExplained, [Next]_vars, NEW r \in Reqs,
                    req'[r].op = "update", pc'[r] \in Waiting, ~Exists(store', req'[r].id)
             PROVE  DeletedMeanwhile(r)'
  BY DEF LossExplained
<1>1. Effects
  BY StepEffects DEF Frame
<1>2. req[r].op = "update" /\ req'[r] = req[r] /\ req[r].id \in AuthIds
  BY <1>1 DEF Effects, UpdateSteps, Frame, Inv, TypeInv, Addressed, Ops
<1>3. CASE ~Exists(store, req[r].id)
  BY <1>1, <1>2, <1>3, BlameStays DEF Effects, UpdateSteps, LossExplained
<1>4. CASE Exists(store, req[r].id)
  <2>1. PICK p \in Reqs : Written(p, req[r].id) \/ Removed(p, req[r].id)
    BY <1>1, <1>2, <1>4 DEF Effects, StoreSteps, Exists
  <2>2. Removed(p, req[r].id)
    BY <1>2, <2>1, WrittenFields DEF Frame, Inv
  <2>3. pc[r] \in Waiting
    BY <1>1, <1>2, <1>4 DEF Effects, UpdateSteps
  <2>4. Overlapped(r, p)
    BY <1>2, <2>2, <2>3, FlightsOverlap DEF Removed, Removals, Waiting, InFlight
  <2>5. DeletedMeanwhile(r)
    BY <2>2, <2>4 DEF DeletedMeanwhile, Removed
  <2> QED
    BY <1>1, <2>5, BlameStays
<1> QED
  BY <1>3, <1>4

\* A set loses its identity to an update that has overlapped a deletion.
LEMMA PartialStep ==
    Frame /\ LossExplained /\ PartialSetsAreConcurrent /\ [Next]_vars
        => PartialSetsAreConcurrent'
<1> SUFFICES ASSUME Frame, LossExplained, PartialSetsAreConcurrent, [Next]_vars,
                    NEW i \in AuthIds, Exists(store', i), store'[i].identity = Unset
             PROVE  \E r, q \in Reqs :
                        /\ req'[r].op = "update" /\ req'[r].id = i
                        /\ req'[q].op \in Removals
                        /\ Touches(q, i)' /\ Overlapped(r, q)'
  BY DEF PartialSetsAreConcurrent, Removals
<1>1. Effects
  BY StepEffects DEF Frame
<1>2. ASSUME NEW r \in Reqs, NEW q \in Reqs, req[r].op = "update", req[r].id = i,
             req[q].op \in Removals, Touches(q, i), Overlapped(r, q)
      PROVE  /\ req'[r].op = "update" /\ req'[r].id = i
             /\ req'[q].op \in Removals
             /\ Touches(q, i)' /\ Overlapped(r, q)'
  <2>1. req'[q] = req[q] /\ req'[r] = req[r] /\ Overlapped(r, q)'
    BY <1>1, <1>2, OverlapStays DEF Effects, Stays, Overlapped, Arrived
  <2> QED
    BY <1>2, <2>1 DEF Touches
<1>3. CASE Exists(store, i) /\ store[i].identity = Unset
  BY <1>2, <1>3 DEF PartialSetsAreConcurrent, Removals
<1>4. CASE ~(Exists(store, i) /\ store[i].identity = Unset)
  <2>1. PICK p \in Reqs : Written(p, i)
    BY <1>1, <1>4 DEF Effects, StoreSteps, Removed, Exists
  <2>2. req[p].op = "update" /\ req[p].id = i /\ ~Exists(store, i) /\ pc[p] = "write"
    BY <1>4, <2>1, WrittenFields DEF Frame, Inv, Fields, Written
  <2>3. DeletedMeanwhile(p)
    BY <2>2 DEF LossExplained, Waiting
  <2> QED
    BY <1>2, <2>2, <2>3 DEF DeletedMeanwhile
<1> QED
  BY <1>3, <1>4

\* A set without identity data is what a status update left of a set that a
\* deletion removed between the update's read and its upsert.
THEOREM PartialSets == Spec => []PartialSetsAreConcurrent
<1>1. Init => LossExplained /\ PartialSetsAreConcurrent
  BY DEF Init, LossExplained, PartialSetsAreConcurrent, Exists, Waiting
<1> QED
  BY <1>1, FrameInvariant, LossStep, PartialStep, PTL DEF Spec

-----------------------------------------------------------------------------
(* Deleted sets.                                                           *)

\* A submission that was not over when r came, or an update that r overlapped.
Revived(r) ==
    \E q \in Reqs :
        /\ req[q].id = req[r].id
        /\ \/ req[q].op = "submit" /\ q \notin past[r]
           \/ req[q].op = "update" /\ Overlapped(r, q)

Acknowledged(r) == req[r].op \in {"delete", "deleteInternal"} /\ reply[r] = 204

\* Whoever may bring the set of an acknowledged deletion back overlapped it.
RevivalExplained ==
    \A r \in Reqs :
        Acknowledged(r) =>
            /\ Exists(store, req[r].id) => Revived(r)
            /\ \A q \in Reqs :
                  req[q].op = "update" /\ pc[q] \in Waiting /\ req[q].id = req[r].id =>
                      Revived(r) \/ Overlapped(r, q)

\* A request to blame stays to blame.
LEMMA RevivedStays ==
    ASSUME Effects, NEW r \in Reqs, Acknowledged(r), Revived(r) PROVE Revived(r)'
<1>1. PICK q \in Reqs :
        /\ req[q].id = req[r].id
        /\ \/ req[q].op = "submit" /\ q \notin past[r]
           \/ req[q].op = "update" /\ Overlapped(r, q)
  BY DEF Revived
<1>2. /\ req'[r] = req[r] /\ req'[q] = req[q] /\ past'[r] = past[r]
      /\ Overlapped(r, q) => Overlapped(r, q)'
  BY <1>1, OverlapStays, ZeroValues DEF Effects, Stays, Acknowledged, Ops
<1> QED
  BY <1>1, <1>2 DEF Revived

\* A step brings no deleted set back but that of an overlapping request.
LEMMA RevivalStep == Frame /\ RevivalExplained /\ [Next]_vars => RevivalExplained'
<1> SUFFICES ASSUME Frame, RevivalExplained, [Next]_vars, NEW r \in Reqs, Acknowledged(r)'
             PROVE  /\ Exists(store', req'[r].id) => Revived(r)'
                    /\ \A q \in Reqs :
                          req'[q].op = "update" /\ pc'[q] \in Waiting
                              /\ req'[q].id = req'[r].id
                          => Revived(r)' \/ Overlapped(r, q)'
  BY DEF RevivalExplained
<1>1. Effects
  BY StepEffects DEF Frame
<1>2. /\ req[r].op \in {"delete", "deleteInternal"} /\ req'[r] = req[r]
      /\ req[r].id \in AuthIds
      /\ reply[r] = 204 \/ (r \in InFlight /\ ~Exists(store', req[r].id))
  BY <1>1 DEF Acknowledged, Effects, DeleteSteps, Frame, Inv, TypeInv, Addressed, Ops
<1>3. CASE reply[r] = 204
  <2>0. Acknowledged(r) /\ (Revived(r) => Revived(r)')
    BY <1>1, <1>2, <1>3, RevivedStays DEF Acknowledged
  <2>1. ASSUME Exists(store', req[r].id) PROVE Revived(r)'
    <3>1. CASE Exists(store, req[r].id)
      BY <2>0, <3>1 DEF RevivalExplained
    <3>2. CASE ~Exists(store, req[r].id)
      <4>1. PICK p \in Reqs : Written(p, req[r].id)
        BY <1>1, <1>2, <2>1, <3>2 DEF Effects, StoreSteps, Removed, Exists
      <4>2. /\ req[p].op \in {"submit", "update", "preauthorize"}
            /\ req[p].id = req[r].id /\ pc[p] = "write" /\ p \in InFlight
            /\ req[p].op = "preauthorize" => req[r].id = p
        BY <1>2, <3>2, <4>1, WrittenFields DEF Frame, Inv, Written
      <4>3. req[p].op # "preauthorize"
        BY <1>2, <4>2 DEF Frame, Inv, Known, Draws, Drawn
      <4>4. CASE req[p].op = "submit"
        <5>1. p \notin past[r]
          BY <4>2 DEF Frame, PastOver, Over
        <5> QED
          BY <2>0, <4>2, <4>4, <5>1 DEF Revived
      <4>5. CASE req[p].op = "update"
        BY <2>0, <4>2, <4>5 DEF RevivalExplained, Revived, Waiting
      <4> QED
        BY <4>2, <4>3, <4>4, <4>5
    <3> QED
      BY <3>1, <3>2
  <2>2. ASSUME NEW q \in Reqs, req'[q].op = "update", pc'[q] \in Waiting,
               req'[q].id = req[r].id
        PROVE  Revived(r)' \/ Overlapped(r, q)'
    <3>1. /\ req[q].op = "update" /\ req[q].id = req[r].id
          /\ pc[q] \in Waiting \/ Exists(store, req[r].id)
      BY <1>1, <2>2 DEF Effects, UpdateSteps
    <3>2. Revived(r) \/ Overlapped(r, q)
      BY <2>0, <3>1 DEF RevivalExplained
    <3> QED
      BY <1>1, <2>0, <3>2, OverlapStays
  <2> QED
    BY <1>2, <2>1, <2>2
<1>4. CASE r \in InFlight /\ ~Exists(store', req[r].id)
  <2>1. ASSUME NEW q \in Reqs, req'[q].op = "update", pc'[q] \in Waiting
        PROVE  Overlapped(r, q)'
    <3>1. q \in InFlight /\ q # r
      BY <1>1, <1>2, <2>1 DEF Effects, UpdateSteps, Waiting, InFlight
    <3> QED
      BY <1>1, <1>4, <3>1, FlightsOverlap, OverlapStays
  <2> QED
    BY <1>2, <1>4, <2>1
<1> QED
  BY <1>2, <1>3, <1>4

\* A set whose deletion was acknowledged is back only by a submission that was
\* not over when the deletion came, or by a status update that overlapped it.
THEOREM DeletedStays == Spec => []DeletedStaysDeleted
<1>1. Init => RevivalExplained
  BY DEF Init, RevivalExplained, Acknowledged
<1>2. RevivalExplained => DeletedStaysDeleted
  BY DEF RevivalExplained, DeletedStaysDeleted, Acknowledged, Revived
<1> QED
  BY <1>1, <1>2, FrameInvariant, RevivalStep, PTL DEF Spec

-----------------------------------------------------------------------------
(* Preauthorized identities.                                               *)

\* Someone who was not over when preauthorization i came has given j its identity.
GivenMeanwhile(i, j) ==
    \E r \in Reqs :
        /\ req[r].id = j
        /\ req[r].op \in {"submit", "preauthorize"}
        /\ r \notin past[i]

\* A set that shares the identity of a preauthorization that has looked for it
\* came later; a preauthorized set has the identity that its request looked for.
SharingExplained ==
    /\ \A i \in Reqs : Passed(i) =>
          \A j \in OfIdentity(store, dev[i].identity) : i # j => GivenMeanwhile(i, j)
    /\ \A i \in Reqs : Exists(store, i) /\ store[i].status = "preauthorized" =>
          store[i].identity = dev[i].identity

\* A step gives a set the identity of a preauthorization only if the request that
\* does was in flight with it.
LEMMA SharingStep == Frame /\ SharingExplained /\ [Next]_vars => SharingExplained'
<1> SUFFICES ASSUME Frame, SharingExplained, [Next]_vars PROVE SharingExplained'
  OBVIOUS
<1>0. Effects /\ Known' /\ Unset \notin Ops
  BY StepEffects, InvStep DEF Frame, Inv
<1>1. ASSUME NEW i \in Reqs, Passed(i)', NEW j \in AuthIds, Exists(store', j),
             store'[j].identity = dev'[i].identity, i # j
      PROVE  GivenMeanwhile(i, j)'
  <2>1. req[i].op = "preauthorize" /\ dev'[i].identity = dev[i].identity
    BY <1>0, <1>1 DEF Effects, PassSteps
  <2>2. req'[i] = req[i] /\ past'[i] = past[i] /\ dev[i].identity # Unset
    BY <1>0, <2>1 DEF Effects, Stays, Frame, Fields, Ops
  <2>3. CASE Exists(store, j) /\ store[j].identity = dev[i].identity
    <3>1. j \in OfIdentity(store, dev[i].identity)
      BY <2>3 DEF OfIdentity
    <3>2. Passed(i)
      BY <1>0, <1>1, <3>1 DEF Effects, PassSteps
    <3>3. PICK r \in Reqs : /\ req[r].id = j /\ r \notin past[i]
                           /\ req[r].op \in {"submit", "preauthorize"}
      BY <1>1, <3>1, <3>2 DEF SharingExplained, GivenMeanwhile
    <3>4. req'[r] = req[r]
      BY <1>0, <3>3 DEF Effects, Stays, Ops
    <3> QED
      BY <2>2, <3>3, <3>4 DEF GivenMeanwhile
  <2>4. CASE ~(Exists(store, j) /\ store[j].identity = dev[i].identity)
    <3>1. PICK p \in Reqs : Written(p, j)
      BY <1>0, <1>1, <2>1, <2>4 DEF Effects, StoreSteps, Removed, Exists
    <3>2. /\ req[p].id = j /\ req[p].op \in {"submit", "preauthorize"} /\ p \in InFlight
      BY <1>1, <2>1, <2>2, <2>4, <3>1, WrittenFields DEF Frame, Inv
    <3>3. p \notin past'[i] /\ req'[p] = req[p]
      BY <1>0, <2>2, <3>2 DEF Effects, Stays, Frame, PastOver, Over, InFlight, Ops
    <3> QED
      BY <3>2, <3>3 DEF GivenMeanwhile
  <2> QED
    BY <2>3, <2>4
<1>2. ASSUME NEW i \in Reqs, Exists(store', i), store'[i].status = "preauthorized"
      PROVE  store'[i].identity = dev'[i].identity
  <2>1. Passed(i)'
    BY <1>0, <1>2 DEF Known, Drawn, Passed
  <2>2. dev'[i].identity = dev[i].identity
    BY <1>0, <2>1 DEF Effects, PassSteps
  <2>3. CASE store'[i] = store[i]
    BY <1>2, <2>2, <2>3 DEF SharingExplained, Exists
  <2>4. CASE store'[i] # store[i]
    <3>1. PICK p \in Reqs : Written(p, i)
      BY <1>0, <1>2, <2>4 DEF Effects, StoreSteps, Removed, Exists
    <3>2. req[p].op = "preauthorize" /\ p = i /\ store'[i].identity = dev[i].identity
      BY <1>2, <3>1, WrittenFields DEF Frame, Inv, Carries, Decided
    <3> QED
      BY <2>2, <3>2
  <2> QED
    BY <2>3, <2>4
<1>3. \A i \in Reqs : Passed(i)' =>
         \A j \in OfIdentity(store', dev'[i].identity) : i # j => GivenMeanwhile(i, j)'
  BY <1>1 DEF OfIdentity
<1> QED
  BY <1>2, <1>3 DEF SharingExplained

\* A preauthorized set shares its identity only with sets that a request wrote
\* which was not over when the preauthorization came.
THEOREM Conflicts == Spec => []ConflictsAreConcurrent
<1>1. Init => SharingExplained
  BY DEF Init, SharingExplained, Exists, Passed, Ops
<1>2. Frame /\ SharingExplained => ConflictsAreConcurrent
  <2> SUFFICES ASSUME Frame, SharingExplained, NEW i \in Reqs, NEW j \in AuthIds, i # j,
                      Exists(store, i), store[i].status = "preauthorized",
                      j \in OfIdentity(store, store[i].identity)
               PROVE  GivenMeanwhile(i, j)
    BY DEF ConflictsAreConcurrent, GivenMeanwhile
  <2>1. Passed(i)
    BY DEF Frame, Inv, Known, Drawn, Passed
  <2> QED
    BY <2>1 DEF SharingExplained
<1> QED
  BY <1>1, <1>2, FrameInvariant, SharingStep, PTL DEF Spec

-----------------------------------------------------------------------------
(* Late acceptances.                                                       *)

\* A request that changes the status of r's set has overlapped r.
ChangedMeanwhile(r) ==
    \E q \in Reqs :
        /\ req[q].id = req[r].id
        /\ req[q].op \in {"submit", "update"}
        /\ Overlapped(r, q)

\* What an acceptance has checked still holds, or another acceptance was faster,
\* or somebody has changed the status meanwhile.
CheckHolds ==
    \A r \in Reqs :
        req[r].op = "acceptPreauth" /\ pc[r] = "write" /\ Exists(store, req[r].id) =>
            store[req[r].id].status \in {"preauthorized", "accepted"} \/ ChangedMeanwhile(r)

\* A step changes what was checked only in one of these ways.
LEMMA CheckStep == Frame /\ CheckHolds /\ [Next]_vars => CheckHolds'
<1> SUFFICES ASSUME Frame, CheckHolds, [Next]_vars, NEW r \in Reqs,
                    req'[r].op = "acceptPreauth", pc'[r] = "write", Exists(store', req'[r].id)
             PROVE  \/ store'[req'[r].id].status \in {"preauthorized", "accepted"}
                    \/ ChangedMeanwhile(r)'
  BY DEF CheckHolds
<1>1. Effects /\ Unset \notin Ops
  BY StepEffects DEF Frame
<1>2. req[r].op = "acceptPreauth" /\ req'[r] = req[r] /\ req[r].id \in AuthIds
  BY <1>1 DEF Effects, AcceptSteps, Frame, Inv, TypeInv, Addressed, Ops
<1>3. ASSUME ChangedMeanwhile(r) PROVE ChangedMeanwhile(r)'
  <2>1. PICK q \in Reqs : /\ req[q].id = req[r].id /\ Overlapped(r, q)
                         /\ req[q].op \in {"submit", "update"}
    BY <1>3 DEF ChangedMeanwhile
  <2>2. req'[q] = req[q] /\ Overlapped(r, q)'
    BY <1>1, <2>1, OverlapStays DEF Effects, Stays, Overlapped, Arrived
  <2> QED
    BY <1>2, <2>1, <2>2 DEF ChangedMeanwhile
<1>4. CASE store'[req[r].id] = store[req[r].id]
  BY <1>1, <1>2, <1>3, <1>4 DEF Effects, AcceptSteps, CheckHolds, Exists
<1>5. CASE store'[req[r].id] # store[req[r].id]
  <2>1. PICK p \in Reqs : Written(p, req[r].id)
    BY <1>1, <1>2, <1>5 DEF Effects, StoreSteps, Removed, Exists
  <2>2. /\ req[p].id = req[r].id /\ p \in InFlight
        /\ req[p].op \in {"submit", "update", "acceptPreauth", "preauthorize"}
        /\ store'[req[r].id].status = dev[p].status
    BY <1>2, <2>1, WrittenFields DEF Frame, Inv
  <2>3. CASE req[p].op \in {"acceptPreauth", "preauthorize"}
    BY <1>2, <2>2, <2>3 DEF Frame, Inv, Carries
  <2>4. CASE req[p].op \in {"submit", "update"}
    <3>1. r \in InFlight
      BY <1>1, <1>2, <1>5 DEF Effects, AcceptSteps, InFlight
    <3>2. Overlapped(r, p)
      BY <1>2, <2>2, <2>4, <3>1, FlightsOverlap
    <3> QED
      BY <1>3, <2>2, <2>4, <3>2 DEF ChangedMeanwhile
  <2> QED
    BY <2>2, <2>3, <2>4
<1> QED
  BY <1>4, <1>5

\* The internal acceptance takes a set out of another status than preauthorized
\* only after a request that changes its status ran between check and update.
THEOREM LateAcceptances == Spec => LateAcceptanceIsConcurrent
<1>1. Init => CheckHolds
  BY DEF Init, CheckHolds
<1>2. ASSUME Frame, CheckHolds, NEW r \in Reqs, AcceptPreAuthUpdate(r), store' # store
      PROVE  \/ store[req[r].id].status = "preauthorized"
             \/ \E q \in Reqs :
                   /\ req[q].id = req[r].id
                   /\ req[q].op \in {"submit", "update"}
                   /\ Overlapped(r, q)
  <2> DEFINE i == req[r].id
             old == store[i]
  <2>1. /\ req[r].op = "acceptPreauth" /\ pc[r] = "write" /\ Exists(store, i)
        /\ store' = UpdateDeviceAuth(store, i, dev[r])
    BY <1>2, WriteShape DEF AcceptPreAuthUpdate, At, Found, Frame, Inv
  <2>2. i \in AuthIds /\ old \in Doc /\ store \in Collection
    BY <1>2, <2>1 DEF Frame, Inv, TypeInv, TypeOK, Addressed, Ops, Exists, Collection
  <2>3. /\ dev[r].status = "accepted"
        /\ dev[r].identity = Unset /\ dev[r].deviceId = Unset
    BY <1>2, <2>1 DEF Frame, Inv, Carries, Fields
  <2>4. GenDeviceAuthUpdate(old, dev[r]) =
           [deviceId |-> old.deviceId, identity |-> old.identity, status |-> "accepted"]
    BY <2>3 DEF GenDeviceAuthUpdate, Status
  <2>5. old.status = "accepted" => GenDeviceAuthUpdate(old, dev[r]) = old
    BY <2>2, <2>4 DEF Doc
  <2>6. old.status # "accepted"
    BY <1>2, <2>1, <2>2, <2>5 DEF UpdateDeviceAuth, Collection
  <2> QED
    BY <2>1, <2>6, <1>2 DEF CheckHolds, ChangedMeanwhile
<1>3. Frame /\ CheckHolds /\ [Next]_vars =>
         [\A r \in Reqs :
             AcceptPreAuthUpdate(r) /\ store' # store =>
                 \/ store[req[r].id].status = "preauthorized"
                 \/ \E q \in Reqs :
                       /\ req[q].id = req[r].id
                       /\ req[q].op \in {"submit", "update"}
                       /\ Overlapped(r, q)]_vars
  BY <1>2
<1> QED
  BY <1>1, <1>3, FrameInvariant, CheckStep, PTL DEF Spec, LateAcceptanceIsConcurrent

-----------------------------------------------------------------------------
(* Decisions.                                                              *)

\* A submission of set i has overlapped a decision about it.
Moved(i) ==
    \E p, q \in Reqs :
        /\ req[p].id = i /\ req[p].op = "update"
        /\ req[q].id = i /\ req[q].op = "submit"
        /\ Overlapped(p, q)

\* The device id that a decision has read is the set's, and the one that any other
\* decision has read, unless a submission has moved the set meanwhile.
ReadHolds ==
    \A r \in Reqs :
        req[r].op = "update" /\ pc[r] \in Waiting =>
            \/ Moved(req[r].id)
            \/ /\ Exists(store, req[r].id) => dev[r].deviceId = store[req[r].id].deviceId
               /\ \A p \in Reqs :
                     req[p].op = "update" /\ pc[p] \in Waiting /\ req[p].id = req[r].id =>
                         dev[p].deviceId = dev[r].deviceId

\* A submission to blame stays to blame.
LEMMA MovedStays ==
    ASSUME Effects, NEW r \in Reqs, Arrived(r), Moved(req[r].id) PROVE Moved(req[r].id)'
<1>1. PICK p \in Reqs, q \in Reqs :
        /\ req[p].id = req[r].id /\ req[p].op = "update"
        /\ req[q].id = req[r].id /\ req[q].op = "submit"
        /\ Overlapped(p, q)
  BY DEF Moved
<1>2. /\ req'[r] = req[r] /\ req'[p] = req[p] /\ req'[q] = req[q]
      /\ Overlapped(p, q)'
  BY <1>1, OverlapStays DEF Effects, Stays, Overlapped, Arrived
<1> QED
  BY <1>1, <1>2 DEF Moved

\* A step moves a set from the device that a decision has read only if it is a
\* submission's.
LEMMA ReadStep == Frame /\ ReadHolds /\ [Next]_vars => ReadHolds'
<1> SUFFICES ASSUME Frame, ReadHolds, [Next]_vars, NEW r \in Reqs,
                    req'[r].op = "update", pc'[r] \in Waiting, ~Moved(req[r].id)'
             PROVE  /\ Exists(store', req'[r].id) =>
                          dev'[r].deviceId = store'[req'[r].id].deviceId
                    /\ \A p \in Reqs :
                          req'[p].op = "update" /\ pc'[p] \in Waiting
                              /\ req'[p].id = req'[r].id =>
                              dev'[p].deviceId = dev'[r].deviceId
  BY DEF ReadHolds
<1> DEFINE i == req[r].id
<1>1. Effects
  BY StepEffects DEF Frame
<1>2. req[r].op = "update" /\ req'[r] = req[r] /\ i \in AuthIds
  BY <1>1 DEF Effects, UpdateSteps, Frame, Inv, TypeInv, Addressed, Ops
<1>3. ~Moved(i)
  BY <1>1, <1>2, MovedStays DEF Arrived, Ops
<1>4. ASSUME NEW p \in Reqs, req'[p].op = "update", pc'[p] \in Waiting, req'[p].id = i
      PROVE  /\ req[p].op = "update" /\ req[p].id = i
             /\ \/ /\ pc[p] \in Waiting /\ dev'[p] = dev[p]
                   /\ Exists(store, i) => dev[p].deviceId = store[i].deviceId
                \/ /\ store' = store /\ Exists(store, i)
                   /\ dev'[p].deviceId = store[i].deviceId
  <2>1. req[p].op = "update" /\ req[p].id = i
    BY <1>1, <1>4 DEF Effects, UpdateSteps
  <2>2. \/ pc[p] \in Waiting /\ dev'[p] = dev[p]
        \/ /\ store' = store /\ Exists(store, i)
           /\ dev'[p].deviceId = store[i].deviceId
    BY <1>1, <1>4, <2>1 DEF Effects, UpdateSteps
  <2>3. pc[p] \in Waiting /\ Exists(store, i) => dev[p].deviceId = store[i].deviceId
    BY <1>3, <2>1 DEF ReadHolds
  <2> QED
    BY <2>1, <2>2, <2>3
<1>5. ASSUME NEW p \in Reqs, req'[p].op = "update", pc'[p] \in Waiting, req'[p].id = i
      PROVE  dev'[p].deviceId = dev'[r].deviceId
  <2>1. CASE Exists(store, i)
    BY <1>2, <1>4, <1>5, <2>1
  <2>2. CASE ~Exists(store, i)
    <3>1. /\ pc[p] \in Waiting /\ dev'[p] = dev[p] /\ req[p].op = "update"
          /\ pc[r] \in Waiting /\ dev'[r] = dev[r] /\ req[p].id = i
      BY <1>2, <1>4, <1>5, <2>2
    <3> QED
      BY <1>2, <1>3, <3>1 DEF ReadHolds
  <2> QED
    BY <2>1, <2>2
<1>6. ASSUME Exists(store', i) PROVE dev'[r].deviceId = store'[i].deviceId
  <2>1. CASE store'[i] = store[i]
    BY <1>2, <1>4, <1>6, <2>1 DEF Exists
  <2>2. CASE store'[i] # store[i]
    <3>1. PICK p \in Reqs : Written(p, i) /\ (req[p].op # "preauthorize" => pc'[p] = "done")
      BY <1>1, <1>2, <1>6, <2>2 DEF Effects, StoreSteps, Removed, Exists
    <3>2. pc[r] \in Waiting /\ dev'[r] = dev[r]
      BY <1>2, <1>4, <2>2
    <3>3. /\ req[p].id = i /\ p \in InFlight /\ pc[p] = "write"
          /\ req[p].op \in {"submit", "update", "acceptPreauth", "preauthorize"}
          /\ req[p].op = "preauthorize" => i = p
          /\ req[p].op = "update" => store'[i].deviceId = dev[p].deviceId
          /\ req[p].op = "acceptPreauth" =>
                Exists(store, i) /\ store'[i].deviceId = store[i].deviceId
      BY <1>2, <3>1, WrittenFields DEF Frame, Inv, Written
    <3>4. CASE req[p].op = "submit"
      <4>1. r \in InFlight /\ p # r
        BY <1>2, <3>2, <3>4 DEF Waiting, InFlight
      <4> QED
        BY <1>2, <1>3, <3>3, <3>4, <4>1, FlightsOverlap DEF Moved
    <3>5. CASE req[p].op = "update"
      BY <1>2, <1>3, <3>2, <3>3, <3>5 DEF ReadHolds, Waiting
    <3>6. CASE req[p].op = "acceptPreauth"
      BY <1>2, <1>3, <3>2, <3>3, <3>6 DEF ReadHolds
    <3>7. CASE req[p].op = "preauthorize"
      BY <1>2, <3>3, <3>7 DEF Frame, Inv, Known, Draws, Drawn
    <3> QED
      BY <3>3, <3>4, <3>5, <3>6, <3>7
  <2> QED
    BY <2>1, <2>2
<1> QED
  BY <1>2, <1>5, <1>6

\* A decision about a set that is there leaves its identity alone, and moves it to
\* another device only after a submission overlapped a decision about the set.
THEOREM Decisions == Spec => DecisionKeepsSet
<1> DEFINE Kept(r) ==
      UpdateStatusPut(r) /\ Found(r) /\ store' # store =>
          LET old == store[req[r].id]
              new == store'[req[r].id]
          IN /\ new.identity = old.identity
             /\ new.deviceId = old.deviceId
                \/ \E p, q \in Reqs :
                      /\ {req[p].id, req[q].id} = {req[r].id}
                      /\ req[p].op = "update" /\ req[q].op = "submit"
                      /\ Overlapped(p, q)
<1>1. Init => ReadHolds
  BY DEF Init, ReadHolds, Waiting
<1>2. ASSUME Frame, ReadHolds, NEW r \in Reqs PROVE Kept(r)
  <2> SUFFICES ASSUME UpdateStatusPut(r), Found(r), store' # store PROVE Kept(r)
    OBVIOUS
  <2> DEFINE i == req[r].id
  <2>1. /\ req[r].op = "update" /\ pc[r] = "write" /\ Exists(store, i)
        /\ store' = PutDeviceAuth(store, i, dev[r])
    BY <1>2, WriteShape DEF UpdateStatusPut, At, Found, Frame, Inv
  <2>2. i \in AuthIds /\ store \in Collection
    BY <1>2, <2>1 DEF Frame, Inv, TypeInv, TypeOK, Addressed, Ops
  <2>3. Written(r, i)
    BY <2>1, <2>2 DEF Written, PutDeviceAuth, Collection
  <2>4. store'[i].identity = store[i].identity /\ store'[i].deviceId = dev[r].deviceId
    BY <1>2, <2>1, <2>2, <2>3, WrittenFields DEF Frame, Inv
  <2>5. dev[r].deviceId = store[i].deviceId \/ Moved(i)
    BY <1>2, <2>1 DEF ReadHolds, Waiting
  <2> QED
    BY <2>4, <2>5 DEF Moved
<1>3. Frame /\ ReadHolds /\ [Next]_vars => [\A r \in Reqs : Kept(r)]_vars
  BY <1>2
<1> QED
  BY <1>1, <1>3, FrameInvariant, ReadStep, PTL DEF Spec, DecisionKeepsSet

-----------------------------------------------------------------------------
(* Divergence.                                                             *)

Managed == {"submit", "update", "delete", "preauthorize"}

\* So far nothing has happened that explains a divergence about set i.
Clean(i) ==
    \A r \in Reqs : Touches(r, i) =>
        /\ req[r].op \in Managed /\ pc[r] # "crashed" /\ reply[r] # 500
        /\ \A q \in Reqs : Touches(q, i) => ~Overlapped(r, q)

Agree(i) ==
    IF ~Exists(store, i) THEN devauth[i] = Unset
    ELSE store[i].status # "pending" => devauth[i] = store[i].status

\* What a request in flight for set i has done so far: an update and a deletion
\* have told deviceauth first, a preauthorization has inserted its set first.
InStep(r, i) ==
    IF req[r].op = "preauthorize" /\ pc[r] = "wait"
    THEN /\ Exists(store, i) /\ store[i].status = "preauthorized"
         /\ call[r] = "ok" => devauth[i] = "preauthorized"
    ELSE IF req[r].op \in {"update", "delete"} /\ call[r] = "ok"
         THEN devauth[i] = IF req[r].op = "delete" THEN Unset ELSE dev[r].status
         ELSE Agree(i)

\* deviceauth and the database agree but for what the request in flight has begun.
Progress ==
    \A i \in AuthIds : Clean(i) =>
        /\ \A r \in InFlight : Touches(r, i) => InStep(r, i)
        /\ (\A r \in InFlight : ~Touches(r, i)) => Agree(i)

\* A request that ended well has left no call behind.
Settled == \A r \in Reqs : pc[r] = "done" /\ reply[r] # 500 => call[r] # "sent"

\* A handler that answers has its call answered, or answers with an error.
LEMMA SettledStep == Inv /\ Settled /\ [Next]_vars => Settled'
<1> SUFFICES ASSUME Inv, Settled, [Next]_vars PROVE Settled'
  OBVIOUS
<1> USE DEF Inv, Settled
<1>1. ASSUME NEW r \in Reqs, Arrival(r) PROVE Settled'
  <2>1. CASE BadRequest(r)
    BY <2>1 DEF BadRequest, Phased, TypeInv, TypeOK, Ops
  <2>2. CASE ~BadRequest(r)
    BY <1>1, <2>2, ArrivalFields
  <2> QED
    BY <2>1, <2>2
<1>2. ASSUME NEW r \in Reqs, Handle(r) PROVE Settled'
  <2>1. Own(r) /\ Moves(r)
    BY <1>2, HandleShape
  <2>2. ASSUME pc[r] = "wait", pc'[r] = "done", call[r] = "sent" PROVE reply'[r] = 500
    <3>1. \/ UpdateStatusAnswered(r) \/ DeletePropagateAnswered(r)
          \/ PreauthorizeAnswered(r) \/ GiveUp(r)
      BY <1>2, <2>2 DEF Handle, At, SubmitDeviceAuth, UpdateStatusLookup, UpdateStatusPut,
         AcceptPreAuthCheck, AcceptPreAuthUpdate, DeletePropagateLookup,
         DeleteDeviceAuth, DeleteDeviceData, PreauthorizeCheck, PreauthorizeInsert
    <3> QED
      BY <2>2, <3>1, AnswerShape
         DEF UpdateStatusAnswered, DeletePropagateAnswered, PreauthorizeAnswered, GiveUp
  <2>3. pc[r] \in {"check", "write"} => call[r] # "sent"
    BY DEF Phased, CalledFirst, Draws
  <2> QED
    BY <2>1, <2>2, <2>3 DEF Own, Moves
<1>3. ASSUME NEW r \in Reqs, Devauth(r) PROVE Settled'
  BY <1>3 DEF Devauth, DevauthApply, DevauthRefuse, TypeInv, TypeOK
<1>4. CASE Crash
  BY <1>4 DEF Crash
<1>5. CASE UNCHANGED vars
  BY <1>5 DEF vars
<1> QED
  BY <1>1, <1>2, <1>3, <1>4, <1>5 DEF Next

\* What ends badly, or overlaps, does so for good.
LEMMA CleanBefore ==
    ASSUME Frame, Effects, NEW i \in AuthIds, Clean(i)' PROVE Clean(i)
<1> SUFFICES ASSUME NEW r \in Reqs, Touches(r, i)
             PROVE  /\ req[r].op \in Managed /\ pc[r] # "crashed" /\ reply[r] # 500
                    /\ \A q \in Reqs : Touches(q, i) => ~Overlapped(r, q)
  BY DEF Clean
<1>1. ASSUME NEW q \in Reqs, Touches(q, i) PROVE req[q].op # Unset /\ Touches(q, i)'
  <2>1. req[q].op # Unset
    BY <1>1 DEF Touches, Frame, Fields, Ops
  <2> QED
    BY <1>1, <2>1 DEF Effects, Stays, Touches
<1>2. \A q \in Reqs : Touches(q, i) => ~Overlapped(r, q)
  BY <1>1, OverlapStays DEF Clean
<1>3. req'[r] = req[r] /\ req'[r].op \in Managed /\ pc'[r] # "crashed" /\ reply'[r] # 500
  BY <1>1 DEF Clean, Effects, Stays
<1>4. pc[r] = "crashed" \/ reply[r] = 500 => r \in Over
  BY DEF Over, Frame, Inv, Phased
<1> QED
  BY <1>2, <1>3, <1>4 DEF Effects, Stays

\* A step of a handler takes its request on as InStep and Agree say.
LEMMA HandleProgress ==
    ASSUME Frame, Effects, NEW r \in Reqs, Handle(r), NEW i \in AuthIds, Touches(r, i),
           req[r].op \in Managed, InStep(r, i), reply'[r] # 500
    PROVE  IF pc'[r] = "done" THEN Agree(i)' ELSE InStep(r, i)'
<1> USE DEF Frame, Inv
<1>0. /\ req[r].id = i /\ req' = req /\ devauth' = devauth /\ store \in Collection
      /\ pc[r] = "check" => call[r] = "none"
      /\ req[r].op = "submit" => call[r] = "none"
      /\ pc'[r] # "done" => reply'[r] = reply[r]
  BY HandleShape DEF Touches, Managed, Own, Moves, TypeInv, TypeOK, Phased
<1>1. CASE SubmitDeviceAuth(r)
  <2>1. req[r].op = "submit" /\ Write(r, PutDeviceAuth(store, i, dev[r]), 204)
    BY <1>0, <1>1 DEF SubmitDeviceAuth, At
  <2>2. pc'[r] = "done" /\ store' = PutDeviceAuth(store, i, dev[r])
    BY <2>1, AnswerShape DEF Write
  <2>3. dev[r].status = "pending" /\ dev[r] \in Doc
    BY <2>1 DEF Carries, TypeInv, TypeOK
  <2>4. store'[i] \in Doc /\ store'[i].status = "pending"
    BY <1>0, <2>2, <2>3, PutCarries DEF Status
  <2> QED
    BY <2>2, <2>4 DEF Agree, Exists
<1>2. CASE UpdateStatusLookup(r)
  <2>1. req[r].op = "update" /\ pc[r] = "check" /\ store' = store
    BY <1>2 DEF UpdateStatusLookup, At
  <2>2. Agree(i)'
    BY <1>0, <2>1 DEF InStep, Agree, Exists
  <2>3. pc'[r] # "done" => call'[r] = "sent"
    BY <1>2, PropagateShape, AnswerShape DEF UpdateStatusLookup, ReadFails
  <2> QED
    BY <1>0, <2>1, <2>2, <2>3 DEF InStep
<1>3. CASE UpdateStatusAnswered(r)
  <2>1. /\ req[r].op = "update" /\ pc[r] = "wait"
        /\ UNCHANGED <<dev, call, store>>
    BY <1>3 DEF UpdateStatusAnswered, At
  <2>2. \/ call[r] = "ok" /\ pc'[r] = "write"
        \/ call[r] = "usage" /\ pc'[r] = "done"
    BY <1>3, GoShape, AnswerShape DEF UpdateStatusAnswered
  <2> QED
    BY <1>0, <2>1, <2>2 DEF InStep, Agree, Exists
<1>4. CASE UpdateStatusPut(r)
  <2>1. /\ req[r].op = "update" /\ pc[r] = "write"
        /\ Write(r, PutDeviceAuth(store, i, dev[r]), 200)
    BY <1>0, <1>4 DEF UpdateStatusPut, At
  <2>2. pc'[r] = "done" /\ store' = PutDeviceAuth(store, i, dev[r])
    BY <2>1, AnswerShape DEF Write
  <2>3. dev[r].status # Unset /\ dev[r] \in Doc
    BY <2>1 DEF Carries, Decided, Status, TypeInv, TypeOK
  <2>4. store'[i] \in Doc /\ store'[i].status = dev[r].status
    BY <1>0, <2>2, <2>3, PutCarries
  <2>5. devauth[i] = dev[r].status
    BY <2>1 DEF CalledFirst, InStep
  <2> QED
    BY <1>0, <2>2, <2>4, <2>5 DEF Agree, Exists
<1>5. CASE DeletePropagateLookup(r)
  <2>1. req[r].op = "delete" /\ pc[r] = "check" /\ store' = store
    BY <1>5 DEF DeletePropagateLookup, At
  <2>2. Agree(i)'
    BY <1>0, <2>1 DEF InStep, Agree, Exists
  <2>3. pc'[r] # "done" => call'[r] = "sent"
    BY <1>5, PropagateShape, AnswerShape DEF DeletePropagateLookup, ReadFails
  <2> QED
    BY <1>0, <2>1, <2>2, <2>3 DEF InStep
<1>6. CASE DeletePropagateAnswered(r)
  <2>1. req[r].op = "delete" /\ UNCHANGED <<dev, call, store>>
    BY <1>6 DEF DeletePropagateAnswered, At
  <2>2. call[r] = "ok" /\ pc'[r] = "write"
    BY <1>6, GoShape, AnswerShape DEF DeletePropagateAnswered
  <2> QED
    BY <1>0, <2>1, <2>2 DEF InStep
<1>7. CASE DeleteDeviceAuth(r)
  <2>1. /\ req[r].op = "delete" /\ pc[r] = "write"
        /\ Write(r, DeleteDeviceAuths(store, {i}), 204)
    BY <1>0, <1>7 DEF DeleteDeviceAuth, At, Managed
  <2>2. pc'[r] = "done" /\ store' = DeleteDeviceAuths(store, {i})
    BY <2>1, AnswerShape DEF Write
  <2>3. devauth[i] = Unset
    BY <2>1 DEF CalledFirst, InStep
  <2> QED
    BY <1>0, <2>2, <2>3 DEF Agree, Exists, DeleteDeviceAuths
<1>8. CASE PreauthorizeCheck(r)
  <2>1. /\ req[r].op = "preauthorize" /\ pc[r] = "check"
        /\ UNCHANGED <<dev, call, store>>
    BY <1>8 DEF PreauthorizeCheck, At
  <2>2. Agree(i)' /\ pc'[r] \in {"done", "write"}
    BY <1>0, <1>8, <2>1, GoShape, AnswerShape
       DEF PreauthorizeCheck, ReadFails, InStep, Agree, Exists
  <2> QED
    BY <1>0, <2>1, <2>2 DEF InStep
<1>9. CASE PreauthorizeInsert(r)
  <2>1. /\ req[r].op = "preauthorize" /\ pc[r] = "write" /\ i = r
        /\ dev[r].status = "preauthorized" /\ dev[r] \in Doc
    BY <1>0, <1>9 DEF PreauthorizeInsert, At, Draws, Carries, TypeInv, TypeOK
  <2>2. /\ store' = InsertDeviceAuth(store, r, [dev[r] EXCEPT !.deviceId = r])
        /\ Propagate(r)
    BY <1>9, AnswerShape DEF PreauthorizeInsert
  <2>3. /\ [dev[r] EXCEPT !.deviceId = r] \in Doc
        /\ [dev[r] EXCEPT !.deviceId = r].status = "preauthorized"
    BY <2>1 DEF Doc
  <2>4. store'[i] \in Doc /\ store'[i].status = "preauthorized"
    BY <1>0, <2>1, <2>2, <2>3 DEF InsertDeviceAuth, Collection
  <2>5. pc'[r] = "wait" /\ call'[r] = "sent"
    BY <2>2, PropagateShape
  <2> QED
    BY <1>0, <2>1, <2>4, <2>5 DEF InStep, Exists
<1>10. CASE PreauthorizeAnswered(r)
  <2>1. req[r].op = "preauthorize" /\ pc[r] = "wait" /\ store' = store
    BY <1>10 DEF PreauthorizeAnswered, At
  <2>2. call[r] = "ok" /\ pc'[r] = "done"
    BY <1>10, AnswerShape DEF PreauthorizeAnswered
  <2> QED
    BY <1>0, <2>1, <2>2 DEF InStep, Agree, Exists
<1>11. CASE GiveUp(r)
  BY <1>11, AnswerShape DEF GiveUp
<1>12. CASE AcceptPreAuthCheck(r) \/ AcceptPreAuthUpdate(r) \/ DeleteDeviceData(r)
  BY <1>12 DEF AcceptPreAuthCheck, AcceptPreAuthUpdate, DeleteDeviceData, At, Managed
<1> QED
  BY <1>1, <1>2, <1>3, <1>4, <1>5, <1>6, <1>7, <1>8, <1>9, <1>10, <1>11, <1>12 DEF Handle

\* Every step keeps the two services as close as that.
LEMMA ProgressStep == Frame /\ Settled /\ Progress /\ [Next]_vars => Progress'
<1> SUFFICES ASSUME Frame, Settled, Progress, [Next]_vars, NEW i \in AuthIds, Clean(i)'
             PROVE  /\ \A r \in InFlight' : Touches(r, i)' => InStep(r, i)'
                    /\ (\A r \in InFlight' : ~Touches(r, i)') => Agree(i)'
  BY DEF Progress
<1> USE DEF Frame, Inv
<1>0. Effects /\ "crashed" \notin {"check", "wait", "write"}
  BY StepEffects
<1>1. /\ Clean(i)
      /\ \A r \in InFlight : Touches(r, i) => InStep(r, i)
      /\ (\A r \in InFlight : ~Touches(r, i)) => Agree(i)
  BY <1>0, CleanBefore DEF Progress
<1>2. \A r, q \in InFlight : Touches(r, i) /\ Touches(q, i) => r = q
  BY <1>1, FlightsOverlap DEF Clean, InFlight
<1>3. ASSUME NEW r \in Reqs, BadRequest(r) PROVE Progress'
  BY <1>3, CleanBefore, StepEffects
     DEF BadRequest, InFlight, Progress, Touches, InStep, Agree, Clean, Exists,
         Overlapped, Arrived, TypeInv, TypeOK
<1>4. ASSUME NEW r \in Reqs, Arrival(r), ~BadRequest(r)
      PROVE  /\ \A q \in InFlight' : Touches(q, i)' => InStep(q, i)'
             /\ (\A q \in InFlight' : ~Touches(q, i)') => Agree(i)'
  <2>1. /\ pc[r] = "idle" /\ req[r].op = Unset /\ pc'[r] \in {"check", "write"}
        /\ past' = [past EXCEPT ![r] = Over]
        /\ req'[r].op \in Ops /\ UNCHANGED <<call, reply, store, devauth>>
        /\ \A q \in Reqs \ {r} : pc'[q] = pc[q] /\ req'[q] = req[q] /\ dev'[q] = dev[q]
    BY <1>4, ArrivalFields
  <2>2. call[r] = "none"
    BY <2>1 DEF Phased, Ops
  <2>3. InFlight' = InFlight \cup {r} /\ r \notin InFlight /\ r \notin Over
    BY <2>1 DEF InFlight, Over
  <2>4. \A q \in InFlight : Touches(q, i)' = Touches(q, i) /\ InStep(q, i)' = InStep(q, i)
    BY <2>1, <2>3 DEF Touches, InStep, Agree, Exists, InFlight
  <2>5. Agree(i)' = Agree(i)
    BY <2>1 DEF Agree, Exists
  <2>6. CASE Touches(r, i)'
    <3>1. ASSUME NEW q \in InFlight, Touches(q, i) PROVE FALSE
      <4>1. q \notin past'[r] /\ r \notin past'[q]
        BY <2>1, <2>3, <3>1 DEF PastOver, Over, InFlight, TypeInv, TypeOK
      <4>2. Arrived(r)' /\ Arrived(q)'
        BY <2>1, <2>3, <3>1 DEF Arrived, InFlight, Phased, Ops
      <4>3. Overlapped(r, q)'
        BY <2>3, <3>1, <4>1, <4>2 DEF Overlapped
      <4> QED
        BY <2>4, <2>6, <3>1, <4>3 DEF Clean, InFlight
    <3>2. InStep(r, i)'
      BY <1>1, <2>1, <2>2, <2>5, <3>1 DEF InStep
    <3> QED
      BY <2>3, <2>4, <2>6, <3>1, <3>2
  <2>7. CASE ~Touches(r, i)'
    BY <1>1, <2>3, <2>4, <2>5, <2>7
  <2> QED
    BY <2>6, <2>7
<1>5. ASSUME NEW r \in Reqs, Handle(r)
      PROVE  /\ \A q \in InFlight' : Touches(q, i)' => InStep(q, i)'
             /\ (\A q \in InFlight' : ~Touches(q, i)') => Agree(i)'
  <2>1. /\ req' = req /\ devauth' = devauth
        /\ \A q \in Reqs \ {r} : pc'[q] = pc[q] /\ dev'[q] = dev[q] /\ call'[q] = call[q]
        /\ pc[r] \in {"check", "wait", "write"} /\ pc'[r] \in {"wait", "write", "done"}
    BY <1>5, HandleShape DEF Own, Moves
  <2>2. /\ r \in InFlight /\ (r \in InFlight' <=> pc'[r] # "done")
        /\ \A q \in Reqs \ {r} : q \in InFlight' <=> q \in InFlight
        /\ \A q \in Reqs : Touches(q, i)' = Touches(q, i)
    BY <2>1 DEF InFlight, Touches
  <2>3. CASE Touches(r, i)
    <3>1. req[r].op \in Managed /\ reply'[r] # 500
      BY <1>1, <2>2, <2>3 DEF Clean
    <3>2. IF pc'[r] = "done" THEN Agree(i)' ELSE InStep(r, i)'
      BY <1>0, <1>1, <1>5, <2>2, <2>3, <3>1, HandleProgress
    <3>3. \A q \in InFlight' : Touches(q, i)' => q = r
      BY <1>2, <2>2, <2>3 DEF InFlight
    <3> QED
      BY <2>2, <2>3, <3>2, <3>3
  <2>4. CASE ~Touches(r, i)
    <3>1. store'[i] = store[i]
      BY <1>5, <2>4, HandleWrites DEF Written, Removed, Touches
    <3>2. Agree(i)' = Agree(i)
      BY <2>1, <3>1 DEF Agree, Exists
    <3>3. \A q \in Reqs \ {r} : InStep(q, i)' = InStep(q, i)
      BY <2>1, <3>1, <3>2 DEF InStep, Exists
    <3> QED
      BY <1>1, <2>2, <2>4, <3>2, <3>3 DEF InFlight
  <2> QED
    BY <2>3, <2>4
<1>6. ASSUME NEW r \in Reqs, Devauth(r)
      PROVE  /\ \A q \in InFlight' : Touches(q, i)' => InStep(q, i)'
             /\ (\A q \in InFlight' : ~Touches(q, i)') => Agree(i)'
  <2>1. /\ UNCHANGED <<pc, req, dev, reply, store>> /\ call[r] = "sent"
        /\ \A q \in Reqs \ {r} : call'[q] = call[q]
        /\ \/ /\ call'[r] = "ok"
              /\ devauth' = [devauth EXCEPT ![req[r].id] =
                               IF req[r].op = "delete" THEN Unset ELSE dev[r].status]
           \/ call'[r] \in {"usage", "error"} /\ devauth' = devauth
    BY <1>6 DEF Devauth, DevauthApply, DevauthRefuse, TypeInv, TypeOK
  <2>2. /\ InFlight' = InFlight /\ InFlight \subseteq Reqs
        /\ \A q \in Reqs : Touches(q, i)' = Touches(q, i)
    BY <2>1 DEF InFlight, Touches
  <2>3. req[r].op \in {"update", "delete", "preauthorize"}
    BY <2>1 DEF Phased
  <2>4. CASE Touches(r, i)
    <3>1. req[r].id = i /\ devauth \in [AuthIds -> Status \cup {Unset}]
      BY <2>3, <2>4 DEF Touches, TypeInv, TypeOK
    <3>2. pc[r] = "wait"
      <4>1. pc[r] # "crashed" /\ reply[r] # 500
        BY <1>1, <2>4 DEF Clean
      <4>2. pc[r] # "done"
        BY <2>1, <4>1 DEF Settled
      <4>3. pc[r] \notin {"idle", "check"}
        BY <2>1, <2>3 DEF Phased, Ops
      <4>4. pc[r] # "write"
        <5>1. call[r] = "sent"
          BY <2>1
        <5> QED
          BY <5>1, <2>3 DEF CalledFirst, Draws
      <4> QED
        BY <4>1, <4>2, <4>3, <4>4 DEF TypeInv, TypeOK, Phases
    <3>3. r \in InFlight /\ InStep(r, i)
      BY <1>1, <2>4, <3>2 DEF InFlight
    <3>4. InStep(r, i)'
      BY <2>1, <2>3, <3>1, <3>2, <3>3 DEF InStep, Agree, Exists, Carries
    <3>5. \A q \in InFlight : Touches(q, i) => q = r
      BY <1>2, <2>4, <3>3
    <3> QED
      BY <2>2, <2>4, <3>3, <3>4, <3>5
  <2>5. CASE ~Touches(r, i)
    <3>1. devauth'[i] = devauth[i]
      BY <2>1, <2>5 DEF Touches, TypeInv, TypeOK
    <3>2. Agree(i)' = Agree(i)
      BY <2>1, <3>1 DEF Agree, Exists
    <3>3. \A q \in Reqs \ {r} : InStep(q, i)' = InStep(q, i)
      BY <2>1, <3>1, <3>2 DEF InStep, Exists
    <3> QED
      BY <1>1, <2>2, <2>5, <3>2, <3>3 DEF InFlight
  <2> QED
    BY <2>4, <2>5
<1>7. CASE Crash
  <2>1. /\ UNCHANGED <<req, dev, call, store, devauth>>
        /\ \A q \in InFlight : pc'[q] = "crashed"
        /\ \A q \in Reqs \ InFlight : pc'[q] = pc[q]
    BY <1>7 DEF Crash, InFlight
  <2>2. \A q \in InFlight : ~Touches(q, i)
    BY <2>1 DEF Clean, Touches, InFlight
  <2>3. Agree(i)' /\ InFlight' = {}
    BY <1>1, <2>1, <2>2 DEF Agree, Exists, InFlight
  <2> QED
    BY <2>3
<1>8. CASE UNCHANGED vars
  BY <1>1, <1>8 DEF vars, InFlight, Touches, InStep, Agree, Exists
<1> QED
  BY <1>3, <1>4, <1>5, <1>6, <1>7, <1>8 DEF Next, Progress

\* deviceauth and the database agree about a set unless requests for it overlapped,
\* or one of them ended in an internal error or a crash.
THEOREM Divergence == Spec => []DivergenceIsExplained
<1>1. Init => Settled /\ Progress
  <2> SUFFICES ASSUME Init PROVE Settled /\ Progress
    OBVIOUS
  <2>1. InFlight = {} /\ Settled
    BY DEF Init, InFlight, Settled
  <2>2. \A i \in AuthIds : Agree(i)
    BY DEF Init, Agree, Exists
  <2> QED
    BY <2>1, <2>2 DEF Progress
<1>2. Progress => DivergenceIsExplained
  <2> SUFFICES ASSUME Progress, NEW i \in AuthIds, Undisturbed(i), OnlyManaged(i)
               PROVE  Agree(i)
    BY DEF DivergenceIsExplained, Agree
  <2>1. Clean(i) /\ \A r \in InFlight : ~Touches(r, i)
    BY DEF Undisturbed, OnlyManaged, Clean, Managed, InFlight
  <2> QED
    BY <2>1 DEF Progress
<1>3. Inv /\ Settled /\ [Next]_vars => Settled'
  BY SettledStep
<1>4. Frame => Inv
  BY DEF Frame
<1> QED
  BY <1>1, <1>2, <1>3, <1>4, FrameInvariant, ProgressStep, PTL DEF Spec

-----------------------------------------------------------------------------
(* Successes.                                                              *)

Successes == {200, 201, 204}

\* r has done what it will report as a success: a preauthorization does it before
\* it calls deviceauth, the other operations when they answer.
Succeeded(r) ==
    reply[r] \in Successes \/ (req[r].op = "preauthorize" /\ pc[r] = "wait")

\* r is past its last write and will not be refused.
Committed(r) ==
    /\ r \in Over \/ (req[r].op = "preauthorize" /\ pc[r] = "wait")
    /\ ~Refused(r)

\* What r has made of its sets is there, or somebody else has written since.
Superseded(r, i) ==
    \E q \in Reqs \ past[r] : q # r /\ Touches(q, i) /\ Committed(q)

Stands ==
    \A r \in Reqs, i \in AuthIds :
        Touches(r, i) /\ Succeeded(r) => Holds(r, i) \/ Superseded(r, i)

\* The step in which a handler succeeds makes true what its success says; the step
\* in which it writes is its last before it answers, and it is not refused; it is
\* not refused after a write either.
HandleSucceeds(r) ==
    /\ Succeeded(r)' =>
          \/ Succeeded(r) /\ dev'[r] = dev[r]
          \/ \A i \in AuthIds : Touches(r, i) => Holds(r, i)'
    /\ store' # store => Committed(r)'
    /\ Committed(r) => Committed(r)'

\* An upsert of a submission and of an update leave what the handler carries.
LEMMA PutHolds ==
    ASSUME TypeInv, Carries, Fields, NEW r \in Reqs, req[r].op \in {"submit", "update"},
           store' = PutDeviceAuth(store, req[r].id, dev[r]), dev' = dev, req' = req
    PROVE  \A i \in AuthIds : Touches(r, i) => Holds(r, i)'
<1> SUFFICES ASSUME NEW i \in AuthIds, Touches(r, i) PROVE Holds(r, i)'
  OBVIOUS
<1>1. i = req[r].id /\ store \in Collection /\ dev[r] \in Doc
  BY DEF Touches, TypeInv, TypeOK
<1> DEFINE old == IF Exists(store, i) THEN store[i] ELSE Blank
<1>2. store'[i] = GenDeviceAuthUpdate(old, dev[r])
  BY <1>1 DEF PutDeviceAuth, Collection
<1>3. old \in Doc
  BY <1>1 DEF Exists, Collection, Blank, Doc
<1> HIDE DEF old
<1>4. CASE req[r].op = "submit"
  <2>1. /\ dev[r].deviceId # Unset /\ dev[r].identity # Unset /\ dev[r].status # Unset
    BY <1>4 DEF Fields, Carries, Status
  <2>2. store'[i] = dev[r]
    BY <1>1, <1>2, <2>1 DEF GenDeviceAuthUpdate, Doc
  <2> QED
    BY <1>4, <2>2 DEF Holds
<1>5. CASE req[r].op = "update"
  <2>1. dev[r].status # Unset
    BY <1>5 DEF Carries, Decided, Status
  <2>2. /\ GenDeviceAuthUpdate(old, dev[r]) \in Doc
        /\ GenDeviceAuthUpdate(old, dev[r]).status = dev[r].status
    BY <1>1, <1>3, <2>1, UpdateType, UpdateCarries
  <2> QED
    BY <1>2, <1>5, <2>2 DEF Holds, Exists
<1> QED
  BY <1>4, <1>5

\* Every step of a handler is such a step.
LEMMA HandleSuccess ==
    ASSUME Inv, Fields, NEW r \in Reqs, Handle(r)
    PROVE  HandleSucceeds(r)
<1> USE DEF Inv
<1>0. /\ store \in Collection /\ dev \in [Reqs -> Doc] /\ dev[r] \in Doc
      /\ Own(r) /\ Moves(r)
  BY HandleShape DEF TypeInv, TypeOK
<1>1. /\ req' = req /\ reply[r] = 0 /\ pc[r] \in {"check", "wait", "write"}
      /\ Committed(r) => req[r].op = "preauthorize" /\ pc[r] = "wait"
      /\ req[r].op = "preauthorize" => req[r].id = r
  BY <1>0 DEF Own, Moves, Phased, Committed, Over, Draws
<1> USE DEF HandleSucceeds, Succeeded, Committed, Refused, Over, Successes
<1>2. CASE SubmitDeviceAuth(r) \/ UpdateStatusPut(r)
  <2>1. PICK code \in {200, 204} : Write(r, PutDeviceAuth(store, req[r].id, dev[r]), code)
    BY <1>2 DEF SubmitDeviceAuth, UpdateStatusPut
  <2>2. /\ pc[r] = "write" /\ req[r].op \in {"submit", "update"} /\ dev' = dev
        /\ pc'[r] = "done" /\ reply'[r] \in {code, 500}
        /\ reply'[r] = code => store' = PutDeviceAuth(store, req[r].id, dev[r])
    BY <1>2, <2>1, WriteShape, AnswerShape DEF SubmitDeviceAuth, UpdateStatusPut, At, Write
  <2>3. reply'[r] = code => \A i \in AuthIds : Touches(r, i) => Holds(r, i)'
    BY <1>1, <2>2, PutHolds
  <2> QED
    BY <1>1, <2>2, <2>3
<1>3. CASE UpdateStatusLookup(r) \/ UpdateStatusAnswered(r) \/ AcceptPreAuthCheck(r)
  <2>1. /\ req[r].op \in {"update", "acceptPreauth"} /\ store' = store
        /\ \/ pc'[r] \in {"wait", "write"} /\ reply' = reply
           \/ pc'[r] = "done" /\ reply'[r] \in {404, 409, 422, 500}
    BY <1>3, GoShape, AnswerShape, PropagateShape
       DEF UpdateStatusLookup, UpdateStatusAnswered, AcceptPreAuthCheck, At, ReadFails
  <2> QED
    BY <1>1, <2>1
<1>4. CASE AcceptPreAuthUpdate(r)
  <2>1. req[r].op = "acceptPreauth" /\ dev' = dev /\ pc'[r] = "done"
    BY <1>4, WriteShape, AnswerShape DEF AcceptPreAuthUpdate, At
  <2>2. \/ reply'[r] = 500
        \/ /\ reply'[r] = 200 /\ Found(r)
           /\ store' = UpdateDeviceAuth(store, req[r].id, dev[r])
    BY <1>4, AnswerShape DEF AcceptPreAuthUpdate, Write
  <2>3. ASSUME reply'[r] = 200, NEW i \in AuthIds, Touches(r, i) PROVE Holds(r, i)'
    <3>1. i = req[r].id /\ Exists(store, i) /\ dev[r].status # Unset
      BY <2>1, <2>2, <2>3 DEF Touches, Found, Carries, Status
    <3>2. store'[i] = UpdateDeviceAuth(store, i, dev[r])[i]
      BY <2>2, <2>3, <3>1
    <3>3. store'[i] \in Doc /\ store'[i].status = dev[r].status
      BY <1>0, <3>1, <3>2, StrictUpdateCarries
    <3> QED
      BY <1>1, <2>1, <3>3 DEF Holds, Exists
  <2> QED
    BY <1>1, <2>1, <2>2, <2>3
<1>5. CASE DeletePropagateLookup(r) \/ DeletePropagateAnswered(r) \/ DeleteDeviceAuth(r)
  <2>1. /\ req[r].op \in {"delete", "deleteInternal"}
        /\ \/ pc'[r] \in {"wait", "write"} /\ reply' = reply /\ store' = store
           \/ pc'[r] = "done" /\ reply'[r] \in {204, 500}
    BY <1>5, GoShape, AnswerShape, PropagateShape, WriteShape
       DEF DeletePropagateLookup, DeletePropagateAnswered, DeleteDeviceAuth, At, ReadFails
  <2>2. ASSUME reply'[r] = 204, NEW i \in AuthIds, Touches(r, i) PROVE Holds(r, i)'
    <3>1. ~Exists(store', i)
      BY <1>1, <2>1, <2>2, HandleDev DEF Touches
    <3> QED
      BY <1>1, <2>1, <3>1 DEF Holds
  <2> QED
    BY <1>1, <2>1, <2>2
<1>6. CASE DeleteDeviceData(r)
  <2>1. /\ req[r].op = "deleteByDevice" /\ dev' = dev
        /\ pc'[r] = "done" /\ reply'[r] = 204
    BY <1>6, AnswerShape DEF DeleteDeviceData, At
  <2>2. "db" \notin Faults =>
           store' = DeleteDeviceAuths(store, OfDevice(store, dev[r].deviceId))
    BY <1>6 DEF DeleteDeviceData
  <2>3. "db" \notin Faults =>
           \A i \in AuthIds : ~(Exists(store', i) /\ store'[i].deviceId = dev[r].deviceId)
    BY <1>0, <2>2 DEF DeleteDeviceAuths, OfDevice, Exists
  <2>4. \A i \in AuthIds : Touches(r, i) => Holds(r, i)'
    BY <1>1, <2>1, <2>3 DEF Holds
  <2> QED
    BY <1>1, <2>1, <2>4
<1>7. CASE PreauthorizeCheck(r)
  <2>1. /\ req[r].op = "preauthorize" /\ pc[r] = "check" /\ store' = store
        /\ \/ pc'[r] = "write" /\ reply' = reply
           \/ pc'[r] = "done" /\ reply'[r] \in {409, 500}
    BY <1>7, GoShape, AnswerShape DEF PreauthorizeCheck, At, ReadFails
  <2> QED
    BY <1>1, <2>1
<1>8. CASE PreauthorizeInsert(r)
  <2> DEFINE drawn == [dev[r] EXCEPT !.deviceId = r]
  <2>1. /\ req[r].op = "preauthorize" /\ pc[r] = "write" /\ dev'[r] = drawn
        /\ \/ pc'[r] = "wait" /\ reply' = reply /\ store' = InsertDeviceAuth(store, r, drawn)
           \/ pc'[r] = "done" /\ reply'[r] = 500
    BY <1>0, <1>8, PropagateShape, AnswerShape DEF PreauthorizeInsert, At
  <2>2. r \in AuthIds
    OBVIOUS
  <2> HIDE DEF drawn
  <2>3. ASSUME pc'[r] = "wait", NEW i \in AuthIds, Touches(r, i) PROVE Holds(r, i)'
    <3>1. i = r
      BY <1>1, <2>1, <2>3 DEF Touches
    <3>2. store'[i] = dev'[r]
      BY <1>0, <2>1, <2>2, <2>3, <3>1 DEF InsertDeviceAuth, Collection
    <3> QED
      BY <1>1, <2>1, <3>2 DEF Holds
  <2> QED
    BY <1>1, <2>1, <2>3
<1>9. CASE PreauthorizeAnswered(r) \/ GiveUp(r)
  <2>1. /\ pc[r] = "wait" /\ dev' = dev /\ store' = store
        /\ pc'[r] = "done" /\ reply'[r] \in {201, 500}
        /\ reply'[r] = 201 => req[r].op = "preauthorize"
    BY <1>9, AnswerShape DEF PreauthorizeAnswered, GiveUp, At
  <2> QED
    BY <1>1, <2>1
<1> QED
  BY <1>2, <1>3, <1>4, <1>5, <1>6, <1>7, <1>8, <1>9 DEF Handle

\* A request succeeds by what its own handler does and then keeps what it carries;
\* one that is past its last write is not refused; a set changes by the last write
\* of a request in flight.
SuccessSteps ==
    /\ \A r \in Reqs : Succeeded(r)' =>
          /\ req'[r] = req[r] /\ past'[r] = past[r]
          /\ \/ Succeeded(r) /\ dev'[r] = dev[r]
             \/ \A i \in AuthIds : Touches(r, i) => Holds(r, i)'
    /\ \A r \in Reqs : Arrived(r) /\ Committed(r) => Committed(r)'
    /\ \A i \in AuthIds :
          \/ store'[i] = store[i]
          \/ \E p \in Reqs : pc[p] = "write" /\ Touches(p, i) /\ Committed(p)'

\* A step leaves alone all that is said of requests that it does not concern.
LEMMA OthersKeep ==
    ASSUME Inv, NEW q \in Reqs, req'[q] = req[q], past'[q] = past[q], dev'[q] = dev[q],
           pc'[q] = pc[q], reply'[q] = reply[q]
    PROVE  /\ Succeeded(q)' => Succeeded(q)
           /\ Committed(q) => Committed(q)'
BY DEF Succeeded, Committed, Refused, Over

\* Every step is so.
LEMMA StepSucceeds == Frame /\ [Next]_vars => SuccessSteps
<1> SUFFICES ASSUME Frame, [Next]_vars PROVE SuccessSteps
  OBVIOUS
<1> USE DEF Frame, SuccessSteps
<1>1. ASSUME NEW r \in Reqs, Handle(r) PROVE SuccessSteps
  <2>1. Own(r) /\ Moves(r) /\ HandleSucceeds(r)
    BY <1>1, HandleShape, HandleSuccess DEF Inv
  <2>2. \A q \in Reqs \ {r} :
           (Succeeded(q)' => Succeeded(q)) /\ (Committed(q) => Committed(q)')
    BY <2>1, OthersKeep DEF Own
  <2>3. ASSUME NEW i \in AuthIds, store'[i] # store[i]
        PROVE  pc[r] = "write" /\ Touches(r, i) /\ Committed(r)'
    BY <1>1, <2>1, <2>3, HandleWrites
       DEF HandleSucceeds, Written, Removed, Touches, Inv
  <2> QED
    BY <2>1, <2>2, <2>3 DEF Own, HandleSucceeds
<1>2. ASSUME NEW r \in Reqs, Arrival(r) PROVE SuccessSteps
  <2>1. CASE BadRequest(r)
    <3>1. /\ req[r].op = Unset /\ UNCHANGED <<req, dev, past, store>>
          /\ reply'[r] = 400 /\ pc'[r] = "done"
          /\ \A q \in Reqs \ {r} : pc'[q] = pc[q] /\ reply'[q] = reply[q]
      BY <2>1 DEF BadRequest, Inv, Phased, TypeInv, TypeOK
    <3>2. ~Succeeded(r)' /\ ~Arrived(r)
      BY <3>1, ZeroValues DEF Succeeded, Successes, Arrived, Ops
    <3> QED
      BY <3>1, <3>2, OthersKeep
  <2>2. CASE ~BadRequest(r)
    <3>1. /\ pc[r] = "idle" /\ req[r].op = Unset /\ pc'[r] \in {"check", "write"}
          /\ past' = [past EXCEPT ![r] = Over] /\ UNCHANGED <<reply, store>>
          /\ \A q \in Reqs \ {r} : pc'[q] = pc[q] /\ req'[q] = req[q] /\ dev'[q] = dev[q]
      BY <1>2, <2>2, ArrivalFields DEF Inv
    <3>2. reply[r] = 0 /\ \A q \in Reqs \ {r} : past'[q] = past[q]
      BY <3>1 DEF Inv, Phased, TypeInv, TypeOK
    <3>3. ~Succeeded(r)' /\ ~Arrived(r)
      BY <3>1, <3>2 DEF Succeeded, Successes, Arrived
    <3> QED
      BY <3>1, <3>2, <3>3, OthersKeep
  <2> QED
    BY <2>1, <2>2
<1>3. ASSUME NEW r \in Reqs, Devauth(r) PROVE SuccessSteps
  <2>1. UNCHANGED <<pc, req, dev, past, store, reply>>
    BY <1>3 DEF Devauth, DevauthApply, DevauthRefuse
  <2> QED
    BY <2>1, OthersKeep
<1>4. CASE Crash
  <2>1. /\ UNCHANGED <<req, dev, past, store, reply>>
        /\ \A q \in Reqs : pc'[q] = IF q \in InFlight THEN "crashed" ELSE pc[q]
    BY <1>4 DEF Crash, Inv, TypeInv, TypeOK
  <2>2. \A q \in Reqs : (Succeeded(q)' => Succeeded(q)) /\ (Committed(q) => Committed(q)')
    BY <2>1 DEF Succeeded, Committed, Refused, Over, InFlight
  <2> QED
    BY <2>1, <2>2
<1>5. CASE UNCHANGED vars
  BY <1>5, OthersKeep DEF vars
<1> QED
  BY <1>1, <1>2, <1>3, <1>4, <1>5 DEF Next

\* What a success says stands until somebody else writes.
LEMMA StandsStep == Frame /\ Stands /\ [Next]_vars => Stands'
<1> SUFFICES ASSUME Frame, Stands, [Next]_vars, NEW r \in Reqs, NEW i \in AuthIds,
                    Touches(r, i)', Succeeded(r)'
             PROVE  Holds(r, i)' \/ Superseded(r, i)'
  BY DEF Stands
<1>1. Effects /\ SuccessSteps
  BY StepEffects, StepSucceeds DEF Frame
<1>2. req'[r] = req[r] /\ past'[r] = past[r] /\ Touches(r, i)
  BY <1>1 DEF SuccessSteps, Touches
<1>3. CASE \A j \in AuthIds : Touches(r, j) => Holds(r, j)'
  BY <1>2, <1>3
<1>4. CASE Succeeded(r) /\ dev'[r] = dev[r]
  <2>1. CASE Superseded(r, i)
    <3>1. PICK q \in Reqs \ past[r] : q # r /\ Touches(q, i) /\ Committed(q)
      BY <2>1 DEF Superseded
    <3>2. Arrived(q)
      BY <3>1, ZeroValues DEF Touches, Arrived, Frame, Fields, Ops
    <3>3. req'[q] = req[q] /\ Committed(q)'
      BY <1>1, <3>1, <3>2 DEF Effects, Stays, SuccessSteps, Arrived
    <3> QED
      BY <1>2, <3>1, <3>3 DEF Superseded, Touches
  <2>2. CASE Holds(r, i) /\ store'[i] = store[i]
    BY <1>2, <1>4, <2>2 DEF Holds, Exists
  <2>3. CASE Holds(r, i) /\ store'[i] # store[i]
    <3>1. PICK p \in Reqs : pc[p] = "write" /\ Touches(p, i) /\ Committed(p)'
      BY <1>1, <2>3 DEF SuccessSteps
    <3>2. pc[r] # "write"
      BY <1>4 DEF Succeeded, Successes, Frame, Inv, Phased
    <3>3. p \notin past[r]
      BY <3>1 DEF Frame, PastOver, Over
    <3>4. Arrived(p) /\ req'[p] = req[p]
      BY <1>1, <3>1, ZeroValues DEF Touches, Arrived, Frame, Fields, Ops, Effects, Stays
    <3> QED
      BY <1>2, <3>1, <3>2, <3>3, <3>4 DEF Superseded, Touches
  <2> QED
    BY <1>2, <1>4, <2>1, <2>2, <2>3 DEF Stands
<1> QED
  BY <1>1, <1>3, <1>4 DEF SuccessSteps

\* A success stands until another request, which was not over when the successful
\* one came and was not refused, has touched the set.
THEOREM Successful == Spec => []SuccessStands
<1>1. Init => Stands
  BY DEF Init, Stands, Succeeded, Successes
<1>2. Stands => SuccessStands
  BY DEF Stands, SuccessStands, Succeeded, Successes, Superseded, Committed
<1> QED
  BY <1>1, <1>2, FrameInvariant, StandsStep, PTL DEF Spec
=============================================================================
