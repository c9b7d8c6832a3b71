-------------------------- MODULE DevAdmRefinement --------------------------
(***************************************************************************)
(* Proof that DevAdm keeps each set to the life cycle of AuthSetLifecycle, *)
(* under the refinement mapping of DevAdmProperties: a write of a handler  *)
(* is a step of the life cycle, an update that deviceauth carries out tells*)
(* it a decision, and everything else stutters.  Then proof that DevAdm, as*)
(* the requests of one tenant, implements Tenancy: every action of a       *)
(* handler is Tenancy's action of that name, or is not told there.         *)
(***************************************************************************)
EXTENDS DevAdmProofs, SequenceTheorems

USE MintedIds, ZeroValues

Told == [i \in AuthIds |-> Applied(i)]

\* Told changes only when the call of an update comes to be carried out.
LEMMA ToldSame ==
    ASSUME \A r \in Reqs :
               \/ req'[r] = req[r] /\ dev'[r].status = dev[r].status
                  /\ (call'[r] = "ok" <=> call[r] = "ok")
               \/ req'[r].op # "update" /\ req[r].op # "update"
               \/ call[r] # "ok" /\ call'[r] # "ok"
    PROVE  Told' = Told
<1>1. ASSUME NEW i \in AuthIds PROVE Applied(i)' = Applied(i)
  BY DEF Applied
<1> QED
  BY <1>1 DEF Told

\* A collection that differs in one set differs in one status.
LEMMA StatusOfOne ==
    ASSUME NEW c \in Collection, NEW i \in AuthIds, NEW new,
           new[i] \in Doc, \A j \in AuthIds \ {i} : new[j] = c[j]
    PROVE  StatusOf(new) = [StatusOf(c) EXCEPT ![i] = new[i].status]
<1>1. new[i] # NoDoc
  OBVIOUS
<1>2. ASSUME NEW j \in AuthIds
      PROVE  StatusOf(new)[j] = [StatusOf(c) EXCEPT ![i] = new[i].status][j]
  BY <1>1, <1>2 DEF StatusOf, Exists
<1> QED
  BY <1>2 DEF StatusOf

\* An upsert changes the status of one set.
LEMMA StatusPut ==
    ASSUME NEW c \in Collection, NEW i \in AuthIds, NEW d \in Doc, d.status # Unset
    PROVE  StatusOf(PutDeviceAuth(c, i, d)) = [StatusOf(c) EXCEPT ![i] = d.status]
<1> DEFINE new == PutDeviceAuth(c, i, d)
<1>1. /\ new[i] \in Doc /\ new[i].status = d.status
      /\ \A j \in AuthIds \ {i} : new[j] = c[j]
  BY PutCarries
<1> HIDE DEF new
<1>2. StatusOf(new) = [StatusOf(c) EXCEPT ![i] = new[i].status]
  BY <1>1, StatusOfOne
<1> QED
  BY <1>1, <1>2 DEF new

\* So does an update,
LEMMA StatusStrictUpdate ==
    ASSUME NEW c \in Collection, NEW i \in AuthIds, NEW d \in Doc, Exists(c, i),
           d.status # Unset
    PROVE  StatusOf(UpdateDeviceAuth(c, i, d)) = [StatusOf(c) EXCEPT ![i] = d.status]
<1> DEFINE new == UpdateDeviceAuth(c, i, d)
<1>1. /\ new[i] \in Doc /\ new[i].status = d.status
      /\ \A j \in AuthIds \ {i} : new[j] = c[j]
  BY StrictUpdateCarries
<1> HIDE DEF new
<1>2. StatusOf(new) = [StatusOf(c) EXCEPT ![i] = new[i].status]
  BY <1>1, StatusOfOne
<1> QED
  BY <1>1, <1>2 DEF new

\* and an insertion.
LEMMA StatusInsert ==
    ASSUME NEW c \in Collection, NEW i \in AuthIds, NEW d \in Doc
    PROVE  StatusOf(InsertDeviceAuth(c, i, d)) = [StatusOf(c) EXCEPT ![i] = d.status]
<1> DEFINE new == InsertDeviceAuth(c, i, d)
<1>1. new[i] = d /\ \A j \in AuthIds \ {i} : new[j] = c[j]
  BY DEF InsertDeviceAuth, Collection
<1> HIDE DEF new
<1>2. StatusOf(new) = [StatusOf(c) EXCEPT ![i] = new[i].status]
  BY <1>1, StatusOfOne
<1> QED
  BY <1>1, <1>2 DEF new

\* A deletion makes statuses Unset.
LEMMA StatusDelete ==
    ASSUME NEW c \in Collection, NEW ids
    PROVE  StatusOf(DeleteDeviceAuths(c, ids)) =
               [i \in AuthIds |-> IF i \in ids THEN Unset ELSE StatusOf(c)[i]]
BY DEF StatusOf, Exists, DeleteDeviceAuths

\* No sets, no decisions, no preauthorizations.
LEMMA InitMaps == Init => Lifecycle!Init
<1> SUFFICES ASSUME Init PROVE Lifecycle!Init
  OBVIOUS
<1>1. StatusOf(store) = [i \in AuthIds |-> Unset]
  BY DEF Init, StatusOf, Exists
<1>2. [i \in AuthIds |-> Applied(i)] = [i \in AuthIds |-> {}]
  BY DEF Init, Applied
<1>3. Drawn = {}
  BY DEF Init, Drawn, Ops
<1> QED
  BY <1>1, <1>2, <1>3 DEF Lifecycle!Init

\* No step of the life cycle.
Stutters == StatusOf(store)' = StatusOf(store) /\ Told' = Told /\ Drawn' = Drawn

\* Such a step is a stutter of the life cycle.
LEMMA StutterMaps == Stutters => [Lifecycle!Next]_Lifecycle!vars
BY DEF Stutters, Told, Lifecycle!vars

-----------------------------------------------------------------------------
(* Each kind of step.                                                      *)

\* An arrival is no step of the life cycle.
LEMMA ArrivalMaps ==
    ASSUME Inv, NEW r \in Reqs, Arrival(r)
    PROVE  Stutters
<1> USE DEF Inv
<1>1. CASE BadRequest(r)
  <2>1. Told' = Told
    BY <1>1, ToldSame DEF BadRequest
  <2> QED
    BY <1>1, <2>1 DEF BadRequest, Stutters, Drawn, StatusOf
<1>2. ASSUME NEW op \in Ops, NEW i \in AuthIds \cup {Unset}, NEW d \in Doc,
             NEW phase \in Phases, Arrives(r, op, i, d, phase)
      PROVE  Stutters
  <2>1. /\ req[r].op = Unset /\ call[r] = "none" /\ call' = call /\ store' = store
        /\ req'[r].op = op /\ dev'[r] = d
        /\ \A q \in Reqs \ {r} : req'[q] = req[q] /\ dev'[q] = dev[q]
    BY <1>2, ArriveFacts DEF Arrives
  <2>2. Told' = Told
    BY <2>1, ToldSame
  <2>3. op = "preauthorize" => d.deviceId = Unset
    BY <1>2 DEF Arrives
  <2>4. Drawn' = Drawn
    BY <2>1, <2>3 DEF Drawn, Ops
  <2> QED
    BY <2>1, <2>2, <2>4 DEF Stutters, StatusOf
<1> QED
  BY <1>1, <1>2, ArrivalShape

\* No handler changes what deviceauth was told; only an insertion draws ids.
LEMMA HandleTold ==
    ASSUME Inv, NEW r \in Reqs, Handle(r)
    PROVE  /\ Told' = Told
           /\ ~(pc[r] = "write" /\ req[r].op = "preauthorize") => Drawn' = Drawn
<1> USE DEF Inv
<1>1. Own(r) /\ Moves(r)
  BY HandleShape
<1>2. req' = req /\ \A q \in Reqs : call'[q] = "ok" <=> call[q] = "ok"
  BY <1>1 DEF Own, Moves, Phased, Draws
<1>3. \A q \in Reqs : req[q].op # "delete" => dev'[q].status = dev[q].status
  BY <1>1 DEF Own, Moves
<1>4. Told' = Told
  BY <1>2, <1>3, ToldSame
<1>5. ASSUME ~(pc[r] = "write" /\ req[r].op = "preauthorize"), NEW q \in Reqs,
             req[q].op = "preauthorize"
      PROVE  dev'[q].deviceId = dev[q].deviceId
  BY <1>1, <1>5 DEF Own, Moves
<1> QED
  BY <1>2, <1>4, <1>5 DEF Drawn

\* A write that sets one status is one of the life cycle's steps.
LEMMA SetsMaps ==
    ASSUME Inv, NEW r \in Reqs, Handle(r), pc[r] = "write",
           NEW i \in AuthIds, req[r].id = i,
           req[r].op \in {"submit", "update", "acceptPreauth"},
           req[r].op = "acceptPreauth" => Exists(store, i),
           StatusOf(store)' = [StatusOf(store) EXCEPT ![i] = dev[r].status]
    PROVE  Lifecycle!Next
<1> USE DEF Inv
<1>1. Told' = Told /\ Drawn' = Drawn
  BY HandleTold
<1>2. CASE req[r].op = "submit"
  <2>1. Lifecycle!Submit(i)
    BY <1>1, <1>2 DEF Lifecycle!Submit, Carries, Told
  <2> QED
    BY <2>1 DEF Lifecycle!Next
<1>3. CASE req[r].op = "update"
  <2>1. dev[r].status \in Decided /\ call[r] = "ok"
    BY <1>3 DEF Carries, CalledFirst
  <2>2. req[r] = [op |-> "update", id |-> i]
    BY <1>3 DEF TypeInv, TypeOK
  <2>3. dev[r].status \in Told[i]
    BY <2>1, <2>2 DEF Told, Applied
  <2>4. Lifecycle!Decide(i, dev[r].status)
    BY <1>1, <2>3 DEF Lifecycle!Decide, Told
  <2> QED
    BY <2>1, <2>4 DEF Lifecycle!Next, Lifecycle!Decided, Decided
<1>4. CASE req[r].op = "acceptPreauth"
  <2>1. i \in Drawn /\ StatusOf(store)[i] # Unset
    BY <1>4 DEF Known, StatusOf
  <2>2. Lifecycle!Claim(i)
    BY <1>1, <1>4, <2>1 DEF Lifecycle!Claim, Carries, Told
  <2> QED
    BY <2>2 DEF Lifecycle!Next
<1> QED
  BY <1>2, <1>3, <1>4

\* A deletion is the removal of some sets.
LEMMA DeletesMaps ==
    ASSUME Inv, NEW r \in Reqs, Handle(r), req[r].op # "preauthorize",
           NEW ids \in SUBSET AuthIds, store' = DeleteDeviceAuths(store, ids)
    PROVE  Lifecycle!Next
<1>1. Told' = Told /\ Drawn' = Drawn
  BY HandleTold
<1>2. StatusOf(store)' =
          [i \in AuthIds |-> IF i \in ids THEN Unset ELSE StatusOf(store)[i]]
  BY StatusDelete DEF Inv, TypeInv, TypeOK, StatusOf
<1>3. Lifecycle!Remove(ids)
  BY <1>1, <1>2 DEF Lifecycle!Remove, Told
<1> QED
  BY <1>3 DEF Lifecycle!Next

\* The insertion of a preauthorized set, which may fail.
LEMMA InsertMaps ==
    ASSUME Inv, NEW r \in Reqs, PreauthorizeInsert(r)
    PROVE  Lifecycle!Next
<1> USE DEF Inv
<1> DEFINE drawn == [dev[r] EXCEPT !.deviceId = r]
<1>0. Handle(r)
  BY DEF Handle
<1>1. /\ store \in Collection /\ dev \in [Reqs -> Doc] /\ pc[r] = "write"
      /\ req[r].op = "preauthorize" /\ req' = req /\ dev' = [dev EXCEPT ![r] = drawn]
      /\ store' \in {store, InsertDeviceAuth(store, r, drawn)}
  BY DEF PreauthorizeInsert, At, TypeInv, TypeOK
<1>2. /\ drawn \in Doc /\ drawn.status = "preauthorized"
      /\ drawn.deviceId = r /\ dev[r].deviceId = Unset
  BY <1>1 DEF Doc, Carries, Draws
<1>3. r \notin Drawn /\ StatusOf(store)[r] = Unset
  BY <1>1, <1>2 DEF Drawn, Known, StatusOf
<1>4. Drawn' = Drawn \cup {r}
  BY <1>1, <1>2 DEF Drawn
<1>5. StatusOf(store)' \in
          {StatusOf(store), [StatusOf(store) EXCEPT ![r] = "preauthorized"]}
  <2> HIDE DEF drawn
  <2>1. StatusOf(InsertDeviceAuth(store, r, drawn)) =
            [StatusOf(store) EXCEPT ![r] = "preauthorized"]
    BY <1>1, <1>2, StatusInsert
  <2> QED
    BY <1>1, <2>1 DEF StatusOf
<1>6. Told' = Told
  BY <1>0, HandleTold
<1>7. Lifecycle!Preauthorize(r)
  BY <1>3, <1>4, <1>5, <1>6 DEF Lifecycle!Preauthorize, Told
<1> QED
  BY <1>7 DEF Lifecycle!Next

\* Every step of a handler is a step of the life cycle, or none.
LEMMA HandleMaps ==
    ASSUME Inv, NEW r \in Reqs, Handle(r)
    PROVE  Lifecycle!Next \/ Stutters
<1> USE DEF Inv
<1>0. store \in Collection /\ dev[r] \in Doc
  BY DEF TypeInv, TypeOK
<1>1. ASSUME store' = store, ~PreauthorizeInsert(r) PROVE Stutters
  <2>1. ~(pc[r] = "write" /\ req[r].op = "preauthorize")
    BY <1>1 DEF Handle, At, SubmitDeviceAuth, UpdateStatusLookup, UpdateStatusPut,
       UpdateStatusAnswered, AcceptPreAuthCheck, AcceptPreAuthUpdate,
       DeletePropagateLookup, DeletePropagateAnswered, DeleteDeviceAuth,
       DeleteDeviceData, PreauthorizeCheck, PreauthorizeAnswered, GiveUp
  <2> QED
    BY <1>1, <2>1, HandleTold DEF Stutters, StatusOf
<1>2. CASE SubmitDeviceAuth(r)
  <2>1. /\ pc[r] = "write" /\ req[r].op = "submit" /\ req[r].id \in AuthIds
        /\ dev[r].status # Unset
    BY <1>2 DEF SubmitDeviceAuth, At, TypeInv, Addressed, Ops, Carries, Status
  <2>2. store' \in {store, PutDeviceAuth(store, req[r].id, dev[r])}
    BY <1>2, WriteShape DEF SubmitDeviceAuth
  <2>3. CASE store' = store
    BY <1>1, <2>1, <2>3 DEF PreauthorizeInsert, At
  <2>4. CASE store' = PutDeviceAuth(store, req[r].id, dev[r])
    <3>1. StatusOf(store)' = [StatusOf(store) EXCEPT ![req[r].id] = dev[r].status]
      BY <1>0, <2>1, <2>4, StatusPut DEF StatusOf
    <3> QED
      BY <2>1, <3>1, SetsMaps
  <2> QED
    BY <2>2, <2>3, <2>4
<1>3. CASE UpdateStatusPut(r)
  <2>1. /\ pc[r] = "write" /\ req[r].op = "update" /\ req[r].id \in AuthIds
        /\ dev[r].status # Unset
    BY <1>3 DEF UpdateStatusPut, At, TypeInv, Addressed, Ops, Carries, Decided, Status
  <2>2. store' \in {store, PutDeviceAuth(store, req[r].id, dev[r])}
    BY <1>3, WriteShape DEF UpdateStatusPut
  <2>3. CASE store' = store
    BY <1>1, <2>1, <2>3 DEF PreauthorizeInsert, At
  <2>4. CASE store' = PutDeviceAuth(store, req[r].id, dev[r])
    <3>1. StatusOf(store)' = [StatusOf(store) EXCEPT ![req[r].id] = dev[r].status]
      BY <1>0, <2>1, <2>4, StatusPut DEF StatusOf
    <3> QED
      BY <2>1, <3>1, SetsMaps
  <2> QED
    BY <2>2, <2>3, <2>4
<1>4. CASE AcceptPreAuthUpdate(r)
  <2>1. /\ pc[r] = "write" /\ req[r].op = "acceptPreauth" /\ req[r].id \in AuthIds
        /\ dev[r].status # Unset
    BY <1>4 DEF AcceptPreAuthUpdate, At, TypeInv, Addressed, Ops, Carries, Status
  <2>2. \/ store' = store
        \/ /\ Exists(store, req[r].id)
           /\ store' = UpdateDeviceAuth(store, req[r].id, dev[r])
    BY <1>4, WriteShape DEF AcceptPreAuthUpdate, Found
  <2>3. CASE store' = store
    BY <1>1, <2>1, <2>3 DEF PreauthorizeInsert, At
  <2>4. CASE /\ Exists(store, req[r].id)
             /\ store' = UpdateDeviceAuth(store, req[r].id, dev[r])
    <3>1. StatusOf(store)' = [StatusOf(store) EXCEPT ![req[r].id] = dev[r].status]
      BY <1>0, <2>1, <2>4, StatusStrictUpdate DEF StatusOf
    <3> QED
      BY <2>1, <2>4, <3>1, SetsMaps
  <2> QED
    BY <2>2, <2>3, <2>4
<1>5. CASE DeleteDeviceAuth(r)
  <2>1. req[r].op \in {"delete", "deleteInternal"} /\ req[r].id \in AuthIds
    BY <1>5 DEF DeleteDeviceAuth, At, TypeInv, Addressed, Ops
  <2>2. store' \in {store, DeleteDeviceAuths(store, {req[r].id})}
    BY <1>5, WriteShape DEF DeleteDeviceAuth
  <2> QED
    BY <1>1, <2>1, <2>2, DeletesMaps DEF PreauthorizeInsert, At
<1>6. CASE DeleteDeviceData(r)
  <2>1. PICK ids \in SUBSET AuthIds : store' = DeleteDeviceAuths(store, ids)
    BY <1>6 DEF DeleteDeviceData, OfDevice
  <2> QED
    BY <1>6, <2>1, DeletesMaps DEF DeleteDeviceData, At
<1>7. CASE PreauthorizeInsert(r)
  BY <1>7, InsertMaps
<1>8. CASE \/ UpdateStatusLookup(r) \/ UpdateStatusAnswered(r) \/ AcceptPreAuthCheck(r)
          \/ DeletePropagateLookup(r) \/ DeletePropagateAnswered(r)
          \/ PreauthorizeCheck(r) \/ PreauthorizeAnswered(r) \/ GiveUp(r)
  <2>1. store' = store
    BY <1>8 DEF UpdateStatusLookup, UpdateStatusAnswered, AcceptPreAuthCheck,
       DeletePropagateLookup, DeletePropagateAnswered, PreauthorizeCheck,
       PreauthorizeAnswered, GiveUp
  <2> QED
    BY <1>1, <1>7, <2>1
<1> QED
  BY <1>2, <1>3, <1>4, <1>5, <1>6, <1>7, <1>8 DEF Handle

\* What a step of deviceauth leaves as it was.
LEMMA DevauthKeeps ==
    ASSUME Inv, NEW r \in Reqs, Devauth(r)
    PROVE  /\ call[r] = "sent" /\ call'[r] \in {"ok", "usage", "error"}
           /\ \A q \in Reqs \ {r} : call'[q] = call[q]
           /\ pc' = pc /\ req' = req /\ dev' = dev /\ store' = store
           /\ StatusOf(store)' = StatusOf(store) /\ Drawn' = Drawn
<1>1. /\ call[r] = "sent" /\ pc' = pc /\ req' = req /\ dev' = dev /\ store' = store
      /\ \A q \in Reqs \ {r} : call'[q] = call[q]
      /\ call'[r] \in {"ok", "usage", "error"}
  BY DEF Devauth, DevauthApply, DevauthRefuse, Inv, TypeInv, TypeOK
<1> QED
  BY <1>1 DEF StatusOf, Drawn

\* deviceauth is told a decision when it carries out a status update, and nothing else.
LEMMA DevauthTold ==
    ASSUME Inv, NEW r \in Reqs, Devauth(r)
    PROVE  IF call'[r] = "ok" /\ req[r].op = "update"
           THEN /\ req[r].id \in AuthIds /\ dev[r].status \in Decided
                /\ Told' = [Told EXCEPT ![req[r].id] = @ \cup {dev[r].status}]
           ELSE Told' = Told
<1> USE DEF Inv
<1>1. /\ call[r] = "sent" /\ req' = req /\ dev' = dev
      /\ \A q \in Reqs \ {r} : call'[q] = call[q]
  BY DevauthKeeps
<1>2. CASE call'[r] # "ok" \/ req[r].op # "update"
  BY <1>1, <1>2, ToldSame
<1>3. CASE call'[r] = "ok" /\ req[r].op = "update"
  <2>1. PICK i \in AuthIds, s \in Decided :
            req[r] = [op |-> "update", id |-> i] /\ dev[r].status = s
    BY <1>3 DEF TypeInv, TypeOK, Addressed, Ops, Carries
  <2>2. Applied(i)' = Applied(i) \cup {s}
    <3>1. ASSUME NEW t \in Applied(i) PROVE t \in Applied(i)'
      <4>1. PICK q \in Reqs : /\ req[q] = [op |-> "update", id |-> i]
                              /\ dev[q].status = t /\ call[q] = "ok"
        BY <3>1 DEF Applied
      <4>2. q # r /\ call'[q] = "ok"
        BY <1>1, <4>1
      <4> QED
        BY <1>1, <3>1, <4>1, <4>2 DEF Applied
    <3>2. s \in Applied(i)'
      BY <1>1, <1>3, <2>1 DEF Applied
    <3>3. ASSUME NEW t \in Applied(i)', t # s PROVE t \in Applied(i)
      <4>1. t \in Decided
        BY <3>3 DEF Applied
      <4>2. PICK q \in Reqs : /\ req[q] = [op |-> "update", id |-> i]
                              /\ dev[q].status = t /\ call'[q] = "ok"
        BY <1>1, <3>3 DEF Applied
      <4>3. q # r
        BY <2>1, <3>3, <4>2
      <4>4. call[q] = "ok"
        BY <1>1, <4>2, <4>3
      <4> QED
        BY <4>1, <4>2, <4>4 DEF Applied
    <3> QED
      BY <3>1, <3>2, <3>3
  <2>3. ASSUME NEW j \in AuthIds \ {i} PROVE Applied(j)' = Applied(j)
    <3>1. ASSUME NEW q \in Reqs, req[q] = [op |-> "update", id |-> j]
          PROVE  call'[q] = call[q]
      BY <1>1, <2>1, <3>1
    <3> QED
      BY <1>1, <3>1 DEF Applied
  <2>4. Told' = [Told EXCEPT ![i] = @ \cup {s}]
    BY <2>1, <2>2, <2>3 DEF Told
  <2> QED
    BY <1>3, <2>1, <2>4
<1> QED
  BY <1>2, <1>3

\* deviceauth carries out a decision, or does what the life cycle does not see.
LEMMA DevauthMaps ==
    ASSUME Inv, NEW r \in Reqs, Devauth(r)
    PROVE  Lifecycle!Next \/ Stutters
<1>1. StatusOf(store)' = StatusOf(store) /\ Drawn' = Drawn
  BY DevauthKeeps
<1>2. CASE call'[r] # "ok" \/ req[r].op # "update"
  BY <1>1, <1>2, DevauthTold DEF Stutters
<1>3. CASE call'[r] = "ok" /\ req[r].op = "update"
  <2>1. req[r].id \in AuthIds /\ dev[r].status \in Decided
    BY <1>3, DevauthTold
  <2>2. Lifecycle!Tell(req[r].id, dev[r].status)
    BY <1>1, <1>3, DevauthTold DEF Lifecycle!Tell, Told
  <2> QED
    BY <2>1, <2>2 DEF Lifecycle!Next, Lifecycle!Decided, Decided
<1> QED
  BY <1>2, <1>3

\* Every step is a step of the life cycle, or none.
LEMMA StepMaps == Inv /\ [Next]_vars => [Lifecycle!Next]_Lifecycle!vars
<1> SUFFICES ASSUME Inv, [Next]_vars PROVE Lifecycle!Next \/ Stutters
  BY StutterMaps
<1>1. CASE Crash
  <2>1. Told' = Told
    BY <1>1, ToldSame DEF Crash
  <2> QED
    BY <1>1, <2>1 DEF Crash, Stutters, StatusOf, Drawn
<1>2. CASE UNCHANGED vars
  <2>1. Told' = Told
    BY <1>2, ToldSame DEF vars
  <2> QED
    BY <1>2, <2>1 DEF vars, Stutters, StatusOf, Drawn
<1> QED
  BY <1>1, <1>2, ArrivalMaps, HandleMaps, DevauthMaps DEF Next

\* The service keeps every authentication set to its life cycle: whatever
\* requests overlap, fail or are cut off, for any number of them.
THEOREM Refinement == Spec => KeepsLifecycle
BY InitMaps, StepMaps, Invariance, PTL DEF Spec, Lifecycle!Spec, KeepsLifecycle

-----------------------------------------------------------------------------
(* The requests as Tenancy sees them.                                      *)

TStatus == [a \in {Tenant} \X AuthIds |-> StatusOf(store)[a[2]]]

TTold == [a \in {Tenant} \X AuthIds |-> Applied(a[2])]

TVouched == {Tenant} \X Drawn

TPc == [r \in Reqs |-> TenancyPhase(r)]

TReq ==
    [r \in Reqs |-> [op |-> req[r].op, id |-> req[r].id,
                     to |-> IF req[r].op = "update" THEN dev[r].status ELSE Unset]]

THeader == [r \in Reqs |-> IF Arrived(r) THEN Tenant ELSE Unset]

TCtx ==
    [r \in Reqs |-> [auth |-> IF Arrived(r) THEN <<Tenant>> ELSE <<>>,
                     identity |-> IF Arrived(r) THEN Tenant ELSE Unset]]

TCall == [r \in Reqs |-> TenancyCall(r)]

TSent == [r \in Reqs |-> TenancySent(r)]

\* What of a request does not change once it has arrived.
TFixed == <<TReq, THeader, TCtx>>

\* No step of Tenancy.
TStutters ==
    /\ UNCHANGED TFixed
    /\ TStatus' = TStatus /\ TTold' = TTold /\ TVouched' = TVouched
    /\ TPc' = TPc /\ TCall' = TCall /\ TSent' = TSent

\* Such a step is a stutter of Tenancy.
LEMMA TStutterMaps == TStutters => [Requests!ServerNext]_(Requests!allVars)
BY DEF TStutters, TFixed, TStatus, TTold, TVouched, TPc, TReq, THeader, TCtx, TCall, TSent,
       Requests!allVars

\* A step of one request is a step of Tenancy.
LEMMA TStepMaps ==
    ASSUME NEW r \in Reqs, Requests!Step(r)
    PROVE  [Requests!ServerNext]_(Requests!allVars)
BY DEF Requests!ServerNext

\* A request that has arrived works on the database of its tenant.
LEMMA TMine ==
    ASSUME NEW r \in Reqs, Arrived(r)
    PROVE  /\ Requests!Mine(r) = <<Tenant, req[r].id>>
           /\ Requests!DbFromContext(TCtx[r]) = Tenant
           /\ THeader[r] = Tenant
<1>1. Requests!DbFromContext(TCtx[r]) = Tenant
  BY TenantHasName DEF Requests!DbFromContext, TCtx
<1> QED
  BY <1>1 DEF Requests!Mine, TCtx, THeader

\* The middleware puts the tenant and its token into the context.
LEMMA TContext == Requests!Context(Tenant) = [auth |-> <<Tenant>>, identity |-> Tenant]
BY TenantHasName
   DEF Requests!Context, Requests!WithContext, Requests!ExtractIdentity, Requests!Dbs

\* A set is found in either if it is in the database.
LEMMA TFound ==
    ASSUME Inv, NEW r \in Reqs, Arrived(r), req[r].id \in AuthIds
    PROVE  /\ Requests!Found(r) <=> Found(r)
           /\ Found(r) => TStatus[Requests!Mine(r)] = store[req[r].id].status
<1>1. TStatus[<<Tenant, req[r].id>>] = StatusOf(store)[req[r].id]
  BY DEF TStatus
<1>2. /\ Found(r) => /\ StatusOf(store)[req[r].id] = store[req[r].id].status
                     /\ store[req[r].id].status # Unset
      /\ ~Found(r) => StatusOf(store)[req[r].id] = Unset
  BY DEF Found, StatusOf, Inv, Known
<1> QED
  BY <1>1, <1>2, TMine DEF Requests!Found, TStatus

\* The status of one set of the tenant, and of several.
LEMMA TStatusOne ==
    ASSUME NEW i \in AuthIds, NEW s, StatusOf(store)' = [StatusOf(store) EXCEPT ![i] = s]
    PROVE  TStatus' = [TStatus EXCEPT ![<<Tenant, i>>] = s]
<1>1. ASSUME NEW a \in {Tenant} \X AuthIds
      PROVE  TStatus'[a] = [TStatus EXCEPT ![<<Tenant, i>>] = s][a]
  <2>1. TStatus'[a] = StatusOf(store)'[a[2]] /\ TStatus[a] = StatusOf(store)[a[2]]
    BY DEF TStatus
  <2>2. a = <<Tenant, i>> <=> a[2] = i
    OBVIOUS
  <2>3. \A j \in AuthIds : StatusOf(store)'[j] = IF j = i THEN s ELSE StatusOf(store)[j]
    BY DEF StatusOf
  <2>4. [TStatus EXCEPT ![<<Tenant, i>>] = s][a] = IF a[2] = i THEN s ELSE TStatus[a]
    BY <2>2 DEF TStatus
  <2> QED
    BY <2>1, <2>3, <2>4
<1> QED
  BY <1>1 DEF TStatus

\* The statuses of the tenant's sets are those of the collection,
LEMMA TStatusSame == StatusOf(store)' = StatusOf(store) => TStatus' = TStatus
BY DEF TStatus

\* and what deviceauth was told for the tenant is what it was told.
LEMMA TToldSame == Told' = Told => TTold' = TTold
<1> SUFFICES ASSUME Told' = Told PROVE TTold' = TTold
  OBVIOUS
<1>1. \A i \in AuthIds : Applied(i)' = Applied(i)
  BY DEF Told
<1> QED
  BY <1>1 DEF TTold

-----------------------------------------------------------------------------
(* Steps of handlers, as Tenancy sees them.                                *)

\* What a handler's step does to the request: it moves, and may send a call.
LEMMA THandleFields ==
    ASSUME Inv, NEW r \in Reqs, Handle(r)
    PROVE  /\ Arrived(r) /\ TPc[r] \in {"check", "wait", "write"}
           /\ UNCHANGED TFixed /\ TTold' = TTold
           /\ TPc' = [TPc EXCEPT ![r] = TenancyPhase(r)']
           /\ pc'[r] # "wait" => TCall' = TCall /\ TSent' = TSent
           /\ pc'[r] = "wait" =>
                 /\ TCall' = [TCall EXCEPT ![r] = "sent"]
                 /\ TSent' = [TSent EXCEPT ![r] = IF req[r].op = "update" THEN <<Tenant>>
                                                  ELSE <<Tenant, Tenant>>]
           /\ ~(pc[r] = "write" /\ req[r].op = "preauthorize") => TVouched' = TVouched
<1> USE DEF Inv
<1>1. Own(r) /\ Moves(r)
  BY HandleShape
<1>2. Arrived(r)
  BY <1>1 DEF Moves, Phased, Arrived, Ops
<1>3. TPc[r] \in {"check", "wait", "write"}
  BY <1>1 DEF Moves, TPc, TenancyPhase
<1>4. req' = req /\ \A q \in Reqs : req[q].op = "update" => dev'[q].status = dev[q].status
  BY <1>1 DEF Own, Moves
<1>5. UNCHANGED TFixed
  BY <1>4 DEF TFixed, TReq, THeader, TCtx, Arrived
<1>6. TPc' = [TPc EXCEPT ![r] = TenancyPhase(r)']
  BY <1>1 DEF Own, TPc, TenancyPhase
<1>7. pc'[r] # "wait" => TCall' = TCall /\ TSent' = TSent
  BY <1>1 DEF Own, Moves, TCall, TSent, TenancyCall, TenancySent
<1>8. ASSUME pc'[r] = "wait"
      PROVE  /\ TCall' = [TCall EXCEPT ![r] = "sent"]
             /\ TSent' = [TSent EXCEPT ![r] = IF req[r].op = "update" THEN <<Tenant>>
                                              ELSE <<Tenant, Tenant>>]
  <2>1. /\ TenancyCall(r)' = "sent"
        /\ TenancySent(r)' = IF req[r].op = "update" THEN <<Tenant>> ELSE <<Tenant, Tenant>>
    BY <1>1, <1>8 DEF Own, Moves, TenancyCall, TenancySent
  <2>2. \A q \in Reqs \ {r} :
           TenancyCall(q)' = TenancyCall(q) /\ TenancySent(q)' = TenancySent(q)
    BY <1>1 DEF Own, TenancyCall, TenancySent
  <2> QED
    BY <2>1, <2>2 DEF TCall, TSent
<1>9. TTold' = TTold
  BY HandleTold, TToldSame
<1>10. ~(pc[r] = "write" /\ req[r].op = "preauthorize") => TVouched' = TVouched
  BY HandleTold DEF TVouched
<1> QED
  BY <1>2, <1>3, <1>5, <1>6, <1>7, <1>8, <1>9, <1>10

\* A handler that ends without having changed anything.
LEMMA TEndMaps ==
    ASSUME Inv, NEW r \in Reqs, Handle(r), pc'[r] = "done", TStatus' = TStatus,
           TVouched' = TVouched
    PROVE  Requests!End(r)
<1>1. TPc' = [TPc EXCEPT ![r] = "done"]
  BY THandleFields DEF TenancyPhase
<1> QED
  BY <1>1, THandleFields
     DEF Requests!End, Requests!Go, TFixed, TStatus, TTold, TVouched, TPc, TReq, THeader, TCtx,
         TCall, TSent

\* A handler that writes the status of its set and ends.
LEMMA TPutMaps ==
    ASSUME Inv, NEW r \in Reqs, Handle(r), pc'[r] = "done", NEW s,
           req[r].id \in AuthIds, req[r].op # "preauthorize",
           StatusOf(store)' = [StatusOf(store) EXCEPT ![req[r].id] = s]
    PROVE  Requests!Put(r, s) /\ TVouched' = TVouched
<1>1. TPc' = [TPc EXCEPT ![r] = "done"]
  BY THandleFields DEF TenancyPhase
<1>2. TStatus' = [TStatus EXCEPT ![Requests!Mine(r)] = s]
  <2>1. PICK i \in AuthIds : i = req[r].id
    OBVIOUS
  <2>2. TStatus' = [TStatus EXCEPT ![<<Tenant, i>>] = s]
    BY <2>1, TStatusOne
  <2> QED
    BY <2>1, <2>2, THandleFields, TMine
<1>3. pc'[r] # "wait" /\ TVouched' = TVouched
  BY THandleFields
<1> QED
  BY <1>1, <1>2, <1>3, THandleFields
     DEF Requests!Put, Requests!Go, TFixed, TStatus, TTold, TPc, TReq, THeader, TCtx,
         TCall, TSent

\* The header of the request and that of its context are the same.
LEMMA TwoHeaders == <<Tenant>> \o <<Tenant>> = <<Tenant, Tenant>>
<1> DEFINE one == <<Tenant>>
           two == <<Tenant, Tenant>>
<1>1. /\ one \in Seq({Tenant}) /\ Len(one) = 1 /\ one[1] = Tenant
      /\ two \in Seq({Tenant}) /\ Len(two) = 2 /\ two[1] = Tenant /\ two[2] = Tenant
  OBVIOUS
<1> HIDE DEF one, two
<1>2. /\ one \o one \in Seq({Tenant}) /\ Len(one \o one) = 2
      /\ \A n \in 1 .. 2 : (one \o one)[n] = Tenant
  BY <1>1, ConcatProperties
<1>3. \A n \in 1 .. 2 : two[n] = Tenant
  BY <1>1
<1>4. one \o one = two
  BY <1>1, <1>2, <1>3, SeqEqual
<1> QED
  BY <1>4 DEF one, two

\* A handler that calls deviceauth: its own header goes along but for a status update.
LEMMA TPropagateMaps ==
    ASSUME Inv, NEW r \in Reqs, Handle(r), pc'[r] = "wait"
    PROVE  Requests!Propagate(r, IF req[r].op = "update" THEN <<>> ELSE <<THeader[r]>>)
<1> DEFINE own == IF req[r].op = "update" THEN <<>> ELSE <<THeader[r]>>
<1>1. TPc' = [TPc EXCEPT ![r] = "wait"]
  BY THandleFields DEF TenancyPhase
<1>2. Requests!Do(own, TCtx[r]) = IF req[r].op = "update" THEN <<Tenant>>
                                  ELSE <<Tenant, Tenant>>
  <2>1. TCtx[r].auth = <<Tenant>> /\ THeader[r] = Tenant
    BY THandleFields DEF TCtx, THeader
  <2>2. <<>> \o <<Tenant>> = <<Tenant>>
    OBVIOUS
  <2>3. <<Tenant>> \o <<Tenant>> = <<Tenant, Tenant>>
    BY TwoHeaders
  <2> QED
    BY <2>1, <2>2, <2>3 DEF Requests!Do
<1> HIDE DEF own
<1>3. TSent' = [TSent EXCEPT ![r] = Requests!Do(own, TCtx[r])]
  BY <1>2, THandleFields
<1>4. Requests!Propagate(r, own)
  BY <1>1, <1>3, THandleFields
     DEF Requests!Propagate, Requests!Go, TFixed, TTold, TPc, TReq, THeader, TCtx, TCall, TSent
<1> QED
  BY <1>4 DEF own

\* r is where Tenancy has it.
LEMMA TAt ==
    ASSUME NEW r \in Reqs, NEW op, NEW phase
    PROVE  Requests!At(r, op, phase) <=> TPc[r] = phase /\ req[r].op = op
BY DEF Requests!At, TPc

-----------------------------------------------------------------------------
(* Each kind of step, as Tenancy sees it.                                  *)

\* A request that has not arrived is nothing to Tenancy either.
LEMMA TIdle ==
    ASSUME Inv, NEW r \in Reqs, pc[r] = "idle"
    PROVE  TPc[r] = "idle" /\ req[r].op = Unset /\ call[r] = "none"
BY DEF Inv, Phased, TPc, TenancyPhase, Ops

\* An id that a client of DevAdm knows is known in Tenancy.
LEMMA TKnown ==
    ASSUME Inv, NEW i \in KnownIds
    PROVE  i \in Requests!KnownIds
<1>1. i \in AuthIds
  BY DEF KnownIds
<1>2. i \in Reqs => i \in Drawn
  BY <1>1 DEF KnownIds, Inv, Known, Draws, Drawn
<1>3. i \in Reqs => <<Tenant, i>> \in TVouched
  BY <1>2 DEF TVouched
<1> QED
  BY <1>1, <1>3 DEF Requests!KnownIds, Requests!Dbs, TVouched

\* What a request asks for, with the status of a status update.
TAsked(op, i, s) == [op |-> op, id |-> i, to |-> IF op = "update" THEN s ELSE Unset]

\* What an arrival shows of the request.
LEMMA TArriveFields ==
    ASSUME Inv, NEW r \in Reqs, NEW op \in Ops, NEW i, NEW d \in Doc, NEW phase,
           Arrives(r, op, i, d, phase), NEW s, op = "update" => d.status = s
    PROVE  /\ TPc[r] = "idle" /\ TPc' = [TPc EXCEPT ![r] = "check"]
           /\ THeader' = [THeader EXCEPT ![r] = Tenant]
           /\ TCtx' = [TCtx EXCEPT ![r] = Requests!Context(Tenant)]
           /\ TReq' = [TReq EXCEPT ![r] = TAsked(op, i, s)]
           /\ TCall' = TCall /\ TSent' = TSent
<1> USE DEF Inv
<1>1. /\ pc[r] = "idle" /\ req[r].op = Unset /\ call[r] = "none"
      /\ pc'[r] = phase /\ req'[r].op = op /\ req'[r].id = i /\ dev'[r] = d
      /\ call' = call
      /\ \A q \in Reqs \ {r} : pc'[q] = pc[q] /\ req'[q] = req[q] /\ dev'[q] = dev[q]
  BY ArriveFacts DEF Arrives
<1>2. TPc[r] = "idle"
  BY <1>1, TIdle
<1>3. TPc' = [TPc EXCEPT ![r] = "check"]
  <2>1. TenancyPhase(r)' = "check"
    BY <1>1 DEF TenancyPhase, Arrives
  <2>2. \A q \in Reqs \ {r} : TenancyPhase(q)' = TenancyPhase(q)
    BY <1>1 DEF TenancyPhase
  <2> QED
    BY <2>1, <2>2 DEF TPc
<1>4. Arrived(r)' /\ \A q \in Reqs \ {r} : Arrived(q)' = Arrived(q)
  BY <1>1 DEF Arrived, Ops
<1>5. THeader' = [THeader EXCEPT ![r] = Tenant]
  BY <1>4 DEF THeader
<1>6. TCtx' = [TCtx EXCEPT ![r] = [auth |-> <<Tenant>>, identity |-> Tenant]]
  BY <1>4 DEF TCtx
<1>7. TReq' = [TReq EXCEPT ![r] = TAsked(op, i, s)]
  BY <1>1 DEF TReq, TAsked
<1>8. TCall' = TCall
  BY <1>1 DEF TCall, TenancyCall
<1>9. TSent' = TSent
  <2>1. \A q \in Reqs : TenancySent(q)' = TenancySent(q)
    BY <1>1 DEF TenancySent
  <2> QED
    BY <2>1 DEF TSent
<1> QED
  BY <1>2, <1>3, <1>5, <1>6, <1>7, <1>8, <1>9, TContext

\* A request arrives with the header of its tenant, or is turned away.
LEMMA TArrivalMaps ==
    ASSUME Inv, [Next]_vars, NEW r \in Reqs, Arrival(r)
    PROVE  Requests!Step(r)
<1> USE DEF Inv
<1>1. TStatus' = TStatus /\ TTold' = TTold /\ TVouched' = TVouched
  BY ArrivalMaps, TStatusSame, TToldSame DEF Stutters, TVouched
<1>2. CASE BadRequest(r)
  <2>1. pc[r] = "idle" /\ pc' = [pc EXCEPT ![r] = "done"] /\ req' = req /\ dev' = dev
        /\ call' = call
    BY <1>2 DEF BadRequest
  <2>2. TPc[r] = "idle"
    BY <2>1, TIdle
  <2>3. TPc' = [TPc EXCEPT ![r] = "done"]
    <3>1. /\ TenancyPhase(r)' = "done"
          /\ \A q \in Reqs \ {r} : TenancyPhase(q)' = TenancyPhase(q)
      BY <2>1 DEF TenancyPhase, TypeInv, TypeOK
    <3> QED
      BY <3>1 DEF TPc
  <2>4. TReq' = TReq /\ THeader' = THeader /\ TCtx' = TCtx /\ TCall' = TCall /\ TSent' = TSent
    BY <2>1 DEF TReq, THeader, TCtx, TCall, TSent, Arrived, TenancyCall, TenancySent
  <2>5. Requests!TurnedAway(r)
    BY <1>1, <2>2, <2>3, <2>4
       DEF Requests!TurnedAway, Requests!Go, TStatus, TTold, TVouched, TPc, TReq, THeader,
           TCtx, TCall, TSent
  <2> QED
    BY <2>5 DEF Requests!Step
<1>3. ASSUME NEW op \in Ops, NEW i \in AuthIds \cup {Unset}, NEW d \in Doc,
             NEW phase \in Phases, Arrives(r, op, i, d, phase)
      PROVE  Requests!Step(r)
  <2>1. op \in Offered \ {"badRequest"}
    BY <1>3 DEF Arrives, Arrive, Ops
  <2>2. op # "deleteByDevice" => i \in AuthIds
    <3>1. TypeInv'
      BY TypeStep
    <3>2. req'[r].op = op /\ req'[r].id = i
      BY <1>3, ArriveFacts DEF Arrives
    <3> QED
      BY <3>1, <3>2 DEF TypeInv, Addressed
  <2>3. i \in Requests!AskedIds(r, op)
    <3>1. CASE op = "preauthorize"
      BY <1>3, <3>1 DEF Requests!AskedIds, Arrives
    <3>2. CASE op = "deleteByDevice"
      BY <1>3, <3>2 DEF Requests!AskedIds, Arrives
    <3>3. CASE op \notin {"preauthorize", "deleteByDevice"}
      <4>1. i \in KnownIds
        BY <1>3, <2>2, <3>3 DEF Arrives
      <4> QED
        BY <3>3, <4>1, TKnown DEF Requests!AskedIds
    <3> QED
      BY <3>1, <3>2, <3>3
  <2>4. PICK s \in Requests!Decided : op = "update" => d.status = s
    BY <1>3 DEF Arrives, Decided, Requests!Decided
  <2>5. Tenant \in Requests!Headers
    BY DEF Requests!Headers, Requests!Dbs
  <2>6. /\ TPc[r] = "idle" /\ TPc' = [TPc EXCEPT ![r] = "check"]
        /\ THeader' = [THeader EXCEPT ![r] = Tenant]
        /\ TCtx' = [TCtx EXCEPT ![r] = Requests!Context(Tenant)]
        /\ TReq' = [TReq EXCEPT ![r] = TAsked(op, i, s)]
        /\ TCall' = TCall /\ TSent' = TSent
    BY <1>3, <2>4, TArriveFields
  <2>7. Requests!Arrive(r)
    BY <1>1, <1>3, <2>1, <2>3, <2>4, <2>5, <2>6, TArriveFields
       DEF TAsked, Requests!Arrive, Requests!Go, TStatus, TTold, TVouched, TPc, TReq, THeader,
           TCtx, TCall, TSent
  <2> QED
    BY <2>7 DEF Requests!Step
<1> QED
  BY <1>2, <1>3, ArrivalShape

\* A handler moves on within what Tenancy takes for one phase.
LEMMA TMovesOn ==
    ASSUME Inv, NEW r \in Reqs, Handle(r), pc'[r] = "write",
           TenancyPhase(r)' = TenancyPhase(r)
    PROVE  TStutters
<1>1. TPc' = TPc
  BY THandleFields DEF TPc
<1>2. store' = store /\ ~(pc[r] = "write" /\ req[r].op = "preauthorize")
  BY HandleShape DEF Inv, Moves
<1>3. TStatus' = TStatus
  BY <1>2, TStatusSame DEF StatusOf
<1> QED
  BY <1>1, <1>2, <1>3, THandleFields DEF TStutters

\* The insertion of a preauthorized set.
LEMMA TInsertMaps ==
    ASSUME Inv, NEW r \in Reqs, PreauthorizeInsert(r)
    PROVE  Requests!PreauthorizeDevice(r)
<1> USE DEF Inv
<1> DEFINE drawn == [dev[r] EXCEPT !.deviceId = r]
           after == [TStatus EXCEPT ![<<Tenant, r>>] = "preauthorized"]
<1>0. Handle(r)
  BY DEF Handle
<1>1. /\ store \in Collection /\ dev \in [Reqs -> Doc] /\ pc[r] = "write"
      /\ req[r].op = "preauthorize" /\ req[r].id = r /\ req' = req
      /\ dev' = [dev EXCEPT ![r] = drawn] /\ dev[r].status = "preauthorized"
  BY DEF PreauthorizeInsert, At, TypeInv, TypeOK, Draws, Carries
<1>2. drawn \in Doc /\ drawn.status = "preauthorized" /\ drawn.deviceId = r
  BY <1>1 DEF Doc
<1>3. Requests!At(r, "preauthorize", "check")
  BY <1>1, TAt DEF TPc, TenancyPhase
<1>4. Requests!Mine(r) = <<Tenant, r>> /\ THeader[r] = Tenant
  BY <1>0, <1>1, TMine, THandleFields
<1>5. TVouched' = TVouched \cup {<<Tenant, r>>}
  <2>1. Drawn' = Drawn \cup {r}
    BY <1>1, <1>2 DEF Drawn
  <2> QED
    BY <2>1 DEF TVouched
<1>6. store' = InsertDeviceAuth(store, r, drawn) => TStatus' = after
  <2> HIDE DEF drawn
  <2> SUFFICES ASSUME store' = InsertDeviceAuth(store, r, drawn) PROVE TStatus' = after
    OBVIOUS
  <2>1. StatusOf(store)' = [StatusOf(store) EXCEPT ![r] = "preauthorized"]
    BY <1>1, <1>2, StatusInsert DEF StatusOf
  <2> QED
    BY <2>1, TStatusOne
<1>7. store' = store => TStatus' = TStatus
  BY TStatusSame DEF StatusOf
<1> HIDE DEF drawn, after
<1>8. \/ /\ TStatus' = after /\ pc'[r] = "wait"
      \/ /\ TStatus' \in {TStatus, after} /\ pc'[r] = "done"
  <2>1. \/ store' = InsertDeviceAuth(store, r, drawn) /\ Propagate(r)
        \/ store' \in {store, InsertDeviceAuth(store, r, drawn)} /\ Answer(r, 500)
    BY DEF PreauthorizeInsert, drawn
  <2> QED
    BY <1>6, <1>7, <2>1, PropagateShape, AnswerShape
<1>9. ASSUME pc'[r] = "wait" PROVE Requests!Propagate(r, <<THeader[r]>>)
  BY <1>0, <1>1, <1>9, TPropagateMaps
<1>10. ASSUME pc'[r] = "done"
       PROVE  Requests!Go(r, "done") /\ TTold' = TTold /\ UNCHANGED TFixed
              /\ TCall' = TCall /\ TSent' = TSent
  <2>1. TPc' = [TPc EXCEPT ![r] = "done"]
    BY <1>0, <1>10, THandleFields DEF TenancyPhase
  <2> QED
    BY <1>0, <1>10, <2>1, THandleFields DEF Requests!Go, TPc
<1>11. CASE TStatus' = after /\ pc'[r] = "wait"
  BY <1>3, <1>4, <1>5, <1>9, <1>11
     DEF Requests!PreauthorizeDevice, TStatus, TVouched, THeader, after
<1>12. CASE TStatus' \in {TStatus, after} /\ pc'[r] = "done"
  BY <1>3, <1>4, <1>5, <1>10, <1>12
     DEF Requests!PreauthorizeDevice, TStatus, TTold, TVouched, TFixed, TReq, THeader, TCtx,
         TCall, TSent, after
<1> QED
  BY <1>8, <1>11, <1>12

\* The removal of several sets.
LEMMA TDeletesMaps ==
    ASSUME Inv, NEW r \in Reqs, DeleteDeviceData(r)
    PROVE  Requests!DeleteDeviceData(r)
<1> USE DEF Inv
<1>0. Handle(r)
  BY DEF Handle
<1>1. pc[r] = "write" /\ req[r].op = "deleteByDevice" /\ pc'[r] = "done"
  BY AnswerShape DEF DeleteDeviceData, At
<1>2. PICK ids \in SUBSET AuthIds : store' = DeleteDeviceAuths(store, ids)
  BY DEF DeleteDeviceData, OfDevice
<1>3. StatusOf(store)' =
          [i \in AuthIds |-> IF i \in ids THEN Unset ELSE StatusOf(store)[i]]
  BY <1>2, StatusDelete DEF TypeInv, TypeOK, StatusOf
<1>4. Requests!DbFromContext(TCtx[r]) = Tenant
  BY <1>0, THandleFields, TMine
<1>5. TStatus' = [a \in {Tenant} \X AuthIds |->
                     IF a \in {Tenant} \X ids THEN Unset ELSE TStatus[a]]
  <2>1. ASSUME NEW a \in {Tenant} \X AuthIds
        PROVE  TStatus'[a] = IF a \in {Tenant} \X ids THEN Unset ELSE TStatus[a]
    <3>1. a[2] \in AuthIds /\ (a \in {Tenant} \X ids <=> a[2] \in ids)
      OBVIOUS
    <3>2. TStatus'[a] = StatusOf(store)'[a[2]] /\ TStatus[a] = StatusOf(store)[a[2]]
      BY DEF TStatus
    <3> QED
      BY <1>3, <3>1, <3>2
  <2> QED
    BY <2>1 DEF TStatus
<1>6. Requests!At(r, "deleteByDevice", "check")
  BY <1>1, TAt DEF TPc, TenancyPhase
<1>7. TPc' = [TPc EXCEPT ![r] = "done"]
  BY <1>0, <1>1, THandleFields DEF TenancyPhase
<1>8. TVouched' = TVouched /\ UNCHANGED TFixed /\ TTold' = TTold /\ TCall' = TCall
      /\ TSent' = TSent
  BY <1>0, <1>1, THandleFields
<1> QED
  BY <1>4, <1>5, <1>6, <1>7, <1>8
     DEF Requests!DeleteDeviceData, Requests!Go, TFixed, TStatus, TTold, TVouched, TPc, TReq,
         THeader, TCtx, TCall, TSent

\* A write of one set's status, which may fail.
LEMMA TWritesMaps ==
    ASSUME Inv, NEW r \in Reqs, Handle(r), pc'[r] = "done", req[r].id \in AuthIds,
           req[r].op # "preauthorize", NEW s,
           store' # store =>
               StatusOf(store)' = [StatusOf(store) EXCEPT ![req[r].id] = s]
    PROVE  Requests!End(r) \/ (Requests!Put(r, s) /\ TVouched' = TVouched)
<1>1. CASE store' = store
  <2>1. TStatus' = TStatus /\ TVouched' = TVouched
    BY <1>1, TStatusSame, THandleFields DEF StatusOf
  <2> QED
    BY <2>1, TEndMaps
<1>2. CASE store' # store
  BY <1>2, TPutMaps
<1> QED
  BY <1>1, <1>2

\* A step that ends the request and leaves the database alone.
LEMMA TAnswerMaps ==
    ASSUME Inv, NEW r \in Reqs, Handle(r), pc'[r] = "done", store' = store,
           ~PreauthorizeInsert(r)
    PROVE  Requests!End(r)
<1>1. ~(pc[r] = "write" /\ req[r].op = "preauthorize")
  BY DEF Handle, At, SubmitDeviceAuth, UpdateStatusLookup, UpdateStatusPut,
     UpdateStatusAnswered, AcceptPreAuthCheck, AcceptPreAuthUpdate,
     DeletePropagateLookup, DeletePropagateAnswered, DeleteDeviceAuth,
     DeleteDeviceData, PreauthorizeCheck, PreauthorizeAnswered, GiveUp
<1>2. TStatus' = TStatus /\ TVouched' = TVouched
  BY <1>1, TStatusSame, THandleFields DEF StatusOf
<1> QED
  BY <1>2, TEndMaps

\* A handler that finds its set and calls deviceauth.
LEMMA TLookupMaps ==
    ASSUME Inv, NEW r \in Reqs, Handle(r), pc[r] = "check", pc'[r] = "wait",
           req[r].op \in {"update", "delete"}, Found(r), store' = store
    PROVE  Requests!Step(r)
<1> USE DEF Inv
<1>1. TStatus' = TStatus /\ TVouched' = TVouched
  BY TStatusSame, THandleFields DEF StatusOf
<1>2. req[r].id \in AuthIds
  BY DEF TypeInv, Addressed, Ops
<1>3. Requests!Found(r)
  BY <1>2, TFound, THandleFields
<1>4. TPc[r] = "check"
  BY DEF TPc, TenancyPhase
<1>5. CASE req[r].op = "update"
  <2>1. Requests!Propagate(r, <<>>)
    BY <1>5, TPropagateMaps
  <2>2. Requests!UpdateStatusPropagate(r)
    BY <1>1, <1>3, <1>4, <1>5, <2>1, TAt
       DEF Requests!UpdateStatusPropagate, TStatus, TVouched
  <2> QED
    BY <2>2 DEF Requests!Step
<1>6. CASE req[r].op = "delete"
  <2>1. Requests!Propagate(r, <<THeader[r]>>)
    BY <1>6, TPropagateMaps
  <2>2. Requests!DeletePropagate(r)
    BY <1>1, <1>3, <1>4, <1>6, <2>1, TAt
       DEF Requests!DeletePropagate, TStatus, TVouched, THeader
  <2> QED
    BY <2>2 DEF Requests!Step
<1> QED
  BY <1>5, <1>6

\* Every step of a handler is a step of the request in Tenancy, or none.
LEMMA THandleMaps ==
    ASSUME Inv, NEW r \in Reqs, Handle(r)
    PROVE  Requests!Step(r) \/ TStutters
<1> USE DEF Inv
<1>0. store \in Collection /\ dev[r] \in Doc
  BY DEF TypeInv, TypeOK
<1>1. CASE SubmitDeviceAuth(r)
  <2>1. /\ pc[r] = "write" /\ req[r].op = "submit" /\ req[r].id \in AuthIds
        /\ dev[r].status = "pending" /\ dev[r].status # Unset
    BY <1>1 DEF SubmitDeviceAuth, At, TypeInv, Addressed, Ops, Carries, Status
  <2>2. /\ store' \in {store, PutDeviceAuth(store, req[r].id, dev[r])}
        /\ pc'[r] = "done"
    BY <1>1, WriteShape DEF SubmitDeviceAuth
  <2>3. store' # store => StatusOf(store)' = [StatusOf(store) EXCEPT ![req[r].id] = "pending"]
    BY <1>0, <2>1, <2>2, StatusPut DEF StatusOf
  <2>4. Requests!At(r, "submit", "check")
    BY <2>1, TAt DEF TPc, TenancyPhase
  <2>5. Requests!End(r) \/ (Requests!Put(r, "pending") /\ TVouched' = TVouched)
    BY <2>1, <2>2, <2>3, TWritesMaps
  <2>6. Requests!End(r) \/ Requests!SubmitDeviceAuth(r)
    BY <2>4, <2>5 DEF Requests!SubmitDeviceAuth, TVouched
  <2> QED
    BY <2>6 DEF Requests!Step
<1>2. CASE UpdateStatusLookup(r)
  <2>1. /\ store' = store /\ pc[r] = "check" /\ req[r].op = "update"
        /\ (pc'[r] = "wait" /\ Found(r)) \/ pc'[r] = "done"
    BY <1>2, PropagateShape, AnswerShape DEF UpdateStatusLookup, ReadFails, At
  <2>2. CASE pc'[r] = "wait" /\ Found(r)
    BY <2>1, <2>2, TLookupMaps
  <2>3. CASE pc'[r] = "done"
    BY <2>1, <2>3, TAnswerMaps DEF PreauthorizeInsert, At, Requests!Step
  <2> QED
    BY <2>1, <2>2, <2>3
<1>3. CASE UpdateStatusAnswered(r)
  <2>1. /\ store' = store /\ pc[r] = "wait" /\ req[r].op = "update" /\ req' = req
        /\ pc'[r] \in {"write", "done"}
    BY <1>3, GoShape, AnswerShape DEF UpdateStatusAnswered, At
  <2>2. CASE pc'[r] = "write"
    <3>1. TenancyPhase(r)' = TenancyPhase(r)
      BY <2>1, <2>2 DEF TenancyPhase
    <3> QED
      BY <2>2, <3>1, TMovesOn
  <2>3. CASE pc'[r] = "done"
    BY <2>1, <2>3, TAnswerMaps DEF PreauthorizeInsert, At, Requests!Step
  <2> QED
    BY <2>1, <2>2, <2>3
<1>4. CASE UpdateStatusPut(r)
  <2>1. /\ pc[r] = "write" /\ req[r].op = "update" /\ req[r].id \in AuthIds
        /\ call[r] = "ok" /\ dev[r].status # Unset
    BY <1>4 DEF UpdateStatusPut, At, TypeInv, Addressed, Ops, Carries, CalledFirst, Decided,
                Status
  <2>2. /\ store' \in {store, PutDeviceAuth(store, req[r].id, dev[r])}
        /\ pc'[r] = "done"
    BY <1>4, WriteShape DEF UpdateStatusPut
  <2>3. store' # store =>
            StatusOf(store)' = [StatusOf(store) EXCEPT ![req[r].id] = dev[r].status]
    BY <1>0, <2>1, <2>2, StatusPut DEF StatusOf
  <2>4. PICK s \in Decided : s = dev[r].status
    BY <2>1 DEF Carries
  <2>5. Requests!At(r, "update", "wait") /\ TCall[r] = "ok" /\ TReq[r].to = s
    BY <2>1, <2>4, TAt DEF TPc, TenancyPhase, TCall, TenancyCall, TReq
  <2>6. Requests!End(r) \/ (Requests!Put(r, s) /\ TVouched' = TVouched)
    <3>1. CASE store' = store
      BY <2>1, <2>2, <3>1, TAnswerMaps DEF PreauthorizeInsert, At
    <3>2. CASE store' # store
      <4>1. [StatusOf(store) EXCEPT ![req[r].id] = dev[r].status]
               = [StatusOf(store) EXCEPT ![req[r].id] = s]
        BY <2>4, Zenon
      <4>2. StatusOf(store)' = [StatusOf(store) EXCEPT ![req[r].id] = s]
        BY <2>3, <3>2, <4>1, Zenon
      <4>3. pc'[r] = "done" /\ req[r].id \in AuthIds /\ req[r].op # "preauthorize"
        BY <2>1, <2>2
      <4> HIDE DEF Inv
      <4> QED
        BY <4>2, <4>3, TPutMaps, Zenon
    <3> QED
      BY <3>1, <3>2
  <2>7. ASSUME Requests!Put(r, s), TVouched' = TVouched
        PROVE  Requests!UpdateStatusPut(r)
    <3>1. TReq[r].to = s
      BY <2>5
    <3>2. Requests!Put(r, TReq[r].to)
      BY <2>7, <3>1, Zenon DEF Requests!Put
    <3> QED
      BY <2>5, <2>7, <3>2 DEF Requests!UpdateStatusPut, TVouched, TCall, TReq
  <2> QED
    BY <2>6, <2>7 DEF Requests!Step
<1>5. CASE AcceptPreAuthCheck(r)
  <2>1. /\ store' = store /\ pc[r] = "check" /\ req[r].op = "acceptPreauth" /\ req' = req
        /\ \/ pc'[r] = "write" /\ Found(r) /\ store[req[r].id].status = "preauthorized"
           \/ pc'[r] = "done"
    BY <1>5, GoShape, AnswerShape DEF AcceptPreAuthCheck, ReadFails, At
  <2>2. CASE pc'[r] = "write" /\ Found(r) /\ store[req[r].id].status = "preauthorized"
    <3>1. req[r].id \in AuthIds
      BY <2>1 DEF TypeInv, Addressed, Ops
    <3>2. TStatus[Requests!Mine(r)] = "preauthorized"
      BY <2>2, <3>1, TFound, THandleFields
    <3>3. TPc' = [TPc EXCEPT ![r] = "write"]
      BY <2>1, <2>2, THandleFields DEF TenancyPhase
    <3>4. TStatus' = TStatus
      BY <2>1, TStatusSame DEF StatusOf
    <3>5. Requests!At(r, "acceptPreauth", "check")
      BY <2>1, TAt DEF TPc, TenancyPhase
    <3>6. /\ TVouched' = TVouched /\ UNCHANGED TFixed /\ TTold' = TTold
          /\ TCall' = TCall /\ TSent' = TSent
      BY <2>1, <2>2, THandleFields
    <3>7. Requests!AcceptPreAuthCheck(r)
      BY <3>2, <3>3, <3>4, <3>5, <3>6
         DEF Requests!AcceptPreAuthCheck, Requests!Go, TFixed, TStatus, TTold, TVouched, TPc,
             TReq, THeader, TCtx, TCall, TSent
    <3> QED
      BY <3>7 DEF Requests!Step
  <2>3. CASE pc'[r] = "done"
    BY <2>1, <2>3, TAnswerMaps DEF PreauthorizeInsert, At, Requests!Step
  <2> QED
    BY <2>1, <2>2, <2>3
<1>6. CASE AcceptPreAuthUpdate(r)
  <2>1. /\ pc[r] = "write" /\ req[r].op = "acceptPreauth" /\ req[r].id \in AuthIds
        /\ dev[r].status = "accepted" /\ dev[r].status # Unset
    BY <1>6 DEF AcceptPreAuthUpdate, At, TypeInv, Addressed, Ops, Carries, Status
  <2>2. /\ pc'[r] = "done"
        /\ \/ store' = store
           \/ /\ Exists(store, req[r].id)
              /\ store' = UpdateDeviceAuth(store, req[r].id, dev[r])
    BY <1>6, WriteShape, AnswerShape DEF AcceptPreAuthUpdate, Found
  <2>3. CASE store' = store
    BY <2>1, <2>2, <2>3, TAnswerMaps DEF PreauthorizeInsert, At, Requests!Step
  <2>4. CASE store' # store
    <3>1. StatusOf(store)' = [StatusOf(store) EXCEPT ![req[r].id] = "accepted"]
      BY <1>0, <2>1, <2>2, <2>4, StatusStrictUpdate DEF StatusOf
    <3>2. Requests!Found(r)
      BY <2>1, <2>2, <2>4, TFound, THandleFields DEF Found
    <3>3. Requests!Put(r, "accepted") /\ TVouched' = TVouched
      BY <2>1, <2>2, <3>1, TPutMaps
    <3>4. Requests!At(r, "acceptPreauth", "write")
      BY <2>1, TAt DEF TPc, TenancyPhase
    <3>5. Requests!AcceptPreAuthUpdate(r)
      BY <3>2, <3>3, <3>4 DEF Requests!AcceptPreAuthUpdate, TVouched
    <3> QED
      BY <3>5 DEF Requests!Step
  <2> QED
    BY <2>3, <2>4
<1>7. CASE DeletePropagateLookup(r)
  <2>1. /\ store' = store /\ pc[r] = "check" /\ req[r].op = "delete"
        /\ (pc'[r] = "wait" /\ Found(r)) \/ pc'[r] = "done"
    BY <1>7, PropagateShape, AnswerShape DEF DeletePropagateLookup, ReadFails, At
  <2>2. CASE pc'[r] = "wait" /\ Found(r)
    BY <2>1, <2>2, TLookupMaps
  <2>3. CASE pc'[r] = "done"
    BY <2>1, <2>3, TAnswerMaps DEF PreauthorizeInsert, At, Requests!Step
  <2> QED
    BY <2>1, <2>2, <2>3
<1>8. CASE DeletePropagateAnswered(r)
  <2>1. /\ store' = store /\ pc[r] = "wait" /\ req[r].op = "delete" /\ req' = req
        /\ pc'[r] \in {"write", "done"}
    BY <1>8, GoShape, AnswerShape DEF DeletePropagateAnswered, At
  <2>2. CASE pc'[r] = "write"
    <3>1. TenancyPhase(r)' = TenancyPhase(r)
      BY <2>1, <2>2 DEF TenancyPhase
    <3> QED
      BY <2>2, <3>1, TMovesOn
  <2>3. CASE pc'[r] = "done"
    BY <2>1, <2>3, TAnswerMaps DEF PreauthorizeInsert, At, Requests!Step
  <2> QED
    BY <2>1, <2>2, <2>3
<1>9. CASE DeleteDeviceAuth(r)
  <2>1. /\ pc[r] = "write" /\ req[r].op \in {"delete", "deleteInternal"}
        /\ req[r].id \in AuthIds
        /\ req[r].op = "delete" => call[r] = "ok"
    BY <1>9 DEF DeleteDeviceAuth, At, TypeInv, Addressed, Ops, CalledFirst
  <2>2. /\ store' \in {store, DeleteDeviceAuths(store, {req[r].id})}
        /\ pc'[r] = "done"
    BY <1>9, WriteShape DEF DeleteDeviceAuth
  <2>3. store' # store => StatusOf(store)' = [StatusOf(store) EXCEPT ![req[r].id] = Unset]
    <3>1. store' # store =>
              StatusOf(store)' = [i \in AuthIds |-> IF i \in {req[r].id} THEN Unset
                                                    ELSE StatusOf(store)[i]]
      BY <1>0, <2>2, StatusDelete DEF StatusOf
    <3>2. StatusOf(store) = [i \in AuthIds |-> StatusOf(store)[i]]
      BY DEF StatusOf
    <3>3. [i \in AuthIds |-> IF i \in {req[r].id} THEN Unset ELSE StatusOf(store)[i]]
             = [StatusOf(store) EXCEPT ![req[r].id] = Unset]
      BY <3>2
    <3> QED
      BY <3>1, <3>3
  <2>4. \/ Requests!At(r, "deleteInternal", "check")
        \/ Requests!At(r, "delete", "wait") /\ TCall[r] = "ok"
    BY <2>1, TAt DEF TPc, TenancyPhase, TCall, TenancyCall
  <2>5. Requests!End(r) \/ (Requests!Put(r, Unset) /\ TVouched' = TVouched)
    BY <2>1, <2>2, <2>3, TWritesMaps
  <2>6. Requests!End(r) \/ Requests!DeleteDeviceAuth(r)
    BY <2>4, <2>5 DEF Requests!DeleteDeviceAuth, TVouched, TCall
  <2> QED
    BY <2>6 DEF Requests!Step
<1>10. CASE DeleteDeviceData(r)
  BY <1>10, TDeletesMaps DEF Requests!Step
<1>11. CASE PreauthorizeCheck(r)
  <2>1. /\ store' = store /\ pc[r] = "check" /\ req[r].op = "preauthorize" /\ req' = req
        /\ pc'[r] \in {"write", "done"}
    BY <1>11, GoShape, AnswerShape DEF PreauthorizeCheck, ReadFails, At
  <2>2. CASE pc'[r] = "write"
    <3>1. TenancyPhase(r)' = TenancyPhase(r)
      BY <2>1, <2>2 DEF TenancyPhase
    <3> QED
      BY <2>2, <3>1, TMovesOn
  <2>3. CASE pc'[r] = "done"
    BY <2>1, <2>3, TAnswerMaps DEF PreauthorizeInsert, At, Requests!Step
  <2> QED
    BY <2>1, <2>2, <2>3
<1>12. CASE PreauthorizeInsert(r)
  BY <1>12, TInsertMaps DEF Requests!Step
<1>13. CASE PreauthorizeAnswered(r) \/ GiveUp(r)
  <2>1. store' = store /\ pc[r] = "wait" /\ pc'[r] = "done"
    BY <1>13, AnswerShape DEF PreauthorizeAnswered, GiveUp, At
  <2> QED
    BY <2>1, TAnswerMaps DEF PreauthorizeInsert, At, Requests!Step
<1> QED
  BY <1>1, <1>2, <1>3, <1>4, <1>5, <1>6, <1>7, <1>8, <1>9, <1>10, <1>11, <1>12, <1>13
     DEF Handle

\* deviceauth carries a call out for the tenant of its header, or refuses it.
LEMMA TDevauthMaps ==
    ASSUME Inv, NEW r \in Reqs, Devauth(r)
    PROVE  Requests!Step(r)
<1> USE DEF Inv
<1>1. /\ call[r] = "sent" /\ call'[r] \in {"ok", "usage", "error"}
      /\ \A q \in Reqs \ {r} : call'[q] = call[q]
      /\ pc' = pc /\ req' = req /\ dev' = dev
      /\ StatusOf(store)' = StatusOf(store) /\ Drawn' = Drawn
  BY DevauthKeeps
<1>2. TStatus' = TStatus /\ TVouched' = TVouched /\ UNCHANGED TFixed /\ TPc' = TPc
  BY <1>1, TStatusSame
     DEF TVouched, TFixed, TReq, THeader, TCtx, TPc, Arrived, TenancyPhase
<1>3. TSent' = TSent
  <2>1. \A q \in Reqs : TenancySent(q)' = TenancySent(q)
    BY <1>1 DEF TenancySent
  <2> QED
    BY <2>1 DEF TSent
<1>4. TCall[r] = "sent"
  BY <1>1 DEF TCall, TenancyCall
<1>5. TCall' = [TCall EXCEPT ![r] = IF call'[r] = "ok" THEN "ok" ELSE "failed"]
  <2>1. /\ TenancyCall(r)' = IF call'[r] = "ok" THEN "ok" ELSE "failed"
        /\ \A q \in Reqs \ {r} : TenancyCall(q)' = TenancyCall(q)
    BY <1>1 DEF TenancyCall
  <2> QED
    BY <2>1 DEF TCall
<1>6. CASE call'[r] # "ok"
  <2>1. TTold' = TTold
    BY <1>6, DevauthTold, TToldSame
  <2>2. TCall' = [TCall EXCEPT ![r] = "failed"]
    BY <1>5, <1>6
  <2>3. Requests!DevauthRefuse(r)
    BY <1>2, <1>3, <1>4, <2>1, <2>2
       DEF Requests!DevauthRefuse, TFixed, TStatus, TTold, TVouched, TPc, TReq, THeader,
           TCtx, TCall, TSent
  <2> QED
    BY <2>3 DEF Requests!Step
<1>7. CASE call'[r] = "ok"
  <2>1. TCall' = [TCall EXCEPT ![r] = "ok"]
    BY <1>5, <1>7
  <2>2. TTold' = IF TReq[r].op # "update" THEN TTold
                 ELSE [TTold EXCEPT ![<<Requests!ActsFor(TSent[r]), TReq[r].id>>] =
                           @ \cup {TReq[r].to}]
    <3>1. CASE req[r].op # "update"
      <4>1. TTold' = TTold
        BY <3>1, DevauthTold, TToldSame
      <4> QED
        BY <3>1, <4>1 DEF TReq
    <3>2. CASE req[r].op = "update"
      <4>1. PICK i \in AuthIds : req[r].id = i
        BY <1>7, <3>2, DevauthTold
      <4>2. Told' = [Told EXCEPT ![i] = @ \cup {dev[r].status}]
        BY <1>7, <3>2, <4>1, DevauthTold
      <4>3. TTold' = [TTold EXCEPT ![<<Tenant, i>>] = @ \cup {dev[r].status}]
        <5>1. \A j \in AuthIds :
                 Applied(j)' = IF j = i THEN Applied(j) \cup {dev[r].status} ELSE Applied(j)
          BY <4>2 DEF Told
        <5>2. ASSUME NEW a \in {Tenant} \X AuthIds
              PROVE  TTold'[a] = [TTold EXCEPT ![<<Tenant, i>>] = @ \cup {dev[r].status}][a]
          <6>1. a = <<Tenant, i>> <=> a[2] = i
            OBVIOUS
          <6>2. TTold'[a] = Applied(a[2])' /\ TTold[a] = Applied(a[2])
            BY DEF TTold
          <6> QED
            BY <5>1, <6>1, <6>2 DEF TTold
        <5> QED
          BY <5>2 DEF TTold
      <4>4. Requests!ActsFor(TSent[r]) = Tenant
        <5>1. TSent[r] = <<Tenant>>
          BY <1>1, <3>2 DEF TSent, TenancySent
        <5> QED
          BY <5>1, TContext, TenantHasName DEF Requests!ActsFor, Requests!DbFromContext
      <4>5. TReq[r].op = "update" /\ TReq[r].id = i /\ TReq[r].to = dev[r].status
        BY <3>2, <4>1 DEF TReq
      <4> QED
        BY <4>3, <4>4, <4>5
    <3> QED
      BY <3>1, <3>2
  <2>3. Requests!DevauthApply(r)
    BY <1>2, <1>3, <1>4, <2>1, <2>2
       DEF Requests!DevauthApply, TFixed, TStatus, TTold, TVouched, TPc, TReq, THeader,
           TCtx, TCall, TSent
  <2> QED
    BY <2>3 DEF Requests!Step
<1> QED
  BY <1>6, <1>7

\* A crash ends all handlers.
LEMMA TCrashMaps == Inv /\ Crash => Requests!Crash
<1> SUFFICES ASSUME Inv, Crash PROVE Requests!Crash
  OBVIOUS
<1> USE DEF Inv
<1>1. /\ pc' = [r \in Reqs |-> IF r \in InFlight THEN "crashed" ELSE pc[r]]
      /\ req' = req /\ dev' = dev /\ call' = call /\ store' = store
  BY DEF Crash
<1>2. Told' = Told
  BY <1>1, ToldSame
<1>3. TStatus' = TStatus /\ TTold' = TTold /\ TVouched' = TVouched
  BY <1>1, <1>2, TStatusSame, TToldSame DEF StatusOf, TVouched, Drawn
<1>4. UNCHANGED TFixed /\ TCall' = TCall /\ TSent' = TSent
  BY <1>1 DEF TFixed, TReq, THeader, TCtx, Arrived, TCall, TSent, TenancyCall, TenancySent
<1>5. TPc' = [r \in Reqs |-> IF TPc[r] = "idle" THEN "idle" ELSE "done"]
  <2>1. ASSUME NEW r \in Reqs
        PROVE  TenancyPhase(r)' = IF TenancyPhase(r) = "idle" THEN "idle" ELSE "done"
    <3>1. pc[r] \in Phases
      BY DEF TypeInv, TypeOK
    <3> QED
      BY <1>1, <3>1 DEF TenancyPhase, InFlight, Phases
  <2> QED
    BY <2>1 DEF TPc
<1> QED
  BY <1>3, <1>4, <1>5
     DEF Requests!Crash, TFixed, TStatus, TTold, TVouched, TPc, TReq, THeader, TCtx, TCall, TSent

\* Tenancy's assumptions hold of the values that its constants are given here.
LEMMA TAssumptions ==
    /\ Requests!SetsOfDatabases /\ Requests!DrawnIds /\ Requests!HeaderValues
    /\ Requests!OfferedOps /\ Requests!UnsetIsNoStatus
<1>1. Requests!Dbs = {Tenant}
  BY DEF Requests!Dbs
<1>2. Tenant # NoToken
  BY DEF Tenant, NoToken
<1>3. Requests!SetsOfDatabases /\ Requests!DrawnIds
  BY <1>1 DEF Requests!SetsOfDatabases, Requests!DrawnIds
<1>4. Requests!HeaderValues
  BY <1>1, <1>2, TenantHasName DEF Requests!HeaderValues
<1>5. Requests!OfferedOps
  BY OfferedOps DEF Requests!OfferedOps, Requests!Ops, Ops
<1>6. Requests!UnsetIsNoStatus
  BY DEF Requests!UnsetIsNoStatus, Status
<1> QED
  BY <1>3, <1>4, <1>5, <1>6

\* Before any request arrives, none has arrived in Tenancy.
LEMMA TInitMaps == Init => Requests!ServerInit
<1> SUFFICES ASSUME Init PROVE Requests!ServerInit
  OBVIOUS
<1>1. \A r \in Reqs : /\ pc[r] = "idle" /\ req[r] = [op |-> Unset, id |-> Unset]
                      /\ call[r] = "none" /\ ~Arrived(r)
  BY DEF Init, Arrived
<1>2. TStatus = [a \in {Tenant} \X AuthIds |-> Unset]
  BY DEF Init, TStatus, StatusOf, Exists
<1>3. TTold = [a \in {Tenant} \X AuthIds |-> {}] /\ TVouched = {}
  BY <1>1 DEF TTold, TVouched, Applied, Drawn, Ops
<1>4. /\ TPc = [r \in Reqs |-> "idle"]
      /\ TReq = [r \in Reqs |-> [op |-> Unset, id |-> Unset, to |-> Unset]]
      /\ THeader = [r \in Reqs |-> Unset]
      /\ TCtx = [r \in Reqs |-> [auth |-> <<>>, identity |-> Unset]]
      /\ TCall = [r \in Reqs |-> "none"]
      /\ TSent = [r \in Reqs |-> <<>>]
  BY <1>1 DEF TPc, TReq, THeader, TCtx, TCall, TSent, TenancyPhase, TenancyCall,
     TenancySent, Ops
<1> QED
  BY <1>2, <1>3, <1>4
     DEF Requests!ServerInit, Requests!Init, TStatus, TTold, TVouched, TPc, TReq, THeader,
         TCtx, TCall, TSent

\* Every step is a step of Tenancy, or none.
LEMMA TNextMaps == Inv /\ [Next]_vars => [Requests!ServerNext]_(Requests!allVars)
<1> SUFFICES ASSUME Inv, [Next]_vars PROVE [Requests!ServerNext]_(Requests!allVars)
  OBVIOUS
<1>1. ASSUME NEW r \in Reqs, Arrival(r) \/ Handle(r) \/ Devauth(r)
      PROVE  [Requests!ServerNext]_(Requests!allVars)
  <2>1. Requests!Step(r) \/ TStutters
    BY <1>1, TArrivalMaps, THandleMaps, TDevauthMaps
  <2> QED
    BY <2>1, TStutterMaps, TStepMaps
<1>2. CASE Crash
  BY <1>2, TCrashMaps DEF Requests!ServerNext
<1>3. CASE UNCHANGED vars
  <2>1. Told' = Told
    BY <1>3, ToldSame DEF vars
  <2>2. TStatus' = TStatus /\ TTold' = TTold /\ TVouched' = TVouched
    BY <1>3, <2>1, TStatusSame, TToldSame DEF vars, StatusOf, TVouched, Drawn
  <2>3. UNCHANGED TFixed /\ TPc' = TPc /\ TCall' = TCall /\ TSent' = TSent
    BY <1>3 DEF vars, TFixed, TReq, THeader, TCtx, Arrived, TPc, TCall, TSent, TenancyPhase,
       TenancyCall, TenancySent
  <2> QED
    BY <2>2, <2>3, TStutterMaps DEF TStutters
<1> QED
  BY <1>1, <1>2, <1>3 DEF Next

\* The requests of one tenant are requests of Tenancy, whatever documents they carry
\* and whatever fails: what Tenancy shows of headers, contexts and databases holds of
\* the handlers as DevAdm has them.
THEOREM TenancyRefinement == Spec => KeepsTenancy
BY TInitMaps, TNextMaps, Invariance, PTL DEF Spec, Requests!ServerSpec, KeepsTenancy

=============================================================================
