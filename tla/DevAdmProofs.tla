---------------------------- MODULE DevAdmProofs ----------------------------
(***************************************************************************)
(* Proofs about DevAdm for any requests, sets, devices, identities and     *)
(* faults.  The inductive invariant is Inv: the types, the phases that an  *)
(* operation goes through (Phased), the order of call and write            *)
(* (CalledFirst), what a request carries (Carries), when ids are drawn     *)
(* (Draws) and who can know them (Known).                                  *)
(***************************************************************************)
EXTENDS DevAdmProperties, TLAPS

USE MintedIds, ZeroValues

-----------------------------------------------------------------------------
(* The operators on collections keep collections.                          *)

\* What $set leaves is a document.
LEMMA UpdateType ==
    ASSUME NEW old \in Doc, NEW d \in Doc
    PROVE  GenDeviceAuthUpdate(old, d) \in Doc
BY DEF GenDeviceAuthUpdate, Doc

\* An upsert, an update, an insertion and a deletion leave a collection.
LEMMA PutType ==
    ASSUME NEW c \in Collection, NEW i \in AuthIds, NEW d \in Doc
    PROVE  PutDeviceAuth(c, i, d) \in Collection
<1>1. Blank \in Doc
  BY DEF Blank, Doc
<1>2. (IF Exists(c, i) THEN c[i] ELSE Blank) \in Doc
  BY <1>1 DEF Exists, Collection
<1> QED
  BY <1>2, UpdateType DEF PutDeviceAuth, Collection

\* An update of a set that exists leaves a collection.
LEMMA StrictUpdateType ==
    ASSUME NEW c \in Collection, NEW i \in AuthIds, NEW d \in Doc, Exists(c, i)
    PROVE  UpdateDeviceAuth(c, i, d) \in Collection
<1>1. c[i] \in Doc
  BY DEF Exists, Collection
<1> QED
  BY <1>1, UpdateType DEF UpdateDeviceAuth, Collection

\* An insertion leaves a collection.
LEMMA InsertType ==
    ASSUME NEW c \in Collection, NEW i \in AuthIds, NEW d \in Doc
    PROVE  InsertDeviceAuth(c, i, d) \in Collection
BY DEF InsertDeviceAuth, Collection

\* A deletion leaves a collection.
LEMMA DeleteType ==
    ASSUME NEW c \in Collection, NEW ids
    PROVE  DeleteDeviceAuths(c, ids) \in Collection
BY DEF DeleteDeviceAuths, Collection

-----------------------------------------------------------------------------
(* Types.                                                                  *)

\* Every operation but a deletion by device addresses a set.
Addressed ==
    \A r \in Reqs : req[r].op \in Ops \ {"deleteByDevice"} => req[r].id \in AuthIds

TypeInv == TypeOK /\ Addressed

\* The types hold before any request arrives.
LEMMA TypeInit == Init => TypeInv
BY DEF Init, TypeInv, TypeOK, Addressed, Phases, Ops, Doc, Blank, Calls,
       Replies, Collection

\* An arrival keeps the types.
LEMMA ArriveType ==
    ASSUME TypeInv, NEW r \in Reqs, NEW op \in Ops, NEW i \in AuthIds \cup {Unset},
           NEW d \in Doc, NEW phase \in Phases, Arrive(r, op, i, d, phase),
           op # "deleteByDevice" => i \in AuthIds
    PROVE  TypeInv'
<1> USE DEF TypeInv
<1>1. TypeOK'
  BY DEF TypeOK, Arrive, Over
<1>2. Addressed'
  BY DEF TypeOK, Addressed, Arrive
<1> QED
  BY <1>1, <1>2

\* An answer keeps the types of the phases and replies.
LEMMA AnswerType ==
    ASSUME TypeInv, NEW r \in Reqs, NEW code \in Replies, Answer(r, code)
    PROVE  pc' \in [Reqs -> Phases] /\ reply' \in [Reqs -> Replies]
BY DEF TypeInv, TypeOK, Answer, Phases

\* So does going on to another phase.
LEMMA GoType ==
    ASSUME TypeInv, NEW r \in Reqs, NEW phase \in Phases, Go(r, phase)
    PROVE  pc' \in [Reqs -> Phases] /\ reply' \in [Reqs -> Replies]
BY DEF TypeInv, TypeOK, Go

\* A call to deviceauth keeps the types.
LEMMA PropagateType ==
    ASSUME TypeInv, NEW r \in Reqs, Propagate(r)
    PROVE  /\ pc' \in [Reqs -> Phases] /\ reply' \in [Reqs -> Replies]
           /\ call' \in [Reqs -> Calls]
<1>1. "wait" \in Phases /\ "sent" \in Calls
  BY DEF Phases, Calls
<1>2. call \in [Reqs -> Calls]
  BY DEF TypeInv, TypeOK
<1> QED
  BY <1>1, <1>2, GoType DEF Propagate

\* A write keeps the types, acknowledged or not.
LEMMA WriteType ==
    ASSUME TypeInv, NEW r \in Reqs, NEW code \in Replies,
           NEW after \in Collection, Write(r, after, code)
    PROVE  /\ pc' \in [Reqs -> Phases] /\ reply' \in [Reqs -> Replies]
           /\ store' \in Collection
<1>1. 500 \in Replies
  BY DEF Replies
<1>2. store \in Collection
  BY DEF TypeInv, TypeOK
<1> QED
  BY <1>1, <1>2, AnswerType DEF Write

\* Every step keeps the types.
LEMMA TypeStep == TypeInv /\ [Next]_vars => TypeInv'
<1> SUFFICES ASSUME TypeInv, [Next]_vars PROVE TypeInv'
  OBVIOUS
<1> USE DEF TypeInv
<1>1. ASSUME NEW r \in Reqs, Arrival(r) PROVE TypeInv'
  <2>1. CASE SubmitDeviceHandler(r)
    BY <2>1, ArriveType DEF SubmitDeviceHandler, KnownIds, KnownDevices, Ops, Phases, Doc, Status
  <2>2. CASE UpdateDeviceStatusHandler(r)
    BY <2>2, ArriveType DEF UpdateDeviceStatusHandler, KnownIds, Ops, Phases, Doc, Status, Blank
  <2>3. CASE AcceptPreauthorizedHandler(r)
    BY <2>3, ArriveType DEF AcceptPreauthorizedHandler, KnownIds, Ops, Phases, Doc, Status, Blank
  <2>4. CASE DeleteDeviceManagementHandler(r)
    BY <2>4, ArriveType DEF DeleteDeviceManagementHandler, KnownIds, Ops, Phases, Doc, Blank
  <2>5. CASE DeleteDeviceHandler(r)
    BY <2>5, ArriveType DEF DeleteDeviceHandler, KnownIds, Ops, Phases, Doc, Blank
  <2>6. CASE DeleteDevicesHandler(r)
    BY <2>6, ArriveType DEF DeleteDevicesHandler, KnownDevices, Ops, Phases, Doc, Blank
  <2>7. CASE PostDevicesHandler(r)
    BY <2>7, ArriveType DEF PostDevicesHandler, Ops, Phases, Doc, Status
  <2>8. CASE BadRequest(r)
    BY <2>8 DEF BadRequest, TypeOK, Addressed, Phases, Replies
  <2> QED
    BY <1>1, <2>1, <2>2, <2>3, <2>4, <2>5, <2>6, <2>7, <2>8 DEF Arrival
<1>2. ASSUME NEW r \in Reqs, Handle(r) PROVE TypeInv'
  <2> USE DEF Replies, Phases, Calls
  <2>0. store \in Collection /\ dev[r] \in Doc /\ call[r] \in Calls
    BY DEF TypeOK
  <2>1. CASE SubmitDeviceAuth(r)
    <3>1. req[r].id \in AuthIds
      BY <2>1 DEF SubmitDeviceAuth, At, Addressed, Ops
    <3>2. PutDeviceAuth(store, req[r].id, dev[r]) \in Collection
      BY <2>0, <3>1, PutType
    <3>3. /\ pc' \in [Reqs -> Phases] /\ reply' \in [Reqs -> Replies]
          /\ store' \in Collection
      BY <2>1, <3>2, WriteType DEF SubmitDeviceAuth
    <3> QED
      BY <2>1, <3>3 DEF SubmitDeviceAuth, TypeOK, Addressed
  <2>2. CASE UpdateStatusLookup(r)
    <3>1. req[r].id \in AuthIds
      BY <2>2 DEF UpdateStatusLookup, At, Addressed, Ops
    <3>2. Found(r) => store[req[r].id].deviceId \in DeviceIds \cup {Unset}
      BY <2>0, <3>1 DEF Found, Exists, Collection, Doc
    <3>3. /\ pc' \in [Reqs -> Phases] /\ reply' \in [Reqs -> Replies]
          /\ call' \in [Reqs -> Calls]
      BY <2>2, PropagateType, AnswerType DEF UpdateStatusLookup, ReadFails, TypeOK
    <3>4. dev' \in [Reqs -> Doc]
      <4>1. dev \in [Reqs -> Doc]
        BY DEF TypeOK
      <4>2. ASSUME NEW d \in DeviceIds \cup {Unset}
            PROVE  [dev[r] EXCEPT !.deviceId = d] \in Doc
        BY <2>0 DEF Doc
      <4>3. ASSUME NEW d \in DeviceIds \cup {Unset}
            PROVE  [dev EXCEPT ![r].deviceId = d] \in [Reqs -> Doc]
        BY <4>1, <4>2
      <4> QED
        BY <2>2, <3>2, <4>1, <4>3 DEF UpdateStatusLookup
    <3> QED
      BY <2>2, <3>3, <3>4 DEF UpdateStatusLookup, TypeOK, Addressed
  <2>3. CASE UpdateStatusAnswered(r)
    BY <2>3, AnswerType, GoType DEF UpdateStatusAnswered, TypeOK, Addressed
  <2>4. CASE UpdateStatusPut(r)
    <3>1. req[r].id \in AuthIds
      BY <2>4 DEF UpdateStatusPut, At, Addressed, Ops
    <3>2. PutDeviceAuth(store, req[r].id, dev[r]) \in Collection
      BY <2>0, <3>1, PutType
    <3>3. /\ pc' \in [Reqs -> Phases] /\ reply' \in [Reqs -> Replies]
          /\ store' \in Collection
      BY <2>4, <3>2, WriteType DEF UpdateStatusPut
    <3> QED
      BY <2>4, <3>3 DEF UpdateStatusPut, TypeOK, Addressed
  <2>5. CASE AcceptPreAuthCheck(r)
    BY <2>5, AnswerType, GoType DEF AcceptPreAuthCheck, ReadFails, TypeOK, Addressed
  <2>6. CASE AcceptPreAuthUpdate(r)
    <3>1. req[r].id \in AuthIds
      BY <2>6 DEF AcceptPreAuthUpdate, At, Addressed, Ops
    <3>2. Found(r) => UpdateDeviceAuth(store, req[r].id, dev[r]) \in Collection
      BY <2>0, <3>1, StrictUpdateType DEF Found
    <3>3. /\ pc' \in [Reqs -> Phases] /\ reply' \in [Reqs -> Replies]
          /\ store' \in Collection
      BY <2>6, <2>0, <3>2, WriteType, AnswerType DEF AcceptPreAuthUpdate
    <3> QED
      BY <2>6, <3>3 DEF AcceptPreAuthUpdate, TypeOK, Addressed
  <2>7. CASE DeletePropagateLookup(r)
    <3>1. req[r].id \in AuthIds
      BY <2>7 DEF DeletePropagateLookup, At, Addressed, Ops
    <3>2. Found(r) => store[req[r].id] \in Doc
      BY <2>0, <3>1 DEF Found, Exists, Collection
    <3>3. /\ pc' \in [Reqs -> Phases] /\ reply' \in [Reqs -> Replies]
          /\ call' \in [Reqs -> Calls]
      BY <2>7, PropagateType, AnswerType DEF DeletePropagateLookup, ReadFails, TypeOK
    <3>4. dev' \in [Reqs -> Doc]
      BY <2>7, <2>0, <3>2 DEF DeletePropagateLookup, TypeOK
    <3> QED
      BY <2>7, <3>3, <3>4 DEF DeletePropagateLookup, TypeOK, Addressed
  <2>8. CASE DeletePropagateAnswered(r)
    BY <2>8, AnswerType, GoType DEF DeletePropagateAnswered, TypeOK, Addressed
  <2>9. CASE DeleteDeviceAuth(r)
    <3>1. DeleteDeviceAuths(store, {req[r].id}) \in Collection
      BY <2>0, DeleteType
    <3>2. /\ pc' \in [Reqs -> Phases] /\ reply' \in [Reqs -> Replies]
          /\ store' \in Collection
      BY <2>9, <3>1, WriteType DEF DeleteDeviceAuth
    <3> QED
      BY <2>9, <3>2 DEF DeleteDeviceAuth, TypeOK, Addressed
  <2>10. CASE DeleteDeviceData(r)
    <3>1. store' \in Collection
      BY <2>10, <2>0, DeleteType DEF DeleteDeviceData
    <3> QED
      BY <2>10, <3>1, AnswerType DEF DeleteDeviceData, TypeOK, Addressed
  <2>11. CASE PreauthorizeCheck(r)
    BY <2>11, AnswerType, GoType DEF PreauthorizeCheck, ReadFails, TypeOK, Addressed
  <2>12. CASE PreauthorizeInsert(r)
    <3> DEFINE drawn == [dev[r] EXCEPT !.deviceId = r]
    <3>1. drawn \in Doc
      BY <2>0 DEF Doc
    <3>2. InsertDeviceAuth(store, r, drawn) \in Collection
      BY <2>0, <3>1, InsertType
    <3>3. store' \in Collection /\ dev' \in [Reqs -> Doc]
      BY <2>12, <2>0, <3>1, <3>2 DEF PreauthorizeInsert, TypeOK
    <3>4. /\ pc' \in [Reqs -> Phases] /\ reply' \in [Reqs -> Replies]
          /\ call' \in [Reqs -> Calls]
      BY <2>12, PropagateType, AnswerType DEF PreauthorizeInsert, TypeOK
    <3> QED
      BY <2>12, <3>3, <3>4 DEF PreauthorizeInsert, TypeOK, Addressed
  <2>13. CASE PreauthorizeAnswered(r)
    BY <2>13, AnswerType DEF PreauthorizeAnswered, TypeOK, Addressed
  <2>14. CASE GiveUp(r)
    BY <2>14, AnswerType DEF GiveUp, TypeOK, Addressed
  <2> QED
    BY <1>2, <2>1, <2>2, <2>3, <2>4, <2>5, <2>6, <2>7, <2>8, <2>9, <2>10, <2>11,
       <2>12, <2>13, <2>14 DEF Handle
<1>3. ASSUME NEW r \in Reqs, Devauth(r) PROVE TypeInv'
  <2>1. CASE DevauthApply(r)
    <3>1. dev[r].status \in Status \cup {Unset}
      BY DEF TypeOK, Doc
    <3> QED
      BY <2>1, <3>1 DEF DevauthApply, TypeOK, Addressed, Calls
  <2>2. CASE DevauthRefuse(r)
    BY <2>2 DEF DevauthRefuse, TypeOK, Addressed, Calls
  <2> QED
    BY <1>3, <2>1, <2>2 DEF Devauth
<1>4. CASE Crash
  BY <1>4 DEF Crash, TypeOK, Addressed, Phases
<1>5. CASE UNCHANGED vars
  BY <1>5 DEF vars, TypeOK, Addressed
<1> QED
  BY <1>1, <1>2, <1>3, <1>4, <1>5 DEF Next

\* Every variable keeps its type, whatever the requests do.
THEOREM Typing == Spec => []TypeOK
<1>1. TypeInv => TypeOK
  BY DEF TypeInv
<1> QED
  BY <1>1, TypeInit, TypeStep, PTL DEF Spec

-----------------------------------------------------------------------------
(* What a request is while it is handled, and which sets there are.        *)

\* A request that has not arrived is nothing, one that is not done has no
\* response, and only three operations call deviceauth, after their check.
Phased ==
    \A r \in Reqs :
        /\ pc[r] = "idle" => req[r].op = Unset
        /\ pc[r] # "idle" /\ reply[r] # 400 => req[r].op \in Ops
        /\ pc[r] # "done" => reply[r] = 0
        /\ call[r] # "none" => req[r].op \in {"update", "delete", "preauthorize"}
        /\ pc[r] = "check" => call[r] = "none"

\* deviceauth has carried the call out before the handler goes on to write.
CalledFirst ==
    \A r \in Reqs :
        pc[r] = "write" /\ req[r].op \in {"update", "delete"} => call[r] = "ok"

\* The status that each operation writes.
Carries ==
    \A r \in Reqs :
        /\ req[r].op = "submit" => dev[r].status = "pending"
        /\ req[r].op = "update" => dev[r].status \in Decided
        /\ req[r].op = "acceptPreauth" => dev[r].status = "accepted"
        /\ req[r].op = "preauthorize" => dev[r].status = "preauthorized"

\* A preauthorization draws the ids of its set when it inserts it.
Draws ==
    \A r \in Reqs :
        req[r].op = "preauthorize" =>
            /\ req[r].id = r
            /\ pc[r] \in {"check", "write"} => dev[r].deviceId = Unset /\ call[r] = "none"
            /\ call[r] # "none" => dev[r].deviceId # Unset

\* No set has a drawn id before it is drawn, no other request names one, only
\* sets with a drawn id are ever preauthorized, and deviceauth claims only such.
Known ==
    /\ \A i \in Reqs : Exists(store, i) => i \in Drawn
    /\ \A r \in Reqs :
          req[r].op # "preauthorize" /\ req[r].id \in Reqs => req[r].id \in Drawn
    /\ \A i \in AuthIds :
          Exists(store, i) =>
              /\ store[i].status # Unset
              /\ store[i].status = "preauthorized" => i \in Drawn
    /\ \A r \in Reqs :
          pc[r] = "write" /\ req[r].op = "acceptPreauth" => req[r].id \in Drawn

Inv == TypeInv /\ Phased /\ CalledFirst /\ Carries /\ Draws /\ Known

\* The invariant holds before any request arrives.
LEMMA InvInit == Init => Inv
<1> SUFFICES ASSUME Init PROVE Inv
  OBVIOUS
<1>1. TypeInv
  BY TypeInit
<1>2. Phased /\ CalledFirst /\ Carries /\ Draws
  BY DEF Init, Phased, CalledFirst, Carries, Draws, Ops
<1>3. Known
  BY DEF Init, Known, Exists
<1> QED
  BY <1>1, <1>2, <1>3 DEF Inv

-----------------------------------------------------------------------------
(* The shape of a step.  Every action is one of: the arrival of a request, a*)
(* step of its handler, a step of deviceauth, a crash.                      *)

\* What the arrival of a request fixes.
Arrives(r, op, i, d, phase) ==
    /\ Arrive(r, op, i, d, phase)
    /\ phase \in {"check", "write"}
    /\ op \in {"update", "delete", "acceptPreauth", "preauthorize"} => phase = "check"
    /\ op = "submit" => d.status = "pending"
    /\ op = "update" => d.status \in Decided
    /\ op = "acceptPreauth" => d.status = "accepted"
    /\ op = "preauthorize" =>
          i = r /\ d.status = "preauthorized" /\ d.deviceId = Unset
    /\ op # "preauthorize" => i \in KnownIds \cup {Unset}
    /\ op = "deleteByDevice" => i = Unset

\* Every arrival is an Arrive with the arguments its handler gives it, or
\* a bad request.
LEMMA ArrivalShape ==
    ASSUME NEW r \in Reqs, Arrival(r)
    PROVE  \/ BadRequest(r)
           \/ \E op \in Ops, i \in AuthIds \cup {Unset}, d \in Doc,
                 phase \in Phases : Arrives(r, op, i, d, phase)
<1> USE DEF Arrives, Ops, Phases
<1>1. CASE SubmitDeviceHandler(r)
  <2>1. PICK i \in KnownIds, d \in KnownDevices, n \in Idents :
            Arrive(r, "submit", i,
                   [deviceId |-> d, identity |-> n, status |-> "pending"], "write")
    BY <1>1 DEF SubmitDeviceHandler
  <2> QED
    BY <2>1 DEF KnownIds, KnownDevices, Doc, Status
<1>2. CASE UpdateDeviceStatusHandler(r)
  <2>1. PICK i \in KnownIds, s \in Decided :
            Arrive(r, "update", i, [Blank EXCEPT !.status = s], "check")
    BY <1>2 DEF UpdateDeviceStatusHandler, Decided
  <2>2. [Blank EXCEPT !.status = s] \in Doc /\ [Blank EXCEPT !.status = s].status = s
    BY DEF Blank, Doc, Decided, Status
  <2> QED
    BY <2>1, <2>2 DEF KnownIds
<1>3. CASE AcceptPreauthorizedHandler(r)
  <2>1. PICK i \in KnownIds :
            Arrive(r, "acceptPreauth", i, [Blank EXCEPT !.status = "accepted"], "check")
    BY <1>3 DEF AcceptPreauthorizedHandler
  <2>2. /\ [Blank EXCEPT !.status = "accepted"] \in Doc
        /\ [Blank EXCEPT !.status = "accepted"].status = "accepted"
    BY DEF Blank, Doc, Status
  <2> QED
    BY <2>1, <2>2 DEF KnownIds
<1>4. CASE DeleteDeviceManagementHandler(r)
  BY <1>4 DEF DeleteDeviceManagementHandler, KnownIds, Doc, Blank
<1>5. CASE DeleteDeviceHandler(r)
  BY <1>5 DEF DeleteDeviceHandler, KnownIds, Doc, Blank
<1>6. CASE DeleteDevicesHandler(r)
  BY <1>6 DEF DeleteDevicesHandler, KnownDevices, Doc, Blank
<1>7. CASE PostDevicesHandler(r)
  <2>1. PICK n \in Idents :
            Arrive(r, "preauthorize", r,
                   [deviceId |-> Unset, identity |-> n, status |-> "preauthorized"],
                   "check")
    BY <1>7 DEF PostDevicesHandler
  <2> QED
    BY <2>1 DEF Doc, Status
<1> QED
  BY <1>1, <1>2, <1>3, <1>4, <1>5, <1>6, <1>7 DEF Arrival

\* A step of a handler concerns its own request and the database.
Own(r) ==
    /\ req' = req /\ past' = past /\ devauth' = devauth
    /\ \A q \in Reqs \ {r} :
          pc'[q] = pc[q] /\ dev'[q] = dev[q] /\ call'[q] = call[q] /\ reply'[q] = reply[q]

\* How a handler gets from phase to phase.
Moves(r) ==
    /\ pc[r] \in {"check", "wait", "write"}
    /\ pc'[r] \in {"wait", "write", "done"}
    /\ pc'[r] # "done" => reply'[r] = reply[r]
    /\ pc'[r] = "done" => reply'[r] # 400
    /\ IF pc'[r] = "wait"
       THEN /\ call'[r] = "sent"
            /\ \/ pc[r] = "check" /\ req[r].op \in {"update", "delete"}
               \/ pc[r] = "write" /\ req[r].op = "preauthorize"
       ELSE call'[r] = call[r]
    /\ pc'[r] = "write" =>
          /\ store' = store /\ dev'[r] = dev[r]
          /\ req[r].op \in {"update", "delete"} => call[r] = "ok"
          /\ req[r].op = "preauthorize" => pc[r] = "check"
          /\ req[r].op = "acceptPreauth" =>
                Exists(store, req[r].id) /\ store[req[r].id].status = "preauthorized"
    /\ req[r].op # "delete" => dev'[r].status = dev[r].status
    /\ req[r].op = "preauthorize" =>
          dev'[r].deviceId = IF pc[r] = "write" THEN r ELSE dev[r].deviceId

\* What a handler may write: the set it addresses, with the status it carries;
\* nothing; or the removal of sets.
Writes(r) ==
    \A i \in AuthIds :
        \/ store'[i] = store[i]
        \/ store'[i] = NoDoc
        \/ /\ pc[r] = "write" /\ req[r].id = i /\ store'[i] \in Doc
           /\ req[r].op \in {"submit", "update", "acceptPreauth", "preauthorize"}
           /\ store'[i].status = dev[r].status

\* $set takes the status it is given.
LEMMA UpdateCarries ==
    ASSUME NEW old \in Doc, NEW d \in Doc, d.status # Unset
    PROVE  GenDeviceAuthUpdate(old, d).status = d.status
BY DEF GenDeviceAuthUpdate

\* An upsert changes one set, to the status it is given.
LEMMA PutCarries ==
    ASSUME NEW c \in Collection, NEW i \in AuthIds, NEW d \in Doc, d.status # Unset
    PROVE  /\ PutDeviceAuth(c, i, d) \in Collection
           /\ PutDeviceAuth(c, i, d)[i] \in Doc
           /\ PutDeviceAuth(c, i, d)[i].status = d.status
           /\ \A j \in AuthIds \ {i} : PutDeviceAuth(c, i, d)[j] = c[j]
<1> DEFINE old == IF Exists(c, i) THEN c[i] ELSE Blank
<1>1. old \in Doc
  BY DEF Exists, Collection, Blank, Doc
<1>2. /\ GenDeviceAuthUpdate(old, d) \in Doc
      /\ GenDeviceAuthUpdate(old, d).status = d.status
  BY <1>1, UpdateType, UpdateCarries
<1> QED
  BY <1>1, <1>2, PutType DEF PutDeviceAuth, Collection

\* So does an update.
LEMMA StrictUpdateCarries ==
    ASSUME NEW c \in Collection, NEW i \in AuthIds, NEW d \in Doc, Exists(c, i),
           d.status # Unset
    PROVE  /\ UpdateDeviceAuth(c, i, d) \in Collection
           /\ UpdateDeviceAuth(c, i, d)[i] \in Doc
           /\ UpdateDeviceAuth(c, i, d)[i].status = d.status
           /\ \A j \in AuthIds \ {i} : UpdateDeviceAuth(c, i, d)[j] = c[j]
<1>1. c[i] \in Doc
  BY DEF Exists, Collection
<1>2. /\ GenDeviceAuthUpdate(c[i], d) \in Doc
      /\ GenDeviceAuthUpdate(c[i], d).status = d.status
  BY <1>1, UpdateType, UpdateCarries
<1> QED
  BY <1>2, StrictUpdateType DEF UpdateDeviceAuth, Collection

\* The phases of a handler that answers, goes on, or calls deviceauth.
LEMMA AnswerShape ==
    ASSUME TypeInv, NEW r \in Reqs, NEW code, Answer(r, code)
    PROVE  /\ pc'[r] = "done" /\ reply'[r] = code
           /\ \A q \in Reqs \ {r} : pc'[q] = pc[q] /\ reply'[q] = reply[q]
BY DEF TypeInv, TypeOK, Answer

\* Going on changes the phase of one request.
LEMMA GoShape ==
    ASSUME TypeInv, NEW r \in Reqs, NEW phase, Go(r, phase)
    PROVE  /\ pc'[r] = phase /\ reply' = reply
           /\ \A q \in Reqs \ {r} : pc'[q] = pc[q]
BY DEF TypeInv, TypeOK, Go

\* A call to deviceauth is sent by one request.
LEMMA PropagateShape ==
    ASSUME TypeInv, NEW r \in Reqs, Propagate(r)
    PROVE  /\ pc'[r] = "wait" /\ reply' = reply /\ call'[r] = "sent"
           /\ \A q \in Reqs \ {r} : pc'[q] = pc[q] /\ call'[q] = call[q]
BY GoShape DEF TypeInv, TypeOK, Propagate

\* A write answers one request, and happens or not.
LEMMA WriteShape ==
    ASSUME TypeInv, NEW r \in Reqs, NEW after, NEW code, Write(r, after, code)
    PROVE  /\ pc'[r] = "done" /\ reply'[r] \in {code, 500}
           /\ \A q \in Reqs \ {r} : pc'[q] = pc[q] /\ reply'[q] = reply[q]
           /\ store' \in {store, after}
BY AnswerShape DEF Write

\* A step of a handler touches its own request, moves it along its phases, and
\* writes what that request may write.
LEMMA HandleShape ==
    ASSUME TypeInv, Carries, Draws, NEW r \in Reqs, Handle(r)
    PROVE  Own(r) /\ Moves(r) /\ Writes(r)
<1> USE DEF Own, Moves, Writes
<1>0. store \in Collection /\ dev \in [Reqs -> Doc] /\ dev[r] \in Doc
  BY DEF TypeInv, TypeOK
<1>1. CASE SubmitDeviceAuth(r)
  <2>1. req[r].id \in AuthIds /\ dev[r].status = "pending"
    BY <1>1 DEF SubmitDeviceAuth, At, TypeInv, Addressed, Ops, Carries
  <2>2. Own(r) /\ Moves(r)
    BY <1>1, WriteShape DEF SubmitDeviceAuth, At
  <2>3. Writes(r)
    BY <1>0, <1>1, <2>1, WriteShape, PutCarries DEF SubmitDeviceAuth, At, Status
  <2> QED
    BY <2>2, <2>3
<1>2. CASE UpdateStatusLookup(r)
  <2>1. Own(r) /\ Writes(r)
    BY <1>0, <1>2, PropagateShape, AnswerShape DEF UpdateStatusLookup, ReadFails, At
  <2>2. dev'[r].status = dev[r].status
    <3>1. CASE dev' = [dev EXCEPT ![r].deviceId = store[req[r].id].deviceId]
      BY <1>0, <3>1 DEF Doc
    <3> QED
      BY <1>2, <3>1 DEF UpdateStatusLookup
  <2>3. Moves(r)
    BY <1>2, <2>2, PropagateShape, AnswerShape DEF UpdateStatusLookup, ReadFails, At
  <2> QED
    BY <2>1, <2>3
<1>3. CASE UpdateStatusAnswered(r)
  BY <1>3, GoShape, AnswerShape DEF UpdateStatusAnswered, At
<1>4. CASE UpdateStatusPut(r)
  <2>1. req[r].id \in AuthIds /\ dev[r].status \in Decided
    BY <1>4 DEF UpdateStatusPut, At, TypeInv, Addressed, Ops, Carries
  <2>2. Own(r) /\ Moves(r)
    BY <1>4, WriteShape DEF UpdateStatusPut, At
  <2>3. Writes(r)
    BY <1>0, <1>4, <2>1, WriteShape, PutCarries DEF UpdateStatusPut, At, Status, Decided
  <2> QED
    BY <2>2, <2>3
<1>5. CASE AcceptPreAuthCheck(r)
  BY <1>5, GoShape, AnswerShape DEF AcceptPreAuthCheck, ReadFails, At, Found
<1>6. CASE AcceptPreAuthUpdate(r)
  <2>1. req[r].id \in AuthIds /\ dev[r].status = "accepted"
    BY <1>6 DEF AcceptPreAuthUpdate, At, TypeInv, Addressed, Ops, Carries
  <2>2. Own(r) /\ Moves(r)
    BY <1>6, WriteShape, AnswerShape DEF AcceptPreAuthUpdate, At
  <2>3. Writes(r)
    BY <1>0, <1>6, <2>1, WriteShape, StrictUpdateCarries
       DEF AcceptPreAuthUpdate, At, Status, Found
  <2> QED
    BY <2>2, <2>3
<1>7. CASE DeletePropagateLookup(r)
  <2>1. Own(r) /\ Writes(r)
    BY <1>0, <1>7, PropagateShape, AnswerShape DEF DeletePropagateLookup, ReadFails, At
  <2>2. Moves(r)
    BY <1>0, <1>7, PropagateShape, AnswerShape DEF DeletePropagateLookup, ReadFails, At
  <2> QED
    BY <2>1, <2>2
<1>8. CASE DeletePropagateAnswered(r)
  BY <1>8, GoShape, AnswerShape DEF DeletePropagateAnswered, At
<1>9. CASE DeleteDeviceAuth(r)
  <2>1. Own(r) /\ Moves(r)
    BY <1>9, WriteShape DEF DeleteDeviceAuth, At
  <2>2. Writes(r)
    BY <1>9, WriteShape DEF DeleteDeviceAuth, DeleteDeviceAuths
  <2> QED
    BY <2>1, <2>2
<1>10. CASE DeleteDeviceData(r)
  <2>1. Own(r) /\ Moves(r)
    BY <1>10, AnswerShape DEF DeleteDeviceData, At
  <2>2. Writes(r)
    BY <1>10 DEF DeleteDeviceData, DeleteDeviceAuths
  <2> QED
    BY <2>1, <2>2
<1>11. CASE PreauthorizeCheck(r)
  BY <1>11, GoShape, AnswerShape DEF PreauthorizeCheck, ReadFails, At
<1>12. CASE PreauthorizeInsert(r)
  <2> DEFINE drawn == [dev[r] EXCEPT !.deviceId = r]
  <2>1. drawn \in Doc /\ drawn.deviceId = r /\ drawn.status = dev[r].status
    BY <1>0 DEF Doc
  <2>2. dev'[r] = drawn /\ \A q \in Reqs \ {r} : dev'[q] = dev[q]
    BY <1>0, <1>12 DEF PreauthorizeInsert
  <2>3. Own(r) /\ Moves(r)
    <3> HIDE DEF drawn
    <3>1. /\ req' = req /\ past' = past /\ devauth' = devauth
          /\ pc[r] = "write" /\ req[r].op = "preauthorize"
          /\ Propagate(r) \/ (Answer(r, 500) /\ call' = call)
      BY <1>12 DEF PreauthorizeInsert, At
    <3> QED
      BY <2>1, <2>2, <3>1, PropagateShape, AnswerShape
  <2>4. req[r].id = r /\ pc[r] = "write" /\ req[r].op = "preauthorize"
    BY <1>12 DEF PreauthorizeInsert, At, Draws
  <2>5. store' \in {store, InsertDeviceAuth(store, r, drawn)}
    BY <1>12 DEF PreauthorizeInsert
  <2>6. Writes(r)
    BY <1>0, <2>1, <2>4, <2>5 DEF InsertDeviceAuth, Collection
  <2> QED
    BY <2>3, <2>6
<1>13. CASE PreauthorizeAnswered(r)
  BY <1>13, AnswerShape DEF PreauthorizeAnswered, At
<1>14. CASE GiveUp(r)
  BY <1>14, AnswerShape DEF GiveUp
<1> QED
  BY <1>1, <1>2, <1>3, <1>4, <1>5, <1>6, <1>7, <1>8, <1>9, <1>10, <1>11, <1>12,
     <1>13, <1>14 DEF Handle

-----------------------------------------------------------------------------
(* The invariant is inductive.                                             *)

\* What a behaviour never takes back.
Keeps ==
    /\ \A r \in Reqs :
          /\ req[r].op # Unset => req'[r] = req[r]
          /\ req[r].op \notin {Unset, "delete"} => dev'[r].status = dev[r].status
          /\ call[r] = "ok" => call'[r] = "ok"
    /\ Drawn \subseteq Drawn'

\* What an arrival leaves as it was.
LEMMA ArriveFacts ==
    ASSUME TypeInv, Phased, NEW r \in Reqs, NEW op \in Ops, NEW d \in Doc,
           NEW i, NEW phase, Arrive(r, op, i, d, phase)
    PROVE  /\ pc[r] = "idle" /\ req[r].op = Unset /\ call[r] = "none" /\ reply[r] = 0
           /\ pc'[r] = phase /\ req'[r].op = op /\ req'[r].id = i /\ dev'[r] = d
           /\ call' = call /\ reply' = reply /\ store' = store
           /\ \A q \in Reqs \ {r} :
                 pc'[q] = pc[q] /\ req'[q] = req[q] /\ dev'[q] = dev[q]
<1>1. /\ pc[r] = "idle" /\ pc' = [pc EXCEPT ![r] = phase]
      /\ req' = [req EXCEPT ![r] = [op |-> op, id |-> i]]
      /\ dev' = [dev EXCEPT ![r] = d]
      /\ call' = call /\ reply' = reply /\ store' = store
  BY DEF Arrive
<1>2. req[r].op = Unset /\ call[r] = "none" /\ reply[r] = 0
  BY <1>1 DEF Phased, Ops
<1> QED
  BY <1>1, <1>2 DEF TypeInv, TypeOK

\* No step takes back what Keeps names.
LEMMA StepKeeps == Inv /\ [Next]_vars => Keeps
<1> SUFFICES ASSUME Inv, [Next]_vars PROVE Keeps
  OBVIOUS
<1> USE DEF Inv, Keeps
<1>1. ASSUME NEW r \in Reqs, Arrival(r) PROVE Keeps
  <2>1. CASE BadRequest(r)
    BY <2>1 DEF BadRequest, Drawn
  <2>2. ASSUME NEW op \in Ops, NEW i \in AuthIds \cup {Unset}, NEW d \in Doc,
               NEW phase \in Phases, Arrives(r, op, i, d, phase)
        PROVE  Keeps
    <3>1. "preauthorize" # Unset
      BY DEF Ops
    <3>2. /\ req[r].op = Unset /\ call' = call
          /\ \A q \in Reqs \ {r} : req'[q] = req[q] /\ dev'[q] = dev[q]
      BY <2>2, ArriveFacts DEF Arrives
    <3> QED
      BY <3>1, <3>2 DEF Drawn
  <2> QED
    BY <1>1, <2>1, <2>2, ArrivalShape
<1>2. ASSUME NEW r \in Reqs, Handle(r) PROVE Keeps
  <2>1. Own(r) /\ Moves(r)
    BY <1>2, HandleShape
  <2>2. req' = req /\ \A q \in Reqs : call[q] = "ok" => call'[q] = "ok"
    BY <2>1 DEF Own, Moves, Phased, Draws
  <2>3. \A q \in Reqs : req[q].op # "delete" => dev'[q].status = dev[q].status
    BY <2>1 DEF Own, Moves
  <2>4. \A q \in Drawn : dev'[q].deviceId # Unset
    BY <2>1 DEF Own, Moves, Drawn
  <2> QED
    BY <2>2, <2>3, <2>4 DEF Drawn
<1>3. ASSUME NEW r \in Reqs, Devauth(r) PROVE Keeps
  BY <1>3 DEF Devauth, DevauthApply, DevauthRefuse, Drawn, TypeInv, TypeOK
<1>4. CASE Crash
  BY <1>4 DEF Crash, Drawn
<1>5. CASE UNCHANGED vars
  BY <1>5 DEF vars, Drawn
<1> QED
  BY <1>1, <1>2, <1>3, <1>4, <1>5 DEF Next

\* Every step keeps each conjunct of the invariant.
LEMMA PhasedStep == Inv /\ [Next]_vars => Phased'
<1> SUFFICES ASSUME Inv, [Next]_vars PROVE Phased'
  OBVIOUS
<1> USE DEF Inv
<1>1. ASSUME NEW r \in Reqs, Arrival(r) PROVE Phased'
  <2>1. CASE BadRequest(r)
    BY <2>1 DEF BadRequest, Phased, TypeInv, TypeOK
  <2>2. ASSUME NEW op \in Ops, NEW i \in AuthIds \cup {Unset}, NEW d \in Doc,
               NEW phase \in Phases, Arrives(r, op, i, d, phase)
        PROVE  Phased'
    BY <2>2, ArriveFacts DEF Arrives, Phased
  <2> QED
    BY <1>1, <2>1, <2>2, ArrivalShape
<1>2. ASSUME NEW r \in Reqs, Handle(r) PROVE Phased'
  <2>1. Own(r) /\ Moves(r)
    BY <1>2, HandleShape
  <2> QED
    BY <2>1 DEF Own, Moves, Phased
<1>3. ASSUME NEW r \in Reqs, Devauth(r) PROVE Phased'
  BY <1>3 DEF Devauth, DevauthApply, DevauthRefuse, Phased, TypeInv, TypeOK
<1>4. CASE Crash
  BY <1>4 DEF Crash, Phased, TypeInv, TypeOK, InFlight
<1>5. CASE UNCHANGED vars
  BY <1>5 DEF vars, Phased
<1> QED
  BY <1>1, <1>2, <1>3, <1>4, <1>5 DEF Next

\* A decision is written only after its call, still.
LEMMA CalledFirstStep == Inv /\ [Next]_vars => CalledFirst'
<1> SUFFICES ASSUME Inv, [Next]_vars PROVE CalledFirst'
  OBVIOUS
<1> USE DEF Inv
<1>1. ASSUME NEW r \in Reqs, Arrival(r) PROVE CalledFirst'
  <2>1. CASE BadRequest(r)
    BY <2>1 DEF BadRequest, CalledFirst, TypeInv, TypeOK
  <2>2. ASSUME NEW op \in Ops, NEW i \in AuthIds \cup {Unset}, NEW d \in Doc,
               NEW phase \in Phases, Arrives(r, op, i, d, phase)
        PROVE  CalledFirst'
    BY <2>2, ArriveFacts DEF Arrives, CalledFirst
  <2> QED
    BY <1>1, <2>1, <2>2, ArrivalShape
<1>2. ASSUME NEW r \in Reqs, Handle(r) PROVE CalledFirst'
  <2>1. Own(r) /\ Moves(r)
    BY <1>2, HandleShape
  <2> QED
    BY <2>1 DEF Own, Moves, CalledFirst
<1>3. ASSUME NEW r \in Reqs, Devauth(r) PROVE CalledFirst'
  BY <1>3 DEF Devauth, DevauthApply, DevauthRefuse, CalledFirst, TypeInv, TypeOK
<1>4. CASE Crash
  BY <1>4 DEF Crash, CalledFirst, TypeInv, TypeOK, InFlight
<1>5. CASE UNCHANGED vars
  BY <1>5 DEF vars, CalledFirst
<1> QED
  BY <1>1, <1>2, <1>3, <1>4, <1>5 DEF Next

\* Requests carry the status of their operation, still.
LEMMA CarriesStep == Inv /\ [Next]_vars => Carries'
<1> SUFFICES ASSUME Inv, [Next]_vars PROVE Carries'
  OBVIOUS
<1> USE DEF Inv
<1>1. ASSUME NEW r \in Reqs, Arrival(r) PROVE Carries'
  <2>1. CASE BadRequest(r)
    BY <2>1 DEF BadRequest, Carries
  <2>2. ASSUME NEW op \in Ops, NEW i \in AuthIds \cup {Unset}, NEW d \in Doc,
               NEW phase \in Phases, Arrives(r, op, i, d, phase)
        PROVE  Carries'
    BY <2>2, ArriveFacts DEF Arrives, Carries
  <2> QED
    BY <1>1, <2>1, <2>2, ArrivalShape
<1>2. ASSUME NEW r \in Reqs, Handle(r) PROVE Carries'
  <2>1. Own(r) /\ Moves(r)
    BY <1>2, HandleShape
  <2> QED
    BY <2>1 DEF Own, Moves, Carries
<1>3. ASSUME NEW r \in Reqs, Devauth(r) PROVE Carries'
  BY <1>3 DEF Devauth, DevauthApply, DevauthRefuse, Carries
<1>4. CASE Crash
  BY <1>4 DEF Crash, Carries
<1>5. CASE UNCHANGED vars
  BY <1>5 DEF vars, Carries
<1> QED
  BY <1>1, <1>2, <1>3, <1>4, <1>5 DEF Next

\* Drawn ids belong to insertions, still.
LEMMA DrawsStep == Inv /\ [Next]_vars => Draws'
<1> SUFFICES ASSUME Inv, [Next]_vars PROVE Draws'
  OBVIOUS
<1> USE DEF Inv
<1>1. ASSUME NEW r \in Reqs, Arrival(r) PROVE Draws'
  <2>1. CASE BadRequest(r)
    BY <2>1 DEF BadRequest, Draws, TypeInv, TypeOK
  <2>2. ASSUME NEW op \in Ops, NEW i \in AuthIds \cup {Unset}, NEW d \in Doc,
               NEW phase \in Phases, Arrives(r, op, i, d, phase)
        PROVE  Draws'
    BY <2>2, ArriveFacts DEF Arrives, Draws
  <2> QED
    BY <1>1, <2>1, <2>2, ArrivalShape
<1>2. ASSUME NEW r \in Reqs, Handle(r) PROVE Draws'
  <2>1. Own(r) /\ Moves(r)
    BY <1>2, HandleShape
  <2> QED
    BY <2>1 DEF Own, Moves, Draws
<1>3. ASSUME NEW r \in Reqs, Devauth(r) PROVE Draws'
  BY <1>3 DEF Devauth, DevauthApply, DevauthRefuse, Draws, TypeInv, TypeOK
<1>4. CASE Crash
  BY <1>4 DEF Crash, Draws, TypeInv, TypeOK, InFlight
<1>5. CASE UNCHANGED vars
  BY <1>5 DEF vars, Draws
<1> QED
  BY <1>1, <1>2, <1>3, <1>4, <1>5 DEF Next

\* Drawn ids are known only once they are drawn, still.
LEMMA KnownStep == Inv /\ [Next]_vars => Known'
<1> SUFFICES ASSUME Inv, [Next]_vars PROVE Known'
  OBVIOUS
<1> USE DEF Inv
<1>0. Keeps
  BY StepKeeps
<1>1. ASSUME NEW r \in Reqs, Arrival(r) PROVE Known'
  <2>1. CASE BadRequest(r)
    BY <2>1, <1>0 DEF BadRequest, Known, Keeps, TypeInv, TypeOK
  <2>2. ASSUME NEW op \in Ops, NEW i \in AuthIds \cup {Unset}, NEW d \in Doc,
               NEW phase \in Phases, Arrives(r, op, i, d, phase)
        PROVE  Known'
    <3>1. /\ Drawn \subseteq Drawn' /\ store' = store
          /\ \A q \in Reqs \ {r} : req'[q] = req[q] /\ pc'[q] = pc[q]
          /\ req'[r].op = op /\ req'[r].id = i /\ pc'[r] = phase
      BY <2>2, <1>0, ArriveFacts DEF Arrives, Keeps
    <3>2. op # "preauthorize" /\ i \in Reqs => i \in Drawn
      BY <2>2 DEF Arrives, KnownIds, Known, Draws, Drawn
    <3>3. op = "acceptPreauth" => phase = "check"
      BY <2>2 DEF Arrives
    <3> QED
      BY <3>1, <3>2, <3>3 DEF Known, Exists
  <2> QED
    BY <1>1, <2>1, <2>2, ArrivalShape
<1>2. ASSUME NEW r \in Reqs, Handle(r) PROVE Known'
  <2>1. Own(r) /\ Moves(r) /\ Writes(r)
    BY <1>2, HandleShape
  <2>2. Drawn \subseteq Drawn' /\ req' = req
    BY <1>0, <2>1 DEF Keeps, Own
  <2>3. pc[r] = "write" /\ req[r].op = "preauthorize" => req[r].id = r /\ r \in Drawn'
    BY <2>1, <2>2 DEF Moves, Draws, Drawn
  <2>4. \A i \in Reqs : Exists(store', i) => i \in Drawn'
    BY <2>1, <2>2, <2>3 DEF Writes, Known, Exists
  <2>5. ASSUME NEW i \in AuthIds, Exists(store', i)
        PROVE  /\ store'[i].status # Unset
               /\ store'[i].status = "preauthorized" => i \in Drawn'
    <3>1. CASE store'[i] = store[i]
      BY <2>2, <2>5, <3>1 DEF Known, Exists
    <3>2. CASE /\ pc[r] = "write" /\ req[r].id = i
               /\ req[r].op \in {"submit", "update", "acceptPreauth", "preauthorize"}
               /\ store'[i].status = dev[r].status
      BY <2>2, <2>3, <3>2 DEF Carries, Decided, Status
    <3> QED
      BY <2>1, <2>5, <3>1, <3>2 DEF Writes, Exists
  <2>6. ASSUME NEW q \in Reqs, pc'[q] = "write", req[q].op = "acceptPreauth"
        PROVE  req[q].id \in Drawn'
    <3>1. req[q].id \in AuthIds
      BY <2>6 DEF TypeInv, Addressed, Ops
    <3> QED
      BY <2>1, <2>2, <2>6, <3>1 DEF Own, Moves, Known
  <2> QED
    BY <2>2, <2>4, <2>5, <2>6 DEF Known
<1>3. ASSUME NEW r \in Reqs, Devauth(r) PROVE Known'
  BY <1>0, <1>3 DEF Devauth, DevauthApply, DevauthRefuse, Known, Keeps
<1>4. CASE Crash
  BY <1>0, <1>4 DEF Crash, Known, Keeps, TypeInv, TypeOK, InFlight
<1>5. CASE UNCHANGED vars
  BY <1>5 DEF vars, Known, Drawn
<1> QED
  BY <1>1, <1>2, <1>3, <1>4, <1>5 DEF Next

\* The invariant is inductive.
LEMMA InvStep == Inv /\ [Next]_vars => Inv'
BY TypeStep, PhasedStep, CalledFirstStep, CarriesStep, DrawsStep, KnownStep DEF Inv

\* The inductive invariant holds in every state, for any requests, sets and
\* faults.
THEOREM Invariance == Spec => []Inv
BY InvInit, InvStep, PTL DEF Spec

-----------------------------------------------------------------------------
(* What follows from the invariant.                                        *)

\* A step of the invariant keeps decisions authorised.
LEMMA AuthorisedStep ==
    Inv /\ DecisionsAuthorised /\ [Next]_vars => DecisionsAuthorised'
<1> SUFFICES ASSUME Inv, DecisionsAuthorised, [Next]_vars,
                    NEW i \in AuthIds, Exists(store', i), store'[i].status \in Decided
             PROVE  \E r \in Reqs :
                        /\ req'[r].id = i
                        /\ dev'[r].status = store'[i].status
                        /\ \/ req'[r].op = "update" /\ call'[r] = "ok"
                           \/ /\ req'[r].op = "acceptPreauth"
                              /\ \E q \in Reqs : q = i /\ req'[q].op = "preauthorize"
  BY DEF DecisionsAuthorised
<1> USE DEF Inv
<1>0. Keeps /\ Unset \notin Ops
  BY StepKeeps
<1>1. CASE store'[i] = store[i]
  <2>1. PICK r \in Reqs :
            /\ req[r].id = i
            /\ dev[r].status = store[i].status
            /\ \/ req[r].op = "update" /\ call[r] = "ok"
               \/ /\ req[r].op = "acceptPreauth"
                  /\ \E q \in Reqs : q = i /\ req[q].op = "preauthorize"
    BY <1>1 DEF DecisionsAuthorised, Exists
  <2> QED
    BY <1>0, <1>1, <2>1 DEF Keeps, Ops
<1>2. CASE \E r \in Reqs : Handle(r)
  <2>1. PICK r \in Reqs : Handle(r)
    BY <1>2
  <2>2. Own(r) /\ Moves(r) /\ Writes(r)
    BY <2>1, HandleShape
  <2>3. CASE /\ pc[r] = "write" /\ req[r].id = i
             /\ req[r].op \in {"submit", "update", "acceptPreauth", "preauthorize"}
             /\ store'[i].status = dev[r].status
    <3>1. req[r].op \in {"update", "acceptPreauth"}
      BY <2>3 DEF Carries, Decided
    <3>2. req' = req /\ dev'[r].status = dev[r].status
      BY <2>2, <3>1 DEF Own, Moves
    <3>3. req[r].op = "update" => call'[r] = "ok"
      BY <1>0, <2>3 DEF CalledFirst, Keeps
    <3>4. req[r].op = "acceptPreauth" =>
              \E q \in Reqs : q = i /\ req[q].op = "preauthorize"
      BY <2>3 DEF Known, Drawn
    <3> QED
      BY <2>3, <3>1, <3>2, <3>3, <3>4
  <2> QED
    BY <1>1, <2>2, <2>3 DEF Writes, Exists
<1>3. CASE store' = store
  BY <1>1, <1>3
<1> QED
  BY <1>2, <1>3 DEF Next, Arrival, Arrive, Devauth, DevauthApply, DevauthRefuse, Crash, vars,
     SubmitDeviceHandler, UpdateDeviceStatusHandler, AcceptPreauthorizedHandler,
     DeleteDeviceManagementHandler, DeleteDeviceHandler, DeleteDevicesHandler,
     PostDevicesHandler, BadRequest

\* A set is accepted or rejected only by a decision that deviceauth carried out,
\* or by the claim of a set that an operator had preauthorized.
THEOREM Authority == Spec => []DecisionsAuthorised
<1>1. Init => DecisionsAuthorised
  BY DEF Init, DecisionsAuthorised, Exists
<1> QED
  BY <1>1, AuthorisedStep, Invariance, PTL DEF Spec

\* How a handler comes to answer with success.
LEMMA SuccessShape ==
    ASSUME Inv, NEW r \in Reqs, Handle(r),
           reply'[r] \in {200, 201, 204}, call'[r] # "none"
    PROVE  call'[r] = "ok"
<1> USE DEF Inv
<1>1. Own(r) /\ Moves(r)
  BY HandleShape
<1>2. pc'[r] = "done" /\ call'[r] = call[r]
  BY <1>1 DEF Moves, Phased
<1>3. req[r].op \in {"update", "delete", "preauthorize"} /\ pc[r] \in {"wait", "write"}
  BY <1>1, <1>2 DEF Moves, Phased
<1>4. CASE pc[r] = "write"
  BY <1>2, <1>3, <1>4 DEF CalledFirst, Draws
<1>5. CASE pc[r] = "wait"
  <2>1. \/ UpdateStatusAnswered(r) \/ DeletePropagateAnswered(r)
        \/ PreauthorizeAnswered(r) \/ GiveUp(r)
    BY <1>5 DEF Handle, At, SubmitDeviceAuth, UpdateStatusLookup, UpdateStatusPut,
       AcceptPreAuthCheck, AcceptPreAuthUpdate, DeletePropagateLookup,
       DeleteDeviceAuth, DeleteDeviceData, PreauthorizeCheck, PreauthorizeInsert
  <2> QED
    BY <1>2, <2>1, AnswerShape, GoShape
       DEF UpdateStatusAnswered, DeletePropagateAnswered, PreauthorizeAnswered, GiveUp
<1> QED
  BY <1>3, <1>4, <1>5

\* A step of the invariant keeps successes applied.
LEMMA SuccessStep ==
    Inv /\ SuccessMeansApplied /\ [Next]_vars => SuccessMeansApplied'
<1> SUFFICES ASSUME Inv, SuccessMeansApplied, [Next]_vars PROVE SuccessMeansApplied'
  OBVIOUS
<1> USE DEF Inv
<1>1. ASSUME NEW r \in Reqs, Arrival(r) PROVE SuccessMeansApplied'
  <2>1. CASE BadRequest(r)
    BY <2>1 DEF BadRequest, SuccessMeansApplied, TypeInv, TypeOK
  <2>2. ASSUME NEW op \in Ops, NEW i \in AuthIds \cup {Unset}, NEW d \in Doc,
               NEW phase \in Phases, Arrives(r, op, i, d, phase)
        PROVE  SuccessMeansApplied'
    BY <2>2, ArriveFacts DEF Arrives, SuccessMeansApplied
  <2> QED
    BY <1>1, <2>1, <2>2, ArrivalShape
<1>2. ASSUME NEW r \in Reqs, Handle(r) PROVE SuccessMeansApplied'
  <2>1. Own(r)
    BY <1>2, HandleShape
  <2> QED
    BY <1>2, <2>1, SuccessShape DEF Own, SuccessMeansApplied
<1>3. ASSUME NEW r \in Reqs, Devauth(r) PROVE SuccessMeansApplied'
  BY <1>3 DEF Devauth, DevauthApply, DevauthRefuse, SuccessMeansApplied, TypeInv, TypeOK
<1>4. CASE Crash
  BY <1>4 DEF Crash, SuccessMeansApplied
<1>5. CASE UNCHANGED vars
  BY <1>5 DEF vars, SuccessMeansApplied
<1> QED
  BY <1>1, <1>2, <1>3, <1>4, <1>5 DEF Next

\* No request reports success while deviceauth has not carried its call out.
THEOREM Acknowledgement == Spec => []SuccessMeansApplied
<1>1. Init => SuccessMeansApplied
  BY DEF Init, SuccessMeansApplied
<1> QED
  BY <1>1, SuccessStep, Invariance, PTL DEF Spec
=============================================================================
