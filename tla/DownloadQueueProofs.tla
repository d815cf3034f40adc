------------------------- MODULE DownloadQueueProofs -------------------------
(* Proofs about DownloadQueue, whatever the interleaving of handlers,      *)
(* watcher, boot, pool and crashes, for every value of the constants:      *)
(* first the types; then that no item is ever lost or stuck (NoLostItem    *)
(* and DownloadingIsOwned are inductive together with the types; the proof *)
(* follows one item through each step); then what the queue never exceeds, *)
(* MAX_CONCURRENT downloads at once and an item's scheduled time.          *)
EXTENDS DownloadQueue, FiniteSetTheorems, TLAPS

(* What a step does to the record of one request or of one slot.           *)
LEMMA ReqMove ==
  ASSUME ReqsOK, NEW r \in Requests, NEW q \in ReqRecords, ReqOK(q),
         req' = [req EXCEPT ![r] = q]
  PROVE  ReqsOK'
  BY DEF ReqsOK, ReqOK

LEMMA TaskMove ==
  ASSUME TasksOK, NEW s \in Slots, NEW t \in TaskRecords, TaskOK(t),
         task' = [task EXCEPT ![s] = t]
  PROVE  TasksOK'
  BY DEF TasksOK, TaskOK

LEMMA Kept ==
  /\ ReqsOK /\ UNCHANGED req => ReqsOK'
  /\ TasksOK /\ UNCHANGED task => TasksOK'
  BY DEF ReqsOK, TasksOK, ReqOK, TaskOK

LEMMA IdleOK ==
  /\ IdleReq \in ReqRecords /\ ReqOK(IdleReq)
  /\ IdleTask \in TaskRecords /\ TaskOK(IdleTask)
  BY DEF IdleReq, IdleTask, ReqRecords, TaskRecords, ReqOK, TaskOK, ReqPCs, TaskPCs

\* A busy request or slot that only moves to another place keeps its item.
LEMMA ReqStep ==
  ASSUME ReqsOK, NEW r \in Requests, req[r].pc # "idle",
         NEW pc \in ReqPCs \ {"idle"}
  PROVE  /\ req[r].id \in Ids
         /\ [req[r] EXCEPT !.pc = pc] \in ReqRecords
         /\ ReqOK([req[r] EXCEPT !.pc = pc])
  BY DEF ReqsOK, ReqOK, ReqRecords

LEMMA InitTypeOK == Init => TypeOK
  <1> SUFFICES ASSUME Init PROVE TypeOK OBVIOUS
  <1>1. ReqsOK /\ TasksOK
    BY IdleOK DEF Init, ReqsOK, TasksOK
  <1> QED
    BY <1>1, ItemsAssumption, PoolAssumption
    DEF Init, TypeOK, BootPCs, Statuses

LEMMA HandlerTypeOK ==
  ASSUME TypeOK, NEW r \in Requests, Handler(r) \/ RequestAborted(r)
  PROVE  TypeOK'
  <1> USE DEF db, pool, env
  <1>0. ReqsOK /\ TasksOK
    BY DEF TypeOK
  <1>id. req[r].id \in Ids
    BY <1>0 DEF ReqsOK, ReqOK, Handler, RequestAborted, AddInsert, AddNotify, RemoveCancel,
       RemoveUnlink, RemoveDelete, RetryUpdate, RetryEnqueue
  <1>a. ASSUME req' = [req EXCEPT ![r] = IdleReq] PROVE ReqsOK'
    BY <1>0, <1>a, IdleOK, ReqMove
  <1>b. ASSUME NEW pc \in ReqPCs \ {"idle"}, req[r].pc # "idle",
               req' = [req EXCEPT ![r].pc = pc]
        PROVE  ReqsOK'
    <2>1. req' = [req EXCEPT ![r] = [req[r] EXCEPT !.pc = pc]]
      BY <1>b
    <2> QED BY <2>1, <1>0, <1>b, ReqStep, ReqMove
  <1>1. CASE AddInsert(r)
    <2>1. ReqsOK' BY <1>1, <1>b DEF AddInsert, ReqPCs
    <2>2. TasksOK' BY <1>1, <1>0, Kept DEF AddInsert
    <2> QED BY <1>1, <2>1, <2>2 DEF AddInsert, TypeOK, Statuses
  <1>2. ASSUME NEW w \in BOOLEAN, Notify(r, w) PROVE TypeOK'
    <2>1. ReqsOK' BY <1>2, <1>a DEF Notify
    <2>2. TasksOK' BY <1>2, <1>0, Kept DEF Notify
    <2>3. channel' \in Seq(Ids) BY <1>2, <1>id DEF Notify, Enqueue, TypeOK
    <2> QED BY <1>2, <2>1, <2>2, <2>3 DEF Notify, TypeOK
  <1>3. CASE RemoveCancel(r)
    <2>1. ReqsOK' BY <1>3, <1>a DEF RemoveCancel
    <2>2. TasksOK' BY <1>3, <1>0, Kept DEF RemoveCancel
    <2> QED BY <1>3, <2>1, <2>2 DEF RemoveCancel, SetStatus, TypeOK, Statuses
  <1>4. CASE RemoveUnlink(r)
    <2>1. ReqsOK' BY <1>4, <1>b DEF RemoveUnlink, ReqPCs
    <2>2. TasksOK' BY <1>4, <1>0, Kept DEF RemoveUnlink
    <2> QED BY <1>4, <2>1, <2>2 DEF RemoveUnlink, TypeOK
  <1>5. CASE RemoveDelete(r)
    <2>1. ReqsOK' BY <1>5, <1>a DEF RemoveDelete
    <2>2. TasksOK' BY <1>5, <1>0, Kept DEF RemoveDelete
    <2> QED BY <1>5, <2>1, <2>2 DEF RemoveDelete, TypeOK, Statuses
  <1>6. CASE RetryUpdate(r)
    <2>1. ReqsOK' BY <1>6, <1>b DEF RetryUpdate, ReqPCs
    <2>2. TasksOK' BY <1>6, <1>0, Kept DEF RetryUpdate
    <2> QED BY <1>6, <2>1, <2>2 DEF RetryUpdate, TypeOK, Statuses
  <1>8. CASE RequestAborted(r)
    <2>1. ReqsOK' BY <1>8, <1>a DEF RequestAborted
    <2>2. TasksOK' BY <1>8, <1>0, Kept DEF RequestAborted
    <2> QED BY <1>8, <2>1, <2>2, <1>id DEF RequestAborted, TypeOK
  <1> QED
    BY <1>1, <1>2, <1>3, <1>4, <1>5, <1>6, <1>8
    DEF Handler, AddNotify, RetryEnqueue, Exists

LEMMA ClientsTypeOK ==
  ASSUME TypeOK, Clients \/ Reorder PROVE TypeOK'
  <1> USE DEF db, pool, env
  <1>0. ReqsOK /\ TasksOK
    BY DEF TypeOK
  <1>a. ASSUME NEW r \in Requests, NEW id \in Ids, NEW pc \in ReqPCs \ {"idle"},
               req' = [req EXCEPT ![r] = [pc |-> pc, id |-> id]]
        PROVE  ReqsOK'
    <2>1. [pc |-> pc, id |-> id] \in ReqRecords /\ ReqOK([pc |-> pc, id |-> id])
      BY DEF ReqRecords, ReqOK
    <2> QED BY <1>0, <1>a, <2>1, ReqMove
  <1>1. ASSUME NEW r \in Requests, NEW id \in Ids, AddCheck(r, id) PROVE TypeOK'
    <2>1. ReqsOK' BY <1>1, <1>a DEF AddCheck, ReqPCs
    <2>2. TasksOK' BY <1>1, <1>0, Kept DEF AddCheck
    <2> QED BY <1>1, <2>1, <2>2 DEF AddCheck, TypeOK
  <1>2. ASSUME NEW r \in Requests, NEW id \in Ids, RemoveRead(r, id) PROVE TypeOK'
    <2>1. PICK pc \in {"cancel", "unlink", "delete"} :
            req' = [req EXCEPT ![r] = [pc |-> pc, id |-> id]]
      <3>1. CASE status[id] = "downloading"
        BY <1>2, <3>1 DEF RemoveRead
      <3>2. CASE status[id] # "downloading" /\ hasPath[id]
        BY <1>2, <3>2 DEF RemoveRead
      <3>3. CASE status[id] # "downloading" /\ ~ hasPath[id]
        BY <1>2, <3>3 DEF RemoveRead
      <3> QED BY <3>1, <3>2, <3>3
    <2>3. ReqsOK' BY <2>1, <1>a DEF ReqPCs
    <2>2. TasksOK' BY <1>2, <1>0, Kept DEF RemoveRead
    <2> QED BY <1>2, <2>2, <2>3 DEF RemoveRead, TypeOK
  <1>3. ASSUME NEW r \in Requests, NEW id \in Ids, RetrySend(r, id) PROVE TypeOK'
    <2>1. ReqsOK' BY <1>3, <1>a DEF RetrySend, ReqPCs
    <2>2. TasksOK' BY <1>3, <1>0, Kept DEF RetrySend
    <2> QED BY <1>3, <2>1, <2>2 DEF RetrySend, TypeOK
  <1>4. ASSUME NEW id \in Ids, NEW p \in Priorities, ReorderEntry(id, p) PROVE TypeOK'
    BY <1>4, <1>0, Kept DEF ReorderEntry, TypeOK
  <1> QED BY <1>1, <1>2, <1>3, <1>4 DEF Clients, Reorder

LEMMA WatcherTypeOK ==
  ASSUME TypeOK, Watcher PROVE TypeOK'
  <1> USE DEF db, pool, env
  <1>0. ReqsOK /\ TasksOK
    BY DEF TypeOK
  <1>1. CASE WatchRead
    BY <1>1, <1>0, Kept DEF WatchRead, WatchRows, TypeOK
  <1>2. ASSUME NEW id \in Ids, WatchSend(id) PROVE TypeOK'
    BY <1>2, <1>0, Kept DEF WatchSend, Enqueue, TypeOK
  <1> QED BY <1>1, <1>2 DEF Watcher

LEMMA BootTypeOK ==
  ASSUME TypeOK, Boot PROVE TypeOK'
  <1> USE DEF db, pool, env, BootPCs
  <1>0. ReqsOK /\ TasksOK
    BY DEF TypeOK
  <1>a. ASSUME NEW pc \in BootPCs, NEW ids \in SUBSET Ids, BootTo(pc, ids)
        PROVE  TypeOK'
    BY <1>a, <1>0, Kept DEF BootTo, TypeOK
  <1>1. CASE BootSelect
    BY <1>1, <1>a DEF BootSelect
  <1>2. CASE BootQueued
    BY <1>2, <1>a DEF BootQueued, BootSending
  <1>3. CASE BootDone
    BY <1>3, <1>a DEF BootDone
  <1>4. CASE BootFails
    BY <1>4, <1>0, Kept DEF BootFails, TypeOK
  <1>5. ASSUME NEW id \in Ids, BootReset(id) PROVE TypeOK'
    <2>1. ReqsOK' /\ TasksOK' BY <1>5, <1>0, Kept DEF BootReset
    <2>2. status' \in [Ids -> Statuses]
      BY <1>5 DEF BootReset, SetStatus, TypeOK, Statuses
    <2>3. faulted' \subseteq Ids BY <1>5 DEF BootReset, TypeOK
    <2> QED BY <1>5, <2>1, <2>2, <2>3 DEF BootReset, TypeOK
  <1>6. ASSUME NEW id \in Ids, BootSend(id) PROVE TypeOK'
    <2>1. ReqsOK' /\ TasksOK' BY <1>6, <1>0, Kept DEF BootSend
    <2> QED BY <1>6, <2>1 DEF BootSend, Enqueue, TypeOK
  <1> QED BY <1>1, <1>2, <1>3, <1>4, <1>5, <1>6 DEF Boot

\* A task that moves on keeps its item.
LEMMA TaskStep ==
  ASSUME TasksOK, NEW s \in Slots, task[s].pc # "idle"
  PROVE  /\ task[s] \in TaskRecords
         /\ task[s].id \in Ids
         /\ \A pc \in TaskPCs \ {"idle", "fetch", "mark"} :
              /\ [task[s] EXCEPT !.pc = pc] \in TaskRecords
              /\ TaskOK([task[s] EXCEPT !.pc = pc])
  BY DEF TasksOK, TaskOK, TaskRecords

LEMMA DownloadTypeOK ==
  ASSUME TypeOK, NEW s \in Slots, Download(s) PROVE TypeOK'
  <1> USE DEF db, pool, env
  <1>0. ReqsOK /\ TasksOK
    BY DEF TypeOK
  <1>a. ASSUME NEW left, Return(s, left) PROVE TasksOK'
    BY <1>0, <1>a, IdleOK, TaskMove DEF Return
  <1>b. ASSUME NEW pc \in TaskPCs \ {"idle", "fetch", "mark"}, task[s].pc # "idle",
               task' = [task EXCEPT ![s].pc = pc]
        PROVE  TasksOK'
    <2>1. task' = [task EXCEPT ![s] = [task[s] EXCEPT !.pc = pc]]
      BY <1>b
    <2> QED BY <2>1, <1>0, <1>b, TaskStep, TaskMove
  <1>1. CASE Spawn(s)
    <2>1. held \in Ids BY <1>1 DEF Spawn, SpawnLeaving, TypeOK
    <2>2. FreshTask(held) \in TaskRecords /\ TaskOK(FreshTask(held))
      BY <2>1 DEF FreshTask, TaskRecords, TaskOK, TaskPCs
    <2>3. TasksOK' BY <1>1, <1>0, <2>2, TaskMove DEF Spawn, SpawnLeaving
    <2>4. ReqsOK' BY <1>1, <1>0, Kept DEF Spawn, SpawnLeaving
    <2> QED BY <1>1, <2>3, <2>4 DEF Spawn, SpawnLeaving, TypeOK
  <1>2. CASE Fetch(s)
    <2>1. CASE status[task[s].id] \in {"absent", "cancelled"}
      BY <1>2, <2>1, <1>0, <1>a, Kept DEF Fetch, Finish, TypeOK, Return
    <2>2. CASE status[task[s].id] \notin {"absent", "cancelled"}
      <3> DEFINE t == [task[s] EXCEPT !.pc = "mark"]
      <3>1. t \in TaskRecords /\ TaskOK(t)
        BY <1>2, <1>0 DEF Fetch, TasksOK, TaskRecords, TaskOK, TaskPCs
      <3>2. TasksOK' BY <1>2, <2>2, <1>0, <3>1, TaskMove DEF Fetch
      <3> QED BY <1>2, <2>2, <3>2, <1>0, Kept DEF Fetch, TypeOK
    <2> QED BY <2>1, <2>2
  <1>3. CASE Mark(s)
    <2>1. PICK n \in RetryLimits :
            task' = [task EXCEPT ![s].pc = "attempt", ![s].limit = n]
      BY <1>3 DEF Mark
    <2> DEFINE t == [task[s] EXCEPT !.pc = "attempt", !.limit = n]
    <2>2. t \in TaskRecords /\ TaskOK(t)
      <3>1. task[s] \in TaskRecords /\ task[s].id \in Ids /\ task[s].attempt = 0
        BY <1>3, <1>0 DEF Mark, TasksOK, TaskOK
      <3>2. t \in TaskRecords
        BY <3>1, PoolAssumption DEF TaskRecords, TaskPCs
      <3>3. t.pc = "attempt" /\ t.id \in Ids /\ t.attempt = 0 /\ t.limit = n /\ n \in Nat
        BY <3>1, PoolAssumption DEF TaskRecords
      <3> HIDE DEF t
      <3>4. TaskOK(t)
        BY <3>3 DEF TaskOK
      <3> QED BY <3>2, <3>4
    <2>3. task' = [task EXCEPT ![s] = t]
      BY <2>1
    <2>4. TasksOK' /\ ReqsOK' BY <1>3, <1>0, <2>2, <2>3, TaskMove, Kept DEF Mark
    <2>5. status' \in [Ids -> Statuses]
      BY <1>3 DEF Mark, SetStatus, TypeOK, Statuses
    <2> QED BY <1>3, <2>4, <2>5 DEF Mark, TypeOK
  <1>4. CASE StartFails(s)
    BY <1>4, <1>0, <1>a, TaskStep, Kept DEF StartFails, Finish, Return, TypeOK
  <1>5. CASE AttemptOk(s)
    <2>1. PICK named \in BOOLEAN :
            task' = [task EXCEPT ![s].pc = "check", ![s].named = named]
      BY <1>5, EnvironmentAssumption DEF AttemptOk
    <2> DEFINE t == [task[s] EXCEPT !.pc = "check", !.named = named]
    <2>2. t \in TaskRecords /\ TaskOK(t) /\ task[s].id \in Ids
      <3>1. task[s] \in TaskRecords /\ task[s].id \in Ids
                                    /\ task[s].attempt <= task[s].limit
        BY <1>5, <1>0 DEF AttemptOk, TasksOK, TaskOK
      <3>2. t \in TaskRecords
        BY <3>1 DEF TaskRecords, TaskPCs
      <3>3. t.pc = "check" /\ t.id \in Ids /\ t.attempt <= t.limit
        BY <3>1 DEF TaskRecords
      <3> HIDE DEF t
      <3>4. TaskOK(t)
        BY <3>3 DEF TaskOK
      <3> QED BY <3>1, <3>2, <3>4
    <2>3. task' = [task EXCEPT ![s] = t]
      BY <2>1
    <2>4. TasksOK' /\ ReqsOK' BY <1>5, <1>0, <2>2, <2>3, TaskMove, Kept DEF AttemptOk
    <2> QED BY <1>5, <2>2, <2>4, ItemsAssumption DEF AttemptOk, TypeOK
  <1>6. CASE AttemptFail(s)
    <2>1. /\ task[s] \in TaskRecords /\ task[s].id \in Ids /\ task[s].pc = "attempt"
          /\ task[s].attempt \in Nat /\ task[s].limit \in Nat
      BY <1>6, <1>0
      DEF AttemptFail, AttemptFailing, TasksOK, TaskOK, TaskRecords
    <2>2. ASSUME task[s].attempt >= task[s].limit PROVE TasksOK'
      <3>1. task' = [task EXCEPT ![s].pc = "fail"]
        BY <1>6, <2>2 DEF AttemptFail, AttemptFailing
      <3> QED BY <3>1, <2>1, <1>b DEF TaskPCs
    <2>3. ASSUME ~ (task[s].attempt >= task[s].limit) PROVE TasksOK'
      <3>0. PICK n : /\ n = task[s].attempt + 1
                     /\ task' = [task EXCEPT ![s].pc = "backoff", ![s].attempt = n]
        BY <1>6, <2>3 DEF AttemptFail, AttemptFailing
      <3> DEFINE t == [task[s] EXCEPT !.pc = "backoff", !.attempt = n]
      <3>1. task' = [task EXCEPT ![s] = t]
        BY <3>0
      <3>5. n \in Nat /\ n <= task[s].limit
        BY <2>1, <2>3, <3>0
      <3>2. t \in TaskRecords
        BY <2>1, <3>5 DEF TaskRecords, TaskPCs
      <3>3. t.pc = "backoff" /\ t.id \in Ids /\ t.attempt <= t.limit
        BY <2>1, <3>5 DEF TaskRecords
      <3> HIDE DEF t
      <3>4. TaskOK(t)
        BY <3>3 DEF TaskOK
      <3> QED BY <1>0, <3>1, <3>2, <3>4, TaskMove
    <2>4. TasksOK' /\ ReqsOK'
      BY <1>6, <1>0, <2>2, <2>3, Kept DEF AttemptFail, AttemptFailing
    <2> QED BY <1>6, <2>4 DEF AttemptFail, AttemptFailing, TypeOK
  <1>7. CASE BackoffElapsed(s)
    <2>1. task' = [task EXCEPT ![s].pc = "attempt"]
      BY <1>7, <1>0 DEF BackoffElapsed, TryAgain, TasksOK, TaskRecords
    <2>2. TasksOK' /\ ReqsOK'
      BY <1>7, <1>0, <1>b, <2>1, Kept DEF BackoffElapsed, TryAgain, TaskPCs
    <2> QED BY <1>7, <2>2 DEF BackoffElapsed, TryAgain, TypeOK
  <1>8. CASE CheckCancelled(s)
    <2>1. /\ \/ GoTo(s, "clean") \/ GoTo(s, "done") \/ Finish(s)
          /\ UNCHANGED <<db, files, channel, held, req, watch, boot, env, faulted>>
          /\ task[s].pc = "check"
      BY <1>8 DEF CheckCancelled, SeesCancelled
    <2>2. TasksOK' /\ ReqsOK' /\ permits' \in Nat
      <3>1. CASE \/ GoTo(s, "clean") \/ GoTo(s, "done")
        BY <2>1, <3>1, <1>0, <1>b, Kept DEF GoTo, TaskPCs, TypeOK
      <3>2. CASE Finish(s)
        BY <2>1, <3>2, <1>0, <1>a, Kept DEF Finish, Return, TypeOK
      <3> QED BY <2>1, <3>1, <3>2
    <2> QED BY <2>1, <2>2 DEF TypeOK
  <1>9. CASE CleanUp(s)
    BY <1>9, <1>0, <1>a, Kept DEF CleanUp, Finish, Return, TypeOK
  <1>10. CASE RecordDone(s)
    <2>1. TasksOK' /\ ReqsOK' /\ permits' \in Nat
      BY <1>10, <1>0, <1>a, Kept DEF RecordDone, Finish, Return, TypeOK
    <2>2. task[s].named \in BOOLEAN
      BY <1>0 DEF TasksOK, TaskRecords
    <2>3. /\ status' \in [Ids -> Statuses]
          /\ hasPath' \in [Ids -> BOOLEAN]
      BY <1>10, <2>2 DEF RecordDone, SetStatus, TypeOK, Statuses, Exists
    <2> QED BY <1>10, <2>1, <2>3 DEF RecordDone, TypeOK
  <1>11. CASE RecordFailed(s)
    <2>1. TasksOK' /\ ReqsOK' /\ permits' \in Nat
      BY <1>11, <1>0, <1>a, Kept DEF RecordFailed, Finish, Return, TypeOK
    <2>3. status' \in [Ids -> Statuses]
      BY <1>11 DEF RecordFailed, SetStatus, TypeOK, Statuses
    <2> QED BY <1>11, <2>1, <2>3 DEF RecordFailed, TypeOK
  <1>12. CASE RecordFails(s)
    BY <1>12, <1>0, <1>a, TaskStep, Kept DEF RecordFails, Finish, Return, TypeOK
  <1> QED
    BY <1>1, <1>2, <1>3, <1>4, <1>5, <1>6, <1>7, <1>8, <1>9, <1>10, <1>11, <1>12
    DEF Download, Starting, Running, Ending

LEMMA StepTypeOK ==
  ASSUME TypeOK, [Next]_vars PROVE TypeOK'
  <1> USE DEF db, pool, env
  <1>0. ReqsOK /\ TasksOK
    BY DEF TypeOK
  <1>1. CASE Recv
    <2>1. Head(channel) \in Ids /\ Tail(channel) \in Seq(Ids)
      BY <1>1 DEF Recv, TypeOK
    <2> QED BY <1>1, <2>1, <1>0, Kept DEF Recv, TypeOK
  <1>2. CASE Tick
    BY <1>2, <1>0, Kept DEF Tick, TypeOK
  <1>3. CASE Crash
    <2>1. ReqsOK' /\ TasksOK'
      BY <1>3, IdleOK DEF Crash, ReqsOK, TasksOK
    <2> QED BY <1>3, <2>1, PoolAssumption DEF Crash, TypeOK, BootPCs
  <1>4. CASE UNCHANGED vars
    BY <1>4, <1>0, Kept DEF vars, TypeOK
  <1> QED
    BY <1>1, <1>2, <1>3, <1>4, HandlerTypeOK, ClientsTypeOK, WatcherTypeOK,
       BootTypeOK, DownloadTypeOK
    DEF Next

(* Every variable keeps its type: in particular no slot or handler works   *)
(* without an item, and no download makes more attempts than its limit     *)
(* (backend/src/queue.rs:215-322).                                         *)
THEOREM TypeCorrect == Spec => []TypeOK
  <1> QED BY InitTypeOK, StepTypeOK, PTL DEF Spec
-----------------------------------------------------------------------------
\* What NoLostItem and DownloadingIsOwned say of one item.
HandOK(id) == id \notin Scheduled \cup faulted /\ status[id] = "queued" => InHand(id)
OwnOK(id)  == id \notin faulted /\ status[id] = "downloading"
                 => Owned(id) \/ BootWillReset(id)
ItemOK(id) == HandOK(id) /\ OwnOK(id)

LEMMA EachItem ==
  NoLostItem /\ DownloadingIsOwned <=> \A id \in Ids : ItemOK(id)
  BY DEF NoLostItem, DownloadingIsOwned, ItemOK, HandOK, OwnOK

(* An item keeps its handler or its task when another handler or task steps. *)
LEMMA OtherRequests ==
  ASSUME NEW r \in Requests, NEW id \in Ids, WillBeSent(id),
         \A o \in Requests \ {r} : req'[o] = req[o],
         ~ (req[r].id = id /\ req[r].pc \in {"notify", "enqueue"})
  PROVE  WillBeSent(id)'
  BY DEF WillBeSent

LEMMA OtherSlots ==
  ASSUME NEW s \in Slots, NEW id \in Ids,
         \A o \in Slots \ {s} : task'[o] = task[o]
  PROVE  /\ Starts(id) /\ task[s].id # id => Starts(id)'
         /\ Starts(id) /\ task[s].pc \notin {"fetch", "mark"} => Starts(id)'
         /\ Owned(id) /\ task[s].id # id => Owned(id)'
         /\ Owned(id) /\ task[s].pc \notin {"attempt", "backoff", "check", "done", "fail"}
              => Owned(id)'
  BY DEF Starts, Owned

(* What is kept when the variables it reads are.                           *)
LEMMA KeptFor ==
  ASSUME NEW id \in Ids
  PROVE  /\ UNCHANGED <<channel, held>> => InChannel(id)' = InChannel(id)
         /\ UNCHANGED task => Starts(id)' = Starts(id) /\ Owned(id)' = Owned(id)
         /\ UNCHANGED req => WillBeSent(id)' = WillBeSent(id)
         /\ UNCHANGED boot => /\ BootWillSend(id)' = BootWillSend(id)
                              /\ BootWillReset(id)' = BootWillReset(id)
  BY DEF InChannel, Starts, Owned, WillBeSent, BootWillSend, BootWillReset, RangeOf

(* Enqueueing an id leaves it and all that were there in the channel.      *)
LEMMA Enqueued ==
  ASSUME channel \in Seq(Ids), NEW x \in Ids, Enqueue(x)
  PROVE  RangeOf(channel') = RangeOf(channel) \cup {x}
  BY DEF Enqueue, RangeOf

LEMMA Received ==
  ASSUME channel \in Seq(Ids), channel # <<>>
  PROVE  RangeOf(channel) = RangeOf(Tail(channel)) \cup {Head(channel)}
  <1>1. /\ Len(channel) \in Nat \ {0} /\ Tail(channel) \in Seq(Ids)
        /\ Len(Tail(channel)) = Len(channel) - 1
        /\ Head(channel) = channel[1]
        /\ \A i \in 1 .. Len(channel) - 1 : Tail(channel)[i] = channel[i + 1]
    OBVIOUS
  <1>2. DOMAIN channel = 1 .. Len(channel)
        /\ DOMAIN Tail(channel) = 1 .. Len(channel) - 1
    BY <1>1
  <1>3. ASSUME NEW i \in DOMAIN channel
        PROVE  channel[i] \in RangeOf(Tail(channel)) \cup {Head(channel)}
    <2>1. CASE i = 1 BY <2>1, <1>1
    <2>2. CASE i # 1
      <3>1. i - 1 \in DOMAIN Tail(channel) /\ channel[i] = Tail(channel)[i - 1]
        BY <2>2, <1>1, <1>2
      <3> QED BY <3>1 DEF RangeOf
    <2> QED BY <2>1, <2>2
  <1>4. ASSUME NEW i \in DOMAIN Tail(channel) PROVE Tail(channel)[i] \in RangeOf(channel)
    <2>1. i + 1 \in DOMAIN channel /\ Tail(channel)[i] = channel[i + 1]
      BY <1>1, <1>2
    <2> QED BY <2>1 DEF RangeOf
  <1>5. Head(channel) \in RangeOf(channel)
    BY <1>1, <1>2 DEF RangeOf
  <1> QED BY <1>3, <1>4, <1>5 DEF RangeOf

LEMMA InitItem ==
  ASSUME Init, NEW id \in Ids PROVE ItemOK(id)
  BY DEF Init, ItemOK, HandOK, OwnOK

(* The handlers: only add and retry make an item queued, and they are then *)
(* the ones that will send it; only cancel takes it from its download.     *)
LEMMA HandlerItem ==
  ASSUME TypeOK, NEW r \in Requests, Handler(r) \/ RequestAborted(r),
         NEW id \in Ids, ItemOK(id)
  PROVE  ItemOK(id)'
  <1> USE DEF db, pool, env
  <1>0. /\ channel \in Seq(Ids) /\ req \in [Requests -> ReqRecords]
        /\ status \in [Ids -> Statuses] /\ ReqsOK
    BY DEF TypeOK, ReqsOK
  <1>id. req[r].id \in Ids
    BY <1>0 DEF ReqsOK, ReqOK, Handler, RequestAborted, AddInsert, AddNotify, RemoveCancel,
       RemoveUnlink, RemoveDelete, RetryUpdate, RetryEnqueue
  <1>o. (\E q : req' = [req EXCEPT ![r] = q]) => \A o \in Requests \ {r} : req'[o] = req[o]
    BY <1>0
  <1>1. CASE AddInsert(r)
    <2>1. WillBeSent(req[r].id)'
      BY <1>1, <1>0, <1>id DEF AddInsert, WillBeSent, ReqRecords
    <2>2. id # req[r].id => UNCHANGED <<status[id], faulted>>
      BY <1>1, <1>0, <1>id DEF AddInsert
    <2>3. status'[req[r].id] = "queued"
      BY <1>1, <1>0, <1>id DEF AddInsert
    <2>4. WillBeSent(id) => WillBeSent(id)'
      BY <1>1, <1>0, OtherRequests DEF AddInsert
    <2> QED BY <1>1, <2>1, <2>2, <2>3, <2>4, KeptFor
            DEF AddInsert, ItemOK, HandOK, OwnOK, InHand
  <1>2. ASSUME NEW w, Notify(r, w), req[r].pc \in {"notify", "enqueue"},
               status[req[r].id] = "queued" /\ req[r].id \notin Scheduled => w
        PROVE  ItemOK(id)'
    <2>1. CASE id = req[r].id /\ id \notin Scheduled /\ status[id] = "queued"
      <3>1. InChannel(id)'
        BY <1>2, <1>0, <1>id, <2>1, Enqueued DEF Notify, InChannel
      <3> QED BY <1>2, <2>1, <3>1 DEF Notify, ItemOK, HandOK, OwnOK, InHand
    <2>2. CASE ~ (id = req[r].id /\ id \notin Scheduled /\ status[id] = "queued")
      <3>1. InChannel(id) => InChannel(id)'
        BY <1>2, <1>0, <1>id, Enqueued DEF Notify, InChannel
      <3>2. WillBeSent(id) /\ id # req[r].id => WillBeSent(id)'
        BY <1>2, <1>0, OtherRequests DEF Notify
      <3> QED BY <1>2, <2>2, <3>1, <3>2, KeptFor
              DEF Notify, ItemOK, HandOK, OwnOK, InHand
    <2> QED BY <2>1, <2>2
  <1>3. CASE RemoveCancel(r)
    <2>1. /\ id # req[r].id => status'[id] = status[id]
          /\ id = req[r].id => status'[id] \notin {"queued", "downloading"}
      BY <1>3, <1>0, <1>id DEF RemoveCancel, SetStatus, Exists
    <2>2. WillBeSent(id) => WillBeSent(id)'
      BY <1>3, <1>0, OtherRequests DEF RemoveCancel
    <2> QED BY <1>3, <2>1, <2>2, KeptFor
            DEF RemoveCancel, ItemOK, HandOK, OwnOK, InHand
  <1>4. CASE RemoveUnlink(r)
    <2>2. WillBeSent(id) => WillBeSent(id)'
      BY <1>4, <1>0, OtherRequests DEF RemoveUnlink
    <2> QED BY <1>4, <2>2, KeptFor DEF RemoveUnlink, ItemOK, HandOK, OwnOK, InHand
  <1>5. CASE RemoveDelete(r)
    <2>1. /\ id # req[r].id => status'[id] = status[id]
          /\ id = req[r].id => status'[id] \notin {"queued", "downloading"}
      BY <1>5, <1>0, <1>id DEF RemoveDelete
    <2>2. WillBeSent(id) => WillBeSent(id)'
      BY <1>5, <1>0, OtherRequests DEF RemoveDelete
    <2> QED BY <1>5, <2>1, <2>2, KeptFor
            DEF RemoveDelete, ItemOK, HandOK, OwnOK, InHand
  <1>6. CASE RetryUpdate(r)
    <2>1. WillBeSent(req[r].id)'
      BY <1>6, <1>0, <1>id DEF RetryUpdate, WillBeSent, ReqRecords
    <2>2. /\ id # req[r].id => status'[id] = status[id]
          /\ status'[id] = "downloading" => status[id] = "downloading"
      BY <1>6, <1>0, <1>id DEF RetryUpdate
    <2>4. WillBeSent(id) => WillBeSent(id)'
      BY <1>6, <1>0, OtherRequests DEF RetryUpdate
    <2> QED BY <1>6, <2>1, <2>2, <2>4, KeptFor
            DEF RetryUpdate, ItemOK, HandOK, OwnOK, InHand
  <1>7. CASE RequestAborted(r)
    <2>1. WillBeSent(id) => WillBeSent(id)' \/ id \in faulted'
      BY <1>7, <1>0, OtherRequests DEF RequestAborted
    <2>2. faulted \subseteq faulted'
      BY <1>7 DEF RequestAborted
    <2> QED BY <1>7, <2>1, <2>2, KeptFor
            DEF RequestAborted, ItemOK, HandOK, OwnOK, InHand
  <1>8. CASE AddNotify(r)
    BY <1>8, <1>2 DEF AddNotify, Exists
  <1>9. CASE RetryEnqueue(r)
    BY <1>9, <1>2 DEF RetryEnqueue, Exists
  <1> QED
    BY <1>1, <1>3, <1>4, <1>5, <1>6, <1>7, <1>8, <1>9 DEF Handler

(* New requests take an idle handler, so they take no item from a handler. *)
LEMMA ClientsItem ==
  ASSUME TypeOK, Clients \/ Reorder, NEW id \in Ids, ItemOK(id)
  PROVE  ItemOK(id)'
  <1> USE DEF db, pool, env
  <1>0. req \in [Requests -> ReqRecords]
    BY DEF TypeOK, ReqsOK
  <1>a. ASSUME NEW r \in Requests, NEW q, req[r] = IdleReq, req' = [req EXCEPT ![r] = q]
        PROVE  WillBeSent(id) => WillBeSent(id)'
    BY <1>0, <1>a, OtherRequests DEF IdleReq
  <1>1. ASSUME NEW r \in Requests, NEW x \in Ids, AddCheck(r, x) PROVE ItemOK(id)'
    <2>1. WillBeSent(id) => WillBeSent(id)' BY <1>1, <1>a DEF AddCheck
    <2> QED BY <1>1, <2>1, KeptFor DEF AddCheck, ItemOK, HandOK, OwnOK, InHand
  <1>2. ASSUME NEW r \in Requests, NEW x \in Ids, RemoveRead(r, x) PROVE ItemOK(id)'
    <2>1. WillBeSent(id) => WillBeSent(id)' BY <1>2, <1>a DEF RemoveRead
    <2> QED BY <1>2, <2>1, KeptFor DEF RemoveRead, ItemOK, HandOK, OwnOK, InHand
  <1>3. ASSUME NEW r \in Requests, NEW x \in Ids, RetrySend(r, x) PROVE ItemOK(id)'
    <2>1. WillBeSent(id) => WillBeSent(id)' BY <1>3, <1>a DEF RetrySend
    <2> QED BY <1>3, <2>1, KeptFor DEF RetrySend, ItemOK, HandOK, OwnOK, InHand
  <1>4. ASSUME NEW x \in Ids, NEW p \in Priorities, ReorderEntry(x, p) PROVE ItemOK(id)'
    BY <1>4, KeptFor DEF ReorderEntry, ItemOK, HandOK, OwnOK, InHand
  <1> QED BY <1>1, <1>2, <1>3, <1>4 DEF Clients, Reorder

LEMMA WatcherItem ==
  ASSUME TypeOK, Watcher, NEW id \in Ids, ItemOK(id)
  PROVE  ItemOK(id)'
  <1> USE DEF db, pool, env
  <1>1. CASE WatchRead
    BY <1>1, KeptFor DEF WatchRead, WatchRows, ItemOK, HandOK, OwnOK, InHand
  <1>2. ASSUME NEW x \in Ids, WatchSend(x) PROVE ItemOK(id)'
    <2>1. InChannel(id) => InChannel(id)'
      BY <1>2, Enqueued DEF WatchSend, InChannel, TypeOK
    <2> QED BY <1>2, <2>1, KeptFor DEF WatchSend, ItemOK, HandOK, OwnOK, InHand
  <1> QED BY <1>1, <1>2 DEF Watcher

(* requeue_interrupted: what it resets is queued before it looks for queued *)
(* items, and what it finds it sends.                                       *)
LEMMA BootItem ==
  ASSUME TypeOK, Boot, NEW id \in Ids, ItemOK(id)
  PROVE  ItemOK(id)'
  <1> USE DEF db, pool, env
  <1>0. status \in [Ids -> Statuses] /\ channel \in Seq(Ids) /\ boot.ids \subseteq Ids
    BY DEF TypeOK
  <1>1. CASE BootSelect
    <2>1. boot'.pc = "reset" /\ (status[id] = "downloading" => id \in boot'.ids)
      BY <1>1 DEF BootSelect, BootTo
    <2> QED BY <1>1, <2>1
            DEF BootSelect, BootTo, ItemOK, HandOK, OwnOK, InHand, BootWillSend, BootWillReset
  <1>2. CASE BootQueued
    <2>1. /\ boot'.pc = "send"
          /\ status[id] = "queued" /\ id \notin Scheduled => id \in boot'.ids
          /\ ~ BootWillReset(id)
      BY <1>2 DEF BootQueued, BootSending, BootTo, BootWillReset, Due
    <2> QED BY <1>2, <2>1, KeptFor
            DEF BootQueued, BootSending, BootTo, ItemOK, HandOK, OwnOK, InHand, BootWillSend
  <1>3. CASE BootDone
    <2>1. ~ BootWillReset(id) /\ ~ BootWillSend(id)
      BY <1>3 DEF BootDone, BootWillReset, BootWillSend
    <2> QED BY <1>3, <2>1, KeptFor DEF BootDone, BootTo, ItemOK, HandOK, OwnOK, InHand
  <1>4. CASE BootFails
    <2>1. status[id] \in {"queued", "downloading"} => id \in faulted'
      BY <1>4 DEF BootFails, Active
    <2> QED BY <1>4, <2>1 DEF BootFails, ItemOK, HandOK, OwnOK
  <1>5. ASSUME NEW x \in Ids, BootReset(x) PROVE ItemOK(id)'
    <2>1. /\ boot.pc = "reset" /\ boot'.pc = "reset"
          /\ boot'.ids = boot.ids \ {x}
      BY <1>5 DEF BootReset, TypeOK
    <2>2. BootWillSend(id)'
      BY <2>1 DEF BootWillSend
    <2>3. CASE SetStatus(x, "queued") /\ UNCHANGED faulted
      <3>1. /\ status'[id] = "downloading" => status[id] = "downloading" /\ id # x
        BY <2>3, <1>0 DEF SetStatus, Exists
      <3> QED BY <1>5, <2>1, <2>2, <2>3, <3>1, KeptFor
              DEF BootReset, ItemOK, HandOK, OwnOK, InHand, BootWillReset
    <2>4. CASE faulted' = faulted \cup {x} /\ UNCHANGED status
      BY <1>5, <2>1, <2>2, <2>4, KeptFor
      DEF BootReset, ItemOK, HandOK, OwnOK, InHand, BootWillReset
    <2> QED BY <1>5, <2>3, <2>4 DEF BootReset
  <1>6. ASSUME NEW x \in Ids, BootSend(x) PROVE ItemOK(id)'
    <2>1. /\ InChannel(id) => InChannel(id)'
          /\ InChannel(x)'
      BY <1>6, <1>0, Enqueued DEF BootSend, InChannel
    <2>2. boot.pc = "send" /\ boot'.pc = "send" /\ boot'.ids = boot.ids \ {x}
      BY <1>6 DEF BootSend, TypeOK
    <2> QED BY <1>6, <2>1, <2>2, KeptFor
            DEF BootSend, ItemOK, HandOK, OwnOK, InHand, BootWillSend, BootWillReset
  <1> QED BY <1>1, <1>2, <1>3, <1>4, <1>5, <1>6 DEF Boot

(* A task that marks its item owns it until it settles the row.  A task that *)
(* ends without touching the row had found it gone, cancelled or settled by  *)
(* another task of the same item, or was cut short by a fault.               *)
LEMMA DownloadItem ==
  ASSUME TypeOK, NEW s \in Slots, Download(s), NEW id \in Ids, ItemOK(id)
  PROVE  ItemOK(id)'
  <1> USE DEF db, pool, env
  <1>0. /\ status \in [Ids -> Statuses] /\ task \in [Slots -> TaskRecords] /\ TasksOK
    BY DEF TypeOK, TasksOK
  <1>r. ASSUME NEW left, Return(s, left) \/ (\E t : task' = [task EXCEPT ![s] = t])
        PROVE  \A o \in Slots \ {s} : task'[o] = task[o]
    BY <1>0, <1>r DEF Return
  <1>1. CASE Spawn(s)
    <2>1. task'[s] = FreshTask(held) /\ task[s].pc = "idle"
      BY <1>1, <1>0 DEF Spawn, SpawnLeaving, IdleTask
    <2>2. held = id => Starts(id)'
      BY <2>1 DEF Starts, FreshTask
    <2>3. (Starts(id) => Starts(id)') /\ (Owned(id) => Owned(id)')
      BY <1>1, <1>0, <2>1, OtherSlots DEF Spawn, SpawnLeaving
    <2> QED BY <1>1, <2>2, <2>3, KeptFor
            DEF Spawn, SpawnLeaving, ItemOK, HandOK, OwnOK, InHand, InChannel
  <1>2. CASE Fetch(s)
    <2>1. CASE status[task[s].id] \in {"absent", "cancelled"}
      <3>1. \A o \in Slots \ {s} : task'[o] = task[o]
        BY <1>2, <2>1, <1>r DEF Fetch, Finish
      <3>2. /\ Starts(id) /\ task[s].id # id => Starts(id)'
            /\ Owned(id) => Owned(id)'
        BY <1>2, <3>1, OtherSlots DEF Fetch
      <3> QED BY <1>2, <2>1, <3>2, KeptFor DEF Fetch, ItemOK, HandOK, OwnOK, InHand
    <2>2. CASE status[task[s].id] \notin {"absent", "cancelled"}
      <3>1. /\ \A o \in Slots \ {s} : task'[o] = task[o]
            /\ task'[s].pc = "mark" /\ task'[s].id = task[s].id /\ task[s].pc = "fetch"
        BY <1>2, <2>2, <1>0 DEF Fetch, TaskRecords
      <3>2. (Starts(id) => Starts(id)') /\ (Owned(id) => Owned(id)')
        BY <3>1, OtherSlots DEF Starts
      <3> QED BY <1>2, <3>2, KeptFor DEF Fetch, ItemOK, HandOK, OwnOK, InHand
    <2> QED BY <2>1, <2>2
  <1>3. CASE Mark(s)
    <2>1. /\ \A o \in Slots \ {s} : task'[o] = task[o]
          /\ task'[s].pc = "attempt" /\ task'[s].id = task[s].id /\ task[s].pc = "mark"
      BY <1>3, <1>0 DEF Mark, TaskRecords
    <2>2. CASE task[s].id = id
      <3>1. Owned(id)'
        BY <2>1, <2>2 DEF Owned
      <3>2. status'[id] # "queued"
        BY <1>3, <2>2, <1>0 DEF Mark, SetStatus, Exists
      <3> QED BY <3>1, <3>2 DEF ItemOK, HandOK, OwnOK
    <2>3. CASE task[s].id # id
      <3>1. (Starts(id) => Starts(id)') /\ (Owned(id) => Owned(id)')
        BY <2>1, <2>3, OtherSlots
      <3>2. status'[id] = status[id]
        BY <1>3, <2>3, <1>0 DEF Mark, SetStatus
      <3> QED BY <1>3, <3>1, <3>2, KeptFor DEF Mark, ItemOK, HandOK, OwnOK, InHand
    <2> QED BY <2>2, <2>3
  <1>4. CASE StartFails(s)
    <2>1. \A o \in Slots \ {s} : task'[o] = task[o]
      BY <1>4, <1>r DEF StartFails, Finish
    <2>2. /\ Starts(id) /\ task[s].id # id => Starts(id)'
          /\ Owned(id) => Owned(id)'
      BY <1>4, <2>1, OtherSlots DEF StartFails
    <2> QED BY <1>4, <2>2, KeptFor DEF StartFails, ItemOK, HandOK, OwnOK, InHand
  \* A download in progress goes on: its item stays owned.
  <1>5. ASSUME \A o \in Slots \ {s} : task'[o] = task[o],
               task'[s].id = task[s].id,
               task[s].pc \in {"attempt", "backoff", "check"},
               task'[s].pc \in {"attempt", "backoff", "check", "done", "fail"},
               UNCHANGED <<status, channel, held, req, boot, faulted>>
        PROVE  ItemOK(id)'
    <2>1. Starts(id) => Starts(id)'
      BY <1>5, OtherSlots
    <2>2. Owned(id) => Owned(id)'
      BY <1>5 DEF Owned
    <2> QED BY <1>5, <2>1, <2>2, KeptFor DEF ItemOK, HandOK, OwnOK, InHand
  <1>6. CASE Running(s)
    BY <1>6, <1>5, <1>0
    DEF Running, AttemptOk, AttemptFail, AttemptFailing, BackoffElapsed, TryAgain, TaskRecords
  \* A download that ends: its row is not left queued or downloading by it.
  <1>7. ASSUME \A o \in Slots \ {s} : task'[o] = task[o],
               task[s].pc \notin {"fetch", "mark"},
               \/ UNCHANGED status /\ (task[s].id \notin faulted' =>
                     task[s].pc = "clean" \/ status[task[s].id] # "downloading")
               \/ SetStatus(task[s].id, "done")
               \/ SetStatus(task[s].id, "failed"),
               faulted \subseteq faulted',
               UNCHANGED <<channel, held, req, boot>>
        PROVE  ItemOK(id)'
    <2>1. Starts(id) => Starts(id)'
      BY <1>7, OtherSlots
    <2>2. Owned(id) /\ (task[s].id # id \/ task[s].pc = "clean") => Owned(id)'
      BY <1>7, OtherSlots
    <2>3. /\ status'[id] \in {"queued", "downloading"} => status'[id] = status[id]
          /\ status'[id] = "downloading" =>
               task[s].id # id \/ task[s].pc = "clean" \/ id \in faulted'
      BY <1>7, <1>0 DEF SetStatus, Exists, Statuses
    <2> QED BY <1>7, <2>1, <2>2, <2>3, KeptFor DEF ItemOK, HandOK, OwnOK, InHand
  <1>8. CASE CheckCancelled(s)
    <2>1. CASE GoTo(s, "done")
      BY <1>8, <2>1, <1>5, <1>0 DEF CheckCancelled, GoTo, TaskRecords
    <2>2. CASE Cancelled(s) /\ (GoTo(s, "clean") \/ Finish(s))
      <3>1. \A o \in Slots \ {s} : task'[o] = task[o]
        BY <2>2, <1>0, <1>r DEF GoTo, Finish
      <3> QED BY <1>8, <2>2, <3>1, <1>7 DEF CheckCancelled, Cancelled
    <2> QED BY <1>8, <2>1, <2>2 DEF CheckCancelled, SeesCancelled
  <1>9. CASE CleanUp(s)
    BY <1>9, <1>7, <1>r DEF CleanUp, Finish
  <1>10. CASE RecordDone(s)
    BY <1>10, <1>7, <1>r DEF RecordDone, Finish
  <1>11. CASE RecordFailed(s)
    BY <1>11, <1>7, <1>r DEF RecordFailed, Finish
  <1>12. CASE RecordFails(s)
    BY <1>12, <1>7, <1>r DEF RecordFails, Finish
  <1> QED
    BY <1>1, <1>2, <1>3, <1>4, <1>6, <1>8, <1>9, <1>10, <1>11, <1>12
    DEF Download, Starting, Ending

LEMMA StepItem ==
  ASSUME TypeOK, [Next]_vars, NEW id \in Ids, ItemOK(id)
  PROVE  ItemOK(id)'
  <1> USE DEF db, pool, env
  <1>1. CASE Recv
    <2>1. InChannel(id) => InChannel(id)'
      <3>1. RangeOf(channel) = RangeOf(channel') \cup {held'}
        BY <1>1, Received DEF Recv, TypeOK
      <3>2. held # id
        BY <1>1, ItemsAssumption DEF Recv
      <3> QED BY <3>1, <3>2 DEF InChannel
    <2> QED BY <1>1, <2>1, KeptFor DEF Recv, ItemOK, HandOK, OwnOK, InHand
  <1>2. CASE Tick
    BY <1>2, KeptFor DEF Tick, ItemOK, HandOK, OwnOK, InHand
  <1>3. CASE Crash
    BY <1>3 DEF Crash, ItemOK, HandOK, OwnOK, InHand, BootWillSend, BootWillReset
  <1>4. CASE UNCHANGED vars
    BY <1>4, KeptFor DEF vars, ItemOK, HandOK, OwnOK, InHand
  <1> QED
    BY <1>1, <1>2, <1>3, <1>4, HandlerItem, ClientsItem, WatcherItem, BootItem,
       DownloadItem
    DEF Next

LEMMA ItemsSafe == Spec => [](NoLostItem /\ DownloadingIsOwned)
  <1> DEFINE Safe == TypeOK /\ \A id \in Ids : ItemOK(id)
  <1>1. Init => Safe
    BY InitTypeOK, InitItem
  <1>2. Safe /\ [Next]_vars => Safe'
    BY StepTypeOK, StepItem
  <1>3. Safe => NoLostItem /\ DownloadingIsOwned
    BY EachItem
  <1> QED BY <1>1, <1>2, <1>3, PTL DEF Spec

(* The chain of hands holds: a queued item without a scheduled time is     *)
(* always with somebody who will pass it on to a download                  *)
(* (backend/src/queue.rs:47-390, routes/queue.rs:81-208).                  *)
THEOREM NeverLost == Spec => []NoLostItem
  <1> QED BY ItemsSafe, PTL

(* A row that says "downloading" always has a task that will settle it or  *)
(* a boot that will reset it (backend/src/queue.rs:84-139, 182-390).       *)
THEOREM NeverStuck == Spec => []DownloadingIsOwned
  <1> QED BY ItemsSafe, PTL
-----------------------------------------------------------------------------
(* Permits and downloads.                                                  *)

\* The semaphore's permits are either free or held by a running task.
PermitsConserved == Cardinality(Busy) + permits = MaxConcurrent

LEMMA BusyFinite == IsFiniteSet(Busy) /\ Cardinality(Busy) \in Nat
  <1>1. Busy \subseteq Slots BY DEF Busy
  <1> QED BY <1>1, PoolAssumption, FS_Subset, FS_CardinalityType

(* A step of one slot: it becomes busy, becomes idle, or stays busy.       *)
LEMMA BusyMove ==
  ASSUME TypeOK, NEW s \in Slots, \A o \in Slots \ {s} : task'[o] = task[o]
  PROVE  /\ task'[s].pc # "idle" => Busy' = Busy \cup {s}
         /\ task'[s].pc = "idle" => Busy' = Busy \ {s}
  BY DEF Busy

LEMMA DownloadPermits ==
  ASSUME TypeOK, PermitsConserved, NEW s \in Slots, Download(s)
  PROVE  PermitsConserved'
  <1> USE DEF db, pool, env
  <1>0. /\ task \in [Slots -> TaskRecords] /\ permits \in Nat /\ MaxConcurrent \in Nat
    BY PoolAssumption DEF TypeOK, TasksOK
  <1>1. CASE Spawn(s)
    <2>1. /\ s \notin Busy /\ permits' = permits - 1
          /\ task'[s].pc = "fetch" /\ \A o \in Slots \ {s} : task'[o] = task[o]
      BY <1>1, <1>0 DEF Spawn, SpawnLeaving, Busy, FreshTask, IdleTask
    <2>2. Busy' = Busy \cup {s}
      BY <2>1, BusyMove
    <2>3. Cardinality(Busy') = Cardinality(Busy) + 1
      BY <2>1, <2>2, BusyFinite, FS_AddElement
    <2> QED BY <2>1, <2>3, <1>0, BusyFinite DEF PermitsConserved
  <1>2. ASSUME Finish(s), task[s].pc # "idle" PROVE PermitsConserved'
    <2>1. /\ s \in Busy /\ permits' = permits + 1
          /\ task'[s].pc = "idle" /\ \A o \in Slots \ {s} : task'[o] = task[o]
      BY <1>2, <1>0 DEF Finish, Return, Busy, IdleTask
    <2>2. Busy' = Busy \ {s}
      BY <2>1, BusyMove
    <2>3. Cardinality(Busy') = Cardinality(Busy) - 1
      BY <2>1, <2>2, BusyFinite, FS_RemoveElement
    <2> QED BY <2>1, <2>3, <1>0, BusyFinite DEF PermitsConserved
  <1>3. ASSUME UNCHANGED permits, task[s].pc # "idle", task'[s].pc # "idle",
               \A o \in Slots \ {s} : task'[o] = task[o]
        PROVE  PermitsConserved'
    <2>1. Busy' = Busy
      BY <1>3, BusyMove DEF Busy
    <2> QED BY <1>3, <2>1 DEF PermitsConserved
  <1>4. CASE Fetch(s)
    <2>1. CASE status[task[s].id] \in {"absent", "cancelled"}
      BY <1>4, <2>1, <1>2 DEF Fetch
    <2>2. CASE status[task[s].id] \notin {"absent", "cancelled"}
      BY <1>4, <2>2, <1>0, <1>3 DEF Fetch, TaskRecords
    <2> QED BY <2>1, <2>2
  <1>5. CASE Mark(s)
    BY <1>5, <1>0, <1>3 DEF Mark, TaskRecords
  <1>6. CASE Running(s)
    BY <1>6, <1>0, <1>3
    DEF Running, AttemptOk, AttemptFail, AttemptFailing, BackoffElapsed, TryAgain, TaskRecords
  <1>7. CASE CheckCancelled(s)
    <2>1. CASE GoTo(s, "clean") \/ GoTo(s, "done")
      BY <1>7, <2>1, <1>0, <1>3 DEF CheckCancelled, GoTo, TaskRecords
    <2>2. CASE Finish(s)
      BY <1>7, <2>2, <1>2 DEF CheckCancelled
    <2> QED BY <1>7, <2>1, <2>2 DEF CheckCancelled, SeesCancelled
  <1>8. CASE StartFails(s) \/ CleanUp(s) \/ RecordDone(s) \/ RecordFailed(s) \/ RecordFails(s)
    BY <1>8, <1>2 DEF StartFails, CleanUp, RecordDone, RecordFailed, RecordFails
  <1> QED
    BY <1>1, <1>4, <1>5, <1>6, <1>7, <1>8 DEF Download, Starting, Ending

LEMMA StepPermits ==
  ASSUME TypeOK, PermitsConserved, [Next]_vars
  PROVE  PermitsConserved'
  <1> USE DEF db, pool, env
  <1>1. ASSUME UNCHANGED <<task, permits>> PROVE PermitsConserved'
    BY <1>1 DEF PermitsConserved, Busy
  <1>2. CASE Crash
    <2>1. Busy' = {}
      BY <1>2 DEF Crash, Busy, IdleTask
    <2> QED BY <1>2, <2>1, FS_EmptySet, PoolAssumption DEF Crash, PermitsConserved
  <1>3. CASE Clients \/ Reorder
    BY <1>3, <1>1 DEF Clients, Reorder, AddCheck, RemoveRead, RetrySend, ReorderEntry
  <1>4. ASSUME NEW r \in Requests, Handler(r) \/ RequestAborted(r) PROVE PermitsConserved'
    BY <1>4, <1>1 DEF Handler, RequestAborted, AddInsert, AddNotify, RemoveCancel,
       RemoveUnlink, RemoveDelete, RetryUpdate, RetryEnqueue, Notify
  <1>5. CASE Watcher \/ Boot \/ Recv \/ Tick \/ UNCHANGED vars
    BY <1>5, <1>1 DEF Watcher, WatchRead, WatchRows, WatchSend, Boot, BootSelect, BootQueued,
       BootSending, BootDone, BootTo, BootFails, BootReset, BootSend, Recv, Tick, vars
  <1> QED BY <1>2, <1>3, <1>4, <1>5, DownloadPermits DEF Next

LEMMA InitPermits == Init => PermitsConserved
  <1> SUFFICES ASSUME Init PROVE PermitsConserved OBVIOUS
  <1>1. Busy = {} BY DEF Init, Busy, IdleTask
  <1> QED BY <1>1, FS_EmptySet, PoolAssumption DEF Init, PermitsConserved

(* run_pool never has more downloads running than the semaphore has permits,*)
(* whatever slots the runtime has for tasks (backend/src/queue.rs:55-75).   *)
THEOREM NeverTooMany == Spec => []AtMostMaxConcurrent
  <1>1. TypeOK /\ PermitsConserved => AtMostMaxConcurrent
    BY BusyFinite, PoolAssumption DEF TypeOK, PermitsConserved, AtMostMaxConcurrent
  <1> QED BY <1>1, InitPermits, InitTypeOK, StepTypeOK, StepPermits, PTL DEF Spec
-----------------------------------------------------------------------------
\* An item whose time has not come waits untouched.
Waits(id) == status[id] \in {"absent", "queued"} /\ ~ OnWay(id)

LEMMA WaitsUntilDue ==
  StartedIsDue /\ DueInHand <=> \A id \in Ids : Due(id) \/ Waits(id)
  BY DEF StartedIsDue, DueInHand, Waits

LEMMA OnWayKept ==
  ASSUME NEW id \in Ids, ~ OnWay(id), UNCHANGED <<channel, held, task, req, watch, boot>>
  PROVE  ~ OnWay(id)'
  BY DEF OnWay, InChannel, RangeOf

\* Enqueueing another id does not put this one on its way.
LEMMA EnqueuedOther ==
  ASSUME channel \in Seq(Ids), NEW x \in Ids, Enqueue(x), NEW id \in Ids \ {x},
         ~ InChannel(id), UNCHANGED held
  PROVE  ~ InChannel(id)'
  BY DEF Enqueue, InChannel, RangeOf

LEMMA HandlerWaits ==
  ASSUME TypeOK, NEW r \in Requests, Handler(r) \/ RequestAborted(r),
         NEW id \in Scheduled, Waits(id)
  PROVE  Waits(id)'
  <1> USE ItemsAssumption DEF db, pool, env
  <1>0. /\ status \in [Ids -> Statuses] /\ req \in [Requests -> ReqRecords] /\ ReqsOK
        /\ channel \in Seq(Ids) /\ id \in Ids
    BY DEF TypeOK, ReqsOK
  <1>id. req[r].id \in Ids
    BY <1>0 DEF ReqsOK, ReqOK, Handler, RequestAborted, AddInsert, AddNotify, RemoveCancel,
       RemoveUnlink, RemoveDelete, RetryUpdate, RetryEnqueue
  \* A handler that is about to do more is idle, or does what puts nothing on its way.
  <1>a. ASSUME \A o \in Requests \ {r} : req'[o] = req[o],
               req'[r].id = id => req'[r].pc \notin {"cancel", "retry", "enqueue"},
               UNCHANGED <<channel, held, task, watch, boot>>
        PROVE  ~ OnWay(id)'
    BY <1>a DEF Waits, OnWay, InChannel, RangeOf
  <1>1. CASE AddInsert(r)
    <2>1. status'[id] \in {"absent", "queued"}
      BY <1>1, <1>0, <1>id DEF AddInsert, Waits
    <2>2. ~ OnWay(id)'
      BY <1>1, <1>0, <1>a DEF AddInsert, ReqRecords
    <2> QED BY <2>1, <2>2 DEF Waits
  <1>2. ASSUME NEW w, Notify(r, w), w => req[r].id # id PROVE Waits(id)'
    <2>1. ~ InChannel(id)'
      BY <1>2, <1>0, <1>id, EnqueuedOther DEF Notify, Waits, OnWay, InChannel, RangeOf
    <2>2. \A o \in Requests : req'[o] = req[o] \/ req'[o] = IdleReq
      BY <1>2, <1>0 DEF Notify
    <2> QED BY <1>2, <2>1, <2>2 DEF Notify, Waits, OnWay, IdleReq
  <1>3. CASE AddNotify(r)
    BY <1>3, <1>2 DEF AddNotify
  <1>4. CASE RetryEnqueue(r)
    <2>1. req[r].id # id
      BY <1>4 DEF RetryEnqueue, Waits, OnWay
    <2> QED BY <1>4, <2>1, <1>2 DEF RetryEnqueue
  <1>5. CASE RemoveCancel(r)
    <2>1. req[r].id # id
      BY <1>5 DEF RemoveCancel, Waits, OnWay
    <2>2. status'[id] = status[id]
      BY <1>5, <2>1, <1>0 DEF RemoveCancel, SetStatus
    <2>3. ~ OnWay(id)'
      BY <1>5, <1>0, <1>a DEF RemoveCancel, IdleReq
    <2> QED BY <2>2, <2>3 DEF Waits
  <1>6. CASE RemoveUnlink(r)
    <2>1. ~ OnWay(id)'
      BY <1>6, <1>0, <1>a DEF RemoveUnlink, ReqRecords
    <2> QED BY <1>6, <2>1 DEF RemoveUnlink, Waits
  <1>7. CASE RemoveDelete(r)
    <2>1. status'[id] \in {"absent", "queued"}
      BY <1>7, <1>0, <1>id DEF RemoveDelete, Waits
    <2>2. ~ OnWay(id)'
      BY <1>7, <1>0, <1>a DEF RemoveDelete, IdleReq
    <2> QED BY <2>1, <2>2 DEF Waits
  <1>8. CASE RetryUpdate(r)
    <2>1. req[r].id # id
      BY <1>8 DEF RetryUpdate, Waits, OnWay
    <2>2. status'[id] = status[id]
      BY <1>8, <2>1, <1>0 DEF RetryUpdate
    <2>3. ~ OnWay(id)'
      BY <1>8, <2>1, <1>0, <1>a DEF RetryUpdate, ReqRecords
    <2> QED BY <2>2, <2>3 DEF Waits
  <1>9. CASE RequestAborted(r)
    <2>1. ~ OnWay(id)'
      BY <1>9, <1>0, <1>a DEF RequestAborted, IdleReq
    <2> QED BY <1>9, <2>1 DEF RequestAborted, Waits
  <1> QED
    BY <1>1, <1>3, <1>4, <1>5, <1>6, <1>7, <1>8, <1>9 DEF Handler

LEMMA ClientsWaits ==
  ASSUME TypeOK, RetryFrom \subseteq {"failed", "cancelled"}, Clients \/ Reorder,
         NEW id \in Scheduled, Waits(id)
  PROVE  Waits(id)'
  <1> USE ItemsAssumption DEF db, pool, env
  <1>0. req \in [Requests -> ReqRecords]
    BY DEF TypeOK, ReqsOK
  <1>a. ASSUME NEW r \in Requests, NEW x \in Ids, NEW pc,
               req' = [req EXCEPT ![r] = [pc |-> pc, id |-> x]],
               pc \in {"cancel", "retry", "enqueue"} => x # id,
               UNCHANGED <<status, channel, held, task, watch, boot>>
        PROVE  Waits(id)'
    <2>1. \A o \in Requests : req'[o] = req[o] \/ req'[o] = [pc |-> pc, id |-> x]
      BY <1>a, <1>0
    <2> QED BY <1>a, <2>1 DEF Waits, OnWay, InChannel, RangeOf
  <1>1. ASSUME NEW r \in Requests, NEW x \in Ids, AddCheck(r, x) PROVE Waits(id)'
    BY <1>1, <1>a DEF AddCheck
  <1>2. ASSUME NEW r \in Requests, NEW x \in Ids, RemoveRead(r, x) PROVE Waits(id)'
    <2> DEFINE pc == IF status[x] = "downloading" THEN "cancel"
                     ELSE IF hasPath[x] THEN "unlink" ELSE "delete"
    <2>1. req' = [req EXCEPT ![r] = [pc |-> pc, id |-> x]]
      BY <1>2 DEF RemoveRead
    <2>2. pc \in {"cancel", "retry", "enqueue"} => x # id
      BY DEF Waits
    <2> QED BY <1>2, <2>1, <2>2, <1>a DEF RemoveRead
  <1>3. ASSUME NEW r \in Requests, NEW x \in Ids, RetrySend(r, x) PROVE Waits(id)'
    <2>1. x # id
      BY <1>3 DEF RetrySend, Waits
    <2> QED BY <1>3, <2>1, <1>a DEF RetrySend
  <1>4. ASSUME NEW x \in Ids, NEW p \in Priorities, ReorderEntry(x, p) PROVE Waits(id)'
    BY <1>4, OnWayKept DEF ReorderEntry, Waits
  <1> QED BY <1>1, <1>2, <1>3, <1>4 DEF Clients, Reorder

LEMMA BackgroundWaits ==
  ASSUME TypeOK, Watcher \/ Boot \/ Recv, NEW id \in Scheduled, ~ Due(id), Waits(id)
  PROVE  Waits(id)'
  <1> USE ItemsAssumption DEF db, pool, env
  <1>0. status \in [Ids -> Statuses] /\ channel \in Seq(Ids) /\ now \in Nat
    BY DEF TypeOK
  <1>1. CASE WatchRead
    <2>1. id \notin watch'
      BY <1>1 DEF WatchRead, WatchRows, Due
    <2> QED BY <1>1, <2>1 DEF WatchRead, WatchRows, Waits, OnWay, InChannel, RangeOf
  <1>2. ASSUME NEW x \in Ids, WatchSend(x) PROVE Waits(id)'
    <2>1. x # id BY <1>2 DEF WatchSend, Waits, OnWay
    <2>2. ~ InChannel(id)'
      BY <1>2, <2>1, <1>0, EnqueuedOther DEF WatchSend, Waits, OnWay
    <2> QED BY <1>2, <2>2 DEF WatchSend, Waits, OnWay
  <1>a. ASSUME NEW pc, NEW ids, BootTo(pc, ids), id \notin ids PROVE Waits(id)'
    BY <1>a DEF BootTo, Waits, OnWay, InChannel, RangeOf
  <1>3. CASE BootSelect
    BY <1>3, <1>a DEF BootSelect, Waits
  <1>4. CASE BootQueued
    BY <1>4, <1>a DEF BootQueued, BootSending
  <1>5. CASE BootDone
    BY <1>5, <1>a DEF BootDone
  <1>6. CASE BootFails
    BY <1>6 DEF BootFails, Waits, OnWay, InChannel, RangeOf
  <1>7. ASSUME NEW x \in Ids, BootReset(x) PROVE Waits(id)'
    <2>1. x # id BY <1>7 DEF BootReset, Waits, OnWay
    <2>2. status'[id] = status[id] /\ boot'.ids \subseteq boot.ids
      BY <1>7, <2>1, <1>0 DEF BootReset, SetStatus, TypeOK
    <2> QED BY <1>7, <2>2 DEF BootReset, Waits, OnWay, InChannel, RangeOf
  <1>8. ASSUME NEW x \in Ids, BootSend(x) PROVE Waits(id)'
    <2>1. x # id BY <1>8 DEF BootSend, Waits, OnWay
    <2>2. ~ InChannel(id)' /\ boot'.ids \subseteq boot.ids
      BY <1>8, <2>1, <1>0, EnqueuedOther DEF BootSend, Waits, OnWay, TypeOK
    <2> QED BY <1>8, <2>2 DEF BootSend, Waits, OnWay
  <1>9. CASE Recv
    <2>1. \A i \in DOMAIN Tail(channel) :
             i + 1 \in DOMAIN channel /\ Tail(channel)[i] = channel[i + 1]
      BY <1>9, <1>0 DEF Recv
    <2>2. 1 \in DOMAIN channel /\ Head(channel) = channel[1]
      BY <1>9, <1>0 DEF Recv
    <2>3. ~ InChannel(id)'
      BY <1>9, <2>1, <2>2 DEF Recv, Waits, OnWay, InChannel, RangeOf
    <2> QED BY <1>9, <2>3 DEF Recv, Waits, OnWay
  <1> QED BY <1>1, <1>2, <1>3, <1>4, <1>5, <1>6, <1>7, <1>8, <1>9 DEF Watcher, Boot

LEMMA DownloadWaits ==
  ASSUME TypeOK, NEW s \in Slots, Download(s), NEW id \in Scheduled, Waits(id)
  PROVE  Waits(id)'
  <1> USE ItemsAssumption DEF db, pool, env
  <1>0. /\ status \in [Ids -> Statuses] /\ task \in [Slots -> TaskRecords]
        /\ task[s].id # id /\ held # id
    BY DEF TypeOK, TasksOK, Waits, OnWay, InChannel
  <1>1. /\ \A o \in Slots \ {s} : task'[o] = task[o]
        /\ task'[s].id \in {task[s].id, held, NoId}
    BY <1>0 DEF Download, Starting, Running, Ending, Spawn, SpawnLeaving, FreshTask, Fetch, Mark,
       StartFails, AttemptOk, AttemptFail, AttemptFailing, BackoffElapsed, TryAgain,
       CheckCancelled, SeesCancelled, GoTo, CleanUp, RecordDone, RecordFailed, RecordFails,
       Finish, Return, IdleTask, TaskRecords
  <1>2. ~ \E o \in Slots : task'[o].id = id
    BY <1>0, <1>1 DEF Waits, OnWay
  <1>3. /\ status'[id] = status[id] /\ UNCHANGED <<channel, req, watch, boot>>
        /\ held' \in {held, NoId}
    BY <1>0 DEF Download, Starting, Running, Ending, Spawn, SpawnLeaving, Fetch, Mark,
       StartFails, AttemptOk, AttemptFail, AttemptFailing, BackoffElapsed, TryAgain,
       CheckCancelled, SeesCancelled, CleanUp, RecordDone, RecordFailed, RecordFails, SetStatus
  <1> QED BY <1>0, <1>2, <1>3 DEF Waits, OnWay, InChannel, RangeOf

LEMMA StepWaits ==
  ASSUME TypeOK, RetryFrom \subseteq {"failed", "cancelled"}, [Next]_vars,
         NEW id \in Ids, Due(id) \/ Waits(id)
  PROVE  Due(id)' \/ Waits(id)'
  <1> USE ItemsAssumption DEF db, pool, env
  <1>1. now' \in Nat /\ now \in Nat /\ now <= now'
    <2>1. now' = now \/ now' = now + 1
      BY DEF Next, Clients, Reorder, Handler, Watcher, Boot, Recv, Download, Starting, Running,
         Ending, Tick, Crash, vars, AddCheck, RemoveRead, RetrySend, ReorderEntry, AddInsert,
         AddNotify, Notify, RemoveCancel, RemoveUnlink, RemoveDelete, RetryUpdate, RetryEnqueue,
         RequestAborted, WatchRead, WatchRows, WatchSend, BootSelect, BootTo, BootReset,
         BootQueued, BootSending, BootSend, BootDone, BootFails, Spawn, SpawnLeaving, Fetch,
         Mark, StartFails, AttemptOk, AttemptFail, AttemptFailing, BackoffElapsed, TryAgain,
         CheckCancelled, CleanUp, RecordDone, RecordFailed, RecordFails
    <2> QED BY <2>1 DEF TypeOK
  <1>2. CASE Due(id)
    BY <1>1, <1>2 DEF Due
  <1>3. CASE ~ Due(id)
    <2>0. id \in Scheduled /\ Waits(id)
      BY <1>3 DEF Due
    <2>1. CASE Tick \/ UNCHANGED vars
      BY <2>0, <2>1, OnWayKept DEF Tick, vars, Waits
    <2>2. CASE Crash
      <3>1. ~ OnWay(id)'
        BY <2>2 DEF Crash, OnWay, InChannel, RangeOf, IdleTask, IdleReq
      <3> QED BY <2>0, <2>2, <3>1 DEF Crash, Waits
    <2> QED BY <1>3, <2>0, <2>1, <2>2, HandlerWaits, ClientsWaits, BackgroundWaits,
               DownloadWaits
            DEF Next
  <1> QED BY <1>2, <1>3

LEMMA AlwaysDue ==
  ASSUME RetryFrom \subseteq {"failed", "cancelled"}
  PROVE  Spec => [](StartedIsDue /\ DueInHand)
  <1> DEFINE Inv == \A id \in Ids : Due(id) \/ Waits(id)
  <1>1. Init => Inv
    BY ItemsAssumption
    DEF Init, Waits, OnWay, InChannel, RangeOf, IdleTask, IdleReq
  <1>2. TypeOK /\ Inv /\ [Next]_vars => Inv'
    BY StepWaits
  <1>3. Inv => StartedIsDue /\ DueInHand
    BY WaitsUntilDue
  <1> QED BY <1>1, <1>2, <1>3, InitTypeOK, StepTypeOK, PTL DEF Spec

(* When clients retry only what the page lets them retry, failed and       *)
(* cancelled items, no item starts before its scheduled time               *)
(* (backend/src/main.rs:111-127, queue.rs:121-150, routes/queue.rs:135).   *)
THEOREM NeverEarly ==
  ASSUME RetryFrom \subseteq {"failed", "cancelled"}
  PROVE  Spec => []StartedIsDue
  <1> QED BY AlwaysDue, PTL

(* Under the same hypothesis, whatever is on its way to a download, in the *)
(* channel, with the watcher, the boot or a handler, is due already        *)
(* (main.rs:111-127, queue.rs:121-150, routes/queue.rs:136, 160, 191).     *)
THEOREM OnItsWayIsDue ==
  ASSUME RetryFrom \subseteq {"failed", "cancelled"}
  PROVE  Spec => []DueInHand
  <1> QED BY AlwaysDue, PTL
=============================================================================
