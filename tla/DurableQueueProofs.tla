-------------------------- MODULE DurableQueueProofs --------------------------
(* The download queue implements DurableQueue, for every value of the      *)
(* constants.  The invariant it takes: nobody holds an id before its row   *)
(* is inserted, one request alone will insert it, and requeue_interrupted  *)
(* runs before any task does, so it never meets a finished item.           *)
EXTENDS DownloadQueueProofs

JobMap    == [id \in Ids |-> JobOf(id)]
WorkerMap == [s \in Slots |-> WorkerOf(task[s])]
Inserts(r, id) == req[r].pc = "insert" /\ req[r].id = id

Known(id) == \/ InChannel(id) \/ id \in watch \/ id \in boot.ids
             \/ \E s \in Slots : task[s].id = id
             \/ \E r \in Requests : req[r].id = id /\ req[r].pc # "insert"

UnbornHidden == \A id \in Ids : Unborn(id) => ~ Exists(id) /\ ~ Known(id)
InsertedOnce ==
    \A id \in Ids, r \in Requests :
        Inserts(r, id) => id \notin fresh /\ \A o \in Requests \ {r} : ~ Inserts(o, id)
BootFirst ==
    /\ boot.pc # "ready" => held = NoId /\ \A s \in Slots : task[s] = IdleTask
    /\ boot.pc = "reset" => \A id \in boot.ids : status[id] # "done"

Growth == UnbornHidden /\ InsertedOnce /\ BootFirst
-----------------------------------------------------------------------------
(* Jobs and workers, as one step leaves them.                              *)

LEMMA JobsKept ==
  ASSUME UNCHANGED status, \A id \in Ids : Unborn(id)' <=> Unborn(id)
  PROVE  UNCHANGED JobMap
  BY DEF JobMap, JobOf, Exists

LEMMA JobBecomes ==
  ASSUME TypeOK, UnbornHidden, NEW x \in Ids, NEW st \in Statuses \ {"absent"},
         SetStatus(x, st), \A id \in Ids : Unborn(id)' <=> Unborn(id)
  PROVE  Abstract!Becomes(x, st)
  <1>1. ASSUME NEW id \in Ids
        PROVE  JobOf(id)' = IF id = x /\ JobOf(x) \notin {"unborn", "gone"}
                            THEN st ELSE JobOf(id)
    BY <1>1 DEF JobOf, SetStatus, Exists, UnbornHidden, TypeOK, Statuses
  <1> QED BY <1>1 DEF Abstract!Becomes, Abstract!Live

LEMMA WorkersKept ==
  ASSUME UNCHANGED task PROVE UNCHANGED WorkerMap
  BY DEF WorkerMap, WorkerOf

LEMMA WorkerMoves ==
  ASSUME TypeOK, NEW s \in Slots, NEW t, task' = [task EXCEPT ![s] = t]
  PROVE  WorkerMap' = [WorkerMap EXCEPT ![s] = WorkerOf(t)]
  BY DEF TypeOK, TasksOK, WorkerMap, WorkerOf
-----------------------------------------------------------------------------
(* Who may insert what.                                                    *)

LEMMA UnbornKept ==
  ASSUME UNCHANGED <<fresh, req>>
  PROVE  /\ \A id \in Ids : Unborn(id)' <=> Unborn(id)
         /\ InsertedOnce => InsertedOnce'
  BY DEF Unborn, InsertedOnce, Inserts

LEMMA RequestMoves ==
  ASSUME TypeOK, InsertedOnce, NEW r \in Requests, NEW q,
         req' = [req EXCEPT ![r] = q], q.pc # "insert", UNCHANGED fresh
  PROVE  /\ InsertedOnce'
         /\ \A id \in Ids : Unborn(id)' => Unborn(id)
         /\ \A id \in Ids : ~ Inserts(r, id) => (Unborn(id)' <=> Unborn(id))
         /\ \A id \in Ids : Inserts(r, id) => ~ Unborn(id)'
  <1> USE DEF Inserts, Unborn
  <1>1. req'[r] = q /\ \A o \in Requests \ {r} : req'[o] = req[o]
    BY DEF TypeOK, ReqsOK
  <1>2. \A o \in Requests, id \in Ids :
           req'[o].pc = "insert" /\ req'[o].id = id
             <=> o # r /\ req[o].pc = "insert" /\ req[o].id = id
    BY <1>1
  <1>3. InsertedOnce'
    BY <1>2 DEF InsertedOnce
  <1> QED BY <1>2, <1>3 DEF InsertedOnce

(* One item at most comes into being, or to anyone's knowledge, in a step. *)
LEMMA HiddenStep ==
  ASSUME UnbornHidden, NEW x, x \in Ids => ~ Unborn(x)',
         \A id \in Ids : Unborn(id)' => Unborn(id),
         \A id \in Ids \ {x} : Exists(id)' => Exists(id),
         \A id \in Ids \ {x} : Known(id)' => Known(id)
  PROVE  UnbornHidden'
  BY DEF UnbornHidden

LEMMA KnownKept ==
  ASSUME UNCHANGED <<channel, held, task, watch, boot>>
  PROVE  /\ UNCHANGED req => \A id \in Ids : Known(id)' <=> Known(id)
         /\ \A r \in Requests, id \in Ids :
              /\ \A o \in Requests \ {r} : req'[o] = req[o]
              /\ req'[r].id = id => req'[r].pc = "insert"
              => (Known(id)' => Known(id))
  BY DEF Known, InChannel, RangeOf
-----------------------------------------------------------------------------
\* What the proof shows of every step.
Simulated == Growth' /\ (Abstract!Next \/ UNCHANGED <<JobMap, WorkerMap>>)

LEMMA HandlerSimulated ==
  ASSUME TypeOK, Growth, NEW r \in Requests, Handler(r) \/ RequestAborted(r)
  PROVE  Simulated
  <1> USE DEF db, pool, env
  <1>x. PICK x \in Ids : req[r].id = x
    BY DEF TypeOK, ReqsOK, ReqOK, Handler, RequestAborted, AddInsert, AddNotify, RemoveCancel,
       RemoveUnlink, RemoveDelete, RetryUpdate, RetryEnqueue
  <1>0. /\ status \in [Ids -> Statuses] /\ req \in [Requests -> ReqRecords]
        /\ channel \in Seq(Ids) /\ req[r].id = x
    BY <1>x DEF TypeOK, ReqsOK
  <1>k. UNCHANGED WorkerMap
    <2>1. UNCHANGED task
      BY DEF Handler, RequestAborted, AddInsert, AddNotify, Notify, RemoveCancel,
         RemoveUnlink, RemoveDelete, RetryUpdate, RetryEnqueue
    <2> QED BY <2>1, WorkersKept
  <1>b. BootFirst'
    <2>1. UNCHANGED <<boot, held, task>>
      BY DEF Handler, RequestAborted, AddInsert, AddNotify, Notify, RemoveCancel,
         RemoveUnlink, RemoveDelete, RetryUpdate, RetryEnqueue
    <2>2. \A id \in Ids : status'[id] = "done" => status[id] = "done"
      BY <1>0 DEF Handler, RequestAborted, AddInsert, AddNotify, Notify, RemoveCancel, SetStatus,
         RemoveUnlink, RemoveDelete, RetryUpdate, RetryEnqueue
    <2> QED BY <2>1, <2>2 DEF Growth, BootFirst, TypeOK
  \* A handler past its INSERT works on an item that is known.
  <1>h. ASSUME req[r].pc # "insert", NEW q, q.pc # "insert", q.id \in {x, NoId},
               req' = [req EXCEPT ![r] = q], UNCHANGED <<fresh, task, watch, boot>>,
               \A id \in Ids \ {x} : status'[id] = status[id],
               \A id \in Ids \ {x} : InChannel(id)' => InChannel(id)
        PROVE  /\ Growth'
               /\ \A id \in Ids : Unborn(id)' <=> Unborn(id)
    <2>1. InsertedOnce' /\ \A id \in Ids : Unborn(id)' <=> Unborn(id)
      BY <1>h, RequestMoves DEF Growth, Inserts
    <2>2. ~ Unborn(x)
      <3>1. req[r].pc # "idle"
        BY <1>h DEF Handler, RequestAborted, AddInsert, AddNotify, RemoveCancel,
           RemoveUnlink, RemoveDelete, RetryUpdate, RetryEnqueue
      <3>2. Known(x) BY <1>h, <1>0 DEF Known
      <3> QED BY <3>2, <1>0 DEF Growth, UnbornHidden
    <2>3. \A id \in Ids \ {x} : (Exists(id)' => Exists(id)) /\ (Known(id)' => Known(id))
      BY <1>h, <1>0, ItemsAssumption DEF Exists, Known
    <2>4. ~ Unborn(x)'
      BY <2>1, <2>2, <1>0
    <2>5. UnbornHidden'
      BY <2>1, <2>3, <2>4, HiddenStep DEF Growth
    <2> QED BY <1>b, <2>1, <2>5 DEF Growth
  <1>q. /\ IdleReq.pc # "insert" /\ IdleReq.id \in {x, NoId}
        /\ \A pc : [req[r] EXCEPT !.pc = pc].pc = pc /\ [req[r] EXCEPT !.pc = pc].id = x
    BY <1>0 DEF IdleReq, ReqRecords
  \* The request that would insert an item leaves it.
  <1>i. ASSUME req[r].pc = "insert", NEW q, q.pc # "insert",
               req' = [req EXCEPT ![r] = q], UNCHANGED fresh
        PROVE  /\ InsertedOnce' /\ ~ Unborn(x)' /\ Unborn(x)
               /\ \A id \in Ids \ {x} : Unborn(id)' <=> Unborn(id)
    <2>1. Inserts(r, x) /\ \A id \in Ids \ {x} : ~ Inserts(r, id)
      BY <1>i, <1>0 DEF Inserts
    <2>2. /\ InsertedOnce' /\ ~ Unborn(x)'
          /\ \A id \in Ids : ~ Inserts(r, id) => (Unborn(id)' <=> Unborn(id))
      BY <1>i, <2>1, RequestMoves DEF Growth
    <2>3. Unborn(x)
      BY <1>i, <1>0 DEF Unborn
    <2> QED BY <2>1, <2>2, <2>3
  <1>1. CASE AddInsert(r)
    <2> DEFINE q == [req[r] EXCEPT !.pc = "notify"]
    <2>1. req' = [req EXCEPT ![r] = q] /\ q.pc = "notify" /\ q.id = x /\ UNCHANGED fresh
          /\ req[r].pc = "insert"
      BY <1>1, <1>q DEF AddInsert
    <2> HIDE DEF q
    <2>2. /\ InsertedOnce' /\ ~ Unborn(x)' /\ Unborn(x)
          /\ \A id \in Ids \ {x} : Unborn(id)' <=> Unborn(id)
      BY <2>1, <1>i
    <2>3. \A id \in Ids \ {x} : Exists(id)' => Exists(id)
      BY <1>1, <1>0 DEF AddInsert, Exists
    <2>4. \A id \in Ids \ {x} : Known(id)' => Known(id)
      BY <1>1, <2>1, <1>0 DEF AddInsert, Known, InChannel, RangeOf
    <2>5. UnbornHidden'
      BY <2>2, <2>3, <2>4, HiddenStep DEF Growth
    <2>6. Abstract!Submit(x)
      <3>1. ASSUME NEW id \in Ids PROVE JobOf(id)' = IF id = x THEN "queued" ELSE JobOf(id)
        BY <1>1, <2>2, <1>0 DEF AddInsert, JobOf, Exists
      <3> QED BY <3>1, <2>2, <1>0, <1>k DEF Abstract!Submit, JobOf, WorkerMap
    <2> QED BY <1>b, <2>2, <2>5, <2>6, <1>0 DEF Simulated, Growth, Abstract!Next
  <1>2. ASSUME NEW w, Notify(r, w), req[r].pc \in {"notify", "enqueue"} PROVE Simulated
    <2>1. \A id \in Ids \ {x} : InChannel(id)' => InChannel(id)
      BY <1>2, <1>0, Enqueued DEF Notify, InChannel
    <2>2. Growth' /\ \A id \in Ids : Unborn(id)' <=> Unborn(id)
      BY <1>2, <2>1, <1>0, <1>q, <1>h DEF Notify
    <2> QED BY <1>2, <2>2, <1>k, JobsKept DEF Notify, Simulated
  <1>3. CASE RemoveCancel(r)
    <2>1. Growth' /\ \A id \in Ids : Unborn(id)' <=> Unborn(id)
      BY <1>3, <1>0, <1>q, <1>h, KeptFor DEF RemoveCancel, SetStatus
    <2>2. Abstract!Becomes(x, "cancelled")
      BY <1>3, <2>1, <1>0, JobBecomes DEF RemoveCancel, Growth, Statuses
    <2> QED BY <2>1, <2>2, <1>k DEF Simulated, Abstract!Next, Abstract!Cancel, WorkerMap
  <1>4. CASE RemoveUnlink(r)
    <2>1. Growth' /\ \A id \in Ids : Unborn(id)' <=> Unborn(id)
      BY <1>4, <1>0, <1>q, <1>h, KeptFor DEF RemoveUnlink
    <2> QED BY <1>4, <2>1, <1>k, JobsKept DEF RemoveUnlink, Simulated
  <1>5. CASE RemoveDelete(r)
    <2>1. Growth' /\ \A id \in Ids : Unborn(id)' <=> Unborn(id)
      BY <1>5, <1>0, <1>q, <1>h, KeptFor DEF RemoveDelete
    <2>2. CASE Abstract!Live(x)
      <3>1. ASSUME NEW id \in Ids PROVE JobOf(id)' = IF id = x THEN "gone" ELSE JobOf(id)
        BY <1>5, <2>1, <2>2, <1>0 DEF RemoveDelete, JobOf, Exists, Abstract!Live
      <3> QED BY <2>1, <2>2, <3>1, <1>k
              DEF Simulated, Abstract!Next, Abstract!Remove, WorkerMap
    <2>3. CASE ~ Abstract!Live(x)
      <3>1. ASSUME NEW id \in Ids PROVE JobOf(id)' = JobOf(id)
        BY <1>5, <2>1, <2>3, <1>0 DEF RemoveDelete, JobOf, Exists, Abstract!Live, Statuses
      <3> QED BY <2>1, <3>1, <1>k DEF Simulated, JobMap
    <2> QED BY <2>2, <2>3
  <1>6. CASE RetryUpdate(r)
    <2>1. Growth' /\ \A id \in Ids : Unborn(id)' <=> Unborn(id)
      BY <1>6, <1>0, <1>q, <1>h, KeptFor DEF RetryUpdate
    <2>2. CASE status[x] \in {"failed", "cancelled"}
      <3>1. SetStatus(x, "queued")
        BY <1>6, <2>2, <1>0 DEF RetryUpdate, SetStatus, Exists
      <3>2. Abstract!Becomes(x, "queued")
        BY <2>1, <3>1, JobBecomes DEF Growth, Statuses
      <3>3. JobOf(x) # "done"
        BY <2>2 DEF JobOf
      <3> QED BY <2>1, <3>2, <3>3, <1>k DEF Simulated, Abstract!Next, Abstract!Renew, WorkerMap
    <2>3. CASE status[x] \notin {"failed", "cancelled"}
      <3>1. UNCHANGED status
        BY <1>6, <2>3, <1>0 DEF RetryUpdate
      <3> QED BY <2>1, <3>1, <1>k, JobsKept DEF Simulated
    <2> QED BY <2>2, <2>3
  <1>7. CASE RequestAborted(r)
    <2>0. /\ req' = [req EXCEPT ![r] = IdleReq] /\ UNCHANGED <<status, fresh, pool, watch, boot>>
      BY <1>7 DEF RequestAborted
    <2>1. CASE req[r].pc # "insert"
      <3>1. Growth' /\ \A id \in Ids : Unborn(id)' <=> Unborn(id)
        BY <2>0, <2>1, <1>q, <1>h, KeptFor
      <3> QED BY <2>0, <3>1, <1>k, JobsKept DEF Simulated
    <2>2. CASE req[r].pc = "insert"
      <3>1. /\ InsertedOnce' /\ ~ Unborn(x)' /\ Unborn(x)
            /\ \A id \in Ids \ {x} : Unborn(id)' <=> Unborn(id)
        BY <2>0, <2>2, <1>q, <1>i
      <3>2. \A id \in Ids \ {x} : (Exists(id)' => Exists(id)) /\ (Known(id)' => Known(id))
        BY <2>0, <1>0, ItemsAssumption DEF Exists, Known, InChannel, RangeOf, IdleReq
      <3>3. UnbornHidden'
        BY <3>1, <3>2, HiddenStep DEF Growth
      <3>4. ~ Exists(x)
        BY <3>1 DEF Growth, UnbornHidden
      <3>5. ASSUME NEW id \in Ids PROVE JobOf(id)' = IF id = x THEN "gone" ELSE JobOf(id)
        BY <2>0, <3>1, <3>4 DEF JobOf, Exists
      <3>6. Abstract!Abandon(x)
        BY <3>1, <3>5, <1>k DEF Abstract!Abandon, JobOf, WorkerMap
      <3> QED BY <1>b, <3>1, <3>3, <3>6 DEF Simulated, Growth, Abstract!Next
    <2> QED BY <2>1, <2>2
  <1> QED
    BY <1>1, <1>2, <1>3, <1>4, <1>5, <1>6, <1>7 DEF Handler, AddNotify, RetryEnqueue

LEMMA ClientsSimulated ==
  ASSUME TypeOK, Growth, Clients \/ Reorder PROVE Simulated
  <1> USE DEF db, pool, env
  <1>0. /\ UNCHANGED <<status, task, channel, held, watch, boot>>
        /\ req \in [Requests -> ReqRecords]
    BY DEF TypeOK, ReqsOK, Clients, Reorder, AddCheck, RemoveRead, RetrySend, ReorderEntry
  <1>b. BootFirst' /\ UNCHANGED WorkerMap
    BY <1>0, WorkersKept DEF Growth, BootFirst
  <1>1. ASSUME NEW r \in Requests, NEW x \in Ids, AddCheck(r, x) PROVE Simulated
    <2>1. /\ req'[r] = [pc |-> "insert", id |-> x] /\ req[r].pc = "idle"
          /\ \A o \in Requests \ {r} : req'[o] = req[o]
          /\ fresh' = fresh \ {x} /\ x \in fresh
      BY <1>1, <1>0 DEF AddCheck, IdleReq
    <2>2. \A id \in Ids : Unborn(id)' <=> Unborn(id)
      BY <2>1 DEF Unborn
    <2>3. InsertedOnce'
      BY <2>1 DEF Growth, InsertedOnce, Inserts
    <2>4. \A id \in Ids : (Exists(id)' => Exists(id)) /\ (Known(id)' => Known(id))
      BY <1>0, <2>1, KnownKept DEF Exists
    <2>5. UnbornHidden'
      BY <2>2, <2>4 DEF Growth, UnbornHidden
    <2> QED BY <1>0, <1>b, <2>2, <2>3, <2>5, JobsKept DEF Simulated, Growth
  <1>a. ASSUME NEW r \in Requests, NEW x \in Ids, NEW pc, pc # "insert", Exists(x),
               req[r] = IdleReq, req' = [req EXCEPT ![r] = [pc |-> pc, id |-> x]],
               UNCHANGED fresh
        PROVE  Simulated
    <2>1. InsertedOnce' /\ \A id \in Ids : Unborn(id)' <=> Unborn(id)
      <3>1. \A id \in Ids : ~ Inserts(r, id)
        BY <1>a DEF Inserts, IdleReq
      <3>2. PICK q : q = [pc |-> pc, id |-> x]
        OBVIOUS
      <3>3. q.pc # "insert" /\ req' = [req EXCEPT ![r] = q]
        BY <1>a, <3>2
      <3> QED BY <1>a, <3>1, <3>3, RequestMoves DEF Growth
    <2>2. ~ Unborn(x)'
      BY <1>a, <2>1 DEF Growth, UnbornHidden
    <2>3. \A id \in Ids \ {x} : (Exists(id)' => Exists(id)) /\ (Known(id)' => Known(id))
      BY <1>a, <1>0 DEF Exists, Known, InChannel, RangeOf
    <2>4. UnbornHidden'
      BY <2>1, <2>2, <2>3, HiddenStep DEF Growth
    <2> QED BY <1>0, <1>b, <2>1, <2>4, JobsKept DEF Simulated, Growth
  <1>2. ASSUME NEW r \in Requests, NEW x \in Ids, RemoveRead(r, x) PROVE Simulated
    <2> DEFINE pc == IF status[x] = "downloading" THEN "cancel"
                     ELSE IF hasPath[x] THEN "unlink" ELSE "delete"
    <2>1. req' = [req EXCEPT ![r] = [pc |-> pc, id |-> x]] /\ pc # "insert"
      BY <1>2 DEF RemoveRead
    <2> HIDE DEF pc
    <2> QED BY <1>2, <2>1, <1>a DEF RemoveRead
  <1>3. ASSUME NEW r \in Requests, NEW x \in Ids, RetrySend(r, x) PROVE Simulated
    BY <1>3, <1>a DEF RetrySend, Exists
  <1>4. ASSUME NEW x \in Ids, NEW p \in Priorities, ReorderEntry(x, p) PROVE Simulated
    <2>1. UNCHANGED <<req, fresh>>
      BY <1>4 DEF ReorderEntry
    <2>2. \A id \in Ids : (Exists(id)' <=> Exists(id)) /\ (Known(id)' <=> Known(id))
      BY <1>0, <2>1, KnownKept DEF Exists
    <2>3. Growth' /\ \A id \in Ids : Unborn(id)' <=> Unborn(id)
      BY <1>b, <2>1, <2>2, UnbornKept DEF Growth, UnbornHidden
    <2> QED BY <1>0, <1>b, <2>3, JobsKept DEF Simulated
  <1> QED BY <1>1, <1>2, <1>3, <1>4 DEF Clients, Reorder

\* Whoever is no request handler learns of ids from rows or from each other.
LEMMA BackgroundGrowth ==
  ASSUME Growth, UNCHANGED <<req, fresh>>, BootFirst',
         \A id \in Ids : Exists(id)' => Exists(id),
         \A id \in Ids : Known(id)' => Known(id) \/ Exists(id)
  PROVE  Growth' /\ \A id \in Ids : Unborn(id)' <=> Unborn(id)
  BY UnbornKept DEF Growth, UnbornHidden

LEMMA WatcherSimulated ==
  ASSUME TypeOK, Growth, Watcher PROVE Simulated
  <1> USE DEF db, pool, env
  <1>0. UNCHANGED <<status, fresh, req, task, boot, held>> /\ channel \in Seq(Ids)
    BY DEF TypeOK, Watcher, WatchRead, WatchRows, WatchSend
  <1>1. \A id \in Ids : Known(id)' => Known(id) \/ Exists(id)
    <2>1. CASE WatchRead
      BY <2>1 DEF WatchRead, WatchRows, Known, InChannel, RangeOf, Exists
    <2>2. ASSUME NEW x \in Ids, WatchSend(x)
          PROVE  \A id \in Ids : Known(id)' => Known(id) \/ Exists(id)
      <3>1. RangeOf(channel)' = RangeOf(channel) \cup {x}
        BY <2>2, <1>0, Enqueued DEF WatchSend, RangeOf
      <3> QED BY <2>2, <3>1, <1>0 DEF WatchSend, Known, InChannel
    <2> QED BY <2>1, <2>2 DEF Watcher
  <1>2. BootFirst'
    BY <1>0 DEF Growth, BootFirst
  <1>3. Growth' /\ \A id \in Ids : Unborn(id)' <=> Unborn(id)
    BY <1>0, <1>1, <1>2, BackgroundGrowth DEF Exists
  <1> QED BY <1>0, <1>3, JobsKept, WorkersKept DEF Simulated

LEMMA BootSimulated ==
  ASSUME TypeOK, Growth, Boot PROVE Simulated
  <1> USE DEF db, pool, env
  <1>0. /\ UNCHANGED <<fresh, req, task, held>> /\ channel \in Seq(Ids)
        /\ status \in [Ids -> Statuses] /\ boot.ids \subseteq Ids /\ boot.pc # "ready"
    BY DEF TypeOK, Boot, BootTo, BootSelect, BootQueued, BootSending, BootDone, BootFails,
       BootReset, BootSend
  <1>i. held' = NoId /\ \A s \in Slots : task'[s] = IdleTask
    BY <1>0 DEF Growth, BootFirst
  <1>a. ASSUME UNCHANGED <<status, channel, watch>>,
               \A id \in boot'.ids : Exists(id),
               boot'.pc = "reset" => \A id \in boot'.ids : status[id] # "done"
        PROVE  Simulated
    <2>1. BootFirst'
      BY <1>a, <1>i DEF BootFirst
    <2>2. \A id \in Ids : Known(id)' => Known(id) \/ Exists(id)
      BY <1>a, <1>0 DEF Known, InChannel, RangeOf
    <2>3. Growth' /\ \A id \in Ids : Unborn(id)' <=> Unborn(id)
      BY <1>a, <1>0, <2>1, <2>2, BackgroundGrowth DEF Exists
    <2> QED BY <1>a, <1>0, <2>3, JobsKept, WorkersKept DEF Simulated
  <1>1. CASE BootSelect
    BY <1>1, <1>a DEF BootSelect, BootTo, Exists
  <1>2. CASE BootQueued
    BY <1>2, <1>a DEF BootQueued, BootSending, BootTo, Exists
  <1>3. CASE BootDone \/ BootFails
    BY <1>3, <1>a DEF BootDone, BootTo, BootFails
  <1>4. ASSUME NEW x \in Ids, BootReset(x) PROVE Simulated
    <2>1. /\ boot.pc = "reset" /\ boot'.pc = "reset" /\ boot'.ids = boot.ids \ {x}
          /\ UNCHANGED <<channel, watch>> /\ x \in boot.ids
          /\ SetStatus(x, "queued") \/ UNCHANGED status
      BY <1>4 DEF BootReset, TypeOK
    <2>2. /\ \A id \in Ids : Exists(id)' => Exists(id)
          /\ \A id \in Ids : status'[id] = "done" => status[id] = "done"
      BY <2>1, <1>0 DEF SetStatus, Exists
    <2>3. BootFirst'
      BY <2>1, <2>2, <1>i, <1>0 DEF Growth, BootFirst
    <2>4. \A id \in Ids : Known(id)' => Known(id)
      BY <2>1, <1>0 DEF Known, InChannel, RangeOf
    <2>5. Growth' /\ \A id \in Ids : Unborn(id)' <=> Unborn(id)
      BY <1>0, <2>2, <2>3, <2>4, BackgroundGrowth
    <2>6. CASE SetStatus(x, "queued")
      <3>1. Abstract!Becomes(x, "queued")
        BY <2>5, <2>6, JobBecomes DEF Growth, Statuses
      <3>2. JobOf(x) # "done"
        BY <2>1 DEF JobOf, Growth, BootFirst
      <3>3. UNCHANGED WorkerMap
        BY <1>0, WorkersKept
      <3> QED BY <2>5, <3>1, <3>2, <3>3
              DEF Simulated, Abstract!Next, Abstract!Renew, WorkerMap
    <2>7. CASE UNCHANGED status
      BY <1>0, <2>5, <2>7, JobsKept, WorkersKept DEF Simulated
    <2> QED BY <2>1, <2>6, <2>7
  <1>5. ASSUME NEW x \in Ids, BootSend(x) PROVE Simulated
    <2>1. /\ boot'.pc = "send" /\ boot'.ids = boot.ids \ {x} /\ x \in boot.ids
          /\ UNCHANGED <<status, watch>>
      BY <1>5 DEF BootSend, TypeOK
    <2>2. RangeOf(channel)' = RangeOf(channel) \cup {x}
      BY <1>5, <1>0, Enqueued DEF BootSend, RangeOf
    <2>3. \A id \in Ids : Known(id)' => Known(id)
      BY <2>1, <2>2, <1>0 DEF Known, InChannel
    <2>4. BootFirst'
      BY <2>1, <1>i DEF BootFirst
    <2>5. Growth' /\ \A id \in Ids : Unborn(id)' <=> Unborn(id)
      BY <1>0, <2>1, <2>3, <2>4, BackgroundGrowth DEF Exists
    <2> QED BY <1>0, <2>1, <2>5, JobsKept, WorkersKept DEF Simulated
  <1> QED BY <1>1, <1>2, <1>3, <1>4, <1>5 DEF Boot

LEMMA RecvSimulated ==
  ASSUME TypeOK, Growth, Recv PROVE Simulated
  <1> USE DEF db, pool, env
  <1>0. /\ UNCHANGED <<status, fresh, req, task, watch, boot>> /\ channel \in Seq(Ids)
        /\ boot.pc = "ready" /\ channel # <<>> /\ held' = Head(channel)
        /\ channel' = Tail(channel)
    BY DEF TypeOK, Recv
  <1>1. RangeOf(channel) = RangeOf(channel') \cup {held'}
    BY <1>0, Received
  <1>2. \A id \in Ids : Known(id)' => Known(id)
    BY <1>0, <1>1 DEF Known, InChannel
  <1>3. Growth' /\ \A id \in Ids : Unborn(id)' <=> Unborn(id)
    BY <1>0, <1>2, BackgroundGrowth DEF Exists, BootFirst
  <1> QED BY <1>0, <1>3, JobsKept, WorkersKept DEF Simulated

(* A task: hired with its permit, begun when it marks its item, and gone   *)
(* with a record of how it went or without one.                            *)
LEMMA DownloadSimulated ==
  ASSUME TypeOK, Growth, PermitsConserved, NEW s \in Slots, Download(s) PROVE Simulated
  <1> USE DEF db, pool, env
  <1>0. /\ status \in [Ids -> Statuses] /\ task \in [Slots -> TaskRecords] /\ TasksOK
        /\ UNCHANGED <<fresh, req, watch, boot, channel>>
    BY DEF TypeOK, TasksOK, Download, Starting, Running, Ending, Spawn, SpawnLeaving, Fetch,
       Mark, StartFails, AttemptOk, AttemptFail, AttemptFailing, BackoffElapsed, TryAgain,
       CheckCancelled, CleanUp, RecordDone, RecordFailed, RecordFails
  <1>m. WorkerMap[s] = WorkerOf(task[s])
    BY DEF WorkerMap
  <1>r. boot.pc = "ready"
    <2>1. held # NoId \/ task[s] # IdleTask
      BY DEF Download, Starting, Running, Ending, Spawn, SpawnLeaving, Fetch, IdleTask,
         Mark, StartFails, AttemptOk, AttemptFail, AttemptFailing, BackoffElapsed, TryAgain,
         CheckCancelled, CleanUp, RecordDone, RecordFailed, RecordFails
    <2> QED BY <2>1 DEF Growth, BootFirst
  <1>g. ASSUME NEW t, task' = [task EXCEPT ![s] = t], t.id \in {task[s].id, held, NoId},
               held' \in {held, NoId},
               \A id \in Ids : Exists(id)' => Exists(id)
        PROVE  Growth' /\ \A id \in Ids : Unborn(id)' <=> Unborn(id)
    <2>1. \A id \in Ids : Known(id)' => Known(id)
      BY <1>g, <1>0, ItemsAssumption DEF Known, InChannel, RangeOf
    <2> QED BY <1>g, <1>0, <1>r, <2>1, BackgroundGrowth DEF BootFirst
  <1>t. /\ IdleTask.id = NoId /\ WorkerOf(IdleTask) = Abstract!Idle
    BY DEF IdleTask, WorkerOf, Abstract!Idle
  <1>e. UNCHANGED status => \A id \in Ids : Exists(id)' => Exists(id)
    BY DEF Exists
  <1>n. task[s].pc # "idle" => WorkerMap[s] # Abstract!Idle
    <2>1. task[s].pc # "idle" => task[s].id \in Ids
      BY <1>0 DEF TasksOK, TaskOK
    <2> QED BY <2>1, <1>m, ItemsAssumption DEF WorkerOf, Abstract!Idle
  \* The task ends and writes nothing.
  <1>a. ASSUME Finish(s), task[s].pc # "idle", UNCHANGED <<status, held>> PROVE Simulated
    <2>1. task' = [task EXCEPT ![s] = IdleTask]
      BY <1>a DEF Finish, Return
    <2>2. Growth' /\ \A id \in Ids : Unborn(id)' <=> Unborn(id)
      BY <1>a, <1>e, <1>g, <1>t, <2>1
    <2>3. WorkerMap' = [WorkerMap EXCEPT ![s] = Abstract!Idle]
      BY <2>1, <1>t, WorkerMoves
    <2>4. Abstract!Leave(s)
      BY <1>a, <1>n, <2>2, <2>3, JobsKept DEF Abstract!Leave, WorkerMap, JobMap
    <2> QED BY <2>2, <2>4 DEF Simulated, Abstract!Next
  \* The task goes on.
  <1>b. ASSUME NEW t, task' = [task EXCEPT ![s] = t], WorkerOf(t) = WorkerOf(task[s]),
               UNCHANGED <<status, held>>
        PROVE  Simulated
    <2>1. Growth' /\ \A id \in Ids : Unborn(id)' <=> Unborn(id)
      BY <1>b, <1>e, <1>g DEF WorkerOf
    <2>2. UNCHANGED WorkerMap
      BY <1>b, <1>m, WorkerMoves DEF WorkerMap
    <2> QED BY <1>b, <2>1, <2>2, JobsKept DEF Simulated
  <1>1. CASE Spawn(s)
    <2>1. PICK x \in Ids : held = x
      BY <1>1 DEF Spawn, SpawnLeaving, TypeOK
    <2>2. /\ task' = [task EXCEPT ![s] = FreshTask(x)] /\ task[s] = IdleTask
          /\ UNCHANGED status /\ held' = NoId /\ permits > 0
      BY <1>1, <2>1 DEF Spawn, SpawnLeaving
    <2>3. Growth' /\ \A id \in Ids : Unborn(id)' <=> Unborn(id)
      BY <2>1, <2>2, <1>e, <1>g DEF FreshTask
    <2>4. WorkerMap' = [WorkerMap EXCEPT ![s] = [id |-> x, begun |-> FALSE]]
      <3>1. WorkerOf(FreshTask(x)) = [id |-> x, begun |-> FALSE]
        BY DEF WorkerOf, FreshTask
      <3> QED BY <2>2, <3>1, WorkerMoves
    <2>5. JobOf(x) # "unborn"
      <3>1. Known(x) /\ x # NoId
        BY <2>1, ItemsAssumption DEF Known, InChannel
      <3>2. ~ Unborn(x)
        BY <3>1 DEF Growth, UnbornHidden
      <3> QED BY <3>2, <1>0 DEF JobOf, Statuses
    <2>6. Abstract!Hired = Busy
      BY <1>0, ItemsAssumption
      DEF Abstract!Hired, Busy, WorkerOf, TasksOK, TaskOK, IdleTask
    <2>7. Cardinality(Abstract!Hired) < MaxConcurrent
      BY <2>2, <2>6, BusyFinite, PoolAssumption DEF PermitsConserved, TypeOK
    <2>c. Abstract!Cardinality(Abstract!Hired) = Cardinality(Abstract!Hired)
      BY DEF Abstract!Cardinality, Cardinality
    <2>8. Abstract!Hire(s, x)
      BY <2>2, <2>3, <2>4, <2>5, <2>7, <2>c, <1>m, <1>t, JobsKept
      DEF Abstract!Hire, WorkerMap, JobMap
    <2> QED BY <2>3, <2>8 DEF Simulated, Abstract!Next
  <1>2. CASE Fetch(s)
    <2>1. CASE status[task[s].id] \in {"absent", "cancelled"}
      BY <1>2, <2>1, <1>a DEF Fetch
    <2>2. CASE status[task[s].id] \notin {"absent", "cancelled"}
      <3>1. PICK t : t = [task[s] EXCEPT !.pc = "mark"]
        OBVIOUS
      <3>2. task' = [task EXCEPT ![s] = t]
        BY <1>2, <2>2, <3>1 DEF Fetch
      <3>3. WorkerOf(t) = WorkerOf(task[s])
        BY <1>2, <1>0, <3>1 DEF Fetch, WorkerOf, TaskRecords
      <3> QED BY <1>2, <3>2, <3>3, <1>b DEF Fetch
    <2> QED BY <2>1, <2>2
  <1>x. task[s].pc # "idle" => task[s].id \in Ids
    BY <1>0 DEF TasksOK, TaskOK
  <1>3. CASE Mark(s)
    <2>1. PICK n : task' = [task EXCEPT ![s].pc = "attempt", ![s].limit = n]
      BY <1>3 DEF Mark
    <2>2. PICK t : t = [task[s] EXCEPT !.pc = "attempt", !.limit = n]
      OBVIOUS
    <2>3. PICK x \in Ids : task[s].id = x
      BY <1>3, <1>x DEF Mark
    <2>4. task' = [task EXCEPT ![s] = t] /\ t.id = x /\ t.pc = "attempt"
      BY <2>1, <2>2, <2>3, <1>0 DEF TaskRecords
    <2>5. SetStatus(x, "downloading") /\ UNCHANGED held /\ task[s].pc = "mark"
      BY <1>3, <2>3 DEF Mark
    <2>6. \A id \in Ids : Exists(id)' => Exists(id)
      BY <2>5, <1>0 DEF SetStatus, Exists
    <2>7. Growth' /\ \A id \in Ids : Unborn(id)' <=> Unborn(id)
      BY <2>3, <2>4, <2>5, <2>6, <1>g
    <2>8. Abstract!Becomes(x, "downloading")
      BY <2>5, <2>7, JobBecomes DEF Growth, Statuses
    <2>9. /\ WorkerMap' = [WorkerMap EXCEPT ![s] = [id |-> x, begun |-> TRUE]]
          /\ WorkerMap[s].id = x
      <3>1. WorkerOf(t) = [id |-> x, begun |-> TRUE] /\ WorkerOf(task[s]).id = x
        BY <2>3, <2>4 DEF WorkerOf
      <3>2. WorkerMap' = [WorkerMap EXCEPT ![s] = WorkerOf(t)]
        BY <2>4, WorkerMoves
      <3> QED BY <3>1, <3>2, <1>m
    <2>10. Abstract!Begin(s)
      BY <2>5, <2>8, <2>9, <1>n DEF Abstract!Begin, WorkerMap
    <2> QED BY <2>7, <2>10 DEF Simulated, Abstract!Next
  <1>4. CASE StartFails(s) \/ CleanUp(s) \/ RecordFails(s)
    BY <1>4, <1>a DEF StartFails, CleanUp, RecordFails
  <1>5. CASE Running(s)
    <2>1. PICK t : /\ task' = [task EXCEPT ![s] = t] /\ t.id = task[s].id
                   /\ t.pc \in {"check", "fail", "backoff", "attempt"}
                   /\ task[s].pc \in {"attempt", "backoff"}
                   /\ UNCHANGED <<status, held>>
      <3> DEFINE t == task'[s]
      <3>1. /\ t.id = task[s].id /\ t.pc \in {"check", "fail", "backoff", "attempt"}
            /\ task[s].pc \in {"attempt", "backoff"} /\ UNCHANGED <<status, held>>
            /\ task' = [task EXCEPT ![s] = t]
        BY <1>5, <1>0
        DEF Running, AttemptOk, AttemptFail, AttemptFailing, BackoffElapsed, TryAgain, TaskRecords
      <3> QED BY <3>1
    <2>2. WorkerOf(t) = WorkerOf(task[s])
      BY <2>1 DEF WorkerOf
    <2> QED BY <2>1, <2>2, <1>b
  <1>6. CASE CheckCancelled(s)
    <2>1. CASE Finish(s)
      BY <1>6, <2>1, <1>a DEF CheckCancelled
    <2>2. ASSUME NEW pc \in {"clean", "done"}, GoTo(s, pc) PROVE Simulated
      <3>1. PICK t : t = [task[s] EXCEPT !.pc = pc]
        OBVIOUS
      <3>2. task' = [task EXCEPT ![s] = t]
        BY <2>2, <3>1 DEF GoTo
      <3>3. WorkerOf(t) = WorkerOf(task[s])
        BY <1>6, <1>0, <2>2, <3>1 DEF CheckCancelled, WorkerOf, TaskRecords
      <3> QED BY <1>6, <3>2, <3>3, <1>b DEF CheckCancelled
    <2> QED BY <1>6, <2>1, <2>2 DEF CheckCancelled, SeesCancelled
  <1>7. CASE RecordDone(s) \/ RecordFailed(s)
    <2>1. PICK x \in Ids : task[s].id = x
      BY <1>7, <1>x DEF RecordDone, RecordFailed
    <2>2. PICK st \in {"done", "failed"} :
            SetStatus(x, st) /\ task[s].pc \in {"done", "fail"} /\ UNCHANGED held
            /\ task' = [task EXCEPT ![s] = IdleTask]
      BY <1>7, <2>1 DEF RecordDone, RecordFailed, Finish, Return
    <2>3. \A id \in Ids : Exists(id)' => Exists(id)
      BY <2>2, <1>0 DEF SetStatus, Exists
    <2>4. Growth' /\ \A id \in Ids : Unborn(id)' <=> Unborn(id)
      BY <2>2, <2>3, <1>t, <1>g
    <2>5. Abstract!Becomes(x, st)
      BY <2>2, <2>4, JobBecomes DEF Growth, Statuses
    <2>6. WorkerMap' = [WorkerMap EXCEPT ![s] = Abstract!Idle]
      BY <2>2, <1>t, WorkerMoves
    <2>7. WorkerMap[s].begun /\ WorkerMap[s].id = x
      <3>1. WorkerOf(task[s]) = [id |-> x, begun |-> TRUE]
        BY <2>1, <2>2 DEF WorkerOf
      <3> QED BY <3>1, <1>m
    <2>8. Abstract!Record(s)
      BY <2>5, <2>6, <2>7 DEF Abstract!Record, WorkerMap
    <2> QED BY <2>4, <2>8 DEF Simulated, Abstract!Next
  <1> QED BY <1>1, <1>2, <1>3, <1>4, <1>5, <1>6, <1>7 DEF Download, Starting, Ending

\* A crash ends every task, and with their handlers the items not inserted yet.
LEMMA CrashSimulated ==
  ASSUME TypeOK, Growth, Crash PROVE Simulated
  <1> USE DEF db, pool, env
  <1>0. /\ UNCHANGED <<status, fresh>> /\ channel' = <<>> /\ held' = NoId /\ watch' = {}
        /\ task' = [s \in Slots |-> IdleTask] /\ req' = [r \in Requests |-> IdleReq]
        /\ boot' = [pc |-> "select", ids |-> {}]
    BY DEF Crash
  <1>1. \A id \in Ids : /\ Unborn(id)' <=> id \in fresh
                        /\ Exists(id)' <=> Exists(id)
                        /\ ~ Known(id)'
    BY <1>0, ItemsAssumption
    DEF Unborn, Exists, Known, InChannel, RangeOf, IdleReq, IdleTask
  <1>2. UnbornHidden' /\ BootFirst'
    BY <1>0, <1>1 DEF Growth, UnbornHidden, BootFirst, Unborn
  <1>3. InsertedOnce'
    BY <1>0 DEF InsertedOnce, Inserts, IdleReq
  <1>4. Abstract!Crash
    <2> DEFINE lost == {id \in Ids : Unborn(id) /\ id \notin fresh}
    <2>1. lost \in SUBSET {i \in Ids : JobMap[i] = "unborn"}
      BY DEF JobMap, JobOf
    <2>2. ASSUME NEW id \in Ids
          PROVE  JobOf(id)' = IF id \in lost THEN "gone" ELSE JobOf(id)
      BY <1>0, <1>1, <2>2 DEF JobOf, Growth, UnbornHidden, Unborn, Exists
    <2>3. JobMap' = [i \in Ids |-> IF i \in lost THEN "gone" ELSE JobMap[i]]
      BY <2>2 DEF JobMap
    <2>4. WorkerMap' = [s \in Slots |-> Abstract!Idle]
      BY <1>0 DEF WorkerMap, WorkerOf, IdleTask, Abstract!Idle
    <2> HIDE DEF lost
    <2> QED BY <2>1, <2>3, <2>4 DEF Abstract!Crash, WorkerMap, JobMap
  <1> QED BY <1>2, <1>3, <1>4 DEF Simulated, Growth, Abstract!Next

LEMMA StepSimulated ==
  ASSUME TypeOK, Growth, PermitsConserved, [Next]_vars PROVE Simulated
  <1> USE DEF db, pool, env
  <1>1. CASE Tick \/ UNCHANGED vars
    <2>1. UNCHANGED <<status, fresh, req, task, channel, held, watch, boot>>
      BY <1>1 DEF Tick, vars
    <2>2. \A id \in Ids : Known(id)' <=> Known(id)
      BY <2>1, KnownKept
    <2>3. Growth' /\ \A id \in Ids : Unborn(id)' <=> Unborn(id)
      BY <2>1, <2>2, BackgroundGrowth DEF Exists, Growth, BootFirst
    <2> QED BY <2>1, <2>3, JobsKept, WorkersKept DEF Simulated
  <1> QED
    BY <1>1, HandlerSimulated, ClientsSimulated, WatcherSimulated, BootSimulated,
       RecvSimulated, DownloadSimulated, CrashSimulated
    DEF Next

LEMMA InitSimulated == Init => Growth /\ Abstract!Init
  <1> SUFFICES ASSUME Init PROVE Growth /\ Abstract!Init
    OBVIOUS
  <1>1. /\ fresh = Ids /\ req = [r \in Requests |-> IdleReq] /\ held = NoId /\ channel = <<>>
        /\ status = [id \in Ids |-> "absent"] /\ task = [s \in Slots |-> IdleTask]
        /\ watch = {} /\ boot = [pc |-> "select", ids |-> {}]
    BY DEF Init
  <1>2. \A id \in Ids : Unborn(id) /\ ~ Exists(id) /\ ~ Known(id)
    BY <1>1, ItemsAssumption
    DEF Unborn, Exists, Known, InChannel, RangeOf, IdleReq, IdleTask
  <1>3. Growth
    BY <1>1, <1>2
    DEF Growth, UnbornHidden, InsertedOnce, Inserts, BootFirst, IdleReq
  <1>4. Abstract!Init
    BY <1>1, <1>2 DEF Abstract!Init, Abstract!Idle, JobOf, WorkerOf, IdleTask
  <1> QED BY <1>3, <1>4

(* The refinement: with rows as jobs and slots as workers, every behaviour *)
(* of handlers, watcher, boot, pool, tasks, faults and crashes             *)
(* (backend/src/queue.rs, routes/queue.rs, main.rs) is one of DurableQueue.*)
THEOREM QueueIsDurable == Spec => Durable
  <1>1. Init => TypeOK /\ PermitsConserved /\ Growth /\ Abstract!Init
    BY InitTypeOK, InitPermits, InitSimulated
  <1>2. TypeOK /\ PermitsConserved /\ Growth /\ [Next]_vars
          => TypeOK' /\ PermitsConserved' /\ Growth'
    BY StepTypeOK, StepPermits, StepSimulated DEF Simulated
  <1>3. TypeOK /\ PermitsConserved /\ Growth /\ [Next]_vars
          => [Abstract!Next]_<<[id \in Ids |-> JobOf(id)],
                               [s \in Slots |-> WorkerOf(task[s])]>>
    BY StepSimulated DEF Simulated, JobMap, WorkerMap
  <1> QED BY <1>1, <1>2, <1>3, PTL DEF Spec, Durable, Abstract!Spec
=============================================================================
