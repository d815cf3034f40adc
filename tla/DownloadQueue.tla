---------------------------- MODULE DownloadQueue ----------------------------
(***************************************************************************)
(* The download queue of the backend: the queue_items table, the HTTP      *)
(* handlers that write it (backend/src/routes/queue.rs), the watcher of    *)
(* scheduled items (backend/src/main.rs), the worker pool with its channel *)
(* and its semaphore, and the download tasks the pool spawns               *)
(* (backend/src/queue.rs).                                                 *)
(*                                                                         *)
(* Every SQL statement is one atomic step, and every await between two     *)
(* statements is a point where any other handler, task or crash may step   *)
(* in.  The one exception: the SELECT that ends add_to_queue and           *)
(* retry_queue_item is joined to the enqueue that follows it.  The channel *)
(* is unbounded in the code; here the watcher does not read, and no retry  *)
(* is sent, while it is longer than MaxChannel.                            *)
(***************************************************************************)
EXTENDS Integers, Sequences, FiniteSets

CONSTANTS
    Ids,            \* the uuids POST /api/queue may generate
    NoId,           \* no item: the id of an idle handler, slot or pool
    Pids,           \* BBC programme ids
    PidOf,          \* the pid each item is added with
    Scheduled,      \* the items whose scheduled_at is not NULL
    DueAt,          \* scheduled_at (read only for the items of Scheduled)
    Priorities,     \* values of the priority column
    Requests,       \* HTTP requests that can be in progress at once
    Slots,          \* places for spawned download tasks
    MaxConcurrent,  \* permits of the pool's semaphore (MAX_CONCURRENT)
    RetryLimits,    \* values max_download_retries may have when it is read
    Ops,            \* which handlers are called: "add", "remove", "retry", "reorder"
    RetryFrom,      \* statuses a retry request may be sent for
    PathsFound,     \* whether a successful run's output path was recognised
    Faults,         \* TRUE: statements may fail, requests may be abandoned
    MaxChannel,     \* bound: no watcher read and no retry while the channel is longer
    MaxTime,        \* bound on the clock
    MaxCrashes      \* bound on the number of crashes

ASSUME ItemsAssumption ==
    /\ NoId \notin Ids
    /\ PidOf \in [Ids -> Pids]
    /\ Scheduled \subseteq Ids
    /\ DueAt \in [Ids -> Nat]

ASSUME PoolAssumption ==
    /\ IsFiniteSet(Slots)
    /\ MaxConcurrent \in Nat
    /\ RetryLimits \subseteq Nat

ASSUME EnvironmentAssumption ==
    /\ Faults \in BOOLEAN
    /\ PathsFound \subseteq BOOLEAN
    /\ {MaxTime, MaxCrashes, MaxChannel} \subseteq Nat

VARIABLES
    status,     \* queue_items.status; "absent" when there is no such row
    hasPath,    \* queue_items.output_path is set
    priority,   \* queue_items.priority
    fresh,      \* uuids not generated yet
    files,      \* pids with a complete file in the output directory
    channel,    \* the mpsc channel of item ids, oldest first
    held,       \* the id run_pool has received and waits for a permit with
    permits,    \* free permits of the semaphore
    task,       \* per slot: where its run_download stands
    req,        \* per request: where its handler stands
    watch,      \* ids enqueue_scheduled has read and not yet sent
    boot,       \* where requeue_interrupted stands
    now,        \* the clock
    crashes,    \* crashes so far
    faulted     \* items a fault since the last start has cut loose

db    == <<status, hasPath, priority, fresh>>
pool  == <<channel, held, permits, task>>
env   == <<now, crashes>>
vars  == <<db, files, pool, req, watch, boot, env, faulted>>

Statuses == {"absent", "queued", "downloading", "done", "failed", "cancelled"}
TaskPCs  == {"idle", "fetch", "mark", "attempt", "backoff",
             "check", "clean", "done", "fail"}
ReqPCs   == {"idle", "insert", "notify", "cancel", "unlink", "delete",
             "retry", "enqueue"}
BootPCs  == {"select", "reset", "queued", "send", "ready"}

IdleTask == [pc |-> "idle", id |-> NoId, attempt |-> 0, limit |-> 0, named |-> FALSE]
IdleReq  == [pc |-> "idle", id |-> NoId]
FreshTask(id) == [pc |-> "fetch", id |-> id, attempt |-> 0, limit |-> 0, named |-> FALSE]

Exists(id)     == status[id] # "absent"
Due(id)        == id \in Scheduled => DueAt[id] <= now
Active(id)     == status[id] \in {"queued", "downloading"}
Busy           == {s \in Slots : task[s].pc # "idle"}
RangeOf(q)     == {q[i] : i \in DOMAIN q}

\* Mutant: the write is an upsert.
SetStatusAnyway(id, st) == status' = [status EXCEPT ![id] = st]

\* UPDATE queue_items SET status=st WHERE id=?: no effect when the row is gone.
SetStatus(id, st) ==
    status' = [status EXCEPT ![id] = IF Exists(id) THEN st ELSE @]

Enqueue(id) == channel' = Append(channel, id)

Init ==
    /\ status   = [id \in Ids |-> "absent"]
    /\ hasPath  = [id \in Ids |-> FALSE]
    /\ priority \in [Ids -> Priorities]
    /\ fresh    = Ids
    /\ files    = {}
    /\ channel  = <<>>
    /\ held     = NoId
    /\ permits  = MaxConcurrent
    /\ task     = [s \in Slots |-> IdleTask]
    /\ req      = [r \in Requests |-> IdleReq]
    /\ watch    = {}
    /\ boot     = [pc |-> "select", ids |-> {}]
    /\ now      = 0
    /\ crashes  = 0
    /\ faulted  = {}
-----------------------------------------------------------------------------
(* POST /api/queue: the duplicate check, the INSERT, and the enqueue.      *)

AddCheck(r, id) ==
    /\ "add" \in Ops
    /\ req[r] = IdleReq
    /\ id \in fresh
    /\ ~ \E other \in Ids : PidOf[other] = PidOf[id] /\ Active(other)
    /\ fresh' = fresh \ {id}
    /\ req' = [req EXCEPT ![r] = [pc |-> "insert", id |-> id]]
    /\ UNCHANGED <<status, hasPath, priority, files, pool, watch, boot, env, faulted>>

AddInsert(r) ==
    /\ req[r].pc = "insert"
    /\ status' = [status EXCEPT ![req[r].id] = "queued"]
    /\ req' = [req EXCEPT ![r].pc = "notify"]
    /\ UNCHANGED <<hasPath, priority, fresh, files, pool, watch, boot, env, faulted>>

\* The last step of a handler that enqueues its item when it is wanted.
Notify(r, wanted) ==
    /\ IF wanted THEN Enqueue(req[r].id) ELSE UNCHANGED channel
    /\ req' = [req EXCEPT ![r] = IdleReq]
    /\ UNCHANGED <<db, files, held, permits, task, watch, boot, env, faulted>>

\* Mutant: enqueues a scheduled item as well.
AddNotifyAll(r) == req[r].pc = "notify" /\ Notify(r, Exists(req[r].id))

AddNotify(r) ==
    /\ req[r].pc = "notify"
    /\ Notify(r, Exists(req[r].id) /\ req[r].id \notin Scheduled)

(* DELETE /api/queue/:id: what it does was decided by the row it read first. *)

RemoveRead(r, id) ==
    /\ "remove" \in Ops
    /\ req[r] = IdleReq
    /\ Exists(id)
    /\ req' = [req EXCEPT ![r] =
                 [id |-> id,
                  pc |-> IF status[id] = "downloading" THEN "cancel"
                         ELSE IF hasPath[id] THEN "unlink" ELSE "delete"]]
    /\ UNCHANGED <<db, files, pool, watch, boot, env, faulted>>

RemoveCancel(r) ==
    /\ req[r].pc = "cancel"
    /\ SetStatus(req[r].id, "cancelled")
    /\ req' = [req EXCEPT ![r] = IdleReq]
    /\ UNCHANGED <<hasPath, priority, fresh, files, pool, watch, boot, env, faulted>>

\* A file that cannot be removed is logged, and the row is deleted all the same.
RemoveUnlink(r) ==
    /\ req[r].pc = "unlink"
    /\ \/ files' = files \ {PidOf[req[r].id]}
       \/ Faults /\ UNCHANGED files
    /\ req' = [req EXCEPT ![r].pc = "delete"]
    /\ UNCHANGED <<db, pool, watch, boot, env, faulted>>

RemoveDelete(r) ==
    /\ req[r].pc = "delete"
    /\ status' = [status EXCEPT ![req[r].id] = "absent"]
    /\ hasPath' = [hasPath EXCEPT ![req[r].id] = FALSE]
    /\ req' = [req EXCEPT ![r] = IdleReq]
    /\ UNCHANGED <<priority, fresh, files, pool, watch, boot, env, faulted>>

(* POST /api/queue/:id/retry.  RetrySend is the client: RetryFrom holds    *)
(* the statuses for which it sends the request.                            *)

RetrySend(r, id) ==
    /\ "retry" \in Ops
    /\ req[r] = IdleReq
    /\ status[id] \in RetryFrom \ {"absent"}
    /\ Len(channel) <= MaxChannel
    /\ req' = [req EXCEPT ![r] = [pc |-> "retry", id |-> id]]
    /\ UNCHANGED <<db, files, pool, watch, boot, env, faulted>>

RetryUpdate(r) ==
    /\ req[r].pc = "retry"
    /\ status' = [status EXCEPT ![req[r].id] =
                    IF @ \in {"failed", "cancelled"} THEN "queued" ELSE @]
    /\ req' = [req EXCEPT ![r].pc = "enqueue"]
    /\ UNCHANGED <<hasPath, priority, fresh, files, pool, watch, boot, env, faulted>>

\* Mutant: leaves the item to the next restart.
RetryNoEnqueue(r) == req[r].pc = "enqueue" /\ Notify(r, FALSE)

RetryEnqueue(r) == req[r].pc = "enqueue" /\ Notify(r, Exists(req[r].id))

(* POST /api/queue/reorder: one UPDATE per entry of the body, each its own *)
(* statement, so the request is any sequence of these steps.               *)

ReorderEntry(id, p) ==
    /\ "reorder" \in Ops
    /\ Exists(id)
    /\ priority[id] # p
    /\ priority' = [priority EXCEPT ![id] = p]
    /\ UNCHANGED <<status, hasPath, fresh, files, pool, req, watch, boot, env, faulted>>

(* A statement of the handler fails, or the client goes away and the       *)
(* handler's future is dropped where it awaits.                            *)

RequestAborted(r) ==
    /\ Faults
    /\ req[r].pc # "idle"
    /\ faulted' = IF req[r].pc \in {"notify", "enqueue"}
                  THEN faulted \cup {req[r].id} ELSE faulted
    /\ req' = [req EXCEPT ![r] = IdleReq]
    /\ UNCHANGED <<db, files, pool, watch, boot, env>>
-----------------------------------------------------------------------------
(* The watcher: every minute enqueue_scheduled reads the due items that    *)
(* are still queued and sends their ids one by one.                        *)

WatchRows(rows) ==
    /\ watch = {}
    /\ Len(channel) <= MaxChannel
    /\ rows # {}
    /\ watch' = rows
    /\ UNCHANGED <<db, files, pool, req, boot, env, faulted>>

\* Mutant: an item due exactly now is left for later.
WatchReadLate == WatchRows({id \in Scheduled : status[id] = "queued" /\ DueAt[id] < now})

WatchRead == WatchRows({id \in Scheduled : status[id] = "queued" /\ DueAt[id] <= now})

WatchSend(id) ==
    /\ id \in watch
    /\ Enqueue(id)
    /\ watch' = watch \ {id}
    /\ UNCHANGED <<db, files, held, permits, task, req, boot, env, faulted>>
-----------------------------------------------------------------------------
(* requeue_interrupted, which run_pool awaits before its first recv.  The  *)
(* HTTP server and the watcher already run meanwhile.                      *)

BootTo(pc, ids) ==
    /\ boot' = [pc |-> pc, ids |-> ids]
    /\ UNCHANGED <<db, files, pool, req, watch, env, faulted>>

BootSelect ==
    /\ boot.pc = "select"
    /\ BootTo("reset", {id \in Ids : status[id] = "downloading"})

BootReset(id) ==
    /\ boot.pc = "reset"
    /\ id \in boot.ids
    /\ \/ SetStatus(id, "queued") /\ UNCHANGED faulted
       \/ Faults /\ faulted' = faulted \cup {id} /\ UNCHANGED status
    /\ boot' = [boot EXCEPT !.ids = @ \ {id}]
    /\ UNCHANGED <<hasPath, priority, fresh, files, pool, req, watch, env>>

BootSending(ids) == boot.pc = "reset" /\ boot.ids = {} /\ BootTo("send", ids)

\* Mutants: pending items are left out; the scheduled time is not looked at.
BootQueuedNone == BootSending({})
BootQueuedAll  == BootSending({id \in Ids : status[id] = "queued"})

BootQueued == BootSending({id \in Ids : status[id] = "queued" /\ Due(id)})

\* In the order of added_at; any order, because the pool does not rely on it.
BootSend(id) ==
    /\ boot.pc = "send"
    /\ id \in boot.ids
    /\ Enqueue(id)
    /\ boot' = [boot EXCEPT !.ids = @ \ {id}]
    /\ UNCHANGED <<db, files, held, permits, task, req, watch, env, faulted>>

BootDone == boot.pc = "send" /\ boot.ids = {} /\ BootTo("ready", {})

\* Either SELECT fails: the function returns, and the pool starts receiving.
BootFails ==
    /\ Faults
    /\ boot.pc = "select" \/ (boot.pc = "reset" /\ boot.ids = {})
    /\ boot' = [pc |-> "ready", ids |-> {}]
    /\ faulted' = faulted \cup {id \in Ids : Active(id)}
    /\ UNCHANGED <<db, files, pool, req, watch, env>>
-----------------------------------------------------------------------------
(* run_pool: receive an id, wait for a permit, spawn the download.         *)

Recv ==
    /\ boot.pc = "ready"
    /\ held = NoId
    /\ channel # <<>>
    /\ held' = Head(channel)
    /\ channel' = Tail(channel)
    /\ UNCHANGED <<db, files, permits, task, req, watch, boot, env, faulted>>

SpawnLeaving(s, left) ==
    /\ held # NoId
    /\ permits > 0
    /\ task[s] = IdleTask
    /\ task' = [task EXCEPT ![s] = FreshTask(held)]
    /\ permits' = left
    /\ held' = NoId
    /\ UNCHANGED <<db, files, channel, req, watch, boot, env, faulted>>

\* Mutant: the permit is dropped as soon as the task is spawned.
SpawnUnpermitted(s) == SpawnLeaving(s, permits)

Spawn(s) == SpawnLeaving(s, permits - 1)
-----------------------------------------------------------------------------
(* run_download.  A task that returns drops its permit.                    *)

Return(s, left) == task' = [task EXCEPT ![s] = IdleTask] /\ permits' = left

\* Mutant: the permit is forgotten.
FinishLeaking(s) == Return(s, permits)

Finish(s) == Return(s, permits + 1)

Fetch(s) ==
    LET id == task[s].id IN
    /\ task[s].pc = "fetch"
    /\ IF status[id] \in {"absent", "cancelled"}
       THEN Finish(s)
       ELSE task' = [task EXCEPT ![s].pc = "mark"] /\ UNCHANGED permits
    /\ UNCHANGED <<db, files, channel, held, req, watch, boot, env, faulted>>

\* The UPDATE does not look at the status again.  max_retries is read once here.
Mark(s) ==
    /\ task[s].pc = "mark"
    /\ SetStatus(task[s].id, "downloading")
    /\ \E n \in RetryLimits :
         task' = [task EXCEPT ![s].pc = "attempt", ![s].limit = n]
    /\ UNCHANGED <<hasPath, priority, fresh, files, channel, held, permits,
                   req, watch, boot, env, faulted>>

\* A fetch that fails is taken for a missing row; a mark that fails ends the task.
StartFails(s) ==
    /\ Faults
    /\ task[s].pc \in {"fetch", "mark"}
    /\ faulted' = faulted \cup {task[s].id}
    /\ Finish(s)
    /\ UNCHANGED <<db, files, channel, held, req, watch, boot, env>>

\* get_iplayer exits with status 0: the programme's file is complete.
AttemptOk(s) ==
    /\ task[s].pc = "attempt"
    /\ files' = files \cup {PidOf[task[s].id]}
    /\ \E named \in PathsFound :
         task' = [task EXCEPT ![s].pc = "check", ![s].named = named]
    /\ UNCHANGED <<db, channel, held, permits, req, watch, boot, env, faulted>>

AttemptFailing(s, exhausted) ==
    /\ task[s].pc = "attempt"
    /\ IF exhausted
       THEN task' = [task EXCEPT ![s].pc = "fail"]
       ELSE task' = [task EXCEPT ![s].pc = "backoff",
                               ![s].attempt = task[s].attempt + 1]
    /\ UNCHANGED <<db, files, channel, held, permits, req, watch, boot, env, faulted>>

\* Mutant: one attempt too many.
AttemptFailLate(s) == AttemptFailing(s, task[s].attempt > task[s].limit)

AttemptFail(s) == AttemptFailing(s, task[s].attempt >= task[s].limit)

TryAgain(s, attempt) ==
    /\ task[s].pc = "backoff"
    /\ task' = [task EXCEPT ![s].pc = "attempt", ![s].attempt = attempt]
    /\ UNCHANGED <<db, files, channel, held, permits, req, watch, boot, env, faulted>>

\* Mutant: the count starts again with every attempt.
BackoffForgets(s) == TryAgain(s, 0)

BackoffElapsed(s) == TryAgain(s, task[s].attempt)

GoTo(s, pc) == task' = [task EXCEPT ![s].pc = pc] /\ UNCHANGED permits

Cancelled(s) == status[task[s].id] = "cancelled"
SeesCancelled(s) ==
    Cancelled(s) /\ IF task[s].named THEN GoTo(s, "clean") ELSE Finish(s)

\* Mutant: the task returns when the SELECT fails.
CheckOrReturn(s) ==
    /\ task[s].pc = "check"
    /\ SeesCancelled(s) \/ (~ Cancelled(s) /\ GoTo(s, "done")) \/ (Faults /\ Finish(s))
    /\ UNCHANGED <<db, files, channel, held, req, watch, boot, env, faulted>>

\* A SELECT that fails counts as "not cancelled".
CheckCancelled(s) ==
    /\ task[s].pc = "check"
    /\ SeesCancelled(s) \/ ((~ Cancelled(s) \/ Faults) /\ GoTo(s, "done"))
    /\ UNCHANGED <<db, files, channel, held, req, watch, boot, env, faulted>>

CleanUp(s) ==
    /\ task[s].pc = "clean"
    /\ \/ files' = files \ {PidOf[task[s].id]}
       \/ Faults /\ UNCHANGED files
    /\ Finish(s)
    /\ UNCHANGED <<db, channel, held, req, watch, boot, env, faulted>>

RecordDone(s) ==
    LET id == task[s].id IN
    /\ task[s].pc = "done"
    /\ SetStatus(id, "done")
    /\ hasPath' = [hasPath EXCEPT ![id] = Exists(id) /\ task[s].named]
    /\ Finish(s)
    /\ UNCHANGED <<priority, fresh, files, channel, held, req, watch, boot, env, faulted>>

RecordFailed(s) ==
    /\ task[s].pc = "fail"
    /\ SetStatus(task[s].id, "failed")
    /\ Finish(s)
    /\ UNCHANGED <<hasPath, priority, fresh, files, channel, held,
                   req, watch, boot, env, faulted>>

\* The result of the last UPDATE is ignored.
RecordFails(s) ==
    /\ Faults
    /\ task[s].pc \in {"done", "fail"}
    /\ faulted' = faulted \cup {task[s].id}
    /\ Finish(s)
    /\ UNCHANGED <<db, files, channel, held, req, watch, boot, env>>
-----------------------------------------------------------------------------
Tick ==
    /\ now < MaxTime
    /\ now' = now + 1
    /\ UNCHANGED <<db, files, pool, req, watch, boot, crashes, faulted>>

\* The process dies and is started again: the table and the files survive.
Crash ==
    /\ crashes < MaxCrashes
    /\ crashes' = crashes + 1
    /\ channel' = <<>>
    /\ held' = NoId
    /\ permits' = MaxConcurrent
    /\ task' = [s \in Slots |-> IdleTask]
    /\ req' = [r \in Requests |-> IdleReq]
    /\ watch' = {}
    /\ boot' = [pc |-> "select", ids |-> {}]
    /\ faulted' = {}
    /\ UNCHANGED <<db, files, now>>

Clients == \E r \in Requests, id \in Ids :
             AddCheck(r, id) \/ RemoveRead(r, id) \/ RetrySend(r, id)
Reorder == \E id \in Ids, p \in Priorities : ReorderEntry(id, p)
Handler(r) == \/ AddInsert(r) \/ AddNotify(r)
              \/ RemoveCancel(r) \/ RemoveUnlink(r) \/ RemoveDelete(r)
              \/ RetryUpdate(r) \/ RetryEnqueue(r)
Watcher == WatchRead \/ \E id \in Ids : WatchSend(id)
Boot    == \/ BootSelect \/ BootQueued \/ BootDone \/ BootFails
           \/ \E id \in Ids : BootReset(id) \/ BootSend(id)
Starting(s) == Spawn(s) \/ Fetch(s) \/ Mark(s) \/ StartFails(s)
Running(s)  == AttemptOk(s) \/ AttemptFail(s) \/ BackoffElapsed(s)
Ending(s)   == CheckCancelled(s) \/ CleanUp(s) \/ RecordDone(s)
               \/ RecordFailed(s) \/ RecordFails(s)
Download(s) == Starting(s) \/ Running(s) \/ Ending(s)

Next ==
    \/ Clients
    \/ Reorder
    \/ \E r \in Requests : Handler(r) \/ RequestAborted(r)
    \/ Watcher
    \/ Boot
    \/ Recv
    \/ \E s \in Slots : Download(s)
    \/ Tick
    \/ Crash

Spec == Init /\ [][Next]_vars

(***************************************************************************)
(* Fairness.  Tokio polls every ready task, so handlers, watcher, boot and *)
(* pool go on; get_iplayer is assumed to exit sooner or later (the code    *)
(* sets no timeout), so an attempt ends.  Clients, faults and crashes are  *)
(* never obliged to happen.                                                *)
(***************************************************************************)
Fairness ==
    /\ WF_vars(Tick)
    /\ WF_vars(Watcher)
    /\ WF_vars(Boot)
    /\ WF_vars(Recv)
    /\ \A r \in Requests : WF_vars(Handler(r))
    /\ \A s \in Slots : WF_vars(Download(s))

FairSpec == Spec /\ Fairness
-----------------------------------------------------------------------------
TaskRecords == [pc : TaskPCs, id : Ids \cup {NoId}, attempt : Nat, limit : Nat,
                named : BOOLEAN]
ReqRecords  == [pc : ReqPCs, id : Ids \cup {NoId}]

\* An idle task or handler holds no item, a busy one holds one, and no task
\* makes more attempts than the retry limit it read allows (queue.rs:287-290).
TaskOK(t) == /\ t.pc \in {"fetch", "mark"} => t.attempt = 0
             /\ t.pc = "idle" => t = IdleTask
             /\ t.pc # "idle" => t.id \in Ids
             /\ t.attempt <= t.limit
ReqOK(q)  == /\ q.pc = "idle" => q = IdleReq
             /\ q.pc # "idle" => q.id \in Ids

TasksOK == task \in [Slots -> TaskRecords] /\ \A s \in Slots : TaskOK(task[s])
ReqsOK  == req \in [Requests -> ReqRecords] /\ \A r \in Requests : ReqOK(req[r])

\* The type of every variable.
TypeOK ==
    /\ status \in [Ids -> Statuses]
    /\ hasPath \in [Ids -> BOOLEAN]
    /\ priority \in [Ids -> Priorities]
    /\ fresh \subseteq Ids
    /\ files \subseteq Pids
    /\ channel \in Seq(Ids)
    /\ held \in Ids \cup {NoId}
    /\ permits \in Nat
    /\ TasksOK
    /\ ReqsOK
    /\ watch \subseteq Scheduled
    /\ boot \in [pc : BootPCs, ids : SUBSET Ids]
    /\ now \in Nat /\ crashes \in Nat
    /\ faulted \subseteq Ids

(* Where the next step of an item can come from.                           *)
InChannel(id)   == id \in RangeOf(channel) \/ held = id
Starts(id)      == \E s \in Slots : task[s].id = id /\ task[s].pc \in {"fetch", "mark"}
Owned(id)       == \E s \in Slots : /\ task[s].id = id
                                    /\ task[s].pc \in {"attempt", "backoff", "check",
                                                       "done", "fail"}
WillBeSent(id)  == \E r \in Requests : /\ req[r].id = id
                                       /\ req[r].pc \in {"notify", "enqueue"}
BootWillSend(id)  == boot.pc \in {"select", "reset"} \/ (boot.pc = "send" /\ id \in boot.ids)
InHand(id) == InChannel(id) \/ Starts(id) \/ WillBeSent(id) \/ BootWillSend(id)
BootWillReset(id) == boot.pc = "select" \/ (boot.pc = "reset" /\ id \in boot.ids)

\* The table has no memory of what was enqueued, so a queued item without a
\* scheduled time lives only by the chain of hands it passes through: the
\* handler that must enqueue it, the channel, run_pool, a task that has not
\* marked it yet, or the requeue of a start that has not reached it.  None of
\* them lets go of it while it is queued, whatever handlers, boot and crashes
\* interleave (routes/queue.rs:136, queue.rs:61-74, 121-150).
NoLostItem ==
    \A id \in Ids \ (Scheduled \cup faulted) :
        status[id] = "queued" => InHand(id)

\* A row that says "downloading" has a task that will settle it, or is left
\* over from a crash and requeue_interrupted has yet to reset it: no row is
\* stuck in "downloading" (queue.rs:86-119, 182-390).
DownloadingIsOwned ==
    \A id \in Ids \ faulted :
        status[id] = "downloading" => Owned(id) \/ BootWillReset(id)

\* Never more downloads at once than MAX_CONCURRENT, even though run_pool
\* takes the permit in one step and the task gives it back in another.
AtMostMaxConcurrent == Cardinality(Busy) <= MaxConcurrent

\* No item starts before its scheduled time: whichever of the five senders to
\* the channel (add, retry, watcher, boot twice) let it through.
StartedIsDue ==
    \A id \in Ids : status[id] \notin {"absent", "queued"} => Due(id)

OnWay(id) ==
    \/ InChannel(id) \/ id \in watch \/ id \in boot.ids
    \/ \E s \in Slots : task[s].id = id
    \/ \E r \in Requests : /\ req[r].id = id
                           /\ req[r].pc \in {"cancel", "retry", "enqueue"}

\* Why StartedIsDue holds: an item on its way to a download, or that a handler
\* is about to cancel or retry, is due already (main.rs:111-127, queue.rs:121-150,
\* routes/queue.rs:136, 160, 191).
DueInHand == \A id \in Ids : OnWay(id) => Due(id)

\* Every queued item whose time has come leaves the queue: it is started,
\* or a client removes it.
QueuedIsServed ==
    \A id \in Ids : (status[id] = "queued" /\ Due(id)) ~> (status[id] # "queued")

\* A scheduled item is served although nobody touches it after it is added:
\* the clock and the watcher are enough.
ScheduledIsServed ==
    \A id \in Scheduled : (status[id] = "queued") ~> (status[id] # "queued")

\* Every download settles, also across crashes and restarts.
DownloadSettles ==
    \A id \in Ids : (status[id] = "downloading") ~> (status[id] # "downloading")
-----------------------------------------------------------------------------
(* The queue implements DurableQueue: a row is a job, a slot is a worker.  *)

\* No row yet: the uuid is not generated, or its handler has yet to insert it.
Unborn(id) ==
    id \in fresh \/ \E r \in Requests : req[r].pc = "insert" /\ req[r].id = id

JobOf(id)    == IF Unborn(id) THEN "unborn" ELSE IF Exists(id) THEN status[id] ELSE "gone"
WorkerOf(t)  == [id |-> t.id, begun |-> t.pc \notin {"idle", "fetch", "mark"}]

Abstract == INSTANCE DurableQueue
    WITH Jobs <- Ids, None <- NoId, Workers <- Slots, Limit <- MaxConcurrent,
         job <- [id \in Ids |-> JobOf(id)], worker <- [s \in Slots |-> WorkerOf(task[s])]

\* Handlers, boot and tasks act on what they read some awaits ago, on rows
\* that may be gone, cancelled or settled by now.  All the same a removed item
\* stays removed, a finished one is never requeued, only a task that marked an
\* item settles it, and a crash costs nothing but the running tasks
\* (queue.rs:86-119, 182-390; routes/queue.rs:81-213).
Durable == Abstract!Spec
-----------------------------------------------------------------------------
(* What comments and documents say of the queue and the code does not keep.*)

\* routes/queue.rs:86 "Reject duplicate PIDs that are already queued or
\* downloading": no two rows of one pid are active.
OneActiveRowPerPid ==
    \A a, b \in Ids : a # b /\ Active(a) /\ Active(b) => PidOf[a] # PidOf[b]

\* routes/queue.rs:158 "mark cancelled so the worker task notices": a cancelled
\* item is not reported as failed by the task it was meant for.
CancelNoticed ==
    [][\A id \in Ids : status[id] = "cancelled" => status'[id] # "failed"]_vars
=============================================================================
