----------------------------- MODULE QueueEvents -----------------------------
(***************************************************************************)
(* The queue as a browser learns of it: the rows that handlers, tasks and  *)
(* boot write, the events they announce after writing                      *)
(* (backend/src/routes/queue.rs, backend/src/queue.rs), the broadcast      *)
(* channel, the task per WebSocket that forwards it                        *)
(* (backend/src/routes/ws.rs), and what GET /api/queue answers.            *)
(*                                                                         *)
(* A page has one WebSocket or several: the timer of services/socket.js    *)
(* opens one without looking for another (SocketService says when), and    *)
(* all of them dispatch to the same listeners.                             *)
(*                                                                         *)
(* Who may write what, and when, is the matter of DownloadQueue; here any  *)
(* write may come at any time.  An event is announced one or more awaits   *)
(* after its write, so announcements overtake one another.                 *)
(***************************************************************************)
EXTENDS Places, SequencesExt

CONSTANTS
    Sockets,    \* WebSockets the page can have open at once
    Items,      \* uuids, numbered in the order of the list (priority, added_at)
    PageSize,   \* per_page: how many rows GET /api/queue answers with (100)
    Buffer,     \* capacity of the broadcast channel (256)
    Reports,    \* statuses that tasks and boot report
    Wire,       \* events a connection holds before the forwarder has to wait
    MaxChanges  \* bound on the writes and the restarts of the server

ASSUME EventsAssumption ==
    /\ IsFiniteSet(Sockets)
    /\ Items \subseteq Nat /\ IsFiniteSet(Items)
    /\ Reports \subseteq {"queued", "downloading", "done", "failed"}
    /\ {PageSize, Buffer, Wire} \subseteq Nat \ {0}
    /\ MaxChanges \in Nat

VARIABLES
    row,        \* status per item; "fresh" before the INSERT, "gone" after the DELETE
    owed,       \* events whose write is done and that are not announced yet
    connected,  \* the page's WebSockets that are open
    stream,     \* per socket: its receiver of the broadcast channel, oldest event first
    wire,       \* per socket: events about rows sent to the browser and not handled yet
    changes     \* writes and restarts so far

connection == <<connected, stream, wire>>
backend    == <<row, owed, changes>>

Settled  == {"done", "failed", "cancelled"}
Statuses == {"queued", "downloading"} \cup Settled

Exists(id) == row[id] \in Statuses

Added(id)      == [type |-> "item_added", id |-> id]
Removed(id)    == [type |-> "item_removed", id |-> id]
Status(id, st) == [type |-> "status_change", id |-> id, st |-> st]
\* progress and error: no row of the list comes, goes or changes its status with it.
Progress       == [type |-> "progress"]

\* GET /api/queue: the first PageSize rows, with their statuses.
Listed ==
    LET ids == Ascending({id \in Items : Exists(id)})
    IN [i \in 1 .. (IF Len(ids) < PageSize THEN Len(ids) ELSE PageSize) |->
           [id |-> ids[i], st |-> row[ids[i]]]]

EventsInit ==
    /\ row \in [Items -> {"fresh", "queued"}]
    /\ owed = {}
    /\ connected = {}
    /\ stream = [s \in Sockets |-> <<>>]
    /\ wire = [s \in Sockets |-> <<>>]
    /\ changes = 0
-----------------------------------------------------------------------------
(* Writers.                                                                *)

\* One UPDATE, INSERT or DELETE, and the event that is announced later.
Write(id, st, events) ==
    /\ changes < MaxChanges
    /\ changes' = changes + 1
    /\ row' = [row EXCEPT ![id] = st]
    /\ owed' = owed \cup events
    /\ UNCHANGED connection

Add(id) == row[id] = "fresh" /\ Write(id, "queued", {Added(id)})

\* remove_from_queue deletes the row, or marks it when the item was downloading.
RemoveItem(id) ==
    /\ Exists(id)
    /\ \E st \in {"gone", "cancelled"} : Write(id, st, {Removed(id)})

\* retry_queue_item announces nothing.
Retry(id) == row[id] \in {"failed", "cancelled"} /\ Write(id, "queued", {})

\* A task or the boot: the event is announced although the row may be gone, its
\* UPDATE may have failed, or there was none (a further attempt, queue.rs:316).
Work(id, st) ==
    /\ row[id] # "fresh"
    /\ \E after \in {row[id], IF Exists(id) THEN st ELSE row[id]} :
         Write(id, after, {Status(id, st)})
-----------------------------------------------------------------------------
(* The event stream.                                                       *)

\* Mutant: the channel has no bound.
HeardAll(s, e) == IF s \in connected THEN Append(stream[s], e) ELSE stream[s]

\* A receiver that has fallen behind by the whole buffer loses the oldest event.
Heard(s, e) ==
    IF s \notin connected THEN stream[s]
    ELSE IF Len(stream[s]) < Buffer THEN Append(stream[s], e)
    ELSE Append(Tail(stream[s]), e)

\* item_added carries the row as it is read just before; no row, no event.
Announce(e) ==
    /\ e \in owed
    /\ owed' = owed \ {e}
    /\ stream' = [s \in Sockets |->
           IF e.type # "item_added" THEN Heard(s, e)
           ELSE IF Exists(e.id)
                THEN Heard(s, [type |-> "item_added", id |-> e.id, st |-> row[e.id]])
                ELSE stream[s]]
    /\ UNCHANGED <<row, changes, connected, wire>>

\* Progress lines and the heartbeat.
AnnounceProgress ==
    /\ stream' = [s \in Sockets |-> Heard(s, Progress)]
    /\ UNCHANGED <<backend, connected, wire>>

\* handle_socket: rx.recv, sink.send.  The wire does not keep a progress event: nothing
\* modelled here changes when the browser takes it.
Forward(s) ==
    /\ stream[s] # <<>>
    /\ Len(wire[s]) < Wire
    /\ stream' = [stream EXCEPT ![s] = Tail(@)]
    /\ wire' = IF Head(stream[s]) = Progress THEN wire
               ELSE [wire EXCEPT ![s] = Append(@, Head(stream[s]))]
    /\ UNCHANGED <<backend, connected>>

\* ws_handler subscribes; only what is announced from now on is heard.
Subscribe(s) ==
    /\ s \notin connected
    /\ connected' = connected \cup {s}
    /\ UNCHANGED <<backend, stream, wire>>

Drop(S) ==
    /\ connected' = connected \ S
    /\ stream' = [s \in Sockets |-> IF s \in S THEN <<>> ELSE stream[s]]
    /\ wire' = [s \in Sockets |-> IF s \in S THEN <<>> ELSE wire[s]]

ConnectionLost(s) == s \in connected /\ Drop({s}) /\ UNCHANGED backend

\* The announcements of the old process are never made.
RestartServer ==
    /\ changes < MaxChanges
    /\ changes' = changes + 1
    /\ owed' = {}
    /\ Drop(Sockets)
    /\ UNCHANGED row

Writers == \E id \in Items : \/ Add(id) \/ RemoveItem(id) \/ Retry(id)
                             \/ \E st \in Reports : Work(id, st)
Stream  == \/ \E e \in owed : Announce(e)
           \/ AnnounceProgress
           \/ \E s \in Sockets : Forward(s) \/ Subscribe(s) \/ ConnectionLost(s)
=============================================================================
