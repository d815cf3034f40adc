------------------------------ MODULE SearchPage ------------------------------
(***************************************************************************)
(* The "Added" marks of the search page (frontend/app/controllers/search.js*)
(* and routes/search.js): the set addedPids, filled when the page is       *)
(* entered, by the page's own adds and by item_added events, and rebuilt   *)
(* from the queue at each item_removed event.  The controller outlives the *)
(* page and hears events while another page is shown.                      *)
(***************************************************************************)
EXTENDS QueueEvents

CONSTANTS
    PidOf,      \* the programme of each row, a function on Items; two rows may be of one
    Calls       \* requests the page can have in flight at once

VARIABLES
    addedPids,  \* the marks
    calls       \* per request in flight: what was asked, copied and answered

page == <<addedPids, calls>>
vars == <<row, owed, connected, stream, wire, changes, page>>

Idle == [op |-> "none", next |-> {}, pids |-> {}, read |-> FALSE]

Init ==
    /\ EventsInit
    /\ addedPids = {}
    /\ calls = [c \in Calls |-> Idle]
-----------------------------------------------------------------------------
Ask(c, q) ==
    /\ calls[c] = Idle
    /\ calls' = [calls EXCEPT ![c] = q]

\* model(), when the page is entered, and again when it is entered again.
Enter(c) ==
    /\ Ask(c, [Idle EXCEPT !.op = "enter"])
    /\ UNCHANGED <<backend, connection, addedPids>>

\* addToQueue: the row is written; the button is enabled while there is no mark.
AddHere(c, id) ==
    /\ PidOf[id] \notin addedPids
    /\ Ask(c, [op |-> "add", next |-> {}, pids |-> {PidOf[id]}, read |-> TRUE])
    /\ Add(id)
    /\ UNCHANGED addedPids

\* The server answers GET /api/queue, a page of it (per_page is clamped).
ReadQueue(c) ==
    /\ calls[c].op \in {"enter", "rebuild"} /\ ~ calls[c].read
    /\ calls' = [calls EXCEPT ![c].read = TRUE,
                              ![c].pids = {PidOf[Listed[i].id] : i \in DOMAIN Listed}]
    /\ UNCHANGED <<backend, connection, addedPids>>

\* setupController and an add only add marks; a rebuild puts back those of the copy it
\* took that are still queued.
Deliver(c) ==
    /\ calls[c].read
    /\ addedPids' = IF calls[c].op = "rebuild" THEN calls[c].next \cap calls[c].pids
                    ELSE addedPids \cup calls[c].pids
    /\ calls' = [calls EXCEPT ![c] = Idle]
    /\ UNCHANGED <<backend, connection>>

\* An answer is an error: none is shown, or only a message.
Fail(c) ==
    /\ calls[c] # Idle
    /\ calls' = [calls EXCEPT ![c] = Idle]
    /\ UNCHANGED <<backend, connection, addedPids>>

\* #onItemAdded, #onItemRemoved: the copy is made before the queue is asked for.
Handle(s) ==
    /\ wire[s] # <<>>
    /\ wire' = [wire EXCEPT ![s] = Tail(@)]
    /\ LET e == Head(wire[s])
       IN CASE e.type = "item_added" ->
                 addedPids' = addedPids \cup {PidOf[e.id]} /\ UNCHANGED calls
            [] e.type = "item_removed" ->
                 /\ \E c \in Calls : Ask(c, [Idle EXCEPT !.op = "rebuild", !.next = addedPids])
                 /\ UNCHANGED addedPids
            [] OTHER -> UNCHANGED page
    /\ UNCHANGED <<backend, connected, stream>>

Restart ==
    /\ RestartServer
    /\ calls' = [c \in Calls |-> Idle]
    /\ UNCHANGED addedPids

Next ==
    \/ (Writers \/ Stream) /\ UNCHANGED page
    \/ \E c \in Calls : \/ Enter(c) \/ ReadQueue(c) \/ Deliver(c) \/ Fail(c)
                        \/ \E id \in Items : AddHere(c, id)
    \/ (\E s \in Sockets : Handle(s)) \/ Restart

Spec == Init /\ [][Next]_vars
-----------------------------------------------------------------------------
\* The mark is what keeps a programme from being queued twice: it is taken only from a
\* programme that has no row any more.
RebuiltAccurately ==
    [][\A pid \in addedPids \ addedPids' :
         \A id \in Items : PidOf[id] = pid => ~ Exists(id)]_vars
=============================================================================
