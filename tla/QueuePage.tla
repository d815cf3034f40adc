------------------------------ MODULE QueuePage ------------------------------
(***************************************************************************)
(* The list of the queue page (frontend/app/controllers/queue.js and       *)
(* routes/queue.js): filled by polls every five seconds, changed by the    *)
(* events of QueueEvents and by the page's own requests, whose answers and *)
(* events overtake one another.  Only the ids and statuses are kept.       *)
(***************************************************************************)
EXTENDS QueueEvents

CONSTANTS Calls     \* requests the page can have in flight at once

VARIABLES
    items,      \* items: what the page shows, from the top
    here,       \* the page is shown: setup has run, teardown has not
    calls       \* per request in flight: what was asked and what is answered

page == <<items, here, calls>>
vars == <<row, owed, connected, stream, wire, changes, page>>

Idle == [op |-> "none", id |-> 0, data |-> <<>>]

Init ==
    /\ EventsInit
    /\ items = <<>>
    /\ here = FALSE
    /\ calls = [c \in Calls |-> Idle]
-----------------------------------------------------------------------------
(* Requests.  Each is one step, the one in which the server reads what it  *)
(* answers with; that it was sent before, while the page may have been     *)
(* left and entered again, changes nothing.                                *)

Ask(c, op, id, answer) ==
    /\ calls[c] = Idle
    /\ calls' = [calls EXCEPT ![c] = [op |-> op, id |-> id, data |-> answer]]
    /\ UNCHANGED <<items, here>>

\* model(): the page is entered when the answer is there.
Enter(c) ==
    /\ ~ here
    /\ \A o \in Calls : calls[o].op # "enter"
    /\ Ask(c, "enter", 0, Listed)
    /\ UNCHANGED <<backend, connection>>

\* refresh(), by the timer or the button, while earlier ones may be in flight.
Poll(c) == here /\ Ask(c, "poll", 0, Listed) /\ UNCHANGED <<backend, connection>>

\* The page's own removal, and its retry, which answers with the updated row.
RemoveHere(c, id) == here /\ RemoveItem(id) /\ Ask(c, "remove", id, <<>>)
RetryHere(c, id) ==
    here /\ Retry(id) /\ Ask(c, "retry", id, <<[id |-> id, st |-> row'[id]]>>)

\* The list without the copies of an item: its other places, in their order.
Without(list, id) == Picked(list, {i \in DOMAIN list : list[i].id # id})

\* The item that retry returns takes the place of each copy in the list.
Retried(list, q) ==
    [i \in DOMAIN list |-> IF list[i].id = q.id THEN q.data[1] ELSE list[i]]

AnswerTaken(c, list) ==
    LET q == calls[c] IN
    /\ q # Idle
    /\ items' = IF q.op \in {"enter", "poll"} THEN list
                ELSE IF q.op = "remove" THEN Without(items, q.id) ELSE Retried(items, q)
    /\ here' = (here \/ q.op = "enter")
    /\ calls' = [calls EXCEPT ![c] = Idle]
    /\ UNCHANGED <<backend, connection>>

\* Mutant: a poll brings new rows and leaves the old ones alone.
DeliverMerging(c) ==
    AnswerTaken(c, items \o SelectSeq(calls[c].data,
                                      LAMBDA new : \A i \in DOMAIN items : items[i].id # new.id))

Deliver(c) == AnswerTaken(c, calls[c].data)

\* teardown(): requests in flight go on.
Leave == here /\ here' = FALSE /\ UNCHANGED <<backend, connection, items, calls>>

\* The server restarts: what is in flight fails.
Restart ==
    /\ RestartServer
    /\ calls' = [c \in Calls |-> Idle]
    /\ UNCHANGED <<items, here>>
-----------------------------------------------------------------------------
(* Events.                                                                 *)

\* The list after an event: status_change looks for the first copy only.
Changed(list, e) ==
    LET At == {i \in DOMAIN list : list[i].id = e.id}
    IN IF At = {} THEN list ELSE [list EXCEPT ![Min(At)].st = e.st]

After(list, e) ==
    CASE e.type = "item_added"    -> <<[id |-> e.id, st |-> e.st]>> \o list
      [] e.type = "item_removed"  -> Without(list, e.id)
      [] e.type = "status_change" -> Changed(list, e)

Handling(s, list) ==
    /\ wire[s] # <<>>
    /\ wire' = [wire EXCEPT ![s] = Tail(@)]
    /\ items' = IF here THEN list ELSE items
    /\ UNCHANGED <<backend, connected, stream, here, calls>>

\* Mutant: the page is subscribed twice.
HandleTwice(s) == Handling(s, After(After(items, Head(wire[s])), Head(wire[s])))

Handle(s) == Handling(s, After(items, Head(wire[s])))

Elsewhere == Writers \/ Stream
Requests  == \E c \in Calls :
                \/ Enter(c) \/ Poll(c) \/ Deliver(c)
                \/ \E id \in Items : RemoveHere(c, id) \/ RetryHere(c, id)

Next == \/ Elsewhere /\ UNCHANGED page
        \/ Requests \/ Leave \/ Restart \/ \E s \in Sockets : Handle(s)

\* The timer of a page that is shown goes on asking, and the browser goes on taking
\* answers.  No event has to be announced, forwarded or handled, nobody has to write,
\* to leave or to come back, and no connection has to break.
Fairness ==
    /\ WF_vars(\E c \in Calls : Poll(c))
    /\ WF_vars(\E c \in Calls : Deliver(c))

Spec     == Init /\ [][Next]_vars
FairSpec == Spec /\ Fairness
-----------------------------------------------------------------------------
Shown == [id : Items, st : Statuses]

TypeOK ==
    /\ row \in [Items -> Statuses \cup {"fresh", "gone"}]
    /\ items \in Seq(Shown)
    /\ here \in BOOLEAN
    /\ connected \subseteq Sockets
    /\ \A s \in Sockets : /\ Len(stream[s]) <= Buffer /\ Len(wire[s]) <= Wire
                          /\ s \notin connected => stream[s] = <<>> /\ wire[s] = <<>>
    /\ \A c \in Calls : calls[c].data \in Seq(Shown) /\ Len(calls[c].data) <= PageSize

Copies(id) == Cardinality({i \in DOMAIN items : items[i].id = id})

\* A poll brings a row once, and each socket that is open when the item is announced
\* prepends it once more (socket.js:75, queue.js:75).  No more copies come than that,
\* whatever is retried, lost, reopened or answered late.
OncePerSource == \A id \in Items : Copies(id) <= 1 + Cardinality(Sockets)

\* Whatever events were lost, doubled or handled late, and whatever answers came out
\* of order: once the table rests, the page that is shown agrees with it for good.
Converges == <>[](here => items = Listed)
=============================================================================
