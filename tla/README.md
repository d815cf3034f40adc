# Tapedeck in TLA+

Tapedeck is a web front end to `get_iplayer`: a Rust backend (axum, tokio,
SQLite) keeps a queue of programmes and downloads them, an Ember page shows the
queue and searches for programmes. This directory holds TLA+ models of the parts
of it where order, failure and restarts matter, TLC runs that check them, and
proofs that TLAPS checks. All line numbers are those of the commit in `src/`.

## 1. The system

| Component | State it keeps | Operations | Who it talks to |
| --- | --- | --- | --- |
| HTTP handlers of the queue (`routes/queue.rs`) | none; rows of `queue_items` | add, remove, retry, reorder, list, get | writes the table, sends ids to the pool, broadcasts events |
| Worker pool (`queue.rs`, `run_pool`) | unbounded channel of ids, semaphore of `MAX_CONCURRENT` permits | requeue at start, receive, spawn | reads the table at start, spawns download tasks |
| Download task (`queue.rs`, `run_download`) | its item, attempt number, retry limit | fetch, mark, attempt, back off, look for a cancellation, clean up, record | table, output directory, events, the wrapper below |
| `get_iplayer` wrapper (`iplayer.rs`, `download`) | line buffers, two channels, path, 50-line tail | spawn, read, select loop, wait | the child process; result and progress to the task |
| Scheduled-item watcher (`main.rs`) | rows just read | every minute: read the due rows, send them | table, pool |
| Search and parsers (`iplayer.rs`, `routes/search.rs`) | none beyond the request: the call awaited, what was heard | programme data, search page, list of episodes, local cache | BBC, `get_iplayer` |
| Cache refresh (`main.rs`, `iplayer.rs`) | none | hourly and on request | `get_iplayer` |
| Event stream (`routes/ws.rs`) | one bounded broadcast receiver per connection | subscribe, forward | browser |
| Accounts (`auth.rs`, `routes/users.rs`, `db.rs`) | `users`; tokens hold their own proof | seed, login, create, delete, change password | every handler |
| Settings (`routes/settings.rs`, `config.rs`) | `settings`, environment | read, write one, write many | the task reads them |
| Socket service (`services/socket.js`) | current socket, reconnect timer, two flags | connect, disconnect, open, close, timer | event stream, session |
| API client and session (`services/api.js`) | token, user, `localStorage` | restore, login, logout, request | every page |
| Queue page (`controllers/queue.js`) | list of items | poll, five event handlers, remove, retry | API, socket |
| Search page (`controllers/search.js`) | results, episodes, set of added pids | search, browse, add, add a series | API, socket |
| Settings page | a form | load, save | API |

How they interact. The table is the only durable state; the channel, the permits
and the tasks are lost with the process. Handlers, watcher, boot, pool and tasks
run concurrently in one process and meet only in the table (statement by
statement, no transaction anywhere), the channel and the semaphore. The browser
is single-threaded: every handler of an event runs to its next `await`.

What is hard here, and what makes each part correct:

- **Queue and pool.** An id is in a memory-only channel while its row is in a
  table that does not say so. Correct means: a queued row is always in somebody's
  hands, a row that says `downloading` has a task, no more than `MAX_CONCURRENT`
  tasks, no scheduled item early, everything settles, across every crash.
- **Download wrapper.** Two streams, cut anywhere, ending in any order, feed one
  loop. Correct means: every line is looked at once, the path is the last one
  named, a failure has a reason.
- **Socket service.** Late close events and timers act on state that a logout and
  a login have replaced. Correct means: what it shows is true, a session never
  loses its connection for good.
- **Queue page.** Polls and events overtake one another. Correct means: what is
  shown converges to the table.
- **Search.** Five sources fail, hang or answer late, two of them at the same time.
  Correct means: the answer is that of the best source heard, it comes wherever the
  code sets a limit, and no process is left behind.
- **Search page.** A set is copied before an await and written back after it. Correct
  means: a programme that is queued keeps its mark.
- **Accounts.** Every check and its write are two statements. Correct means: names
  and owners stay consistent, somebody can log in after every start, what is deleted
  stays without power.
- **Settings.** Read at different moments by different parts. Correct means: a
  change takes effect when the documentation says.

`PROJECT.json` lists all hazards with their lines and the property that covers
each, or why none does yet. A note beside a property says which part of the hazard
it does not judge: some of what could go wrong is what the code does (section 5).

## 2. Modules

| Module | What it is |
| --- | --- |
| `DownloadQueue` | table, handlers, watcher, boot, pool and tasks: the core |
| `MCDownloadQueue` | small instances of it, symmetry |
| `DurableQueue` | what the queue promises: jobs and a bounded set of workers (abstract) |
| `DownloadQueueProofs` | `TypeCorrect`, `NeverLost`, `NeverStuck`, `NeverTooMany`, `NeverEarly`, `OnItsWayIsDue` |
| `DurableQueueProofs` | `QueueIsDurable`: `DownloadQueue` implements `DurableQueue` |
| `AttemptContract` | what the worker relies on when it awaits `download` (abstract) |
| `DownloadAttempt` | `download` itself; implements `AttemptContract` |
| `MCDownloadAttempt` | outputs of `get_iplayer` to try it on |
| `DownloadAttemptProofs` | `AttemptImplements`, `EverythingRead`, `FailuresExplained`, `AttemptTypeOK` |
| `SocketService` | the page's connection and its session |
| `SocketServiceProofs` | `NeverStranded`, `ShownIsTrue`, `SocketTypeOK` |
| `Places` | a finite set of numbers in ascending order, and what a sequence has at such places |
| `PlacesProofs` | lemmas about the two; induction over the places of a sequence |
| `QueueEvents` | rows, announcements, broadcast channel, the WebSockets of a page: the queue as a browser learns of it |
| `QueuePage` | the list of the queue page over `QueueEvents`, with its polls and requests |
| `MCQueuePage` | small instance of it; `Ascending` against the community modules' `SetToSortSeq` |
| `QueuePageProofs` | `NoMoreThanSources`, `PageTypeOK` |
| `Accounts`, `MCAccounts` | users, tokens, the seed, requests that change accounts, and who owns the rows |
| `AccountsProofs` | all six properties of `Accounts`, and its types |
| `SearchContract` | what a search is answered with (abstract) |
| `ProgrammeSearch` | `search` and `list_episodes`, await by await, and the parsers; implements `SearchContract` |
| `MCProgrammeSearch` | what the sources may say |
| `ProgrammeSearchProofs` | `SearchAnswers`: `ProgrammeSearch` implements `SearchContract`; `NoneLeftBehind`, `SearchTypeOK` |
| `SearchPage`, `MCSearchPage` | the set of added pids over `QueueEvents` |

How they compose: `QueuePage` extends `QueueEvents`, whose writers stand for every
write that the actions of `DownloadQueue` can make; `DownloadQueue` uses
`DownloadAttempt` by its contract (an attempt ends, in success with or without a
path, or in failure: `AttemptOk`, `AttemptFail`); the connections that `QueueEvents`
opens and loses at will, several at once, are the sockets that `SocketService` opens and
loses for the code's reasons. `SearchPage` extends
`QueueEvents` too. `QueueEvents`, `QueuePage` and `SearchContract` take `Places` for what an ORDER BY, a
filter or a parser leaves of a list. `DownloadQueue`, `DownloadAttempt` and
`ProgrammeSearch` each instantiate their abstract specification under a refinement mapping (`Durable`,
`Contract`, `Contract`). `Accounts` has the owner of a row where `DownloadQueue` has
its status; `SocketService` takes the tokens that `Accounts` hands out.

### DownloadQueue

One SQL statement is one action, and so is every send, receive and spawn; between
two of them anything may happen. A handler or task is a record with a `pc`.

| Code | Model |
| --- | --- |
| `queue_items.status`, `output_path`, `priority` | `status` (`"absent"`: no row), `hasPath`, `priority` |
| uuids still to be drawn | `fresh` |
| finished files in the output directory, one name per pid | `files` |
| `mpsc::unbounded_channel` | `channel` |
| the id `run_pool` holds while it awaits a permit | `held` |
| `Semaphore::new(max_concurrent)` | `permits` |
| a spawned `run_download` | `task[s]`: `Fetch`, `Mark`, `AttemptOk`/`AttemptFail`, `BackoffElapsed`, `CheckCancelled`, `CleanUp`, `RecordDone`/`RecordFailed` |
| a request in progress | `req[r]`: `AddCheck`, `AddInsert`, `AddNotify`; `RemoveRead`, `RemoveCancel`/`RemoveUnlink`/`RemoveDelete`; `RetrySend`, `RetryUpdate`, `RetryEnqueue`; `ReorderEntry` |
| `requeue_interrupted` | `boot`: `BootSelect`, `BootReset`, `BootQueued`, `BootSend`, `BootDone`, `BootFails` |
| `enqueue_scheduled` | `watch`: `WatchRead`, `WatchSend` |
| a statement that fails, a handler's future dropped at an await | `StartFails`, `RecordFails`, `BootFails`, `RequestAborted`, and the `Faults` disjuncts of `BootReset`, `CheckCancelled`, `RemoveUnlink`, `CleanUp` |
| the process dies and starts again | `Crash`: the table and the files survive |

`faulted` is a history variable: the items that a fault since the last start has
cut loose. The safety properties exempt exactly these, and a restart empties it,
so they also say that a restart repairs whatever a fault has broken.

Left out: progress, errors, timestamps and events (no decision of this code reads
them); the order of `added_at` in `BootSend` (any order); a `get_iplayer` that
survives a crash of the server; that two attempts of one pid may write under
different names. The `SELECT` that ends `add_to_queue` and `retry_queue_item` is
joined to the enqueue that follows it: it only decides whether the row still
exists, and the enqueue follows without an await.

### DurableQueue, and how DownloadQueue implements it

A job is unborn until its row is inserted, then has the row's status, and is gone
when the row is (`JobOf`); a worker is a slot, which has begun once it has marked its
row (`WorkerOf`). Nothing else of `DownloadQueue` shows: not the channel, the permits,
the watcher, the boot or what a handler read. Each statement of the code must be one
step of the abstract queue or none. That is what rules out an `UPDATE` that brings a
removed row back, a requeue of what is done, a task that settles an item it did not
mark, or a second submission of an id. It has no fairness; the liveness of the queue is
checked by itself. A worker that marks, or a handler that cancels, when the row is gone
maps to a step that changes no job: the code does not look at the row count.

### AttemptContract and DownloadAttempt

A stream is a sequence of words and line ends. `text` is all that the process
will write; `Read` hands any non-empty next piece of it to the reader, so a
chunk may end between any two words, also inside a line, and `Byte` looks at one
word of the chunk: `got` and `pos` are how far either has come. Words are model values,
told apart only by what the regular expressions look for: a key word (`INFO:`,
`Recorded`), a media name, a percentage, an alarm word, the licence advisory. The
two channels, the `select!` with its guards, `stdout_done`, `stderr_done`, the
shared tail and the choice of the reason are as in the code.

`AttemptContract` defines lines and the last path on the whole text, a line by the place
where it starts, without chunks, buffers or channels; the reason of a failure is the set of
lines that are shown. That the detailed module implements it (property
`Contract`) is the statement that cutting and interleaving make no difference; that the
call returns at all is `Returns`.
The command line, the wording of messages and failures of `read` and `wait` are
left out.

### SocketService

One action per browser event. `sock[s]` is a WebSocket object with the token in
its url; `ws`, `timer`, `intentional`, `connected` are the service's fields of the
same name, and `timer` is the url captured by the pending callback. `token` is
`ApiService.token`; since a token has no expiry it is represented by the SECRET it
was signed with. `asked` are requests in flight: a 401 that arrives late clears
the session of the moment. `LogoutFromQueue` clears the session, if one is left, and
disconnects;
`LogoutElsewhere` (search and settings page) only clears it. The server stops,
and starts again with the same or the next SECRET. Left out: the delay of the
timer, the listeners, users deleted while they are logged in.

### QueueEvents and QueuePage

`row` is the status of each item (`"fresh"` before its insert, `"gone"` after its
deletion). A write leaves an event in `owed`, and `Announce` publishes it later:
between the two lies at least one await, so announcements overtake one another.
A page can have several `Sockets` open: the timer of `socket.js:81-84` opens one without
looking at `#ws`, and all of them dispatch to the same listeners (`socket.js:68-76`).
`stream[s]` is the receiver of `broadcast::channel(256)` of one of them, which loses its
oldest event when it is full (`Heard`); `Forward` moves one event over the socket
(`wire[s]`), which holds only so much. An event of progress fills the receiver but is not
kept on the wire, since nothing modelled here changes when the page takes it. `Listed` is
the answer of `GET /api/queue`.

`items` is the list as the page shows it, `here` is TRUE between `setup` and
`teardown`, and each of `calls` is a request whose answer the server has read and
the page has not. Answers arrive in any order, also after the page was left.
`After` is what each event handler does to the list: `item_added` prepends without
looking, `status_change` finds the first copy only; an event is handled once for each
socket it comes over. Left out: progress, speed,
errors, the filter, and the moment a request is sent (only the moment the server
reads counts).

### Accounts

`user` is the `users` table, `owner` the column `queue_items.user_id`, `tokens` the users
for whom `login_handler` has signed a token: one never expires, so the set only grows.
A request is authenticated in one step (`Authenticate`, the `AuthUser` extractor), passes
the guards of its handler in the same step (`AcceptCreate`, `AcceptDelete`,
`AcceptPassword`, `AcceptAdd`; nothing is read or written in between), and acts in later
ones: `CreateCheck` and `CreateInsert`, `DeleteUser`, `ChangePassword`, `AddItem`.
UNIQUE, PRIMARY KEY and the foreign key (which sqlx switches on for every connection)
are in `CreateInsert`, `Insert`, `DeleteUser` and `AddItem`. `SeedCount` and `SeedInsert`
are `seed_admin`; `Restart` may come between the two. `AddItem` and `RemoveItem` keep of
the queue's handlers only what concerns the owner. Left out: hashing and signatures,
a change of SECRET (in `SocketService`), and `list_users` and `get_me`, which only read.

### SearchContract and ProgrammeSearch

`says` is what each source would say if it were asked: something, an error, or nothing
for ever. It is chosen at the start, so the model has every combination. `pc` is the
call that is awaited, `child` the `get_iplayer` process, `info` and `eps` the two halves
of `join!`. A call with a time limit (10, 20 or 90 seconds) may fail at any moment; one
without ends only when the source says something. A future that is dropped takes its
process with it (`kill_on_drop`); so does the client that goes away (`GoAway`).

Lines, links and JSON objects are records of what the parsers look at: a header line, a
line that does not match, a PID, the series and the picture it names or not, a link of
the other media type, a link without text. Each parser is a loop over them, a
function of how many it has read, with the code's guards in the code's order (`Read[n]`).
A listing is the sequence of lines of the *combined* text, stderr's put right behind
stdout's (`iplayer.rs:392-396`), so that a last line of stdout without an end and the first
of stderr are one line. `SearchContract` defines the same results without a loop: the
first of each PID, the last object about it; and the answer as a choice by what was heard
in time. Left out: titles, channels, descriptions and durations, which
travel with their result; the matching of braces that finds the end of the page's state;
the command line. The exit status of `get_iplayer` and the HTTP status of the search
page are ignored by the code and so are not there.

### SearchPage

`addedPids` and the requests in flight. A rebuild is three moments: the copy
(`Handle`), the server's read (`ReadQueue`), the write back (`Deliver`). Left out:
results, episodes and browsing.

## 3. Runs

| Run | Question | Result |
| --- | --- | --- |
| `QueueItems` | two items of two programmes, one scheduled, every handler, the watcher, the clock, a crash, more slots than permits: is an item ever let go of, are there ever too many downloads, does one start early; is it a `DurableQueue`? | holds |
| `QueueFaults` | one item, two concurrent requests, retries, failing statements and abandoned requests: are the types and the limit of attempts kept, is anything lost or stuck that no fault has hit, and is it a `DurableQueue` even then? | holds |
| `QueueLiveness` | under fairness, with a crash: is everything served, and does every download settle? | holds |
| `AttemptStreams` | thirty-five pairs of outputs, every chunking, every interleaving: is the contract implemented, is anything left unread, is what explains a failure kept when the buffer overflows, does the call return? | holds |
| `SocketSession` | two logins, two stops of the server: is the page ever stranded or wrong, does it reconnect? | holds |
| `QueuePageLive` | two items, two sockets that lag and break, answers out of order, a write with a restart or two writes: does the list agree with the table in the end, and does a row appear more often than there are sockets and a poll to bring it? | holds |
| `AccountRaces` | two requests at a time for any account, a restart: are names unique and owners real, does anything deleted or overwritten come back, who can empty the table? | holds |
| `SearchSources` | every query, every combination of what the sources say: is the contract implemented, does the answer come, is a process left behind? | holds |
| `DuplicateAdd` | "Reject duplicate PIDs" | violated |
| `CancelLost` | "mark cancelled so the worker task notices" | violated |
| `StaleReconnect` | "Automatically reconnects" | violated |
| `RebuiltSet` | "rebuild the set accurately" | violated |

The four violations are statements of the repository's own comments that the code
does not keep; section 5 tells each story.

**Deadlock** is not checked in any run: a search ends with its answer, two users
who delete each other may leave nobody to log in (`OnlyRaceEmpties`), the queue with nothing left to do within
its bounds, an attempt that has returned and a page nobody is using may all stop.
That they do not stop too soon is what the liveness properties say.

### Bounds, and why they are enough

- Items: two where two must meet (`QueueItems`, `QueueLiveness`, `DuplicateAdd`),
  else one. The properties speak of one item, or of two of the same pid, and a
  task or handler touches only its own; the theorems cover the rest.
- `Requests`: two in `QueueFaults`, so that any two handlers overlap; one in the runs
  with two items, where `NeverLost`, `NeverStuck`, `NeverTooMany` and `NeverEarly` cover
  any number. `Slots`: two, so that one
  item can be in two tasks and a permit can be over-used with `MaxConcurrent = 1`.
- `MaxChannel` 0 or 1 keeps the watcher and retries from filling the unbounded
  channel: both still find it non-empty, so that a second copy of an id exists.
- `MaxTime = 1`, items due at 1: before, at and after the time.
- `MaxCrashes = 1`: a crash in every state, and a boot that meets what the crash
  left and concurrent requests. A second crash, also during a boot, starts from a
  table the first could have left too; the theorems have no such bound.
- `RetryLimits` {0, 1}: no retry, and one; a task reads any of them.
- `QueuePageLive`: two sockets, two items, the first of which may already be there, two
  changes (writes, or a write and a restart), two answers in flight, one event in a
  channel and one on a wire. That is enough for a lost, a late and a doubled event and for
  answers out of order, and the three copies that two sockets allow do occur; `PageSize = 1`
  makes the answer leave a row out. `NoMoreThanSources` has no bound. It takes some three
  minutes: 1.3 million states.
- `Kept = 2`, `Shown = 1` instead of 50 and 5: outputs with two and three plain
  lines fill and overflow the tail, before and after the line that explains the failure,
  with the advisory and without. The theorems of `DownloadAttemptProofs` hold for every
  output and every limit.
- `AccountRaces`: three uuids, so that two accounts race while a third can still be
  made by a request or a seed; two names, two requests, one row. The properties speak
  of two accounts or of one and a request; `AccountsProofs` has no bound.
- `SearchSources`: two PIDs, outputs of up to three lines and pages of up to two links, every
  kind of line, three states of the page's pictures, four kinds of programme. Duplicates,
  skipped lines and overwritten pictures all occur; the parsers keep nothing across
  lines but the set of PIDs seen.
- `RebuiltSet`: two rows and one request in flight suffice for the counterexample;
  `PageSize = 2` leaves no row out, so the clamp of `per_page` has no part in it.
- `Sockets`: four are always enough. The number that can be in use at once is
  bounded by the logins and by the timer, and with `MaxLogins = 2` a free one is
  there whenever an action opens one.
- `MaxLogins`, `MaxStops` of 1 or 2: an old socket, timer and request of one
  session meet the next session, on either side of a restart.

### Fairness, and why the code justifies it

Tokio polls every ready task and the browser delivers every event and timer that
is due, so handlers once begun, watcher, boot, pool, tasks, readers, loops, close
events and timers are weakly fair. `get_iplayer` is assumed to exit: the code sets
no limit (`iplayer.rs:278`), and without that assumption a hanging process holds
its permit for ever. The clock advances, a stopped server comes back. A search is polled to
its end, but a `get_iplayer` that hangs is never obliged to exit there
(`WF_vars(Proceed)`, with `says` deciding what can happen at all). Nobody is
ever obliged to add, remove, retry, log in or out, and no fault or crash has to
happen. A page that is shown keeps polling (`setInterval`) and takes answers; `Converges`
needs no more, and no event is obliged to come. No strong fairness is
used.

## 4. Proofs

All theorems hold for every value of the constants that the named assumptions
allow (`ItemsAssumption`, `PoolAssumption`, `EnvironmentAssumption`,
`KeptAssumption`, `TextsAssumption`, `SecretsAssumption`, `EventsAssumption`,
`AccountsAssumption`, `SourcesAssumption`): that the sets and bounds are of the kind their
names say, and outputs sequences.

- `TypeCorrect`: `Spec => []TypeOK`. The inductive part beyond the types is
  `TaskOK`: an idle slot holds nothing, a busy one holds an item, and its attempt
  number never exceeds the limit it read, which is 0 before the limit is read.
- `NeverLost`, `NeverStuck`: `Spec => []NoLostItem` and `Spec => []DownloadingIsOwned`. The
  two are inductive only together with the types and with each other: a reset by the boot
  turns a `downloading` row into a `queued` one, and only `BootWillSend` says that
  the boot will come to it. The proof follows one item (`ItemOK`) through every
  action; `OtherRequests` and `OtherSlots` say that it keeps its handler and its
  task when others step, `Enqueued` and `Received` what the channel does to it.
- `NeverTooMany`: `Spec => []AtMostMaxConcurrent`. The invariant is
  `PermitsConserved`: busy slots plus free permits is `MaxConcurrent`; each step of
  a task adds or removes one element of a finite set.
- `NeverEarly`, `OnItsWayIsDue`: no item starts, or is in the channel, with a handler or a
  task, before its scheduled time, **if** clients send a retry only for failed and
  cancelled items (`RetryFrom`), as the web page does. The invariant is `DueInHand`, with
  the fact that time does not run backwards. Without the hypothesis it is false:
  `retry_queue_item` enqueues whatever it finds.
- `AttemptImplements`: `Spec => Contract` of `DownloadAttempt`, and with it
  `EverythingRead`, `FailuresExplained` and `AttemptTypeOK`, for every text, every cut and
  every interleaving. No induction over the text is needed, because the readers and the
  loop walk along it step by step: each stream has a *cut*, up to where its lines have been
  sent, and a *mark*, up to where they have been taken, and the channel holds exactly the
  lines that start between the two (`ReaderOK`, `Waits` and `LoopOK` in the invariant). Path
  and ticks are those of the lines before the mark. For `FailuresExplained` the invariant
  follows each line taken: while fewer than `Kept` plain lines have been taken since, on
  either stream, it is that near to the end of the buffer (`TailOK`, `KeepHolds`). A byte
  moves the cut across at most one line (`OneMore`, `NoneMore`), a `Take` moves the mark
  across one (`OneLess`); when both streams are done, both marks are at the end.
- `NeverStranded`, `ShownIsTrue`, `SocketTypeOK` of `SocketService`.
  `Persistent` is not inductive: a close event with `intentional` set starts no
  timer. `Idle` says that then there is no session, no `#ws` and no timer, and
  `Opened` that the url a timer takes over is never empty.
- `NoMoreThanSources`: `Spec => []OncePerSource` of `QueuePage`, with `PageTypeOK`: a row is on
  the page once for the poll and once for each socket at most. A poll brings each row once
  (`ListedOK`, on `Ascending`, which lists a finite set without repetition), and an item is
  announced as added once in its life. The invariant counts: the copies on the page
  (`Often`) and those still due (`Due`: one for each socket while the announcement is owed,
  then one for each socket that has it in `stream` or `wire`, in one of them at a time by
  `SocketOK`) are never more than the sockets and one (`ShownOK`). A poll puts one copy for
  all, and each `Handle` turns one that was due into one that is there (`DueFalls`).
- `QueueIsDurable`: `Spec => Durable`. Beside the invariants above, it takes three
  facts (`Growth`): nobody holds an id before its row is inserted (`UnbornHidden`), one
  request alone will insert it (`InsertedOnce`), and the boot resets and requeues before
  any task runs, so it never meets a finished item (`BootFirst`). Each action is then
  mapped to the abstract step it makes; most make none. `Limit` of the abstract queue is
  `PermitsConserved` again.
- `AccountsProofs`: types, `OneUserPerName`, `OwnersExist`, `NoRevival`, `PasswordOwn`,
  `OnlyRaceEmpties` and `StartsUsable`. The invariant adds that a uuid not yet drawn
  has neither row nor token (`FreshUnused`), that requests exist only while the process
  serves and that the table is still empty when the seed inserts (`Starting`,
  `SeedIsFirst`): without these the seed could take a name that a request took, and
  that a delete is not of its caller (`NotOneself`). `RowChange` lists the three ways a
  row can change, and the action properties follow from it.
- `NoneLeftBehind`, `SearchTypeOK`: for whatever the sources say. The invariant adds that
  the join starts with neither half there.
- `SearchAnswers`: `Spec => Contract` of `ProgrammeSearch`, for outputs and pages of any
  length. Half of the proof is about the parsers (`ListingParsed`, `CachedParsed`,
  `ImagesParsed`, `WebParsed`): after n lines a loop holds what is picked from the places up
  to n (`PickedUpTo`, `SeenUpTo`). That is a solution of the loop's equation, so the loop is
  defined, and `SameValues` says that there is no other. `SameValues` is an induction, by the
  least place at which two solutions differ (`Smallest`: the natural numbers are well
  founded), since an induction rule with an operator for its parameter cannot be used. The
  other half is an invariant of what has been learnt (`Learnt`): the join is reached only
  when the programme data or the cache had nothing (`NothingElse`), and its halves are what
  their sources say, or nothing because a limit passed (`InfoSaid`, `EpsSaid`). `Concludes`
  then finds for each end of a search the time limits that explain its answer.

Only model-checked: the liveness properties (`QueuedIsServed`,
`ScheduledIsServed`, `DownloadSettles`, `Reconnects`, `Converges`, and `Returns` of an
attempt and of a search), because the prover does not reason about `ENABLED`. Every
invariant, every action property and the safety of every refinement that a run checks is a
theorem.

## 5. Findings

1. `DuplicateAdd` (`routes/queue.rs:87`). The duplicate check and the insert are
   two statements; two requests pass the check together.
2. `CancelLost` (`queue.rs:371`). The task looks for a cancellation only after an
   attempt that succeeded; a failing one writes `failed` over `cancelled`.
3. `StaleReconnect` (`socket.js:83`). The url of a socket, token included, is used
   for every reconnection after it. If the SECRET changes and the user logs in
   again while a timer or a closing socket of the old session is left, the page
   retries the old token for ever.
4. `RebuiltSet` (`search.js:178`). The marks are copied before the queue is fetched and
   written back after: a mark set in between is lost and the button is enabled again.

Known divergences without a run of their own:

- The watcher sends a due item once a minute until a task marks it, and on top of the
  boot's requeue (`main.rs:123`); the copies are downloaded one after another, since
  `run_download` skips an item only if it is `cancelled`. `main.rs:109-110` speaks of
  items "whose status is still `queued`". `DurableQueue` says the same of the model: a
  job is done at least once.
- A row deleted between the task's fetch and its mark (`queue.rs:184`) is downloaded for
  nobody, and the file stays without a row ("cancel and remove", `routes/queue.rs:145`).
- In a line with both key words the expression of `iplayer.rs:322` starts at the first:
  `INFO: Recorded /downloads/Episode.mp4`, the example of the comment at `iplayer.rs:240`,
  gives the path `Recorded /downloads/Episode.mp4`.
- The comment at `iplayer.rs:284` says that the licence advisory "should not appear as a
  failure reason". It is filtered out of the lines that look like errors; where none is
  left, the fall back on the last five lines (`iplayer.rs:296-307`) shows it all the same.
  `FailureExplained` therefore excludes it only beside a line that explains the failure.
- `config.rs:49` calls the admin's name and password "only used on first launch";
  `seed_admin` uses them at every start that finds the table empty, which
  `OnlyRaceEmpties` says can happen.
- `ws.rs:28-41` checks the signature of the token and not that its user still exists; a
  deleted user keeps the event stream. A changed password leaves every token valid.
- A user with rows in the queue cannot be deleted: the foreign key makes it an internal
  error.
- `extract_pid` (`iplayer.rs:489`) takes any eight characters of lower case and digits
  that begin with b, p or m for a PID: a search for `panorama` never reaches the search
  page.
- A programme whose first link has no text is left out although a later one has a title
  (`iplayer.rs:629-670`): the PID is noted as seen before the title is looked at.
- The comment at `iplayer.rs:779` caps the listing "so a slow series doesn't hang the UI
  indefinitely"; `search_by_pid`, the local cache and `GET /search/episodes` have no cap
  (`Unlimited` of `SearchContract`).
- Two shows opened in a row on the search page: the list that arrives last is shown under
  the show opened last, whichever it belongs to (`search.js:94-119`). One add of a series
  that fails leaves the series marked as added (`search.js:140-147`).
- `README.md:99` has runtime settings take effect on the next attempt; the worker reads
  them once per download, and the number of concurrent downloads never.
- `priority` is stored and changed but orders only the list; the pool works in
  channel order.
- `POST /api/queue/:id/retry` enqueues also when the `UPDATE` has hit nothing,
  although `README.md:150` calls it "Retry failed/cancelled": an API client can
  start a scheduled item early (the hypothesis of `NeverEarly`).
- An add whose client goes away between insert and enqueue leaves a queued row
  that only a restart picks up (`faulted` in `QueueFaults`).
- With two active rows of one pid, the clean-up of a cancelled one removes the
  file of the other.
- After a logout and a login while the old socket closes, its close handler clears
  `#ws` for the new one and has the page shown as disconnected; a second live socket may
  follow, and both deliver every event: with two of them and a poll one new item is on the
  page three times until the next poll (`OncePerSource` is that bound and no less).
- A 401 that answers a request of an earlier session clears the new one (`api.js:72`).
- A cancel that comes between the task's last look at its row and the `UPDATE` to `done`
  (`queue.rs:330-348`), or that the boot's reset meets (`queue.rs:106`), is overwritten.
  `DurableQueue` admits both (`Record`, `Renew`).

## 6. Plan

Done in this order: `DownloadQueue` (the centre of the program), its runs and
proofs; `SocketService` and its proof; `AttemptContract` and `DownloadAttempt`;
`QueueEvents` and `QueuePage`; `DurableQueue` and the proof of its refinement;
`Accounts` and its proofs; `SearchContract` and `ProgrammeSearch`; `SearchPage`; the
refinement of `AttemptContract`; `NoMoreThanSources`; the refinement of `SearchContract`.

What could follow: that every write of
`DownloadQueue` is one of the writers of `QueueEvents`; browsing in `SearchPage`, with the
show that an answer belongs to.

## 7. Not modelled, and why

- Settings (`routes/settings.rs`): single upserts of a table of texts, the last writer
  wins, nothing relates two of them. The one read that a decision rests on is
  `RetryLimits` of `DownloadQueue`.
- Configuration (`config.rs`): defaults and a parse. `MAX_CONCURRENT = 0` is accepted
  and then nothing is ever downloaded; the liveness run takes 1.
- The cache refresh: an external process that runs to its end, without state here.
- The wording of what is parsed (titles, descriptions, durations), the JSON syntax, the
  command lines; the routing table and the error mapping (no state); password hashing
  and the signature of tokens (assumed to be what they claim).
- The rows and events of progress, written by detached tasks: display only.
- The settings form, templates, styles, container images.
