--------------------------- MODULE ProgrammeSearch ---------------------------
(***************************************************************************)
(* One search (backend/src/iplayer.rs: search, list_episodes and what they *)
(* call; routes/search.rs).  A query that holds a PID goes to the BBC's    *)
(* programme data, then to get_iplayer's cache if that failed, then to     *)
(* get_iplayer's list of a series' episodes, joined with the series' data; *)
(* any other goes to the BBC's search page, then to the cache.  Requests   *)
(* share nothing: one is modelled.                                         *)
(*                                                                         *)
(* Anything of eight characters that begins with b, p or m and is written  *)
(* in lower case and digits holds a PID (extract_pid): "panorama" does.    *)
(***************************************************************************)
EXTENDS Integers, Sequences, SequencesExt

CONSTANTS
    Asked,          \* the PID that a query for a PID is for
    Programmes,     \* answers of programmes/{pid}.json: type, position, image, ...
    Pages,          \* search pages: the links, the objects of the Redux state
    Listings,       \* the lines of what --pid-recursive-list prints
    Rows            \* what --listformat prints

IsSequence(s) == s \in Seq(ToSet(s))

ASSUME SourcesAssumption ==
    /\ \A val \in Listings \cup Rows : IsSequence(val)
    /\ \A page \in Pages : IsSequence(page.anchors) /\ IsSequence(page.blob)

VARIABLES
    query,      \* "pid", "text", or "episodes" (GET /search/episodes)
    says,       \* what each source would say
    pc,         \* the call that is awaited
    child,      \* get_iplayer: "none" or "running"
    info, eps,  \* of the join: the series' data and the episodes, when they are there
    result      \* what the request is answered with

vars == <<query, says, pc, child, info, eps, result>>

None     == "none"
NoResult == [st |-> "none"]
Ok(list) == [st |-> "ok", list |-> list]
Error    == [st |-> "error"]
Gone     == [st |-> "gone"]

Waiting   == [st |-> "waiting"]
Says(val) == [st |-> "ok", val |-> val]
Fails     == [st |-> "failed"]  \* no connection, an HTTP error, no JSON; no get_iplayer
Hangs     == [st |-> "hangs"]

Result(pid, series, thumb) == [pid |-> pid, series |-> series, thumb |-> thumb]
NoInfo == [label |-> None, thumb |-> None]

\* What is said to a query; a source that it never asks hangs.
Saying(vals, asked) ==
    IF asked THEN {Says(v) : v \in vals} \cup {Fails, Hangs} ELSE {Hangs}

Init ==
    /\ query \in {"pid", "text", "episodes"}
    /\ says \in [api   : Saying(Programmes, query = "pid"),
                 info  : Saying(Programmes, query = "pid"),
                 web   : Saying(Pages, query = "text"),
                 list  : Saying(Listings, query # "text"),
                 cache : Saying(Rows, query # "episodes")]
    /\ pc = "start"
    /\ child = "none"
    /\ info = Waiting /\ eps = Waiting
    /\ result = NoResult
-----------------------------------------------------------------------------
(* Parsers.                                                                *)

lookup_pid_api(prog) ==
    IF prog.type \in {"episode", "clip"}
    THEN <<Result(Asked, prog.parentPosition, prog.image)>> ELSE <<>>

get_series_label(prog) ==
    IF prog.type # "series" THEN NoInfo
    ELSE [label |-> IF prog.title # None THEN prog.title ELSE prog.position,
          thumb |-> IF prog.image # None THEN prog.image ELSE prog.parentImage]

\* Each parser reads line by line, link by link or object by object; Read[n] is what it
\* holds after n of them.

\* Mutant: forgets which PIDs it has seen.
ParseListingAll(lines) ==
    LET Read[n \in 0 .. Len(lines)] ==
            IF n = 0 THEN <<>>
            ELSE LET l == lines[n] IN
                 IF l.header \/ l.pid = None THEN Read[n - 1]
                 ELSE Append(Read[n - 1], Result(l.pid, l.series, None))
    IN Read[Len(lines)]

\* The lines are those of stderr's text put after stdout's, which need not end in a
\* line of its own; a line that names a series gives the episode its own.
parse_pid_recursive_output(lines) ==
    LET Read[n \in 0 .. Len(lines)] ==
            IF n = 0 THEN [seen |-> {}, list |-> <<>>]
            ELSE LET l == lines[n]  acc == Read[n - 1] IN
                 IF l.header \/ l.pid = None \/ l.pid \in acc.seen THEN acc
                 ELSE [seen |-> acc.seen \cup {l.pid},
                       list |-> Append(acc.list, Result(l.pid, l.series, None))]
    IN Read[Len(lines)].list

parse_get_iplayer_output(val) ==
    LET Read[n \in 0 .. Len(val)] ==
            IF n = 0 THEN <<>>
            ELSE LET l == val[n] IN
                 IF l.header \/ l.cells < 2 \/ l.pid = None THEN Read[n - 1]
                 ELSE Append(Read[n - 1], Result(l.pid, l.series, l.thumb))
    IN Read[Len(val)]

\* PID to picture, over the objects of the state in the order of the walk.
extract_redux_image_map(blob) ==
    LET Read[n \in 0 .. Len(blob)] ==
            IF n = 0 THEN [id \in {} |-> None]
            ELSE LET o == blob[n]  map == Read[n - 1] IN
                 IF o.images = {} THEN map
                 ELSE [id \in DOMAIN map \cup {o.id} |->
                         IF id # o.id THEN map[id]
                         ELSE IF "standard" \in o.images THEN "standard"
                         ELSE IF "promotional_with_logo" \in o.images
                              THEN "promotional_with_logo" ELSE "other"]
    IN Read[Len(blob)]

parse_bbc_search_html(page) ==
    LET links == page.anchors
        map   == extract_redux_image_map(page.blob)
        Thumb(pid) == IF pid \in DOMAIN map THEN map[pid] ELSE None
        Read[n \in 0 .. Len(links)] ==
            IF n = 0 THEN [seen |-> {}, list |-> <<>>]
            ELSE LET a == links[n]  acc == Read[n - 1] IN
                 IF ~ a.fits \/ a.pid \in acc.seen THEN acc
                 ELSE [seen |-> acc.seen \cup {a.pid},
                       list |-> IF ~ a.titled THEN acc.list
                                ELSE Append(acc.list, Result(a.pid, None, Thumb(a.pid)))]
    IN Read[Len(links)].list

Stamp(list, i) ==
    [n \in DOMAIN list |->
        [list[n] EXCEPT !.series = IF @ = None THEN i.label ELSE @,
                        !.thumb  = IF @ = None THEN i.thumb ELSE @]]
-----------------------------------------------------------------------------
(* The search, await by await.                                             *)

\* Command::output: the process runs until it exits or its future is dropped.
Spawned(src) == IF says[src].st = "failed" THEN "none" ELSE "running"

Await(call, running) ==
    pc' = call /\ child' = running /\ UNCHANGED <<query, says, info, eps, result>>

Conclude(r) ==
    /\ result' = r
    /\ pc' = "over"
    /\ child' = "none"
    /\ UNCHANGED <<query, says, info, eps>>

Start ==
    /\ pc = "start"
    /\ \/ query = "pid" /\ Await("api", "none")
       \/ query = "text" /\ Await("web", "none")
       \/ query = "episodes" /\ Await("episodes", Spawned("list"))

ApiReplies ==
    /\ pc = "api"
    /\ says.api.st = "ok"
    /\ LET found == lookup_pid_api(says.api.val)
       IN IF found # <<>> THEN Conclude(Ok(found)) ELSE Await("series", Spawned("list"))

\* At once, or after ten seconds.
ApiFails == pc = "api" /\ Await("by_pid", Spawned("cache"))

\* search_by_pid: what get_iplayer's exit status is makes no difference.
ByPid ==
    /\ pc = "by_pid"
    /\ \/ says.cache.st = "failed" /\ Conclude(Error)
       \/ /\ says.cache.st = "ok"
          /\ LET found == parse_get_iplayer_output(says.cache.val)
             IN IF found # <<>> THEN Conclude(Ok(found)) ELSE Await("series", Spawned("list"))

InfoIs(i) ==
    /\ pc = "series"
    /\ info = Waiting
    /\ info' = [st |-> "ok", val |-> i]
    /\ UNCHANGED <<query, says, pc, child, eps, result>>

\* get_series_label: nothing on any error and after ten seconds.
InfoReplies == says.info.st = "ok" /\ InfoIs(get_series_label(says.info.val))
InfoFails   == InfoIs(NoInfo)

EpisodesAre(e, running) ==
    /\ pc = "series"
    /\ eps = Waiting
    /\ eps' = e
    /\ child' = running
    /\ UNCHANGED <<query, says, pc, info, result>>

\* list_episodes
Listed ==
    /\ says.list.st # "hangs"
    /\ EpisodesAre(IF says.list.st = "failed" THEN Fails
                   ELSE Says(parse_pid_recursive_output(says.list.val)), "none")

\* Mutant: get_iplayer is not killed with the future that waits for it.
TimeoutLeaves == child = "running" /\ EpisodesAre(Says(<<>>), child)

\* Mutant: no time limit.
NoTimeout == FALSE

\* Ninety seconds: the future of list_episodes is dropped, and kill_on_drop.
ListTimeout == child = "running" /\ EpisodesAre(Says(<<>>), "none")

\* join! has both.
Joined ==
    /\ pc = "series"
    /\ info # Waiting /\ eps # Waiting
    /\ Conclude(IF eps = Fails THEN Error ELSE Ok(Stamp(eps.val, info.val)))

\* GET /search/episodes: list_episodes as it is.
EpisodesListed ==
    /\ pc = "episodes"
    /\ \/ says.list.st = "failed" /\ Conclude(Error)
       \/ says.list.st = "ok" /\ Conclude(Ok(parse_pid_recursive_output(says.list.val)))

\* bbc_web_search: an error page is parsed like any other.
WebReplies ==
    /\ pc = "web"
    /\ says.web.st = "ok"
    /\ LET found == parse_bbc_search_html(says.web.val)
       IN IF found # <<>> THEN Conclude(Ok(found)) ELSE Await("local", Spawned("cache"))

\* At once, or after twenty seconds.
WebFails == pc = "web" /\ Await("local", Spawned("cache"))

\* search_local_cache
Local ==
    /\ pc = "local"
    /\ \/ says.cache.st = "failed" /\ Conclude(Error)
       \/ says.cache.st = "ok" /\ Conclude(Ok(parse_get_iplayer_output(says.cache.val)))

\* Mutant: the search is a task of its own, which goes on.
GoAwayRunsOn == /\ pc # "over"
                /\ result' = Gone
                /\ UNCHANGED <<query, says, pc, child, info, eps>>

\* The client goes away: the handler's future is dropped.
GoAway == pc # "over" /\ Conclude(Gone)

Proceed ==
    \/ Start \/ ApiReplies \/ ApiFails \/ ByPid
    \/ InfoReplies \/ InfoFails \/ Listed \/ ListTimeout \/ Joined
    \/ EpisodesListed \/ WebReplies \/ WebFails \/ Local

Next == Proceed \/ GoAway

\* A call that has a limit, or that does not hang, returns; clients may stay.
Spec == Init /\ [][Next]_vars /\ WF_vars(Proceed)
-----------------------------------------------------------------------------
TypeOK ==
    /\ pc \in {"start", "api", "by_pid", "series", "episodes", "web", "local", "over"}
    /\ child \in {"none", "running"}
    /\ info.st \in {"waiting", "ok"}
    /\ eps.st \in {"waiting", "ok", "failed"}
    /\ result.st \in {"none", "ok", "error", "gone"}
    /\ (result = NoResult) <=> (pc # "over")

\* No get_iplayer is left behind: one runs only while the search awaits its output, and
\* an answer, a time limit or a client that goes away ends it.
NoOrphan ==
    child = "running" => \/ pc \in {"by_pid", "episodes", "local"}
                         \/ pc = "series" /\ eps = Waiting

C == INSTANCE SearchContract WITH query <- query, says <- says, result <- result

\* The search is answered once, and as SearchContract says: by the best source that was
\* heard in time.
Contract == C!Answers

\* If get_iplayer's cache and the list that has no limit do not hang it is answered,
\* whatever else hangs.
Returns == C!Returns
=============================================================================
