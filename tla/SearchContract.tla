---------------------------- MODULE SearchContract ----------------------------
(***************************************************************************)
(* What the search page relies on when it asks for programmes: one answer, *)
(* made of what the best source that answered in time has said, each       *)
(* programme once and with what its own source says of it.  In which order *)
(* sources are asked and answer, and how their output is taken apart, does *)
(* not show.                                                               *)
(*                                                                         *)
(* A source says [st |-> "ok", val |-> ...], fails, or hangs.  Titles,     *)
(* channels, descriptions and durations go along with a programme and are  *)
(* left out; None is a field that is absent or empty.                      *)
(***************************************************************************)
EXTENDS Places

CONSTANTS Asked     \* the PID that a query for a PID is for

VARIABLES
    query,      \* "pid", "text", or "episodes" (GET /search/episodes)
    says,       \* what each source would say
    result      \* what the request is answered with; NoResult until then

None     == "none"
NoResult == [st |-> "none"]
Ok(list) == [st |-> "ok", list |-> list]
Error    == [st |-> "error"]
Gone     == [st |-> "gone"]     \* the client did not wait

Result(pid, series, thumb) == [pid |-> pid, series |-> series, thumb |-> thumb]
Orelse(a, b) == IF a # None THEN a ELSE b

\* The programme as a result when it is one episode or clip.
ApiList(prog) ==
    IF prog.type \in {"episode", "clip"}
    THEN <<Result(Asked, prog.parentPosition, prog.image)>> ELSE <<>>

\* Label and picture of a series; of nothing else.
SeriesInfo(prog) ==
    IF prog.type = "series"
    THEN [label |-> Orelse(prog.title, prog.position),
          thumb |-> Orelse(prog.image, prog.parentImage)]
    ELSE [label |-> None, thumb |-> None]

Stamped(list, info) ==
    [i \in DOMAIN list |->
        Result(list[i].pid, Orelse(list[i].series, info.label),
                            Orelse(list[i].thumb, info.thumb))]

\* Those of some places of a sequence whose PID none of them before has.
Firsts(seq, at) == {i \in at : \A j \in at : j < i => seq[j].pid # seq[i].pid}

Listing(lines) ==
    LET rows == {i \in DOMAIN lines : ~ lines[i].header /\ lines[i].pid # None}
    IN Picked([i \in rows |-> Result(lines[i].pid, lines[i].series, None)],
              Firsts(lines, rows))

\* A row of get_iplayer's own search stands for itself, twice if it is printed twice.
Cached(val) ==
    LET rows == {i \in DOMAIN val : ~ (val[i].header \/ val[i].cells < 2 \/ val[i].pid = None)}
    IN Picked([i \in rows |-> Result(val[i].pid, val[i].series, val[i].thumb)], rows)

\* The picture is in the last object of the page's state that has the PID and any images.
Best(images) ==
    IF "standard" \in images THEN "standard"
    ELSE IF "promotional_with_logo" \in images THEN "promotional_with_logo" ELSE "other"

Picture(blob, pid) ==
    LET about == {i \in DOMAIN blob : blob[i].id = pid /\ blob[i].images # {}}
    IN IF about = {} THEN None
       ELSE Best(blob[CHOOSE i \in about : \A j \in about : j <= i].images)

\* Of the links to one programme only the first counts, and only if it has a title.
Web(page) ==
    LET links == {i \in DOMAIN page.anchors : page.anchors[i].fits}
    IN Picked([i \in links |-> Result(page.anchors[i].pid, None,
                                      Picture(page.blob, page.anchors[i].pid))],
              {i \in Firsts(page.anchors, links) : page.anchors[i].titled})
-----------------------------------------------------------------------------
\* The sources with a time limit; one that says something may still miss it.
Capped == {"api", "web", "info"} \cup IF query = "pid" THEN {"list"} ELSE {}

Heard(src, missed) == says[src].st = "ok" /\ src \notin missed

ListingAnswer(missed) ==
    IF says["list"].st = "failed" THEN Error
    ELSE Ok(Stamped(IF Heard("list", missed) THEN Listing(says["list"].val) ELSE <<>>,
                    IF Heard("info", missed) THEN SeriesInfo(says["info"].val)
                                             ELSE [label |-> None, thumb |-> None]))

\* By get_iplayer's programme cache: nothing limits how long it takes.
CacheAnswer(otherwise) ==
    \/ says["cache"].st = "failed" /\ result' = Error
    \/ /\ says["cache"].st = "ok"
       /\ result' = IF Cached(says["cache"].val) = <<>> THEN otherwise
                    ELSE Ok(Cached(says["cache"].val))

AnswerPid(missed) ==
    /\ query = "pid"
    /\ IF Heard("api", missed)
       THEN LET found == ApiList(says["api"].val)
            IN result' = IF found # <<>> THEN Ok(found) ELSE ListingAnswer(missed)
       ELSE CacheAnswer(ListingAnswer(missed))

AnswerText(missed) ==
    /\ query = "text"
    /\ IF Heard("web", missed) /\ Web(says["web"].val) # <<>>
       THEN result' = Ok(Web(says["web"].val))
       ELSE CacheAnswer(Ok(<<>>))

AnswerEpisodes ==
    /\ query = "episodes"
    /\ says["list"].st # "hangs"
    /\ result' = IF says["list"].st = "failed" THEN Error ELSE Ok(Listing(says["list"].val))

Answer ==
    /\ result = NoResult
    /\ \/ \E missed \in SUBSET Capped : AnswerPid(missed) \/ AnswerText(missed)
       \/ AnswerEpisodes
       \/ result' = Gone
    /\ UNCHANGED <<query, says>>

\* The calls that no limit ends: of the programme cache, and of the list of episodes
\* when the page asks for it by itself.
Unlimited == {"cache"} \cup IF query = "episodes" THEN {"list"} ELSE {}

Answers == result = NoResult /\ [][Answer]_<<query, says, result>>

Returns == (\A src \in Unlimited : says[src].st # "hangs") => <>(result # NoResult)

Contract == Answers /\ Returns
=============================================================================
