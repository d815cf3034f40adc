--------------------------- MODULE DownloadAttempt ---------------------------
(***************************************************************************)
(* One run of get_iplayer (backend/src/iplayer.rs, download): two reader   *)
(* tasks read stdout and stderr chunk by chunk, cut the bytes into lines   *)
(* and send them through channels, and a select loop takes lines from      *)
(* either channel,                                                         *)
(* reports progress, remembers the output path and keeps the last lines to *)
(* explain a failure.  It implements AttemptContract.                      *)
(*                                                                         *)
(* The command line, the wording of errors and the characters inside a     *)
(* word are left out; a chunk may end between any two words.  Reading a    *)
(* pipe and waiting for the process do not fail.                           *)
(***************************************************************************)
EXTENDS Integers, Sequences, FiniteSets, SequencesExt

CONSTANTS
    LineEnd, Blank, Percent, Info, Recorded, Media,     \* see AttemptContract
    Alarm,      \* words with ERROR, WARNING, FAILED or ABORT in them
    Licence,    \* the advisory on the TV licence
    Words,      \* all words
    Texts,      \* what get_iplayer may write: a set of [out |-> ..., err |-> ...]
    Kept,       \* how many lines are kept to explain a failure (50)
    Shown       \* how many are shown when none looks like an error (5)

ASSUME KeptAssumption == {Kept, Shown} \subseteq Nat \ {0}

ASSUME TextsAssumption == Texts \subseteq [{"out", "err"} -> Seq(Words)]

VARIABLES
    text,       \* all that get_iplayer writes, per stream
    got,        \* per stream: how far its reader has read
    pos,        \* per stream: how far its reader has looked at what it has read
    buf,        \* per stream: the line under way in its reader
    chan,       \* per stream: lines its reader has sent
    gone,       \* per stream: its reader has ended
    done,       \* stdout_done and stderr_done
    path,       \* output_path
    tail,       \* stderr_buf: the last lines that are no progress
    ticks,      \* calls of on_progress
    pc,         \* where download stands
    result

readers == <<got, pos, buf, chan, gone>>
loop    == <<done, path, tail, ticks>>
vars    == <<text, readers, loop, pc, result>>

C == INSTANCE AttemptContract WITH text <- text, result <- result

Streams == C!Streams

Init ==
    /\ text \in Texts
    /\ got = [s \in Streams |-> 0]
    /\ pos = [s \in Streams |-> 0]
    /\ buf = [s \in Streams |-> <<>>]
    /\ chan = [s \in Streams |-> <<>>]
    /\ gone = [s \in Streams |-> FALSE]
    /\ done = [s \in Streams |-> FALSE]
    /\ path = <<>>
    /\ tail = <<>>
    /\ ticks = 0
    /\ pc = "spawn"
    /\ result = C!NoResult

Spawn ==
    /\ pc = "spawn"
    /\ pc' = "loop"
    /\ UNCHANGED <<text, readers, loop, result>>

\* The binary is missing or cannot be run.
SpawnFails ==
    /\ pc = "spawn"
    /\ pc' = "not spawned"
    /\ result' = C!Failed({})
    /\ UNCHANGED <<text, readers, loop>>
-----------------------------------------------------------------------------
(* spawn_line_reader.                                                      *)

\* A line is trimmed, and sent unless nothing is left of it.
Sent(line) == IF C!Trim(line) = <<>> THEN <<>> ELSE <<C!Trim(line)>>

Running == pc \in {"loop", "wait"}

\* Mutant: the buffer is a local of the loop, so a line that goes on in the next chunk
\* loses its beginning.
ReadAfresh(s) ==
    /\ Running
    /\ pos[s] = got[s]
    /\ \E n \in 1 .. Len(text[s]) - got[s] : got' = [got EXCEPT ![s] = @ + n]
    /\ buf' = [buf EXCEPT ![s] = <<>>]
    /\ UNCHANGED <<text, pos, chan, gone, loop, pc, result>>

\* reader.read: any part of what is to come.
Read(s) ==
    /\ Running
    /\ pos[s] = got[s]
    /\ \E n \in 1 .. Len(text[s]) - got[s] : got' = [got EXCEPT ![s] = @ + n]
    /\ UNCHANGED <<text, pos, buf, chan, gone, loop, pc, result>>

\* One byte of the chunk: a line end sends the line under way, anything else extends it.
Byte(s) ==
    /\ Running
    /\ pos[s] < got[s]
    /\ pos' = [pos EXCEPT ![s] = @ + 1]
    /\ IF text[s][pos[s] + 1] = LineEnd
       THEN /\ chan' = [chan EXCEPT ![s] = @ \o Sent(buf[s])]
            /\ buf' = [buf EXCEPT ![s] = <<>>]
       ELSE /\ buf' = [buf EXCEPT ![s] = Append(@, text[s][pos[s] + 1])]
            /\ UNCHANGED chan
    /\ UNCHANGED <<text, got, gone, loop, pc, result>>

\* End of file: what is left in the buffer is a line as well.
ReaderEnds(s) ==
    /\ Running
    /\ pos[s] = Len(text[s])
    /\ ~ gone[s]
    /\ gone' = [gone EXCEPT ![s] = TRUE]
    /\ buf' = [buf EXCEPT ![s] = <<>>]
    /\ chan' = [chan EXCEPT ![s] = @ \o Sent(buf[s])]
    /\ UNCHANGED <<text, got, pos, loop, pc, result>>
-----------------------------------------------------------------------------
(* The select loop.                                                        *)

\* Mutant: a full buffer takes no more.
KeepFirst(line) == IF Len(tail) >= Kept THEN tail ELSE Append(tail, line)

\* Mutant: the buffer is cut when it is already too long.
KeepLate(line) ==
    IF Len(tail) > Kept THEN Append(Tail(tail), line) ELSE Append(tail, line)

Keep(line) ==
    IF Len(tail) >= Kept THEN Append(Tail(tail), line) ELSE Append(tail, line)

\* A line of stdout may name the file; on either stream a line with a percentage is
\* progress, and nothing else.
Take(s) ==
    LET line == Head(chan[s]) IN
    /\ pc = "loop"
    /\ ~ done[s]
    /\ chan[s] # <<>>
    /\ chan' = [chan EXCEPT ![s] = Tail(@)]
    /\ IF C!IsProgress(line)
       THEN ticks' = ticks + 1 /\ UNCHANGED <<path, tail>>
       ELSE /\ tail' = Keep(line)
            /\ path' = IF s = "out" /\ C!PathIn(line) # <<>> THEN C!PathIn(line) ELSE path
            /\ UNCHANGED ticks
    /\ UNCHANGED <<text, got, pos, buf, gone, done, pc, result>>

\* Mutant: the second arm is a copy of the first.
StreamEndsOut(s) ==
    /\ pc = "loop"
    /\ ~ done[s]
    /\ chan[s] = <<>>
    /\ gone[s]
    /\ done' = [done EXCEPT !["out"] = TRUE]
    /\ UNCHANGED <<text, readers, path, tail, ticks, pc, result>>

\* recv returns None once the reader has ended and its channel is empty.
StreamEnds(s) ==
    /\ pc = "loop"
    /\ ~ done[s]
    /\ chan[s] = <<>>
    /\ gone[s]
    /\ done' = [done EXCEPT ![s] = TRUE]
    /\ UNCHANGED <<text, readers, path, tail, ticks, pc, result>>

Leave(enough) ==
    /\ pc = "loop"
    /\ enough
    /\ pc' = "wait"
    /\ UNCHANGED <<text, readers, loop, result>>

\* Mutant: the loop ends with the first stream.
LeaveEarly == Leave(\E s \in Streams : done[s])

LeaveLoop == Leave(\A s \in Streams : done[s])

LooksBad(line) ==
    /\ \E i \in DOMAIN line : line[i] \in Alarm
    /\ ~ Contains(line, Licence)

LastOf(lines, n) == {lines[i] : i \in {j \in DOMAIN lines : j > Len(lines) - n}}

Bad == {l \in ToSet(tail) : LooksBad(l)}

\* Mutant: no fall back on the last lines.
ReasonBadOnly == Bad

Reason == IF Bad # {} THEN Bad ELSE LastOf(tail, Shown)

\* child.wait(): the exit status decides.
Exit ==
    /\ pc = "wait"
    /\ pc' = "returned"
    /\ result' \in {C!Ok(path), C!Failed(Reason)}
    /\ UNCHANGED <<text, readers, loop>>

Reader(s) == Read(s) \/ Byte(s) \/ ReaderEnds(s)
Loop == LeaveLoop \/ \E s \in Streams : Take(s) \/ StreamEnds(s)
Call == Spawn \/ SpawnFails \/ Exit

Next == Call \/ Loop \/ \E s \in Streams : Reader(s)

\* The runtime schedules the readers and the loop; get_iplayer writes its output,
\* closes its streams and exits (nothing in the code bounds how long it takes).
Fairness == /\ \A s \in Streams : WF_vars(Reader(s))
            /\ WF_vars(Loop)
            /\ WF_vars(Call)

Spec == Init /\ [][Next]_vars /\ Fairness
-----------------------------------------------------------------------------
TypeOK ==
    /\ text \in Texts
    /\ {got, pos} \subseteq [Streams -> Nat]
    /\ \A s \in Streams : pos[s] <= got[s] /\ got[s] <= Len(text[s])
    /\ {gone, done} \subseteq [Streams -> BOOLEAN]
    /\ Len(tail) <= Kept
    /\ ticks \in Nat
    /\ pc \in {"spawn", "not spawned", "loop", "wait", "returned"}

ProgressLines(s) == C!Lines(text[s]) \ C!Plain(text[s])

\* Every progress line of either stream reaches on_progress once, and no line that
\* get_iplayer wrote is left unread when its exit status is looked at.
NothingUnread ==
    pc \in {"wait", "returned"} =>
        /\ \A s \in Streams : chan[s] = <<>>
        /\ ticks = Cardinality(ProgressLines("out")) + Cardinality(ProgressLines("err"))

Other(s) == IF s = "out" THEN "err" ELSE "out"

\* How many lines can reach the buffer after the one that starts at i, at most: those
\* after it on its own stream, and all of the other's.
Later(s, i) == Cardinality({j \in C!Plain(text[s]) : j > i}) + Cardinality(C!Plain(text[Other(s)]))

\* The lines that look like an error and that no interleaving pushes out of the buffer.
Telling == UNION {{C!Line(text[s], i) : i \in {j \in C!Plain(text[s]) :
                      LooksBad(C!Line(text[s], j)) /\ Later(s, j) < Kept}} : s \in Streams}

\* The shared buffer keeps what explains a failure: a line that looks like an error and
\* has fewer than Kept lines after it is shown, however much came before and whatever
\* the other stream writes; the licence advisory is then not shown (iplayer.rs:284); and
\* a process that printed anything but progress and advisories fails with some reason
\* (iplayer.rs:297).  Nothing is said of which lines the fall back shows, where the
\* advisory may be among them.
FailureExplained ==
    pc = "returned" /\ result.st = "failed" =>
        /\ Telling \subseteq result.why
        /\ Telling # {} => \A l \in result.why : ~ Contains(l, Licence)
        /\ (\E l \in C!PlainLines : ~ Contains(l, Licence)) => result.why # {}

\* The result is the one the worker relies on, however the output was cut and interleaved.
Contract == C!Contract

\* The attempt ends, when get_iplayer does.
Returns == C!Ends
=============================================================================
