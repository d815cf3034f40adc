--------------------------- MODULE AttemptContract ---------------------------
(***************************************************************************)
(* What the worker relies on when it awaits iplayer::download: the attempt *)
(* ends once; when get_iplayer succeeds the result is the last path its    *)
(* stdout names outside progress lines, and when it fails the reason is    *)
(* made of lines it printed that are no progress.                          *)
(* How the output was cut into chunks, and how its two streams were        *)
(* interleaved, makes no difference to the first.                          *)
(*                                                                         *)
(* A stream is a sequence of words and line ends.  A line is the sequence  *)
(* of words between two line ends; it is known by where it starts.         *)
(***************************************************************************)
EXTENDS Integers, Sequences, SequencesExt

CONSTANTS
    LineEnd,    \* \r or \n
    Blank,      \* white space
    Percent,    \* what marks a line as progress: a number with a %, ffmpeg statistics
    Info,       \* "INFO:"
    Recorded,   \* "Recorded"
    Media       \* words that end in .mp4, .m4a, ...

VARIABLES
    text,       \* all that get_iplayer writes, per stream: "out" and "err"
    result      \* what download returns; NoResult until then

Streams == {"out", "err"}

NoResult == [st |-> "none"]
Ok(path)     == [st |-> "ok", path |-> path]
\* why: the lines of the reason (their order is layout)
Failed(why)  == [st |-> "failed", why |-> why]

\* A line without the white space around it; <<>> when there is nothing else.
Trim(line) ==
    LET ink == {i \in DOMAIN line : line[i] # Blank}
    IN IF ink = {} THEN <<>> ELSE SubSeq(line, Min(ink), Max(ink))

\* A line starts where no line is under way and ends before the next line end.
Starts(t) == {i \in 1 .. Len(t) : t[i] # LineEnd /\ (i = 1 \/ t[i - 1] = LineEnd)}

LineAt(t, i, j) ==
    /\ j \in i .. Len(t)
    /\ \A k \in i .. j : t[k] # LineEnd
    /\ j = Len(t) \/ t[j + 1] = LineEnd

Line(t, i) == Trim(SubSeq(t, i, CHOOSE j \in i .. Len(t) : LineAt(t, i, j)))

\* The lines that are not blank, and of these the ones that are no progress.
Lines(t) == {i \in Starts(t) : Line(t, i) # <<>>}

IsProgress(line) == Contains(line, Percent)

Plain(t) == {i \in Lines(t) : ~ IsProgress(Line(t, i))}

\* (?:INFO:|Recorded)\s+(.+\.(?:mp4|...)): from after the first key word that a media
\* name follows up to the last media name; <<>> when there is none.
PathIn(line) ==
    LET Medias == {i \in DOMAIN line : line[i] \in Media}
        Keys   == {i \in DOMAIN line : line[i] \in {Info, Recorded}
                                          /\ \E m \in Medias : m > i}
    IN IF Keys = {} THEN <<>> ELSE SubSeq(line, Min(Keys) + 1, Max(Medias))

\* The path that the last of some lines of a stream names.
LastPathOf(t, lines) ==
    LET named == {i \in lines : PathIn(Line(t, i)) # <<>>}
    IN IF named = {} THEN <<>> ELSE PathIn(Line(t, Max(named)))

PlainLines == UNION {{Line(text[s], i) : i \in Plain(text[s])} : s \in Streams}

Init == result = NoResult

Succeed ==
    /\ result = NoResult
    /\ result' = Ok(LastPathOf(text["out"], Plain(text["out"])))

Fail == result = NoResult /\ \E why \in SUBSET PlainLines : result' = Failed(why)

Contract == Init /\ [][(Succeed \/ Fail) /\ UNCHANGED text]_<<text, result>>

Ends == <>(result # NoResult)
=============================================================================
