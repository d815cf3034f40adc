------------------------ MODULE DownloadAttemptProofs ------------------------
(***************************************************************************)
(* DownloadAttempt implements AttemptContract for every output of          *)
(* get_iplayer, every chunking and every interleaving of the two streams.  *)
(*                                                                         *)
(* The argument has no induction over the text: each reader owes the lines *)
(* that start up to Cut(s), the loop has taken those that start up to a    *)
(* mark m[s], and the channel holds exactly the ones between, in order.    *)
(***************************************************************************)
EXTENDS DownloadAttempt, TLAPS, FiniteSetTheorems, SequenceTheorems

\* Up to where the reader has cut its stream into lines; what follows is under way.
Cut(s) == pos[s] - Len(buf[s])

ReaderOK(s) ==
    /\ Len(buf[s]) <= pos[s]
    /\ buf[s] = SubSeq(text[s], Cut(s) + 1, pos[s])
    /\ \A i \in Cut(s) + 1 .. pos[s] : text[s][i] # LineEnd
    /\ ~ gone[s] => Cut(s) = 0 \/ text[s][Cut(s)] = LineEnd
    /\ gone[s] => pos[s] = Len(text[s]) /\ buf[s] = <<>>
    /\ done[s] => gone[s] /\ chan[s] = <<>>

LineSet(s) == {C!Line(text[s], i) : i \in C!Lines(text[s])}

\* What waits in a channel: the lines of a text that start after m and up to c, each
\* once, in order.  f says which line each of them is.
WaitsAs(queue, t, m, c, f) ==
    /\ \A i, j \in 1 .. Len(queue) : i < j => f[i] < f[j]
    /\ \A i \in 1 .. Len(queue) : queue[i] = C!Line(t, f[i]) /\ m < f[i] /\ f[i] <= c
    /\ \A l \in C!Lines(t) : m < l /\ l <= c => \E i \in 1 .. Len(queue) : f[i] = l

Waits(queue, t, m, c) ==
    \E f \in [1 .. Len(queue) -> C!Lines(t)] : WaitsAs(queue, t, m, c, f)

\* The lines of some set that start up to m, and how many.
UpTo(S, m) == {i \in S : i <= m}
Count(S, m) == Cardinality(UpTo(S, m))

PlainOf(s) == C!Plain(text[s])

\* What the loop has made of the lines up to the marks m.
PathOK(m)  == path = C!LastPathOf(text["out"], UpTo(PlainOf("out"), m["out"]))
TicksOK(m) == ticks = Count(ProgressLines("out"), m["out"])
                      + Count(ProgressLines("err"), m["err"])
Taken(m)   == Count(PlainOf("out"), m["out"]) + Count(PlainOf("err"), m["err"])

\* How many lines the loop has kept since the one of stream s that starts at i, at most;
\* and that a line is among the last n + 1 of a buffer.
Behind(s, i)   == {j \in PlainOf(s) : j > i}
Since(s, i, m) == Count(Behind(s, i), m[s]) + Count(PlainOf(Other(s)), m[Other(s)])
HeldIn(queue, line, n) == \E p \in 1 .. Len(queue) : queue[p] = line /\ Len(queue) - p <= n

TailOK(m) ==
    /\ Taken(m) > 0 => tail # <<>>
    /\ \A s \in Streams : \A i \in UpTo(PlainOf(s), m[s]) :
         Since(s, i, m) < Kept => HeldIn(tail, C!Line(text[s], i), Since(s, i, m))

Marks == [Streams -> Nat]

LoopOK(m) ==
    /\ \A s \in Streams : m[s] <= Cut(s) /\ Waits(chan[s], text[s], m[s], Cut(s))
    /\ PathOK(m) /\ TicksOK(m) /\ TailOK(m)

SeqsOK ==
    /\ buf \in [Streams -> Seq(Words)]
    /\ DOMAIN chan = Streams
    /\ \A s \in Streams : chan[s] \in Seq(LineSet(s))
    /\ tail \in Seq(C!PlainLines)

PhaseOK ==
    /\ pc \in {"wait", "returned"} => \A s \in Streams : done[s]
    /\ pc \in {"spawn", "loop", "wait"} => result = C!NoResult

IInv ==
    /\ TypeOK /\ SeqsOK /\ PhaseOK
    /\ \A s \in Streams : ReaderOK(s)
    /\ \E m \in Marks : LoopOK(m)
    /\ FailureExplained
-----------------------------------------------------------------------------
(* Lines of a text and counts of them.                                     *)

(* A line that starts at b and ends at p is what is between them, trimmed. *)
LEMMA CutLine ==
  ASSUME NEW t, Len(t) \in Nat, NEW b \in 1 .. Len(t), NEW p \in b .. Len(t), C!LineAt(t, b, p)
  PROVE  C!Line(t, b) = C!Trim(SubSeq(t, b, p))
<1>1. \A j \in b .. Len(t) : C!LineAt(t, b, j) => j = p
  BY DEF C!LineAt
<1>. QED
  BY <1>1 DEF C!Line

(* A mark that moves over one line adds this line, if it is one of S.      *)
LEMMA Moved ==
  ASSUME NEW S, IsFiniteSet(S), S \subseteq Nat, NEW m \in Nat, NEW k \in Nat, m < k,
         \A i \in S : m < i /\ i <= k => i = k
  PROVE  /\ UpTo(S, k) = IF k \in S THEN UpTo(S, m) \cup {k} ELSE UpTo(S, m)
         /\ UpTo(S, m) \subseteq Nat /\ \A i \in UpTo(S, m) : i < k
         /\ Count(S, m) \in Nat
         /\ Count(S, k) = IF k \in S THEN Count(S, m) + 1 ELSE Count(S, m)
<1>1. IsFiniteSet(UpTo(S, m))
  <2>1. UpTo(S, m) \subseteq S
    BY DEF UpTo
  <2>. QED
    BY <2>1, FS_Subset
<1>2. /\ UpTo(S, k) = IF k \in S THEN UpTo(S, m) \cup {k} ELSE UpTo(S, m)
      /\ UpTo(S, m) \subseteq Nat /\ \A i \in UpTo(S, m) : i < k
  <2>1. \A i \in S : i <= k <=> i <= m \/ i = k
    <3>. TAKE i \in S
    <3>1. i \in Nat
      OBVIOUS
    <3>. QED
      BY <3>1
  <2>2. \A i \in UpTo(S, m) : i \in Nat /\ i < k
    BY DEF UpTo
  <2>. QED
    BY <2>1, <2>2 DEF UpTo
<1>3. Count(S, m) \in Nat /\ k \notin UpTo(S, m)
  BY <1>1, <1>2, FS_CardinalityType DEF Count
<1>4. Cardinality(UpTo(S, m) \cup {k}) = Cardinality(UpTo(S, m)) + 1
  BY <1>1, <1>3, FS_AddElement
<1>. QED
  BY <1>2, <1>3, <1>4 DEF Count

LEMMA CountIsNat ==
  ASSUME NEW S, IsFiniteSet(S), NEW m
  PROVE  /\ Count(S, m) \in Nat
         /\ Count(S, m) = 0 <=> UpTo(S, m) = {}
<1>1. IsFiniteSet(UpTo(S, m))
  <2>1. UpTo(S, m) \subseteq S
    BY DEF UpTo
  <2>. QED
    BY <2>1, FS_Subset
<1>. QED
  BY <1>1, FS_CardinalityType, FS_EmptySet DEF Count

(* A line after all others decides about the path, if it names one.        *)
LEMMA PathMoved ==
  ASSUME NEW t, NEW X, X \subseteq Nat, NEW k \in Nat, \A i \in X : i < k
  PROVE  C!LastPathOf(t, X \cup {k}) =
           IF C!PathIn(C!Line(t, k)) # <<>> THEN C!PathIn(C!Line(t, k)) ELSE C!LastPathOf(t, X)
<1>. DEFINE Named(Y) == {i \in Y : C!PathIn(C!Line(t, i)) # <<>>}
<1>1. CASE C!PathIn(C!Line(t, k)) = <<>>
  <2>1. Named(X \cup {k}) = Named(X)
    BY <1>1
  <2>. QED
    BY <1>1, <2>1 DEF C!LastPathOf
<1>2. CASE C!PathIn(C!Line(t, k)) # <<>>
  <2>1. k \in Named(X \cup {k})
    BY <1>2
  <2>2. \A i \in Named(X \cup {k}) : i \in Nat /\ k >= i
    OBVIOUS
  <2>3. C!Max(Named(X \cup {k})) = k
    <3>. HIDE DEF Named
    <3>. QED
      BY <2>1, <2>2 DEF C!Max
  <2>. QED
    BY <1>2, <2>1, <2>3 DEF C!LastPathOf
<1>. QED
  BY <1>1, <1>2

(* The kinds of lines of a stream.                                         *)
LEMMA KindsOfLines ==
  ASSUME TypeOK, NEW s \in Streams
  PROVE  /\ text[s] \in Seq(Words) /\ Len(text[s]) \in Nat
         /\ C!Lines(text[s]) \subseteq 1 .. Len(text[s])
         /\ IsFiniteSet(C!Lines(text[s]))
         /\ IsFiniteSet(PlainOf(s)) /\ IsFiniteSet(ProgressLines(s))
         /\ PlainOf(s) \subseteq C!Lines(text[s])
         /\ ProgressLines(s) = C!Lines(text[s]) \ PlainOf(s)
         /\ \A i \in C!Lines(text[s]) :
               i \in PlainOf(s) <=> ~ C!IsProgress(C!Line(text[s], i))
         /\ {l \in LineSet(s) : ~ C!IsProgress(l)} \subseteq C!PlainLines
<1>1. text[s] \in Seq(Words)
  BY TextsAssumption DEF TypeOK, Streams, C!Streams
<1>2. /\ C!Lines(text[s]) \subseteq 1 .. Len(text[s])
      /\ PlainOf(s) \subseteq C!Lines(text[s])
      /\ ProgressLines(s) \subseteq C!Lines(text[s])
  BY <1>1 DEF C!Lines, C!Starts, C!Plain, PlainOf, ProgressLines
<1>3. IsFiniteSet(1 .. Len(text[s]))
  BY <1>1, FS_Interval
<1>4. IsFiniteSet(C!Lines(text[s]))
  BY <1>2, <1>3, FS_Subset
<1>5. IsFiniteSet(PlainOf(s)) /\ IsFiniteSet(ProgressLines(s))
  BY <1>2, <1>4, FS_Subset
<1>6. /\ ProgressLines(s) = C!Lines(text[s]) \ PlainOf(s)
      /\ \A i \in C!Lines(text[s]) : i \in PlainOf(s) <=> ~ C!IsProgress(C!Line(text[s], i))
  BY DEF C!Plain, PlainOf, ProgressLines
<1>7. {l \in LineSet(s) : ~ C!IsProgress(l)} \subseteq C!PlainLines
  BY DEF LineSet, C!Plain, C!PlainLines, Streams
<1>. QED
  BY <1>1, <1>2, <1>4, <1>5, <1>6, <1>7
-----------------------------------------------------------------------------
(* The reader.                                                             *)

LEMMA PieceFree ==
  ASSUME NEW t, NEW c \in Nat, NEW p \in Nat,
         \A i \in c + 1 .. p : t[i] # LineEnd, t[p + 1] # LineEnd
  PROVE  \A i \in c + 1 .. p + 1 : t[i] # LineEnd
<1>. TAKE i \in c + 1 .. p + 1
<1>1. i = p + 1 \/ i \in c + 1 .. p
  OBVIOUS
<1>. QED
  BY <1>1

LEMMA PieceGrows ==
  ASSUME NEW S, NEW t \in Seq(S), NEW c \in Nat, NEW p \in Nat, c <= p, p < Len(t)
  PROVE  Append(SubSeq(t, c + 1, p), t[p + 1]) = SubSeq(t, c + 1, p + 1)
<1>1. c + 1 \in 1 .. Len(t) /\ p + 1 \in c + 1 .. Len(t)
  OBVIOUS
<1>2. SubSeq(t, c + 1, p + 1) = SubSeq(t, c + 1, (p + 1) - 1) \o <<t[p + 1]>>
  BY <1>1, SubSeqRecursiveSecond
<1>3. (p + 1) - 1 = p /\ t[p + 1] \in S
  BY <1>1
<1>4. SubSeq(t, c + 1, p) \in Seq(S)
  OBVIOUS
<1>. QED
  BY <1>2, <1>3, <1>4, AppendIsConcat

(* How far a reader is.                                                    *)
LEMMA CutType ==
  ASSUME TypeOK, SeqsOK, NEW s \in Streams, ReaderOK(s)
  PROVE  /\ pos[s] \in Nat /\ got[s] \in Nat /\ pos[s] <= got[s] /\ got[s] <= Len(text[s])
         /\ buf[s] \in Seq(Words) /\ chan[s] \in Seq(LineSet(s))
         /\ Cut(s) \in Nat /\ Cut(s) <= pos[s]
<1>1. pos \in [Streams -> Nat] /\ got \in [Streams -> Nat]
  BY DEF TypeOK
<1>2. pos[s] <= got[s] /\ got[s] <= Len(text[s])
  BY DEF TypeOK
<1>3. buf[s] \in Seq(Words) /\ chan[s] \in Seq(LineSet(s))
  BY DEF SeqsOK
<1>4. Len(buf[s]) <= pos[s]
  BY DEF ReaderOK
<1>. QED
  BY <1>1, <1>2, <1>3, <1>4 DEF Cut

LEMMA Trimmed == C!Trim(<<>>) = <<>>
  BY DEF C!Trim

(* The line under way, when the stream ends or the next byte is a line end: *)
(* it is the only line that starts after the cut, and it is what is sent.   *)
LEMMA UnderWay ==
  ASSUME TypeOK, SeqsOK, NEW s \in Streams, ReaderOK(s), ~ gone[s],
         NEW c \in Nat, c <= Len(text[s]),
         \/ c = pos[s] /\ pos[s] = Len(text[s])
         \/ c = pos[s] + 1 /\ text[s][c] = LineEnd
  PROVE  /\ Sent(buf[s]) = <<>> =>
               \A l \in C!Lines(text[s]) : ~ (Cut(s) < l /\ l <= c)
         /\ Sent(buf[s]) # <<>> =>
               /\ Sent(buf[s]) = <<C!Line(text[s], Cut(s) + 1)>>
               /\ Cut(s) + 1 \in C!Lines(text[s]) /\ Cut(s) + 1 <= c
               /\ \A l \in C!Lines(text[s]) : Cut(s) < l /\ l <= c => l = Cut(s) + 1
<1>. DEFINE t == text[s]
            b == Cut(s) + 1
<1>1. /\ t \in Seq(Words) /\ Len(t) \in Nat /\ pos[s] \in Nat /\ pos[s] <= Len(t)
      /\ buf[s] \in Seq(Words) /\ Len(buf[s]) \in Nat
      /\ Cut(s) \in Nat /\ Cut(s) <= pos[s]
  <2>1. t \in Seq(Words) /\ Len(t) \in Nat
    BY KindsOfLines
  <2>. QED
    BY <2>1, CutType
<1>2. /\ \A i \in b .. pos[s] : t[i] # LineEnd
      /\ Cut(s) = 0 \/ t[Cut(s)] = LineEnd
      /\ buf[s] = SubSeq(t, b, pos[s])
  BY DEF ReaderOK
<1>3. \A l \in C!Starts(t) : Cut(s) < l /\ l <= c => l = b /\ b <= pos[s]
  <2>. SUFFICES ASSUME NEW l \in C!Starts(t), Cut(s) < l, l <= c
                PROVE  l = b /\ b <= pos[s]
    OBVIOUS
  <2>1. l \in Nat /\ l \in 1 .. Len(t) /\ t[l] # LineEnd /\ (l = 1 \/ t[l - 1] = LineEnd)
    BY <1>1 DEF C!Starts
  <2>2. l <= pos[s]
    BY <1>1, <2>1
  <2>3. ~ (b <= l - 1)
    <3>. SUFFICES ASSUME b <= l - 1 PROVE FALSE
      OBVIOUS
    <3>1. l - 1 \in b .. pos[s] /\ l # 1
      BY <1>1, <2>1, <2>2
    <3>2. t[l - 1] # LineEnd
      BY <1>2, <3>1
    <3>. QED
      BY <2>1, <3>1, <3>2
  <2>. QED
    BY <1>1, <2>1, <2>2, <2>3
<1>4. CASE buf[s] = <<>>
  <2>1. b = pos[s] + 1
    BY <1>1, <1>4 DEF Cut
  <2>2. Sent(buf[s]) = <<>>
    BY <1>4, Trimmed DEF Sent
  <2>. QED
    BY <1>1, <1>3, <2>1, <2>2 DEF C!Lines
<1>5. CASE buf[s] # <<>>
  <2>1. b \in 1 .. Len(t) /\ pos[s] \in b .. Len(t) /\ b <= c
    BY <1>1, <1>5 DEF Cut
  <2>2. b \in C!Starts(t)
    BY <1>1, <1>2, <2>1 DEF C!Starts
  <2>3. C!LineAt(t, b, pos[s])
    BY <1>1, <1>2, <2>1 DEF C!LineAt
  <2>4. C!Line(t, b) = C!Trim(buf[s])
    BY <1>1, <1>2, <2>1, <2>3, CutLine
  <2>5. Sent(buf[s]) = IF C!Line(t, b) = <<>> THEN <<>> ELSE <<C!Line(t, b)>>
    BY <2>4 DEF Sent
  <2>6. b \in C!Lines(t) <=> C!Line(t, b) # <<>>
    BY <2>2 DEF C!Lines
  <2>7. \A l \in C!Lines(t) : Cut(s) < l /\ l <= c => l = b
    BY <1>3 DEF C!Lines
  <2>. QED
    BY <2>1, <2>5, <2>6, <2>7
<1>. QED
  BY <1>4, <1>5

-----------------------------------------------------------------------------
(* The channel.                                                            *)

(* The next line is cut and sent.                                          *)
LEMMA OneMore ==
  ASSUME NEW t, C!Lines(t) \subseteq Nat, NEW S, NEW queue \in Seq(S),
         NEW m \in Nat, NEW c \in Nat, NEW b \in C!Lines(t), NEW d \in Nat,
         m <= c, c < b, b <= d, \A l \in C!Lines(t) : c < l /\ l <= d => l = b,
         C!Line(t, b) \in S, Waits(queue, t, m, c)
  PROVE  Waits(Append(queue, C!Line(t, b)), t, m, d)
<1>. DEFINE n == Len(queue)
            longer == Append(queue, C!Line(t, b))
<1>1. PICK f \in [1 .. n -> C!Lines(t)] : WaitsAs(queue, t, m, c, f)
  BY DEF Waits
<1>. DEFINE g == [i \in 1 .. n + 1 |-> IF i <= n THEN f[i] ELSE b]
<1>2. /\ n \in Nat /\ Len(longer) = n + 1
      /\ \A i \in 1 .. n : longer[i] = queue[i]
      /\ longer[n + 1] = C!Line(t, b)
  OBVIOUS
<1>3. g \in [1 .. n + 1 -> C!Lines(t)]
  BY <1>2
<1>4. \A i \in 1 .. n : g[i] = f[i] /\ f[i] \in Nat
  BY <1>2
<1>5. g[n + 1] = b
  BY <1>2
<1>. HIDE DEF g
<1>6. \A i \in 1 .. n : queue[i] = C!Line(t, f[i]) /\ m < f[i] /\ f[i] <= c
  BY <1>1 DEF WaitsAs
<1>7. \A i, j \in 1 .. n + 1 : i < j => g[i] < g[j]
  <2>. SUFFICES ASSUME NEW i \in 1 .. n + 1, NEW j \in 1 .. n + 1, i < j
                PROVE  g[i] < g[j]
    OBVIOUS
  <2>1. CASE j = n + 1
    BY <1>2, <1>4, <1>5, <1>6, <2>1
  <2>2. CASE j # n + 1
    <3>1. i \in 1 .. n /\ j \in 1 .. n
      BY <1>2, <2>2
    <3>2. f[i] < f[j]
      BY <1>1, <3>1 DEF WaitsAs
    <3>. QED
      BY <1>4, <3>1, <3>2
  <2>. QED
    BY <2>1, <2>2
<1>8. \A i \in 1 .. n + 1 : longer[i] = C!Line(t, g[i]) /\ m < g[i] /\ g[i] <= d
  <2>. SUFFICES ASSUME NEW i \in 1 .. n + 1
                PROVE  longer[i] = C!Line(t, g[i]) /\ m < g[i] /\ g[i] <= d
    OBVIOUS
  <2>1. CASE i = n + 1
    BY <1>2, <1>5, <2>1
  <2>2. CASE i # n + 1
    <3>1. i \in 1 .. n
      BY <1>2, <2>2
    <3>. QED
      BY <1>2, <1>4, <1>6, <3>1
  <2>. QED
    BY <2>1, <2>2
<1>9. ASSUME NEW l \in C!Lines(t), m < l, l <= d
      PROVE  \E i \in 1 .. n + 1 : g[i] = l
  <2>1. CASE l <= c
    <3>1. PICK i \in 1 .. n : f[i] = l
      BY <1>1, <1>9, <2>1 DEF WaitsAs
    <3>. QED
      BY <1>2, <1>4, <3>1
  <2>2. CASE ~ (l <= c)
    BY <1>2, <1>5, <1>9, <2>2
  <2>. QED
    BY <2>1, <2>2
<1>10. WaitsAs(longer, t, m, d, g)
  BY <1>2, <1>7, <1>8, <1>9 DEF WaitsAs
<1>. QED
  BY <1>2, <1>3, <1>10 DEF Waits

(* The reader goes on, and no line is cut.                                 *)
LEMMA NoneMore ==
  ASSUME NEW t, C!Lines(t) \subseteq Nat, NEW queue, NEW m \in Nat, NEW c \in Nat, NEW d \in Nat,
         c <= d, \A l \in C!Lines(t) : ~ (c < l /\ l <= d), Waits(queue, t, m, c)
  PROVE  Waits(queue, t, m, d)
<1>1. PICK f \in [1 .. Len(queue) -> C!Lines(t)] : WaitsAs(queue, t, m, c, f)
  BY DEF Waits
<1>2. \A i \in 1 .. Len(queue) : f[i] \in Nat
  OBVIOUS
<1>3. WaitsAs(queue, t, m, d, f)
  BY <1>1, <1>2 DEF WaitsAs
<1>. QED
  BY <1>3 DEF Waits

(* What is sent is what is cut.                                            *)
LEMMA Sends ==
  ASSUME TypeOK, SeqsOK, NEW s \in Streams, ReaderOK(s), ~ gone[s],
         NEW d \in Nat, d <= Len(text[s]),
         \/ d = pos[s] /\ pos[s] = Len(text[s])
         \/ d = pos[s] + 1 /\ text[s][d] = LineEnd,
         NEW m \in Nat, m <= Cut(s), Waits(chan[s], text[s], m, Cut(s))
  PROVE  /\ m <= d /\ Waits(chan[s] \o Sent(buf[s]), text[s], m, d)
         /\ chan[s] \o Sent(buf[s]) \in Seq(LineSet(s))
<1>1. /\ chan[s] \in Seq(LineSet(s))
      /\ Cut(s) \in Nat /\ Cut(s) <= pos[s] /\ pos[s] \in Nat /\ Cut(s) <= d
  BY CutType
<1>2. C!Lines(text[s]) \subseteq Nat
  <2>1. C!Lines(text[s]) \subseteq 1 .. Len(text[s]) /\ Len(text[s]) \in Nat
    BY KindsOfLines
  <2>. QED
    BY <2>1
<1>3. CASE Sent(buf[s]) = <<>>
  <2>1. chan[s] \o Sent(buf[s]) = chan[s]
    BY <1>1, <1>3
  <2>2. \A l \in C!Lines(text[s]) : ~ (Cut(s) < l /\ l <= d)
    BY <1>3, UnderWay
  <2>. QED
    BY <1>1, <1>2, <2>1, <2>2, NoneMore
<1>4. CASE Sent(buf[s]) # <<>>
  <2>. DEFINE b == Cut(s) + 1
  <2>1. /\ Sent(buf[s]) = <<C!Line(text[s], b)>>
        /\ b \in C!Lines(text[s]) /\ b <= d
        /\ \A l \in C!Lines(text[s]) : Cut(s) < l /\ l <= d => l = b
    BY <1>4, UnderWay
  <2>2. C!Line(text[s], b) \in LineSet(s)
    BY <2>1 DEF LineSet
  <2>3. chan[s] \o Sent(buf[s]) = Append(chan[s], C!Line(text[s], b))
    BY <1>1, <2>1, <2>2
  <2>4. Cut(s) < b
    BY <1>1
  <2>5. Waits(Append(chan[s], C!Line(text[s], b)), text[s], m, d)
    <3>. HIDE DEF b
    <3>. QED
      BY <1>1, <1>2, <2>1, <2>2, <2>4, OneMore
  <2>. QED
    BY <1>1, <2>2, <2>3, <2>5
<1>. QED
  BY <1>3, <1>4

(* The first line that waits is taken.                                     *)
LEMMA OneLess ==
  ASSUME NEW t, C!Lines(t) \subseteq Nat, NEW S, NEW queue \in Seq(S), queue # <<>>,
         NEW m \in Nat, NEW c \in Nat, m <= c, Waits(queue, t, m, c)
  PROVE  \E k \in C!Lines(t) : /\ m < k /\ k <= c
                              /\ Head(queue) = C!Line(t, k)
                              /\ \A l \in C!Lines(t) : m < l /\ l <= k => l = k
                              /\ Waits(Tail(queue), t, k, c)
<1>. DEFINE n == Len(queue)
            rest == Tail(queue)
<1>1. PICK f \in [1 .. n -> C!Lines(t)] : WaitsAs(queue, t, m, c, f)
  BY DEF Waits
<1>. DEFINE g == [i \in 1 .. n - 1 |-> f[i + 1]]
            k == f[1]
<1>2. /\ n \in Nat \ {0} /\ Len(rest) = n - 1 /\ Head(queue) = queue[1]
      /\ \A i \in 1 .. n - 1 : rest[i] = queue[i + 1]
  OBVIOUS
<1>3. /\ \A i \in 1 .. n - 1 : i + 1 \in 1 .. n /\ 1 < i + 1
      /\ 1 \in 1 .. n
  BY <1>2
<1>4. g \in [1 .. n - 1 -> C!Lines(t)]
  BY <1>3
<1>5. \A i \in 1 .. n - 1 : g[i] = f[i + 1]
  OBVIOUS
<1>6. \A i \in 1 .. n : f[i] \in Nat /\ f[i] \in C!Lines(t)
  OBVIOUS
<1>. HIDE DEF g
<1>7. /\ \A i \in 1 .. n : queue[i] = C!Line(t, f[i]) /\ m < f[i] /\ f[i] <= c
      /\ \A i, j \in 1 .. n : i < j => f[i] < f[j]
      /\ \A l \in C!Lines(t) : m < l /\ l <= c => \E i \in 1 .. n : f[i] = l
  BY <1>1 DEF WaitsAs
<1>8. k \in C!Lines(t) /\ k \in Nat /\ m < k /\ k <= c /\ Head(queue) = C!Line(t, k)
  BY <1>2, <1>3, <1>6, <1>7
<1>9. \A i \in 1 .. n : i = 1 \/ (i - 1 \in 1 .. n - 1 /\ g[i - 1] = f[i] /\ k < f[i])
  BY <1>2, <1>3, <1>5, <1>7
<1>. HIDE DEF k
<1>10. \A l \in C!Lines(t) : m < l /\ l <= k => l = k
  <2>. SUFFICES ASSUME NEW l \in C!Lines(t), m < l, l <= k PROVE l = k
    OBVIOUS
  <2>1. PICK i \in 1 .. n : f[i] = l
    BY <1>7, <1>8
  <2>. QED
    BY <1>6, <1>8, <1>9, <2>1 DEF k
<1>11. \A i, j \in 1 .. n - 1 : i < j => g[i] < g[j]
  BY <1>2, <1>3, <1>5, <1>7
<1>12. \A i \in 1 .. n - 1 : rest[i] = C!Line(t, g[i]) /\ k < g[i] /\ g[i] <= c
  BY <1>2, <1>3, <1>5, <1>7 DEF k
<1>13. ASSUME NEW l \in C!Lines(t), k < l, l <= c
       PROVE  \E i \in 1 .. n - 1 : g[i] = l
  <2>1. PICK i \in 1 .. n : f[i] = l
    BY <1>7, <1>8, <1>13
  <2>. QED
    BY <1>8, <1>9, <1>13, <2>1 DEF k
<1>14. WaitsAs(rest, t, k, c, g)
  BY <1>2, <1>11, <1>12, <1>13 DEF WaitsAs
<1>15. Waits(rest, t, k, c)
  BY <1>2, <1>4, <1>14 DEF Waits
<1>. QED
  BY <1>8, <1>10, <1>15
-----------------------------------------------------------------------------
(* The inductive invariant.                                                *)

LEMMA InitIInv == Init => IInv
<1>. SUFFICES ASSUME Init PROVE IInv
  OBVIOUS
<1>1. TypeOK
  BY TextsAssumption, KeptAssumption DEF Init, TypeOK, Streams, C!Streams
<1>2. SeqsOK
  BY DEF Init, SeqsOK
<1>3. PhaseOK /\ FailureExplained
  BY DEF Init, PhaseOK, FailureExplained
<1>4. ASSUME NEW s \in Streams PROVE ReaderOK(s)
  BY <1>1, KindsOfLines DEF Init, ReaderOK, Cut
<1>. DEFINE m == [s \in Streams |-> 0]
<1>5. m \in Marks
  BY DEF Marks
<1>6. ASSUME NEW s \in Streams
      PROVE  m[s] <= Cut(s) /\ Waits(chan[s], text[s], m[s], Cut(s))
  <2>1. Cut(s) = 0 /\ chan[s] = <<>> /\ m[s] = 0
    BY DEF Init, Cut
  <2>2. C!Lines(text[s]) \subseteq Nat
    BY <1>1, KindsOfLines
  <2>3. << >> \in [1 .. 0 -> C!Lines(text[s])] /\ Len(<< >>) = 0
    OBVIOUS
  <2>4. WaitsAs(<< >>, text[s], 0, 0, << >>)
    BY <2>2, <2>3 DEF WaitsAs
  <2>5. Waits(<< >>, text[s], 0, 0)
    BY <2>3, <2>4 DEF Waits
  <2>6. m[s] = 0
    OBVIOUS
  <2>. HIDE DEF m
  <2>. QED
    BY <2>1, <2>5, <2>6
<1>7. ASSUME NEW s \in Streams
      PROVE  /\ UpTo(PlainOf(s), 0) = {} /\ UpTo(ProgressLines(s), 0) = {}
             /\ Count(PlainOf(s), 0) = 0 /\ Count(ProgressLines(s), 0) = 0
  <2>1. /\ PlainOf(s) \subseteq 1 .. Len(text[s]) /\ ProgressLines(s) \subseteq 1 .. Len(text[s])
        /\ Len(text[s]) \in Nat
    BY <1>1, KindsOfLines
  <2>2. UpTo(PlainOf(s), 0) = {} /\ UpTo(ProgressLines(s), 0) = {}
    BY <2>1 DEF UpTo
  <2>. QED
    BY <2>2, FS_EmptySet DEF Count
<1>8. PathOK(m) /\ TicksOK(m) /\ TailOK(m)
  <2>1. path = <<>> /\ ticks = 0 /\ tail = <<>> /\ Len(<<>>) = 0
    BY DEF Init
  <2>2. C!LastPathOf(text["out"], {}) = <<>>
    BY DEF C!LastPathOf
  <2>3. \A s \in Streams : m[s] = 0
    OBVIOUS
  <2>4. "out" \in Streams /\ "err" \in Streams
    BY DEF Streams, C!Streams
  <2>. HIDE DEF m
  <2>5. Taken(m) = 0
    BY <1>7, <2>3, <2>4 DEF Taken
  <2>6. PathOK(m) /\ TicksOK(m)
    <3>1. UpTo(PlainOf("out"), m["out"]) = {}
      BY <1>7, <2>3, <2>4
    <3>2. Count(ProgressLines("out"), m["out"]) = 0 /\ Count(ProgressLines("err"), m["err"]) = 0
      BY <1>7, <2>3, <2>4
    <3>3. PathOK(m)
      BY <2>1, <2>2, <3>1 DEF PathOK
    <3>4. TicksOK(m)
      BY <2>1, <3>2 DEF TicksOK
    <3>. QED
      BY <3>3, <3>4
  <2>7. \A s \in Streams : UpTo(PlainOf(s), m[s]) = {}
    BY <1>7, <2>3
  <2>. QED
    BY <2>1, <2>5, <2>6, <2>7 DEF TailOK
<1>. HIDE DEF m
<1>. QED
  BY <1>1, <1>2, <1>3, <1>4, <1>5, <1>6, <1>8 DEF IInv, LoopOK

(* Where the text stays, so do its lines.                                  *)
LEMMA SameLines ==
  ASSUME UNCHANGED text
  PROVE  /\ \A s \in Streams : /\ LineSet(s)' = LineSet(s) /\ PlainOf(s)' = PlainOf(s)
                               /\ ProgressLines(s)' = ProgressLines(s)
         /\ C!PlainLines' = C!PlainLines /\ Telling' = Telling
  BY DEF LineSet, PlainOf, ProgressLines, C!PlainLines, Telling, Later, LooksBad

(* A step of a reader or of the end of a stream leaves to the loop what it *)
(* has made of the lines it took.                                          *)
LEMMA LoopKept ==
  ASSUME NEW m \in Marks, LoopOK(m), UNCHANGED <<text, path, tail, ticks>>,
         \A s \in Streams : m[s] <= Cut(s)' /\ Waits(chan'[s], text[s], m[s], Cut(s)')
  PROVE  LoopOK(m)'
<1>1. PathOK(m)' /\ TicksOK(m)' /\ TailOK(m)'
  BY DEF LoopOK, PathOK, TicksOK, TailOK, Taken, Since, Behind, PlainOf, ProgressLines
<1>2. \A s \in Streams : m[s] <= Cut(s)' /\ Waits(chan'[s], text'[s], m[s], Cut(s)')
  OBVIOUS
<1>. QED
  BY <1>1, <1>2 DEF LoopOK

(* The readers.                                                            *)
LEMMA ReadIInv == ASSUME IInv, NEW s \in Streams, Read(s) PROVE IInv'
<1>1. TypeOK /\ SeqsOK /\ PhaseOK /\ \A o \in Streams : ReaderOK(o)
  BY DEF IInv
<1>2. UNCHANGED <<text, pos, buf, chan, gone, done, path, tail, ticks, pc, result>>
  BY DEF Read, loop
<1>3. TypeOK'
  <2>1. PICK n \in 1 .. Len(text[s]) - got[s] : got' = [got EXCEPT ![s] = @ + n]
    BY DEF Read
  <2>2. got \in [Streams -> Nat] /\ pos[s] <= got[s] /\ got[s] <= Len(text[s])
    BY <1>1 DEF TypeOK
  <2>3. Len(text[s]) \in Nat /\ pos[s] \in Nat
    BY <1>1, KindsOfLines, CutType
  <2>4. /\ got' \in [Streams -> Nat]
        /\ pos[s] <= got'[s] /\ got'[s] <= Len(text[s])
        /\ \A o \in Streams \ {s} : got'[o] = got[o]
    BY <2>1, <2>2, <2>3
  <2>. QED
    BY <1>1, <1>2, <2>4 DEF TypeOK
<1>4. SeqsOK' /\ PhaseOK' /\ FailureExplained'
  BY <1>1, <1>2, SameLines DEF SeqsOK, PhaseOK, FailureExplained, Read, Running
<1>5. \A o \in Streams : ReaderOK(o)' /\ Cut(o)' = Cut(o)
  BY <1>1, <1>2 DEF ReaderOK, Cut
<1>6. PICK m \in Marks : LoopOK(m)
  BY DEF IInv
<1>7. LoopOK(m)'
  <2>1. \A o \in Streams : m[o] <= Cut(o) /\ Waits(chan[o], text[o], m[o], Cut(o))
    BY <1>6 DEF LoopOK
  <2>2. \A o \in Streams : m[o] <= Cut(o)' /\ Waits(chan'[o], text[o], m[o], Cut(o)')
    BY <1>2, <1>5, <2>1
  <2>. QED
    BY <1>2, <1>6, <2>2, LoopKept
<1>. QED
  BY <1>3, <1>4, <1>5, <1>6, <1>7 DEF IInv, Marks

(* What the step of one reader leaves alone.                               *)
LEMMA OtherReaders ==
  ASSUME \A o \in Streams : ReaderOK(o), NEW s \in Streams,
         UNCHANGED <<text, done>>,
         \A o \in Streams \ {s} : /\ pos'[o] = pos[o] /\ buf'[o] = buf[o]
                                  /\ chan'[o] = chan[o] /\ gone'[o] = gone[o]
  PROVE  \A o \in Streams \ {s} : ReaderOK(o)' /\ Cut(o)' = Cut(o)
  BY DEF ReaderOK, Cut

LEMMA ByteIInv == ASSUME IInv, NEW s \in Streams, Byte(s) PROVE IInv'
<1>. DEFINE b == text[s][pos[s] + 1]
<1>1. TypeOK /\ SeqsOK /\ PhaseOK /\ \A o \in Streams : ReaderOK(o)
  BY DEF IInv
<1>2. /\ pos[s] \in Nat /\ got[s] \in Nat /\ pos[s] <= got[s] /\ got[s] <= Len(text[s])
      /\ buf[s] \in Seq(Words) /\ chan[s] \in Seq(LineSet(s))
      /\ Cut(s) \in Nat /\ Cut(s) <= pos[s]
      /\ text[s] \in Seq(Words) /\ Len(text[s]) \in Nat
  BY <1>1, CutType, KindsOfLines
<1>3. /\ UNCHANGED <<text, got, gone, done, path, tail, ticks, pc, result>>
      /\ Running /\ pos[s] < got[s] /\ pos' = [pos EXCEPT ![s] = @ + 1]
  BY DEF Byte, loop
<1>4. ~ gone[s] /\ pos[s] + 1 <= Len(text[s]) /\ b \in Words /\ ~ done[s]
  BY <1>1, <1>2, <1>3 DEF ReaderOK
<1>5. /\ pos \in [Streams -> Nat] /\ buf \in [Streams -> Seq(Words)]
      /\ DOMAIN chan = Streams
  BY <1>1 DEF TypeOK, SeqsOK
<1>6. /\ pos'[s] = pos[s] + 1 /\ pos' \in [Streams -> Nat]
      /\ \A o \in Streams \ {s} : pos'[o] = pos[o]
  BY <1>3, <1>5
<1>7. TypeOK'
  <2>1. \A o \in Streams : pos[o] <= got[o]
    BY <1>1 DEF TypeOK
  <2>2. pos'[s] <= got[s]
    BY <1>2, <1>3, <1>6
  <2>3. \A o \in Streams : pos'[o] <= got[o]
    BY <1>6, <2>1, <2>2
  <2>. QED
    BY <1>1, <1>3, <1>6, <2>3 DEF TypeOK
<1>8. PhaseOK' /\ FailureExplained'
  BY <1>1, <1>3 DEF PhaseOK, FailureExplained, Running
<1>9. PICK m \in Marks : LoopOK(m)
  BY DEF IInv
<1>10. /\ m[s] \in Nat
       /\ \A o \in Streams : m[o] <= Cut(o) /\ Waits(chan[o], text[o], m[o], Cut(o))
  BY <1>9 DEF LoopOK, Marks
<1>11. SUFFICES /\ buf' \in [Streams -> Seq(Words)] /\ DOMAIN chan' = Streams
                /\ \A o \in Streams \ {s} : buf'[o] = buf[o] /\ chan'[o] = chan[o]
                /\ chan'[s] \in Seq(LineSet(s))
                /\ ReaderOK(s)'
                /\ m[s] <= Cut(s)' /\ Waits(chan'[s], text[s], m[s], Cut(s)')
  <2>1. \A o \in Streams \ {s} : ReaderOK(o)' /\ Cut(o)' = Cut(o)
    BY <1>1, <1>3, <1>6, <1>11, OtherReaders
  <2>2. SeqsOK'
    BY <1>1, <1>3, <1>11, SameLines DEF SeqsOK
  <2>3. \A o \in Streams : m[o] <= Cut(o)' /\ Waits(chan'[o], text[o], m[o], Cut(o)')
    BY <1>10, <1>11, <2>1
  <2>4. LoopOK(m)'
    BY <1>3, <1>9, <2>3, LoopKept
  <2>5. \A o \in Streams : ReaderOK(o)'
    BY <1>11, <2>1
  <2>. QED
    BY <1>7, <1>8, <1>9, <2>2, <2>4, <2>5 DEF IInv, Marks
<1>12. CASE b = LineEnd
  <2>1. chan' = [chan EXCEPT ![s] = @ \o Sent(buf[s])] /\ buf' = [buf EXCEPT ![s] = <<>>]
    BY <1>12 DEF Byte
  <2>2. /\ buf' \in [Streams -> Seq(Words)] /\ DOMAIN chan' = Streams
        /\ \A o \in Streams \ {s} : buf'[o] = buf[o] /\ chan'[o] = chan[o]
        /\ buf'[s] = <<>> /\ chan'[s] = chan[s] \o Sent(buf[s])
    BY <1>5, <2>1
  <2>3. Cut(s)' = pos[s] + 1
    BY <1>2, <1>6, <2>2 DEF Cut
  <2>4. /\ m[s] <= pos[s] + 1 /\ Waits(chan[s] \o Sent(buf[s]), text[s], m[s], pos[s] + 1)
        /\ chan[s] \o Sent(buf[s]) \in Seq(LineSet(s))
    <3>1. pos[s] + 1 \in Nat
      BY <1>2
    <3>. QED
      BY <1>1, <1>4, <1>10, <1>12, <3>1, Sends
  <2>5. ReaderOK(s)'
    <3>1. SubSeq(text[s], pos[s] + 2, pos[s] + 1) = <<>>
      BY <1>2
    <3>. QED
      BY <1>2, <1>3, <1>4, <1>6, <1>12, <2>2, <2>3, <3>1 DEF ReaderOK
  <2>. QED
    BY <2>2, <2>3, <2>4, <2>5
<1>13. CASE b # LineEnd
  <2>1. chan' = chan /\ buf' = [buf EXCEPT ![s] = Append(@, b)]
    BY <1>13 DEF Byte
  <2>2. /\ buf' \in [Streams -> Seq(Words)] /\ DOMAIN chan' = Streams
        /\ \A o \in Streams \ {s} : buf'[o] = buf[o] /\ chan'[o] = chan[o]
        /\ buf'[s] = Append(buf[s], b) /\ Len(buf'[s]) = Len(buf[s]) + 1
    BY <1>2, <1>4, <1>5, <2>1
  <2>3. Cut(s)' = Cut(s)
    BY <1>2, <1>6, <2>2 DEF Cut
  <2>4. ReaderOK(s)'
    <3>1. /\ buf[s] = SubSeq(text[s], Cut(s) + 1, pos[s])
          /\ \A i \in Cut(s) + 1 .. pos[s] : text[s][i] # LineEnd
          /\ Len(buf[s]) <= pos[s] /\ Len(buf[s]) \in Nat
          /\ Cut(s) = 0 \/ text[s][Cut(s)] = LineEnd
      BY <1>1, <1>2, <1>4 DEF ReaderOK
    <3>2. buf'[s] = SubSeq(text[s], Cut(s) + 1, pos[s] + 1)
      <4>1. pos[s] < Len(text[s])
        BY <1>2, <1>4
      <4>2. Append(SubSeq(text[s], Cut(s) + 1, pos[s]), b) = SubSeq(text[s], Cut(s) + 1, pos[s] + 1)
        BY <1>2, <4>1, PieceGrows
      <4>. QED
        BY <2>2, <3>1, <4>2
    <3>3. \A i \in Cut(s) + 1 .. pos[s] + 1 : text[s][i] # LineEnd
      BY <1>2, <1>13, <3>1, PieceFree
    <3>4. Len(buf'[s]) <= pos[s] + 1
      BY <1>2, <2>2, <3>1
    <3>. QED
      BY <1>3, <1>4, <1>6, <2>3, <3>1, <3>2, <3>3, <3>4 DEF ReaderOK
  <2>. QED
    BY <1>2, <1>10, <2>1, <2>2, <2>3, <2>4
<1>. QED
  BY <1>12, <1>13

LEMMA EndIInv == ASSUME IInv, NEW s \in Streams, ReaderEnds(s) PROVE IInv'
<1>1. TypeOK /\ SeqsOK /\ PhaseOK /\ \A o \in Streams : ReaderOK(o)
  BY DEF IInv
<1>2. /\ pos[s] \in Nat /\ got[s] \in Nat
      /\ Cut(s) \in Nat /\ Cut(s) <= pos[s] /\ Len(text[s]) \in Nat
  BY <1>1, CutType, KindsOfLines
<1>3. /\ UNCHANGED <<text, got, pos, done, path, tail, ticks, pc, result>>
      /\ Running /\ pos[s] = Len(text[s]) /\ ~ gone[s]
      /\ gone' = [gone EXCEPT ![s] = TRUE]
      /\ buf' = [buf EXCEPT ![s] = <<>>]
      /\ chan' = [chan EXCEPT ![s] = @ \o Sent(buf[s])]
  BY DEF ReaderEnds, loop
<1>4. /\ buf \in [Streams -> Seq(Words)] /\ DOMAIN chan = Streams
      /\ gone \in [Streams -> BOOLEAN]
  BY <1>1 DEF TypeOK, SeqsOK
<1>5. /\ buf' \in [Streams -> Seq(Words)] /\ DOMAIN chan' = Streams
      /\ gone' \in [Streams -> BOOLEAN]
      /\ gone'[s] = TRUE /\ buf'[s] = <<>> /\ chan'[s] = chan[s] \o Sent(buf[s])
      /\ \A o \in Streams \ {s} : /\ buf'[o] = buf[o] /\ chan'[o] = chan[o]
                                  /\ gone'[o] = gone[o] /\ pos'[o] = pos[o]
  BY <1>3, <1>4
<1>6. TypeOK'
  <2>1. done \in [Streams -> BOOLEAN]
    BY <1>1 DEF TypeOK
  <2>2. done' \in [Streams -> BOOLEAN]
    BY <1>3, <2>1
  <2>3. {gone', done'} \subseteq [Streams -> BOOLEAN]
    BY <1>5, <2>2
  <2>. QED
    BY <1>1, <1>3, <2>3 DEF TypeOK
<1>7. PhaseOK' /\ FailureExplained'
  BY <1>1, <1>3 DEF PhaseOK, FailureExplained, Running
<1>8. PICK m \in Marks : LoopOK(m)
  BY DEF IInv
<1>9. /\ m[s] \in Nat
      /\ \A o \in Streams : m[o] <= Cut(o) /\ Waits(chan[o], text[o], m[o], Cut(o))
  BY <1>8 DEF LoopOK, Marks
<1>10. /\ m[s] <= pos[s] /\ Waits(chan[s] \o Sent(buf[s]), text[s], m[s], pos[s])
       /\ chan[s] \o Sent(buf[s]) \in Seq(LineSet(s))
  BY <1>1, <1>2, <1>3, <1>9, Sends
<1>11. Cut(s)' = pos[s]
  BY <1>2, <1>3, <1>5 DEF Cut
<1>12. \A o \in Streams \ {s} : ReaderOK(o)' /\ Cut(o)' = Cut(o)
  BY <1>1, <1>3, <1>5, OtherReaders
<1>13. ReaderOK(s)'
  <2>1. SubSeq(text[s], pos[s] + 1, pos[s]) = <<>>
    BY <1>2
  <2>2. ~ done[s]
    BY <1>1, <1>3 DEF ReaderOK
  <2>3. Len(buf'[s]) = 0 /\ \A i \in pos[s] + 1 .. pos[s] : FALSE
    BY <1>2, <1>5
  <2>4. Len(buf'[s]) <= pos'[s] /\ buf'[s] = SubSeq(text'[s], Cut(s)' + 1, pos'[s])
    <3>1. text'[s] = text[s] /\ pos'[s] = pos[s] /\ buf'[s] = <<>>
      BY <1>3, <1>5
    <3>2. SubSeq(text'[s], Cut(s)' + 1, pos'[s]) = SubSeq(text[s], pos[s] + 1, pos[s])
      BY <1>11, <3>1
    <3>3. Len(buf'[s]) <= pos'[s]
      BY <1>2, <2>3, <3>1
    <3>. QED
      BY <2>1, <3>1, <3>2, <3>3
  <2>5. \A i \in Cut(s)' + 1 .. pos'[s] : text'[s][i] # LineEnd
    BY <1>3, <1>11, <2>3
  <2>6. gone'[s] /\ pos'[s] = Len(text'[s]) /\ buf'[s] = <<>> /\ ~ done'[s]
    BY <1>3, <1>5, <2>2
  <2>. QED
    BY <2>4, <2>5, <2>6 DEF ReaderOK
<1>14. SeqsOK'
  BY <1>1, <1>3, <1>5, <1>10, SameLines DEF SeqsOK
<1>15. LoopOK(m)'
  <2>1. \A o \in Streams : m[o] <= Cut(o)' /\ Waits(chan'[o], text[o], m[o], Cut(o)')
    BY <1>5, <1>9, <1>10, <1>11, <1>12
  <2>. QED
    BY <1>3, <1>8, <2>1, LoopKept
<1>. QED
  BY <1>6, <1>7, <1>8, <1>12, <1>13, <1>14, <1>15 DEF IInv, Marks
-----------------------------------------------------------------------------
(* The loop.                                                               *)

(* A mark that moves over one line of a stream: what this adds.            *)
LEMMA MarkMoves ==
  ASSUME TypeOK, NEW s \in Streams, NEW m \in Marks, NEW k \in C!Lines(text[s]), m[s] < k,
         \A l \in C!Lines(text[s]) : m[s] < l /\ l <= k => l = k
  PROVE  /\ k \in Nat /\ [m EXCEPT ![s] = k] \in Marks
         /\ \A o \in Streams : /\ Count(PlainOf(o), m[o]) \in Nat
                               /\ Count(ProgressLines(o), m[o]) \in Nat
         /\ k \in PlainOf(s) =>
              /\ Count(PlainOf(s), k) = Count(PlainOf(s), m[s]) + 1
              /\ Count(ProgressLines(s), k) = Count(ProgressLines(s), m[s])
              /\ UpTo(PlainOf(s), k) = UpTo(PlainOf(s), m[s]) \cup {k}
         /\ k \notin PlainOf(s) =>
              /\ Count(PlainOf(s), k) = Count(PlainOf(s), m[s])
              /\ Count(ProgressLines(s), k) = Count(ProgressLines(s), m[s]) + 1
              /\ UpTo(PlainOf(s), k) = UpTo(PlainOf(s), m[s])
         /\ UpTo(PlainOf(s), m[s]) \subseteq Nat /\ \A i \in UpTo(PlainOf(s), m[s]) : i < k
<1>1. /\ C!Lines(text[s]) \subseteq Nat
      /\ PlainOf(s) \subseteq C!Lines(text[s])
      /\ ProgressLines(s) = C!Lines(text[s]) \ PlainOf(s)
      /\ IsFiniteSet(PlainOf(s)) /\ IsFiniteSet(ProgressLines(s))
  <2>1. C!Lines(text[s]) \subseteq 1 .. Len(text[s]) /\ Len(text[s]) \in Nat
    BY KindsOfLines
  <2>2. C!Lines(text[s]) \subseteq Nat
    BY <2>1
  <2>. QED
    BY <2>2, KindsOfLines
<1>2. m[s] \in Nat /\ k \in Nat
  BY <1>1 DEF Marks
<1>3. [m EXCEPT ![s] = k] \in Marks
  BY <1>2 DEF Marks
<1>4. \A o \in Streams : /\ Count(PlainOf(o), m[o]) \in Nat
                         /\ Count(ProgressLines(o), m[o]) \in Nat
  BY KindsOfLines, CountIsNat
<1>5. /\ UpTo(PlainOf(s), k) = IF k \in PlainOf(s) THEN UpTo(PlainOf(s), m[s]) \cup {k}
                               ELSE UpTo(PlainOf(s), m[s])
      /\ UpTo(PlainOf(s), m[s]) \subseteq Nat /\ \A i \in UpTo(PlainOf(s), m[s]) : i < k
      /\ Count(PlainOf(s), k) = IF k \in PlainOf(s) THEN Count(PlainOf(s), m[s]) + 1
                                ELSE Count(PlainOf(s), m[s])
  <2>1. \A i \in PlainOf(s) : m[s] < i /\ i <= k => i = k
    BY <1>1
  <2>2. PlainOf(s) \subseteq Nat
    BY <1>1
  <2>. QED
    BY <1>1, <1>2, <2>1, <2>2, Moved
<1>6. Count(ProgressLines(s), k) = IF k \in ProgressLines(s) THEN Count(ProgressLines(s), m[s]) + 1
                                   ELSE Count(ProgressLines(s), m[s])
  <2>1. \A i \in ProgressLines(s) : m[s] < i /\ i <= k => i = k
    BY <1>1
  <2>2. ProgressLines(s) \subseteq Nat
    BY <1>1
  <2>. QED
    BY <1>1, <1>2, <2>1, <2>2, Moved
<1>. QED
  BY <1>1, <1>2, <1>3, <1>4, <1>5, <1>6

(* What a move of the mark adds to the lines kept since an earlier one.     *)
LEMMA SinceMoves ==
  ASSUME TypeOK, NEW s \in Streams, NEW m \in Marks, NEW k \in C!Lines(text[s]), m[s] < k,
         \A l \in C!Lines(text[s]) : m[s] < l /\ l <= k => l = k,
         NEW o \in Streams, NEW i \in UpTo(PlainOf(o), m[o])
  PROVE  /\ Since(o, i, m) \in Nat
         /\ k \in PlainOf(s) => Since(o, i, [m EXCEPT ![s] = k]) = Since(o, i, m) + 1
         /\ k \notin PlainOf(s) => Since(o, i, [m EXCEPT ![s] = k]) = Since(o, i, m)
<1>. DEFINE n == [m EXCEPT ![s] = k]
<1>1. /\ C!Lines(text[s]) \subseteq Nat /\ k \in Nat /\ m[s] \in Nat
      /\ PlainOf(s) \subseteq C!Lines(text[s]) /\ IsFiniteSet(PlainOf(s))
  <2>1. C!Lines(text[s]) \subseteq 1 .. Len(text[s]) /\ Len(text[s]) \in Nat
    BY KindsOfLines
  <2>2. C!Lines(text[s]) \subseteq Nat
    BY <2>1
  <2>. QED
    BY <2>2, KindsOfLines DEF Marks
<1>2. n[s] = k /\ \A e \in Streams \ {s} : n[e] = m[e]
  BY DEF Marks
<1>. HIDE DEF n
<1>3. /\ Other(o) \in Streams \ {o} /\ (o # s => Other(o) = s)
  BY DEF Other, Streams, C!Streams
<1>4. Count(Behind(o, i), m[o]) \in Nat /\ Count(PlainOf(Other(o)), m[Other(o)]) \in Nat
  <2>1. IsFiniteSet(PlainOf(o)) /\ IsFiniteSet(PlainOf(Other(o))) /\ Behind(o, i) \subseteq PlainOf(o)
    BY <1>3, KindsOfLines DEF Behind
  <2>2. IsFiniteSet(Behind(o, i))
    BY <2>1, FS_Subset
  <2>. QED
    BY <2>1, <2>2, CountIsNat
<1>5. Since(o, i, n) = IF k \in PlainOf(s) THEN Since(o, i, m) + 1 ELSE Since(o, i, m)
  <2>1. CASE o = s
    <3>. DEFINE B == Behind(s, i)
    <3>1. B \subseteq PlainOf(s) /\ (k \in B <=> k \in PlainOf(s))
      <4>1. i \in Nat /\ i <= m[s]
        BY <1>1, <2>1 DEF UpTo
      <4>2. k > i
        BY <1>1, <4>1
      <4>. QED
        BY <4>2 DEF Behind
    <3>2. IsFiniteSet(B) /\ B \subseteq Nat /\ \A j \in B : m[s] < j /\ j <= k => j = k
      BY <1>1, <3>1, FS_Subset
    <3>. DEFINE x == m[s]
    <3>. HIDE DEF B
    <3>3. Count(B, k) = IF k \in B THEN Count(B, x) + 1 ELSE Count(B, x)
      <4>1. /\ IsFiniteSet(B) /\ B \subseteq Nat /\ x \in Nat /\ k \in Nat /\ x < k
            /\ \A j \in B : x < j /\ j <= k => j = k
        BY <1>1, <3>2
      <4>. HIDE DEF x
      <4>. QED
        BY <4>1, Moved
    <3>4. n[Other(s)] = m[Other(s)]
      BY <1>2, <1>3, <2>1
    <3>. QED
      BY <1>2, <1>4, <2>1, <3>1, <3>3, <3>4 DEF Since, B
  <2>2. CASE o # s
    <3>1. Other(o) = s /\ n[o] = m[o]
      BY <1>2, <1>3, <2>2
    <3>2. Count(PlainOf(s), k) = IF k \in PlainOf(s) THEN Count(PlainOf(s), m[s]) + 1
                                 ELSE Count(PlainOf(s), m[s])
      BY MarkMoves
    <3>. QED
      BY <1>2, <1>4, <3>1, <3>2 DEF Since
  <2>. QED
    BY <2>1, <2>2
<1>6. Since(o, i, m) \in Nat
  BY <1>4 DEF Since
<1>. QED
  BY <1>5, <1>6 DEF n

(* The line given to the buffer is its last, and a line that was among the  *)
(* last n + 1 is among the last n + 2, as long as the buffer has so many.   *)
LEMMA KeepHolds ==
  ASSUME NEW S, tail \in Seq(S), NEW line \in S, Len(tail) <= Kept
  PROVE  /\ \A n \in Nat : HeldIn(Keep(line), line, n)
         /\ \A old, n : n \in Nat /\ n + 1 < Kept /\ HeldIn(tail, old, n)
                           => HeldIn(Keep(line), old, n + 1)
<1>. DEFINE q    == IF Len(tail) >= Kept THEN Tail(tail) ELSE tail
            gone_ == IF Len(tail) >= Kept THEN 1 ELSE 0
<1>1. Kept \in Nat /\ Kept # 0 /\ Len(tail) \in Nat
  BY KeptAssumption
<1>2. /\ q \in Seq(S) /\ Len(q) = Len(tail) - gone_
      /\ \A p \in 1 .. Len(q) : q[p] = tail[p + gone_]
  BY <1>1
<1>3. Keep(line) = Append(q, line)
  BY DEF Keep
<1>4. gone_ \in {0, 1} /\ (gone_ = 1 => Len(tail) = Kept)
  BY <1>1
<1>. HIDE DEF q, gone_
<1>5. /\ Len(Keep(line)) = Len(q) + 1 /\ Keep(line)[Len(q) + 1] = line /\ Len(q) \in Nat
      /\ \A p \in 1 .. Len(q) : Keep(line)[p] = q[p]
  BY <1>2, <1>3
<1>6. ASSUME NEW n \in Nat PROVE HeldIn(Keep(line), line, n)
  BY <1>5 DEF HeldIn
<1>7. ASSUME NEW old, NEW n \in Nat, n + 1 < Kept, HeldIn(tail, old, n)
      PROVE  HeldIn(Keep(line), old, n + 1)
  <2>1. PICK p \in 1 .. Len(tail) : tail[p] = old /\ Len(tail) - p <= n
    BY <1>7 DEF HeldIn
  <2>2. p - gone_ \in 1 .. Len(q)
    BY <1>1, <1>2, <1>4, <1>7, <2>1
  <2>3. (p - gone_) + gone_ = p
    BY <1>4, <2>1
  <2>4. Keep(line)[p - gone_] = old
    BY <1>2, <1>5, <2>1, <2>2, <2>3
  <2>5. /\ p - gone_ \in 1 .. Len(Keep(line))
        /\ Len(Keep(line)) - (p - gone_) <= n + 1
    BY <1>1, <1>2, <1>4, <1>5, <2>1, <2>2
  <2>. QED
    BY <2>4, <2>5 DEF HeldIn
<1>. QED
  BY <1>6, <1>7

(* The buffer never holds more than it may, and has the line it was given.  *)
LEMMA KeepOK ==
  ASSUME NEW S, tail \in Seq(S), NEW line \in S, Len(tail) <= Kept
  PROVE  Keep(line) \in Seq(S) /\ Len(Keep(line)) <= Kept /\ Keep(line) # <<>>
<1>1. Kept \in Nat /\ Kept # 0 /\ Len(tail) \in Nat
  BY KeptAssumption
<1>2. CASE Len(tail) < Kept
  <2>1. /\ Append(tail, line) \in Seq(S) /\ Len(Append(tail, line)) = Len(tail) + 1
        /\ Append(tail, line) # <<>>
    OBVIOUS
  <2>2. Keep(line) = Append(tail, line)
    BY <1>1, <1>2 DEF Keep
  <2>. QED
    BY <1>1, <1>2, <2>1, <2>2
<1>3. CASE ~ (Len(tail) < Kept)
  <2>. DEFINE q == Tail(tail)
  <2>1. q \in Seq(S) /\ Len(q) = Len(tail) - 1
    BY <1>1, <1>3
  <2>2. Keep(line) = Append(q, line)
    BY <1>1, <1>3 DEF Keep
  <2>. HIDE DEF q
  <2>3. Append(q, line) \in Seq(S) /\ Len(Append(q, line)) = Len(q) + 1 /\ Append(q, line) # <<>>
    BY <2>1
  <2>. QED
    BY <1>1, <1>3, <2>1, <2>2, <2>3
<1>. QED
  BY <1>2, <1>3

\* What Take does with a line: on which stream, at which mark.
LEMMA TakeLoop ==
  ASSUME TypeOK, tail \in Seq(C!PlainLines), NEW s \in Streams, NEW m \in Marks,
         PathOK(m), TicksOK(m), TailOK(m),
         NEW k \in C!Lines(text[s]), m[s] < k,
         \A l \in C!Lines(text[s]) : m[s] < l /\ l <= k => l = k,
         Head(chan[s]) = C!Line(text[s], k), Take(s),
         NEW n, n = [m EXCEPT ![s] = k]
  PROVE  /\ n \in Marks /\ PathOK(n)' /\ TicksOK(n)' /\ TailOK(n)'
         /\ tail' \in Seq(C!PlainLines) /\ Len(tail') <= Kept /\ ticks' \in Nat
<1>. DEFINE line == C!Line(text[s], k)
<1>1. UNCHANGED text /\ Streams = {"out", "err"} /\ Kept \in Nat \ {0}
      /\ Len(tail) <= Kept /\ Len(tail) \in Nat /\ ticks \in Nat
  BY KeptAssumption DEF Take, TypeOK, Streams, C!Streams
<1>2. /\ n \in Marks /\ n[s] = k /\ \A o \in Streams \ {s} : n[o] = m[o]
      /\ \A o \in Streams : /\ Count(PlainOf(o), m[o]) \in Nat
                            /\ Count(ProgressLines(o), m[o]) \in Nat
      /\ UpTo(PlainOf(s), m[s]) \subseteq Nat /\ \A i \in UpTo(PlainOf(s), m[s]) : i < k
  <2>1. n[s] = k /\ \A o \in Streams \ {s} : n[o] = m[o]
    BY DEF Marks
  <2>. QED
    BY <2>1, MarkMoves
<1>3. k \in PlainOf(s) <=> ~ C!IsProgress(line)
  BY KindsOfLines
<1>4. ASSUME NEW o \in Streams, NEW i \in UpTo(PlainOf(o), m[o])
      PROVE  /\ Since(o, i, m) \in Nat
             /\ k \in PlainOf(s) => Since(o, i, n) = Since(o, i, m) + 1
             /\ k \notin PlainOf(s) => Since(o, i, n) = Since(o, i, m)
  <2>. HIDE DEF line
  <2>1. /\ Since(o, i, m) \in Nat
        /\ k \in PlainOf(s) => Since(o, i, [m EXCEPT ![s] = k]) = Since(o, i, m) + 1
        /\ k \notin PlainOf(s) => Since(o, i, [m EXCEPT ![s] = k]) = Since(o, i, m)
    BY ONLY TypeOK, SinceMoves, s \in Streams, m \in Marks, k \in C!Lines(text[s]), m[s] < k,
            \A l \in C!Lines(text[s]) : m[s] < l /\ l <= k => l = k,
            o \in Streams, i \in UpTo(PlainOf(o), m[o])
  <2>. QED
    BY <2>1
<1>5. CASE C!IsProgress(line)
  <2>1. /\ Count(PlainOf(s), k) = Count(PlainOf(s), m[s])
        /\ Count(ProgressLines(s), k) = Count(ProgressLines(s), m[s]) + 1
        /\ UpTo(PlainOf(s), k) = UpTo(PlainOf(s), m[s])
    BY <1>3, <1>5, MarkMoves
  <2>2. ticks' = ticks + 1 /\ UNCHANGED <<path, tail>>
    BY <1>5 DEF Take
  <2>3. \A o \in Streams : /\ Count(PlainOf(o), n[o]) = Count(PlainOf(o), m[o])
                           /\ UpTo(PlainOf(o), n[o]) = UpTo(PlainOf(o), m[o])
    BY <1>2, <2>1
  <2>4. Count(ProgressLines("out"), n["out"]) + Count(ProgressLines("err"), n["err"])
          = Count(ProgressLines("out"), m["out"]) + Count(ProgressLines("err"), m["err"]) + 1
    BY <1>1, <1>2, <2>1
  <2>5. TicksOK(n)'
    BY <1>1, <2>2, <2>4 DEF TicksOK, ProgressLines
  <2>6. PathOK(n)'
    BY <1>1, <2>2, <2>3 DEF PathOK, PlainOf
  <2>7. Taken(n) = Taken(m)
    BY <1>1, <2>3 DEF Taken
  <2>8. \A o \in Streams : \A i \in UpTo(PlainOf(o), m[o]) : Since(o, i, n) = Since(o, i, m)
    BY <1>3, <1>4, <1>5
  <2>9. TailOK(n)'
    <3>1. TailOK(n)
      BY <2>3, <2>7, <2>8 DEF TailOK
    <3>. QED
      BY <1>1, <2>2, <3>1 DEF TailOK, Taken, Since, Behind, PlainOf
  <2>. QED
    BY <1>1, <1>2, <2>2, <2>5, <2>6, <2>9
<1>6. CASE ~ C!IsProgress(line)
  <2>1. /\ k \in PlainOf(s)
        /\ Count(PlainOf(s), k) = Count(PlainOf(s), m[s]) + 1
        /\ Count(ProgressLines(s), k) = Count(ProgressLines(s), m[s])
        /\ UpTo(PlainOf(s), k) = UpTo(PlainOf(s), m[s]) \cup {k}
    BY <1>3, <1>6, MarkMoves
  <2>2. /\ tail' = Keep(line)
        /\ path' = IF s = "out" /\ C!PathIn(line) # <<>> THEN C!PathIn(line) ELSE path
        /\ UNCHANGED ticks
    BY <1>6 DEF Take
  <2>3. \A o \in Streams : Count(ProgressLines(o), n[o]) = Count(ProgressLines(o), m[o])
    BY <1>2, <2>1
  <2>4. TicksOK(n)'
    BY <1>1, <2>2, <2>3 DEF TicksOK, ProgressLines
  <2>5. PathOK(n)'
    <3>1. CASE s = "out"
      <4>1. C!LastPathOf(text["out"], UpTo(PlainOf("out"), k)) =
              IF C!PathIn(line) # <<>> THEN C!PathIn(line)
              ELSE C!LastPathOf(text["out"], UpTo(PlainOf("out"), m["out"]))
        <5>. DEFINE X == UpTo(PlainOf("out"), m["out"])
        <5>1. k \in Nat /\ X \subseteq Nat /\ \A i \in X : i < k
          BY <1>2, <3>1, MarkMoves
        <5>2. UpTo(PlainOf("out"), k) = X \cup {k} /\ line = C!Line(text["out"], k)
          BY <2>1, <3>1
        <5>. HIDE DEF X, line
        <5>3. C!LastPathOf(text["out"], X \cup {k}) =
                IF C!PathIn(C!Line(text["out"], k)) # <<>> THEN C!PathIn(C!Line(text["out"], k))
                ELSE C!LastPathOf(text["out"], X)
          BY <5>1, PathMoved
        <5>. QED
          BY <5>2, <5>3 DEF X
      <4>. QED
        BY <1>1, <1>2, <2>2, <3>1, <4>1 DEF PathOK, PlainOf
    <3>2. CASE s # "out"
      <4>1. n["out"] = m["out"]
        BY <1>1, <1>2, <3>2
      <4>. QED
        BY <1>1, <2>2, <3>2, <4>1 DEF PathOK, PlainOf
    <3>. QED
      BY <3>1, <3>2
  <2>6. line \in C!PlainLines
    BY <1>1, <2>1 DEF C!PlainLines, PlainOf, C!Streams
  <2>7. tail' \in Seq(C!PlainLines) /\ Len(tail') <= Kept /\ tail' # <<>>
    BY <1>1, <2>2, <2>6, KeepOK
  <2>8. /\ \A x \in Nat : HeldIn(tail', line, x)
        /\ \A old, x : x \in Nat /\ x + 1 < Kept /\ HeldIn(tail, old, x)
                          => HeldIn(tail', old, x + 1)
    <3>. HIDE DEF line
    <3>. QED
      BY <1>1, <2>2, <2>6, KeepHolds
  <2>9. ASSUME NEW o \in Streams, NEW i \in UpTo(PlainOf(o), n[o]), Since(o, i, n) < Kept
        PROVE  HeldIn(tail', C!Line(text[o], i), Since(o, i, n))
    <3>1. CASE o = s /\ i = k
      <4>1. Since(o, i, n) \in Nat
        <5>1. Other(s) \in Streams
          BY DEF Other, Streams, C!Streams
        <5>2. IsFiniteSet(PlainOf(s)) /\ IsFiniteSet(PlainOf(Other(s)))
              /\ Behind(s, k) \subseteq PlainOf(s)
          BY <5>1, KindsOfLines DEF Behind
        <5>3. IsFiniteSet(Behind(s, k))
          BY <5>2, FS_Subset
        <5>4. Count(Behind(s, k), n[s]) \in Nat /\ Count(PlainOf(Other(s)), n[Other(s)]) \in Nat
          BY <5>2, <5>3, CountIsNat
        <5>. QED
          BY <3>1, <5>4 DEF Since
      <4>. QED
        BY <2>8, <3>1, <4>1
    <3>2. CASE ~ (o = s /\ i = k)
      <4>1. i \in UpTo(PlainOf(o), m[o])
        BY <1>2, <2>1, <2>9, <3>2
      <4>2. Since(o, i, m) \in Nat /\ Since(o, i, n) = Since(o, i, m) + 1
        BY <1>4, <2>1, <4>1
      <4>3. HeldIn(tail, C!Line(text[o], i), Since(o, i, m))
        BY <1>1, <2>9, <4>1, <4>2 DEF TailOK
      <4>. QED
        BY <2>8, <2>9, <4>2, <4>3
    <3>. QED
      BY <3>1, <3>2
  <2>10. TailOK(n)'
    BY <1>1, <2>7, <2>9 DEF TailOK, Taken, Since, Behind, PlainOf
  <2>. QED
    BY <1>1, <1>2, <2>2, <2>4, <2>5, <2>7, <2>10
<1>. QED
  BY <1>5, <1>6

LEMMA TakeIInv == ASSUME IInv, NEW s \in Streams, Take(s) PROVE IInv'
<1>1. TypeOK /\ SeqsOK /\ PhaseOK /\ \A o \in Streams : ReaderOK(o)
  BY DEF IInv
<1>2. /\ UNCHANGED <<text, got, pos, buf, gone, done, pc, result>>
      /\ pc = "loop" /\ ~ done[s] /\ chan[s] # <<>> /\ chan' = [chan EXCEPT ![s] = Tail(@)]
  BY DEF Take
<1>3. /\ chan[s] \in Seq(LineSet(s)) /\ Cut(s) \in Nat
      /\ DOMAIN chan = Streams /\ tail \in Seq(C!PlainLines)
  BY <1>1, CutType DEF SeqsOK
<1>4. PICK m \in Marks : LoopOK(m)
  BY DEF IInv
<1>5. /\ m[s] \in Nat /\ PathOK(m) /\ TicksOK(m) /\ TailOK(m)
      /\ \A o \in Streams : m[o] <= Cut(o) /\ Waits(chan[o], text[o], m[o], Cut(o))
  BY <1>4 DEF LoopOK, Marks
<1>6. PICK k \in C!Lines(text[s]) :
        /\ m[s] < k /\ k <= Cut(s) /\ Head(chan[s]) = C!Line(text[s], k)
        /\ \A l \in C!Lines(text[s]) : m[s] < l /\ l <= k => l = k
        /\ Waits(Tail(chan[s]), text[s], k, Cut(s))
  <2>1. C!Lines(text[s]) \subseteq 1 .. Len(text[s]) /\ Len(text[s]) \in Nat
    BY <1>1, KindsOfLines
  <2>2. C!Lines(text[s]) \subseteq Nat
    BY <2>1
  <2>3. m[s] <= Cut(s) /\ Waits(chan[s], text[s], m[s], Cut(s))
    BY <1>5
  <2>. DEFINE t == text[s]
              c == Cut(s)
              queue == chan[s]
              x == m[s]
  <2>4. /\ C!Lines(t) \subseteq Nat /\ queue \in Seq(LineSet(s)) /\ queue # <<>>
        /\ x \in Nat /\ c \in Nat /\ x <= c /\ Waits(queue, t, x, c)
    BY <1>2, <1>3, <1>5, <2>2, <2>3
  <2>5. \E k \in C!Lines(t) : /\ x < k /\ k <= c /\ Head(queue) = C!Line(t, k)
                               /\ \A l \in C!Lines(t) : x < l /\ l <= k => l = k
                               /\ Waits(Tail(queue), t, k, c)
    <3>. HIDE DEF t, c, queue, x
    <3>. QED
      BY <2>4, OneLess
  <2>. QED
    BY <1>3, <2>2, <2>3, <2>4, <2>5
<1>. DEFINE n == [m EXCEPT ![s] = k]
<1>7. n[s] = k /\ \A o \in Streams \ {s} : n[o] = m[o]
  BY DEF Marks
<1>. HIDE DEF n
<1>8. /\ n \in Marks /\ PathOK(n)' /\ TicksOK(n)' /\ TailOK(n)'
      /\ tail' \in Seq(C!PlainLines) /\ Len(tail') <= Kept /\ ticks' \in Nat
  BY <1>1, <1>3, <1>5, <1>6, TakeLoop DEF n
<1>9. /\ chan'[s] = Tail(chan[s]) /\ chan'[s] \in Seq(LineSet(s)) /\ DOMAIN chan' = Streams
      /\ \A o \in Streams \ {s} : chan'[o] = chan[o]
  BY <1>2, <1>3
<1>10. \A o \in Streams : ReaderOK(o)' /\ Cut(o)' = Cut(o)
  <2>1. \A o \in Streams : Cut(o)' = Cut(o)
    BY <1>2 DEF Cut
  <2>2. \A o \in Streams : done[o] => chan'[o] = chan[o]
    BY <1>2, <1>9
  <2>. QED
    BY <1>1, <1>2, <2>1, <2>2 DEF ReaderOK
<1>11. TypeOK'
  BY <1>1, <1>2, <1>8 DEF TypeOK
<1>12. SeqsOK'
  <2>1. /\ \A o \in Streams : LineSet(o)' = LineSet(o)
        /\ C!PlainLines' = C!PlainLines
    BY <1>2, SameLines
  <2>2. \A o \in Streams : chan'[o] \in Seq(LineSet(o))
    BY <1>1, <1>9 DEF SeqsOK
  <2>. QED
    BY <1>1, <1>2, <1>8, <1>9, <2>1, <2>2 DEF SeqsOK
<1>13. PhaseOK' /\ FailureExplained'
  BY <1>1, <1>2 DEF PhaseOK, FailureExplained
<1>14. LoopOK(n)'
  <2>1. \A o \in Streams : n[o] <= Cut(o)' /\ Waits(chan'[o], text'[o], n[o], Cut(o)')
    <3>1. text' = text
      BY <1>2
    <3>. QED
      BY <1>5, <1>6, <1>7, <1>9, <1>10, <3>1
  <2>. QED
    BY <1>8, <2>1 DEF LoopOK
<1>. QED
  BY <1>8, <1>10, <1>11, <1>12, <1>13, <1>14 DEF IInv, Marks

LEMMA StreamEndsIInv == ASSUME IInv, NEW s \in Streams, StreamEnds(s) PROVE IInv'
<1>1. TypeOK /\ SeqsOK /\ PhaseOK /\ \A o \in Streams : ReaderOK(o)
  BY DEF IInv
<1>2. /\ UNCHANGED <<text, got, pos, buf, chan, gone, path, tail, ticks, pc, result>>
      /\ pc = "loop" /\ chan[s] = <<>> /\ gone[s] /\ done' = [done EXCEPT ![s] = TRUE]
  BY DEF StreamEnds, readers
<1>3. {gone, done} \subseteq [Streams -> BOOLEAN]
  BY <1>1 DEF TypeOK
<1>4. /\ done' \in [Streams -> BOOLEAN] /\ done'[s] = TRUE
      /\ \A o \in Streams \ {s} : done'[o] = done[o]
  BY <1>2, <1>3
<1>5. TypeOK'
  <2>1. {gone', done'} \subseteq [Streams -> BOOLEAN]
    BY <1>2, <1>3, <1>4
  <2>. QED
    BY <1>1, <1>2, <2>1 DEF TypeOK
<1>6. SeqsOK'
  BY <1>1, <1>2, SameLines DEF SeqsOK
<1>7. PhaseOK' /\ FailureExplained'
  BY <1>1, <1>2 DEF PhaseOK, FailureExplained
<1>8. \A o \in Streams : ReaderOK(o)' /\ Cut(o)' = Cut(o)
  <2>1. \A o \in Streams : Cut(o)' = Cut(o)
    BY <1>2 DEF Cut
  <2>2. \A o \in Streams : done'[o] => gone[o] /\ chan[o] = <<>>
    BY <1>1, <1>2, <1>4 DEF ReaderOK
  <2>. QED
    BY <1>1, <1>2, <2>1, <2>2 DEF ReaderOK
<1>9. PICK m \in Marks : LoopOK(m)
  BY DEF IInv
<1>10. LoopOK(m)'
  <2>1. \A o \in Streams : m[o] <= Cut(o) /\ Waits(chan[o], text[o], m[o], Cut(o))
    BY <1>9 DEF LoopOK
  <2>2. \A o \in Streams : m[o] <= Cut(o)' /\ Waits(chan'[o], text[o], m[o], Cut(o)')
    BY <1>2, <1>8, <2>1
  <2>. QED
    BY <1>2, <1>9, <2>2, LoopKept
<1>. QED
  BY <1>5, <1>6, <1>7, <1>8, <1>9, <1>10 DEF IInv, Marks

(* Steps of download itself that touch neither the readers nor the loop.    *)
LEMMA ReaderKept ==
  ASSUME UNCHANGED <<text, pos, buf, chan, gone, done>>, NEW s \in Streams, ReaderOK(s)
  PROVE  ReaderOK(s)' /\ Cut(s)' = Cut(s)
  BY DEF ReaderOK, Cut

LEMMA CallKept ==
  ASSUME IInv, UNCHANGED <<text, readers, loop>>,
         pc' \in {"spawn", "not spawned", "loop", "wait", "returned"},
         PhaseOK', FailureExplained'
  PROVE  IInv'
<1>1. TypeOK /\ SeqsOK /\ \A o \in Streams : ReaderOK(o)
  BY DEF IInv
<1>2. UNCHANGED <<text, got, pos, buf, chan, gone, done, path, tail, ticks>>
  BY DEF readers, loop
<1>3. TypeOK' /\ SeqsOK'
  BY <1>1, <1>2, SameLines DEF TypeOK, SeqsOK
<1>4. \A o \in Streams : ReaderOK(o)' /\ Cut(o)' = Cut(o)
  BY <1>1, <1>2, ReaderKept
<1>5. PICK m \in Marks : LoopOK(m)
  BY DEF IInv
<1>6. LoopOK(m)'
  <2>1. \A o \in Streams : m[o] <= Cut(o) /\ Waits(chan[o], text[o], m[o], Cut(o))
    BY <1>5 DEF LoopOK
  <2>2. \A o \in Streams : m[o] <= Cut(o)' /\ Waits(chan'[o], text[o], m[o], Cut(o)')
    BY <1>2, <1>4, <2>1
  <2>. QED
    BY <1>2, <1>5, <2>2, LoopKept
<1>. QED
  BY <1>3, <1>4, <1>5, <1>6 DEF IInv, Marks

(* Once both streams are done, all that get_iplayer wrote has been taken.   *)
LEMMA AllTaken ==
  ASSUME IInv, \A s \in Streams : done[s]
  PROVE  /\ \A s \in Streams : chan[s] = <<>>
         /\ path = C!LastPathOf(text["out"], PlainOf("out"))
         /\ ticks = Cardinality(ProgressLines("out")) + Cardinality(ProgressLines("err"))
         /\ tail = <<>> => C!PlainLines = {}
         /\ \A s \in Streams : \A i \in PlainOf(s) :
              Later(s, i) < Kept => C!Line(text[s], i) \in {tail[p] : p \in 1 .. Len(tail)}
<1>1. TypeOK /\ SeqsOK /\ \A s \in Streams : ReaderOK(s)
  BY DEF IInv
<1>2. PICK m \in Marks : LoopOK(m)
  BY DEF IInv
<1>3. ASSUME NEW s \in Streams
      PROVE  /\ UpTo(PlainOf(s), m[s]) = PlainOf(s)
             /\ UpTo(ProgressLines(s), m[s]) = ProgressLines(s)
             /\ chan[s] = <<>>
  <2>1. chan[s] = <<>> /\ pos[s] = Len(text[s]) /\ buf[s] = <<>>
    BY <1>1 DEF ReaderOK
  <2>2. /\ Len(text[s]) \in Nat /\ C!Lines(text[s]) \subseteq 1 .. Len(text[s])
        /\ PlainOf(s) \subseteq C!Lines(text[s]) /\ ProgressLines(s) \subseteq C!Lines(text[s])
    BY <1>1, KindsOfLines
  <2>3. Cut(s) = Len(text[s])
    BY <2>1, <2>2 DEF Cut
  <2>4. Waits(<<>>, text[s], m[s], Len(text[s])) /\ m[s] \in Nat
    BY <1>2, <2>1, <2>3 DEF LoopOK, Marks
  <2>5. PICK f : WaitsAs(<<>>, text[s], m[s], Len(text[s]), f)
    BY <2>4 DEF Waits
  <2>6. 1 .. Len(<<>>) = {}
    OBVIOUS
  <2>7. \A l \in C!Lines(text[s]) : ~ (m[s] < l /\ l <= Len(text[s]))
    BY <2>5, <2>6 DEF WaitsAs
  <2>8. \A l \in C!Lines(text[s]) : l <= m[s]
    BY <2>2, <2>4, <2>7
  <2>. QED
    BY <2>1, <2>2, <2>8 DEF UpTo
<1>4. Streams = {"out", "err"}
  BY DEF Streams, C!Streams
<1>5. /\ path = C!LastPathOf(text["out"], PlainOf("out"))
      /\ ticks = Cardinality(ProgressLines("out")) + Cardinality(ProgressLines("err"))
      /\ Taken(m) = Cardinality(PlainOf("out")) + Cardinality(PlainOf("err"))
  <2>1. PathOK(m) /\ TicksOK(m)
    BY <1>2 DEF LoopOK
  <2>. QED
    BY <1>3, <1>4, <2>1 DEF PathOK, TicksOK, Taken, Count
<1>6. C!PlainLines = UNION {{C!Line(text[s], i) : i \in PlainOf(s)} : s \in Streams}
  BY DEF C!PlainLines, PlainOf, Streams
<1>7. ASSUME tail = <<>> PROVE C!PlainLines = {}
  <2>1. \A s \in Streams : Cardinality(PlainOf(s)) \in Nat /\ IsFiniteSet(PlainOf(s))
    BY <1>1, KindsOfLines, FS_CardinalityType
  <2>2. ~ (Taken(m) > 0)
    BY <1>2, <1>7 DEF LoopOK, TailOK
  <2>3. Cardinality(PlainOf("out")) = 0 /\ Cardinality(PlainOf("err")) = 0
    BY <1>4, <1>5, <2>1, <2>2
  <2>4. PlainOf("out") = {} /\ PlainOf("err") = {}
    BY <1>4, <2>1, <2>3, FS_EmptySet
  <2>. QED
    BY <1>4, <1>6, <2>4
<1>8. ASSUME NEW s \in Streams, NEW i \in PlainOf(s), Later(s, i) < Kept
      PROVE  C!Line(text[s], i) \in {tail[p] : p \in 1 .. Len(tail)}
  <2>1. Other(s) \in Streams
    BY DEF Other, Streams, C!Streams
  <2>2. UpTo(Behind(s, i), m[s]) = Behind(s, i)
    BY <1>3 DEF UpTo, Behind
  <2>3. Since(s, i, m) = Later(s, i)
    BY <1>3, <2>1, <2>2 DEF Since, Later, Count, Behind, PlainOf
  <2>4. HeldIn(tail, C!Line(text[s], i), Later(s, i))
    BY <1>2, <1>3, <1>8, <2>3 DEF LoopOK, TailOK
  <2>. QED
    BY <2>4 DEF HeldIn
<1>. QED
  BY <1>3, <1>5, <1>7, <1>8

(* What explains a failure is made of lines that are no progress, there is  *)
(* some where there are such lines, a line that looks like an error is in   *)
(* it unless Kept others may have come since, and then no advisory is.      *)
LEMMA ReasonOK ==
  ASSUME IInv, \A s \in Streams : done[s]
  PROVE  /\ Reason \subseteq C!PlainLines
         /\ C!PlainLines # {} => Reason # {}
         /\ Telling \subseteq Reason
         /\ Telling # {} => \A l \in Reason : ~ Contains(l, Licence)
<1>1. tail \in Seq(C!PlainLines) /\ Len(tail) \in Nat /\ Shown \in Nat \ {0}
  BY KeptAssumption DEF IInv, SeqsOK
<1>2. ToSet(tail) = {tail[i] : i \in 1 .. Len(tail)} /\ ToSet(tail) \subseteq C!PlainLines
  BY <1>1 DEF ToSet
<1>3. LastOf(tail, Shown) \subseteq C!PlainLines
  BY <1>1 DEF LastOf
<1>4. Bad \subseteq C!PlainLines
  BY <1>2 DEF Bad
<1>5. ASSUME C!PlainLines # {} PROVE Reason # {}
  <2>1. tail # <<>>
    BY <1>5, AllTaken
  <2>2. Len(tail) \in DOMAIN tail /\ Len(tail) > Len(tail) - Shown
    BY <1>1, <2>1
  <2>3. tail[Len(tail)] \in LastOf(tail, Shown)
    BY <2>2 DEF LastOf
  <2>. QED
    BY <2>3 DEF Reason
<1>6. Telling \subseteq Bad
  <2>. SUFFICES ASSUME NEW s \in Streams, NEW i \in PlainOf(s),
                       LooksBad(C!Line(text[s], i)), Later(s, i) < Kept
                PROVE  C!Line(text[s], i) \in Bad
    BY DEF Telling, PlainOf
  <2>. QED
    BY <1>2, AllTaken DEF Bad
<1>7. \A l \in Bad : ~ Contains(l, Licence)
  BY DEF Bad, LooksBad
<1>. QED
  BY <1>3, <1>4, <1>5, <1>6, <1>7 DEF Reason

LEMMA ExitIInv == ASSUME IInv, Exit PROVE IInv'
<1>1. PhaseOK /\ UNCHANGED <<text, readers, loop>> /\ pc = "wait" /\ pc' = "returned"
      /\ result' \in {C!Ok(path), C!Failed(Reason)}
  BY DEF IInv, Exit
<1>2. \A s \in Streams : done[s] /\ done'[s]
  BY <1>1 DEF PhaseOK, loop
<1>3. PhaseOK'
  BY <1>1, <1>2 DEF PhaseOK
<1>4. FailureExplained'
  <2>. SUFFICES ASSUME result'.st = "failed"
                PROVE  /\ Telling \subseteq result'.why
                       /\ Telling # {} => \A l \in result'.why : ~ Contains(l, Licence)
                       /\ C!PlainLines # {} => result'.why # {}
    BY <1>1, SameLines DEF FailureExplained
  <2>1. result'.why = Reason
    BY <1>1 DEF C!Ok, C!Failed
  <2>. QED
    BY <1>2, <2>1, ReasonOK
<1>. QED
  BY <1>1, <1>3, <1>4, CallKept

LEMMA StepIInv == IInv /\ [Next]_vars => IInv'
<1>. SUFFICES ASSUME IInv, [Next]_vars PROVE IInv'
  OBVIOUS
<1>1. ASSUME Spawn PROVE IInv'
  <2>1. PhaseOK' /\ FailureExplained'
    BY <1>1 DEF IInv, PhaseOK, FailureExplained, Spawn
  <2>. QED
    BY <1>1, <2>1, CallKept DEF Spawn
<1>2. ASSUME SpawnFails PROVE IInv'
  <2>1. PhaseOK' /\ FailureExplained'
    BY <1>2 DEF PhaseOK, FailureExplained, SpawnFails
  <2>. QED
    BY <1>2, <2>1, CallKept DEF SpawnFails
<1>3. ASSUME LeaveLoop PROVE IInv'
  <2>1. PhaseOK' /\ FailureExplained'
    BY <1>3 DEF IInv, PhaseOK, FailureExplained, LeaveLoop, Leave, loop
  <2>. QED
    BY <1>3, <2>1, CallKept DEF LeaveLoop, Leave
<1>4. ASSUME UNCHANGED vars PROVE IInv'
  <2>1. PhaseOK' /\ FailureExplained' /\ pc' \in {"spawn", "not spawned", "loop", "wait", "returned"}
    <3>1. PhaseOK /\ FailureExplained /\ pc \in {"spawn", "not spawned", "loop", "wait", "returned"}
      BY DEF IInv, TypeOK
    <3>2. UNCHANGED <<text, done, pc, result>>
      BY <1>4 DEF vars, loop
    <3>3. C!PlainLines' = C!PlainLines /\ Telling' = Telling
      BY <3>2, SameLines
    <3>. QED
      BY <3>1, <3>2, <3>3 DEF PhaseOK, FailureExplained
  <2>. QED
    BY <1>4, <2>1, CallKept DEF vars
<1>5. ASSUME NEW s \in Streams, Reader(s) PROVE IInv'
  BY <1>5, ReadIInv, ByteIInv, EndIInv DEF Reader
<1>6. ASSUME NEW s \in Streams, Take(s) \/ StreamEnds(s) PROVE IInv'
  BY <1>6, TakeIInv, StreamEndsIInv
<1>. QED
  BY <1>1, <1>2, <1>3, <1>4, <1>5, <1>6, ExitIInv DEF Next, Call, Loop

LEMMA SpecIInv == Spec => []IInv
  BY InitIInv, StepIInv, PTL DEF Spec
-----------------------------------------------------------------------------
(* The types, and that the buffer of lines never holds more than 50        *)
(* (iplayer.rs:251-255), whatever get_iplayer writes.                      *)
THEOREM AttemptTypeOK == Spec => []TypeOK
<1>1. IInv => TypeOK
  BY DEF IInv
<1>. QED
  BY <1>1, SpecIInv, PTL

(* When download looks at the exit status, both channels are empty and     *)
(* on_progress has been called once for every progress line of either      *)
(* stream (iplayer.rs:223-275): nothing a reader sent is left behind.      *)
THEOREM EverythingRead == Spec => []NothingUnread
<1>1. IInv => NothingUnread
  <2>. SUFFICES ASSUME IInv, pc \in {"wait", "returned"}
                PROVE  /\ \A s \in Streams : chan[s] = <<>>
                       /\ ticks = Cardinality(ProgressLines("out"))
                                    + Cardinality(ProgressLines("err"))
    BY DEF NothingUnread
  <2>1. \A s \in Streams : done[s]
    BY DEF IInv, PhaseOK
  <2>. QED
    BY <2>1, AllTaken
<1>. QED
  BY <1>1, SpecIInv, PTL

(* A failure is explained by every line that looks like an error and is    *)
(* followed by fewer lines than the buffer holds, without the licence      *)
(* advisory next to them, and has some reason where get_iplayer printed    *)
(* anything but progress and advisories (iplayer.rs:244-308).              *)
THEOREM FailuresExplained == Spec => []FailureExplained
<1>1. IInv => FailureExplained
  BY DEF IInv
<1>. QED
  BY <1>1, SpecIInv, PTL

(* download does what its caller relies on: it returns once, with the last *)
(* path that stdout names or with lines get_iplayer printed, however the   *)
(* output was cut into chunks and interleaved (iplayer.rs:169-318).        *)
THEOREM AttemptImplements == Spec => Contract
<1>1. Init => C!Init
  BY DEF Init, C!Init
<1>2. ASSUME IInv, [Next]_vars
      PROVE  [(C!Succeed \/ C!Fail) /\ UNCHANGED text]_<<text, result>>
  <2>1. ASSUME SpawnFails PROVE C!Fail /\ UNCHANGED text
    <3>1. result = C!NoResult /\ result' = C!Failed({}) /\ UNCHANGED text
      BY <1>2, <2>1 DEF SpawnFails, IInv, PhaseOK
    <3>. QED
      BY <3>1 DEF C!Fail
  <2>2. ASSUME Exit PROVE (C!Succeed \/ C!Fail) /\ UNCHANGED text
    <3>1. /\ PhaseOK /\ pc = "wait" /\ UNCHANGED text
          /\ result' \in {C!Ok(path), C!Failed(Reason)}
      BY <1>2, <2>2 DEF IInv, Exit
    <3>2. result = C!NoResult /\ \A s \in Streams : done[s]
      BY <3>1 DEF PhaseOK
    <3>3. path = C!LastPathOf(text["out"], PlainOf("out")) /\ Reason \subseteq C!PlainLines
      BY <1>2, <3>2, AllTaken, ReasonOK
    <3>. QED
      BY <3>1, <3>2, <3>3 DEF C!Succeed, C!Fail, PlainOf
  <2>3. ASSUME Spawn \/ LeaveLoop PROVE UNCHANGED <<text, result>>
    BY <2>3 DEF Spawn, LeaveLoop, Leave
  <2>4. ASSUME NEW s \in Streams, Reader(s) PROVE UNCHANGED <<text, result>>
    BY <2>4 DEF Reader, Read, Byte, ReaderEnds
  <2>5. ASSUME NEW s \in Streams, Take(s) \/ StreamEnds(s) PROVE UNCHANGED <<text, result>>
    BY <2>5 DEF Take, StreamEnds
  <2>6. ASSUME UNCHANGED vars PROVE UNCHANGED <<text, result>>
    BY <2>6 DEF vars
  <2>. QED
    BY <1>2, <2>1, <2>2, <2>3, <2>4, <2>5, <2>6 DEF Next, Call, Loop
<1>. QED
  BY <1>1, <1>2, SpecIInv, PTL DEF Spec, Contract, C!Contract
=============================================================================
