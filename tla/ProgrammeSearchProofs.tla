------------------------- MODULE ProgrammeSearchProofs -------------------------
(***************************************************************************)
(* Proofs about ProgrammeSearch, for whatever its sources may say: its     *)
(* parsers compute what SearchContract defines, and the search is answered *)
(* as SearchContract says.                                                 *)
(*                                                                         *)
(* A parser's loop is followed line by line: after n lines it holds what   *)
(* is picked from the places up to n.  That is a solution of the loop's    *)
(* equation, and by SameValues there is no other.                          *)
(***************************************************************************)
EXTENDS ProgrammeSearch, PlacesProofs

(* The contract's copy of Places is Places.                                *)
LEMMA SamePicked == ASSUME NEW seq, NEW S PROVE C!Picked(seq, S) = Picked(seq, S)
<1>1. C!Ascending(S) = Ascending(S)
  BY DEF C!Ascending, Ascending, C!Cardinality, Cardinality, C!IsFiniteSet, IsFiniteSet
<1>. QED
  BY <1>1 DEF C!Picked, Picked

(* The places of S up to n.                                                *)
UpTo(S, n) == {i \in S : i <= n}

LEMMA OneMore ==
  ASSUME NEW N \in Nat, NEW S \in SUBSET (1 .. N), NEW n \in 1 .. N
  PROVE  /\ n \in S => UpTo(S, n) = UpTo(S, n - 1) \cup {n}
         /\ n \notin S => UpTo(S, n) = UpTo(S, n - 1)
         /\ \A j \in S : j < n <=> j \in UpTo(S, n - 1)
<1>1. \A i \in S : /\ i <= n <=> i <= n - 1 \/ i = n
                   /\ i < n <=> i <= n - 1
                   /\ n <= n /\ ~ (n <= n - 1)
  <2>1. \A i \in S : i \in Int
    OBVIOUS
  <2>2. n \in Int
    OBVIOUS
  <2>. QED
    BY <2>1, <2>2
<1>. QED
  BY <1>1 DEF UpTo

(* Before the first place and at the last.                                 *)
LEMMA Ends ==
  ASSUME NEW N \in Nat, NEW S \in SUBSET (1 .. N), NEW seq
  PROVE  Picked(seq, UpTo(S, 0)) = <<>> /\ UpTo(S, 0) = {} /\ UpTo(S, N) = S
<1>1. \A i \in S : ~ (i <= 0) /\ i <= N
  OBVIOUS
<1>. QED
  BY <1>1, PickedNone DEF UpTo

(* One more place, taken or not.                                           *)
LEMMA PickedUpTo ==
  ASSUME NEW N \in Nat, NEW S \in SUBSET (1 .. N), NEW n \in 1 .. N, NEW seq
  PROVE  /\ n \in S => Picked(seq, UpTo(S, n)) = Append(Picked(seq, UpTo(S, n - 1)), seq[n])
         /\ n \notin S => Picked(seq, UpTo(S, n)) = Picked(seq, UpTo(S, n - 1))
<1>. DEFINE T == UpTo(S, n - 1)
<1>1. /\ n \in S => UpTo(S, n) = T \cup {n}
      /\ n \notin S => UpTo(S, n) = T
      /\ \A j \in S : j < n <=> j \in T
  BY OneMore
<1>2. T \subseteq S /\ n \in Nat
  BY DEF UpTo
<1>. HIDE DEF T
<1>3. IsFiniteSet(T) /\ T \subseteq Nat /\ \A x \in T : x < n
  <2>1. IsFiniteSet(1 .. N) /\ T \subseteq 1 .. N
    BY <1>2, FS_Interval
  <2>2. IsFiniteSet(T)
    BY <2>1, FS_Subset
  <2>. QED
    BY <1>1, <1>2, <2>1, <2>2
<1>4. Picked(seq, T \cup {n}) = Append(Picked(seq, T), seq[n])
  BY <1>2, <1>3, PickedGrows
<1>. QED
  BY <1>1, <1>4 DEF T

(* The PIDs seen at some places, and one place more.                       *)
Seen(seq, S, n) == {seq[i].pid : i \in UpTo(S, n)}

LEMMA SeenUpTo ==
  ASSUME NEW N \in Nat, NEW S \in SUBSET (1 .. N), NEW n \in 1 .. N, NEW seq
  PROVE  /\ n \in S => Seen(seq, S, n) = Seen(seq, S, n - 1) \cup {seq[n].pid}
         /\ n \notin S => Seen(seq, S, n) = Seen(seq, S, n - 1)
         /\ n \in C!Firsts(seq, S) <=> n \in S /\ seq[n].pid \notin Seen(seq, S, n - 1)
<1>1. /\ n \in S => UpTo(S, n) = UpTo(S, n - 1) \cup {n}
      /\ n \notin S => UpTo(S, n) = UpTo(S, n - 1)
      /\ \A j \in S : j < n <=> j \in UpTo(S, n - 1)
  BY OneMore
<1>2. UpTo(S, n - 1) \subseteq S
  BY DEF UpTo
<1>3. n \in C!Firsts(seq, S) <=> n \in S /\ seq[n].pid \notin Seen(seq, S, n - 1)
  BY <1>1, <1>2 DEF C!Firsts, Seen
<1>. QED
  BY <1>1, <1>3 DEF Seen
(* What a loop holds after n places, when it skips the PIDs it has seen and *)
(* keeps some of the others; and that it is a loop.                        *)
Held(seq, S, kept, row, N) ==
  [n \in 0 .. N |-> [seen |-> Seen(seq, S, n),
                     list |-> Picked(row, UpTo(C!Firsts(seq, S) \cap kept, n))]]

LoopsOnce(H, seq, S, kept, row, N) ==
  /\ H[0] = [seen |-> {}, list |-> <<>>]
  /\ H[N].list = Picked(row, C!Firsts(seq, S) \cap kept)
  /\ \A n \in 1 .. N :
       H[n] = IF n \notin S \/ seq[n].pid \in H[n - 1].seen THEN H[n - 1]
              ELSE [seen |-> H[n - 1].seen \cup {seq[n].pid},
                    list |-> IF n \notin kept THEN H[n - 1].list
                             ELSE Append(H[n - 1].list, row[n])]

LEMMA HeldByLoop ==
  ASSUME NEW N \in Nat, NEW S, S \subseteq 1 .. N, NEW seq, NEW kept, NEW row,
         NEW H, H = Held(seq, S, kept, row, N)
  PROVE  LoopsOnce(H, seq, S, kept, row, N)
<1>. DEFINE at == C!Firsts(seq, S) \cap kept
<1>1. at \in SUBSET (1 .. N) /\ at \subseteq S
  BY DEF C!Firsts
<1>2. /\ \A n \in 0 .. N : H[n] = [seen |-> Seen(seq, S, n), list |-> Picked(row, UpTo(at, n))]
      /\ 0 \in 0 .. N /\ N \in 0 .. N
      /\ \A n \in 1 .. N : n \in 0 .. N /\ n - 1 \in 0 .. N
  BY DEF Held
<1>3. \A n \in 1 .. N : n \in at <=> /\ n \in S /\ n \in kept
                                     /\ seq[n].pid \notin Seen(seq, S, n - 1)
  BY SeenUpTo
<1>. HIDE DEF at
<1>4. Picked(row, UpTo(at, 0)) = <<>> /\ UpTo(at, N) = at
  BY <1>1, Ends
<1>5. Seen(seq, S, 0) = {}
  BY Ends DEF Seen
<1>6. ASSUME NEW n \in 1 .. N
      PROVE  H[n] = IF n \notin S \/ seq[n].pid \in H[n - 1].seen THEN H[n - 1]
                    ELSE [seen |-> H[n - 1].seen \cup {seq[n].pid},
                          list |-> IF n \notin kept THEN H[n - 1].list
                                   ELSE Append(H[n - 1].list, row[n])]
  <2>1. /\ n \in at => Picked(row, UpTo(at, n)) = Append(Picked(row, UpTo(at, n - 1)), row[n])
        /\ n \notin at => Picked(row, UpTo(at, n)) = Picked(row, UpTo(at, n - 1))
    BY <1>1, PickedUpTo
  <2>2. /\ n \in S => Seen(seq, S, n) = Seen(seq, S, n - 1) \cup {seq[n].pid}
        /\ n \notin S => Seen(seq, S, n) = Seen(seq, S, n - 1)
    BY SeenUpTo
  <2>3. /\ H[n] = [seen |-> Seen(seq, S, n), list |-> Picked(row, UpTo(at, n))]
        /\ H[n - 1] = [seen |-> Seen(seq, S, n - 1), list |-> Picked(row, UpTo(at, n - 1))]
    BY <1>2
  <2>4. /\ H[n - 1].seen = Seen(seq, S, n - 1)
        /\ H[n - 1].list = Picked(row, UpTo(at, n - 1))
    BY <2>3
  <2>5. CASE n \notin S
    BY <1>3, <2>1, <2>2, <2>3, <2>5
  <2>6. CASE n \in S /\ seq[n].pid \in H[n - 1].seen
    <3>1. Seen(seq, S, n) = Seen(seq, S, n - 1) /\ n \notin at
      BY <1>3, <2>2, <2>4, <2>6
    <3>. QED
      BY <2>1, <2>3, <2>6, <3>1
  <2>7. CASE n \in S /\ seq[n].pid \notin H[n - 1].seen
    <3>1. Picked(row, UpTo(at, n)) = IF n \notin kept THEN H[n - 1].list
                                     ELSE Append(H[n - 1].list, row[n])
      BY <1>3, <2>1, <2>4, <2>7
    <3>2. Seen(seq, S, n) = H[n - 1].seen \cup {seq[n].pid}
      BY <2>2, <2>4, <2>7
    <3>. QED
      BY <2>3, <2>7, <3>1, <3>2
  <2>. QED
    BY <2>5, <2>6, <2>7
<1>7. H[0] = [seen |-> {}, list |-> <<>>] /\ H[N].list = Picked(row, at)
  <2>1. /\ H[0] = [seen |-> Seen(seq, S, 0), list |-> Picked(row, UpTo(at, 0))]
        /\ H[N] = [seen |-> Seen(seq, S, N), list |-> Picked(row, UpTo(at, N))]
    BY <1>2
  <2>2. H[0] = [seen |-> {}, list |-> <<>>]
    BY <1>4, <1>5, <2>1
  <2>3. H[N].list = Picked(row, UpTo(at, N))
    BY <2>1
  <2>. QED
    BY <1>4, <2>2, <2>3
<1>. QED
  BY <1>6, <1>7 DEF at, LoopsOnce
-----------------------------------------------------------------------------
(* The parsers.                                                            *)

LEMMA Lengths ==
  ASSUME NEW s, IsSequence(s)
  PROVE  Len(s) \in Nat /\ DOMAIN s = 1 .. Len(s)
  BY DEF IsSequence

(* Line by line get_iplayer's listing comes to the first row of each PID.  *)
LEMMA ListingParsed ==
  ASSUME NEW val \in Listings
  PROVE  parse_pid_recursive_output(val) = C!Listing(val)
<1>. DEFINE lines == val
            N     == Len(lines)
            rows  == {i \in DOMAIN lines : ~ lines[i].header /\ lines[i].pid # None}
            row   == [i \in rows |-> Result(lines[i].pid, lines[i].series, None)]
            Read[n \in 0 .. N] ==
              IF n = 0 THEN [seen |-> {}, list |-> <<>>]
              ELSE LET l == lines[n]  acc == Read[n - 1] IN
                   IF l.header \/ l.pid = None \/ l.pid \in acc.seen THEN acc
                   ELSE [seen |-> acc.seen \cup {l.pid},
                         list |-> Append(acc.list, Result(l.pid, l.series, None))]
            Loop(f) == [n \in 0 .. N |->
              IF n = 0 THEN [seen |-> {}, list |-> <<>>]
              ELSE LET l == lines[n]  acc == f[n - 1] IN
                   IF l.header \/ l.pid = None \/ l.pid \in acc.seen THEN acc
                   ELSE [seen |-> acc.seen \cup {l.pid},
                         list |-> Append(acc.list, Result(l.pid, l.series, None))]]
            H == Held(lines, rows, rows, row, N)
<1>1. N \in Nat /\ DOMAIN lines = 1 .. N
  <2>1. PICK S : lines \in Seq(S)
    BY SourcesAssumption DEF IsSequence
  <2>. QED
    BY <2>1
<1>2. C!Listing(val) = Picked(row, C!Firsts(lines, rows) \cap rows)
  <2>1. C!Firsts(lines, rows) \cap rows = C!Firsts(lines, rows)
    BY DEF C!Firsts
  <2>. QED
    BY <2>1, SamePicked DEF C!Listing, C!Result, Result, C!None, None
<1>3. parse_pid_recursive_output(val) = Read[N].list
  BY DEF parse_pid_recursive_output
<1>4. /\ rows \in SUBSET (1 .. N)
      /\ \A n \in 1 .. N : n \in rows <=> ~ lines[n].header /\ lines[n].pid # None
      /\ \A n \in rows : row[n] = Result(lines[n].pid, lines[n].series, None)
  BY <1>1
<1>5. H = [n \in 0 .. N |-> H[n]]
  BY DEF Held
<1>. HIDE DEF lines, N, rows, row, H
<1>6. LoopsOnce(H, lines, rows, rows, row, N)
  <2>1. rows \subseteq 1 .. N /\ H = Held(lines, rows, rows, row, N)
    BY <1>4 DEF H
  <2>. QED
    BY <1>1, <2>1, HeldByLoop
<1>7. \A n \in 0 .. N : n = 0 \/ n \in 1 .. N
  BY <1>1
<1>8. H = Loop(H)
  BY <1>4, <1>5, <1>6, <1>7 DEF LoopsOnce
<1>9. Read = Loop(Read)
  BY <1>8
<1>. HIDE DEF Read
<1>10. Read[0] = H[0]
  BY <1>1, <1>8, <1>9
<1>11. ASSUME NEW n \in 1 .. N, Read[n - 1] = H[n - 1]
       PROVE  Read[n] = H[n]
  <2>1. n \in 0 .. N /\ n # 0
    BY <1>1
  <2>2. Read[n] = Loop(Read)[n] /\ H[n] = Loop(H)[n]
    BY <1>8, <1>9
  <2>. QED
    BY <1>11, <2>1, <2>2
<1>12. Read[N] = H[N]
  <2>1. GoOnAlike(Read, H, N)
    BY <1>10, <1>11 DEF GoOnAlike
  <2>. QED
    BY <1>1, <2>1, SameValues
<1>. QED
  BY <1>2, <1>3, <1>6, <1>12 DEF LoopsOnce

(* The rows of the local search, one result each.                          *)
LEMMA CachedParsed ==
  ASSUME NEW val \in Rows
  PROVE  parse_get_iplayer_output(val) = C!Cached(val)
<1>. DEFINE N    == Len(val)
            rows == {i \in DOMAIN val : ~ (val[i].header \/ val[i].cells < 2 \/ val[i].pid = None)}
            row  == [i \in rows |-> Result(val[i].pid, val[i].series, val[i].thumb)]
            Read[n \in 0 .. N] ==
              IF n = 0 THEN <<>>
              ELSE LET l == val[n] IN
                   IF l.header \/ l.cells < 2 \/ l.pid = None THEN Read[n - 1]
                   ELSE Append(Read[n - 1], Result(l.pid, l.series, l.thumb))
            Loop(f) == [n \in 0 .. N |->
              IF n = 0 THEN <<>>
              ELSE LET l == val[n] IN
                   IF l.header \/ l.cells < 2 \/ l.pid = None THEN f[n - 1]
                   ELSE Append(f[n - 1], Result(l.pid, l.series, l.thumb))]
            H == [n \in 0 .. N |-> Picked(row, UpTo(rows, n))]
<1>1. N \in Nat /\ DOMAIN val = 1 .. N
  BY SourcesAssumption, Lengths
<1>2. C!Cached(val) = Picked(row, rows)
  BY SamePicked DEF C!Cached, C!Result, Result, C!None, None
<1>3. parse_get_iplayer_output(val) = Read[N]
  BY DEF parse_get_iplayer_output
<1>4. /\ rows \in SUBSET (1 .. N)
      /\ \A n \in 1 .. N : n \in rows <=> ~ (val[n].header \/ val[n].cells < 2 \/ val[n].pid = None)
      /\ \A n \in rows : row[n] = Result(val[n].pid, val[n].series, val[n].thumb)
  BY <1>1
<1>5. /\ \A n \in 0 .. N : H[n] = Picked(row, UpTo(rows, n)) /\ (n = 0 \/ n \in 1 .. N)
      /\ \A n \in 1 .. N : n \in 0 .. N /\ n - 1 \in 0 .. N /\ n # 0
      /\ 0 \in 0 .. N /\ N \in 0 .. N
      /\ H = [n \in 0 .. N |-> H[n]]
  BY <1>1
<1>. HIDE DEF N, rows, row, H
<1>6. H[0] = <<>> /\ H[N] = Picked(row, rows)
  BY <1>1, <1>4, <1>5, Ends
<1>7. ASSUME NEW n \in 1 .. N
      PROVE  H[n] = IF val[n].header \/ val[n].cells < 2 \/ val[n].pid = None THEN H[n - 1]
                    ELSE Append(H[n - 1], Result(val[n].pid, val[n].series, val[n].thumb))
  <2>1. /\ n \in rows => Picked(row, UpTo(rows, n)) = Append(Picked(row, UpTo(rows, n - 1)), row[n])
        /\ n \notin rows => Picked(row, UpTo(rows, n)) = Picked(row, UpTo(rows, n - 1))
    BY <1>1, <1>4, PickedUpTo
  <2>. QED
    BY <1>4, <1>5, <2>1
<1>8. H = Loop(H)
  BY <1>5, <1>6, <1>7
<1>9. Read = Loop(Read)
  BY <1>8
<1>. HIDE DEF Read
<1>10. Read[0] = H[0]
  BY <1>5, <1>8, <1>9
<1>11. ASSUME NEW n \in 1 .. N, Read[n - 1] = H[n - 1]
       PROVE  Read[n] = H[n]
  <2>1. n \in 0 .. N /\ n # 0
    BY <1>5
  <2>2. Read[n] = Loop(Read)[n] /\ H[n] = Loop(H)[n]
    BY <1>8, <1>9
  <2>. QED
    BY <1>11, <2>1, <2>2
<1>12. Read[N] = H[N]
  <2>1. GoOnAlike(Read, H, N)
    BY <1>10, <1>11 DEF GoOnAlike
  <2>. QED
    BY <1>1, <2>1, SameValues
<1>. QED
  BY <1>2, <1>3, <1>6, <1>12

(* The walk over the page's state leaves for each PID the picture of the   *)
(* last object that has one.                                               *)
LEMMA ImagesParsed ==
  ASSUME NEW page \in Pages, NEW map, map = extract_redux_image_map(page.blob), NEW pid
  PROVE  (IF pid \in DOMAIN map THEN map[pid] ELSE None) = C!Picture(page.blob, pid)
<1>. DEFINE blob == page.blob
            N == Len(blob)
            Pictured(n) == {i \in 1 .. N : i <= n /\ blob[i].images # {}}
            About(n, id) == {i \in Pictured(n) : blob[i].id = id}
            Latest(S) == CHOOSE i \in S : \A j \in S : j <= i
            Read[n \in 0 .. N] ==
              IF n = 0 THEN [id \in {} |-> None]
              ELSE LET o == blob[n]  m == Read[n - 1] IN
                   IF o.images = {} THEN m
                   ELSE [id \in DOMAIN m \cup {o.id} |->
                           IF id # o.id THEN m[id]
                           ELSE IF "standard" \in o.images THEN "standard"
                           ELSE IF "promotional_with_logo" \in o.images
                                THEN "promotional_with_logo" ELSE "other"]
            Loop(f) == [n \in 0 .. N |->
              IF n = 0 THEN [id \in {} |-> None]
              ELSE LET o == blob[n]  m == f[n - 1] IN
                   IF o.images = {} THEN m
                   ELSE [id \in DOMAIN m \cup {o.id} |->
                           IF id # o.id THEN m[id]
                           ELSE IF "standard" \in o.images THEN "standard"
                           ELSE IF "promotional_with_logo" \in o.images
                                THEN "promotional_with_logo" ELSE "other"]]
            Ids(n) == {blob[i].id : i \in Pictured(n)}
            H == [n \in 0 .. N |-> [id \in Ids(n) |-> C!Best(blob[Latest(About(n, id))].images)]]
<1>1. N \in Nat /\ DOMAIN blob = 1 .. N
  BY SourcesAssumption, Lengths
<1>2. extract_redux_image_map(blob) = Read[N]
  BY DEF extract_redux_image_map
<1>3. C!Picture(blob, pid) = IF About(N, pid) = {} THEN None
                             ELSE C!Best(blob[Latest(About(N, pid))].images)
  <2>. DEFINE about == {i \in DOMAIN blob : blob[i].id = pid /\ blob[i].images # {}}
  <2>1. about = About(N, pid)
    BY <1>1
  <2>2. C!Picture(blob, pid) = IF about = {} THEN None ELSE C!Best(blob[Latest(about)].images)
    BY DEF C!Picture, C!None, None
  <2>. HIDE DEF about, Latest
  <2>. QED
    BY <2>1, <2>2
<1>4. /\ \A n \in 0 .. N : /\ H[n] = [id \in Ids(n) |-> C!Best(blob[Latest(About(n, id))].images)]
                           /\ n = 0 \/ n \in 1 .. N
      /\ \A n \in 1 .. N : n \in 0 .. N /\ n - 1 \in 0 .. N /\ n # 0
      /\ 0 \in 0 .. N /\ N \in 0 .. N
      /\ H = [n \in 0 .. N |-> H[n]]
  BY <1>1
<1>5. Pictured(0) = {}
  BY <1>1
<1>6. ASSUME NEW n \in 1 .. N
      PROVE  /\ Pictured(n) = IF blob[n].images = {} THEN Pictured(n - 1)
                              ELSE Pictured(n - 1) \cup {n}
             /\ n \notin Pictured(n - 1) /\ \A i \in Pictured(n - 1) : i <= n
             /\ n <= n
  <2>1. \A i \in 1 .. N : /\ i <= n <=> i <= n - 1 \/ i = n
                         /\ i <= n - 1 => i <= n
                         /\ n <= n /\ ~ (n <= n - 1)
    BY <1>1
  <2>. QED
    BY <2>1
<1>7. \A n, id : id \in Ids(n) <=> About(n, id) # {}
  OBVIOUS
<1>. HIDE DEF N, blob, H, Pictured
<1>8. H[0] = [id \in {} |-> None]
  BY <1>4, <1>5
<1>9. ASSUME NEW n \in 1 .. N
      PROVE  H[n] = IF blob[n].images = {} THEN H[n - 1]
                    ELSE [id \in DOMAIN H[n - 1] \cup {blob[n].id} |->
                            IF id # blob[n].id THEN H[n - 1][id] ELSE C!Best(blob[n].images)]
  <2>1. CASE blob[n].images = {}
    <3>1. Pictured(n) = Pictured(n - 1)
      BY <1>6, <2>1
    <3>2. Ids(n) = Ids(n - 1) /\ \A id : About(n, id) = About(n - 1, id)
      BY <3>1
    <3>3. /\ H[n] = [id \in Ids(n) |-> C!Best(blob[Latest(About(n, id))].images)]
          /\ H[n - 1] = [id \in Ids(n - 1) |-> C!Best(blob[Latest(About(n - 1, id))].images)]
      BY <1>4
    <3>. HIDE DEF Ids, About, Latest
    <3>4. H[n] = H[n - 1]
      BY <3>2, <3>3
    <3>. QED
      BY <2>1, <3>4
  <2>2. CASE blob[n].images # {}
    <3>1. Pictured(n) = Pictured(n - 1) \cup {n}
      BY <1>6, <2>2
    <3>2. Ids(n) = Ids(n - 1) \cup {blob[n].id}
      BY <3>1
    <3>3. \A id : id # blob[n].id => About(n, id) = About(n - 1, id)
      BY <3>1
    <3>4. Latest(About(n, blob[n].id)) = n
      <4>. DEFINE S == About(n, blob[n].id)
      <4>1. n \in S /\ \A i \in S : i <= n /\ i \in 1 .. N
        BY <1>6, <3>1 DEF Pictured
      <4>2. \A i \in S : n <= i => i = n
        BY <1>1, <4>1
      <4>. HIDE DEF S
      <4>3. \A i \in S : (\A j \in S : j <= i) => i = n
        BY <4>1, <4>2
      <4>4. Latest(S) = n
        BY <4>1, <4>3
      <4>. QED
        BY <4>4 DEF S
    <3>5. /\ H[n] = [id \in Ids(n) |-> C!Best(blob[Latest(About(n, id))].images)]
          /\ H[n - 1] = [id \in Ids(n - 1) |-> C!Best(blob[Latest(About(n - 1, id))].images)]
      BY <1>4
    <3>. HIDE DEF Ids, About, Latest
    <3>6. DOMAIN H[n - 1] = Ids(n - 1)
      BY <3>5
    <3>7. \A id \in Ids(n - 1) : H[n - 1][id] = C!Best(blob[Latest(About(n - 1, id))].images)
      BY <3>5
    <3>. QED
      BY <2>2, <3>2, <3>3, <3>4, <3>5, <3>6, <3>7
  <2>. QED
    BY <2>1, <2>2
<1>10. H = Loop(H)
  BY <1>4, <1>8, <1>9 DEF C!Best
<1>11. Read = Loop(Read)
  BY <1>10
<1>. HIDE DEF Read
<1>12. Read[0] = H[0]
  BY <1>4, <1>10, <1>11
<1>13. ASSUME NEW n \in 1 .. N, Read[n - 1] = H[n - 1]
       PROVE  Read[n] = H[n]
  <2>1. n \in 0 .. N /\ n # 0
    BY <1>4
  <2>2. Read[n] = Loop(Read)[n] /\ H[n] = Loop(H)[n]
    BY <1>10, <1>11
  <2>. QED
    BY <1>13, <2>1, <2>2
<1>14. Read[N] = H[N]
  <2>1. GoOnAlike(Read, H, N)
    BY <1>12, <1>13 DEF GoOnAlike
  <2>. QED
    BY <1>1, <2>1, SameValues
<1>15. map = [id \in Ids(N) |-> C!Best(blob[Latest(About(N, id))].images)]
  BY <1>2, <1>4, <1>14 DEF blob
<1>16. (IF pid \in DOMAIN map THEN map[pid] ELSE None)
         = IF About(N, pid) = {} THEN None ELSE C!Best(blob[Latest(About(N, pid))].images)
  BY <1>7, <1>15
<1>. QED
  BY <1>3, <1>16 DEF blob

(* The links of the search page: of those to one programme the first, if   *)
(* it has a title, with the picture that the page's state has for it.      *)
LEMMA WebParsed ==
  ASSUME NEW page \in Pages
  PROVE  parse_bbc_search_html(page) = C!Web(page)
<1>. DEFINE links == page.anchors
            N     == Len(links)
            map   == extract_redux_image_map(page.blob)
            Thumb(pid) == IF pid \in DOMAIN map THEN map[pid] ELSE None
            fit   == {i \in DOMAIN links : links[i].fits}
            kept  == {i \in DOMAIN links : links[i].titled}
            row   == [i \in fit |-> Result(links[i].pid, None, C!Picture(page.blob, links[i].pid))]
            Read[n \in 0 .. N] ==
              IF n = 0 THEN [seen |-> {}, list |-> <<>>]
              ELSE LET a == links[n]  acc == Read[n - 1] IN
                   IF ~ a.fits \/ a.pid \in acc.seen THEN acc
                   ELSE [seen |-> acc.seen \cup {a.pid},
                         list |-> IF ~ a.titled THEN acc.list
                                  ELSE Append(acc.list, Result(a.pid, None, Thumb(a.pid)))]
            Loop(f) == [n \in 0 .. N |->
              IF n = 0 THEN [seen |-> {}, list |-> <<>>]
              ELSE LET a == links[n]  acc == f[n - 1] IN
                   IF ~ a.fits \/ a.pid \in acc.seen THEN acc
                   ELSE [seen |-> acc.seen \cup {a.pid},
                         list |-> IF ~ a.titled THEN acc.list
                                  ELSE Append(acc.list, Result(a.pid, None, Thumb(a.pid)))]]
            H == Held(links, fit, kept, row, N)
<1>1. N \in Nat /\ DOMAIN links = 1 .. N
  BY SourcesAssumption, Lengths
<1>2. C!Web(page) = Picked(row, C!Firsts(links, fit) \cap kept)
  <2>1. {i \in C!Firsts(links, fit) : links[i].titled} = C!Firsts(links, fit) \cap kept
    BY DEF C!Firsts
  <2>2. C!Web(page) = C!Picked(row, {i \in C!Firsts(links, fit) : links[i].titled})
    BY DEF C!Web, C!Result, Result, C!None, None
  <2>. QED
    BY <2>1, <2>2, SamePicked
<1>3. parse_bbc_search_html(page) = Read[N].list
  BY DEF parse_bbc_search_html
<1>4. /\ fit \in SUBSET (1 .. N)
      /\ \A n \in 1 .. N : (n \in fit <=> links[n].fits) /\ (n \in kept <=> links[n].titled)
      /\ \A n \in fit : row[n] = Result(links[n].pid, None, Thumb(links[n].pid))
  <2>1. \A pid : Thumb(pid) = C!Picture(page.blob, pid)
    BY ImagesParsed
  <2>. HIDE DEF Thumb
  <2>. QED
    BY <1>1, <2>1
<1>5. H = [n \in 0 .. N |-> H[n]]
  BY DEF Held
<1>. HIDE DEF links, N, Thumb, fit, kept, row, H
<1>6. LoopsOnce(H, links, fit, kept, row, N)
  <2>1. fit \subseteq 1 .. N /\ H = Held(links, fit, kept, row, N)
    BY <1>4 DEF H
  <2>. QED
    BY <1>1, <2>1, HeldByLoop
<1>7. \A n \in 0 .. N : n = 0 \/ n \in 1 .. N
  BY <1>1
<1>8. H = Loop(H)
  BY <1>4, <1>5, <1>6, <1>7 DEF LoopsOnce
<1>9. Read = Loop(Read)
  BY <1>8
<1>. HIDE DEF Read
<1>10. Read[0] = H[0]
  BY <1>1, <1>8, <1>9
<1>11. ASSUME NEW n \in 1 .. N, Read[n - 1] = H[n - 1]
       PROVE  Read[n] = H[n]
  <2>1. n \in 0 .. N /\ n # 0
    BY <1>1
  <2>2. Read[n] = Loop(Read)[n] /\ H[n] = Loop(H)[n]
    BY <1>8, <1>9
  <2>. QED
    BY <1>11, <2>1, <2>2
<1>12. Read[N] = H[N]
  <2>1. GoOnAlike(Read, H, N)
    BY <1>10, <1>11 DEF GoOnAlike
  <2>. QED
    BY <1>1, <2>1, SameValues
<1>. QED
  BY <1>2, <1>3, <1>6, <1>12 DEF LoopsOnce
-----------------------------------------------------------------------------
(* The search itself.                                                      *)

\* The join starts with neither part there: until then nothing was awaited but one call.
JoinIsNew == pc \notin {"series", "over"} => eps = Waiting /\ info = Waiting
NotBefore == pc \in {"start", "api", "web"} => child = "none"

Inv == TypeOK /\ NoOrphan /\ JoinIsNew /\ NotBefore

LEMMA Inductive == Inv /\ [Next]_vars => Inv'
  <1> SUFFICES ASSUME Inv, [Next]_vars PROVE Inv' OBVIOUS
  <1> USE DEF Inv, TypeOK, NoOrphan, JoinIsNew, NotBefore, NoResult, Waiting
  <1>1. ASSUME NEW r, r.st \in {"ok", "error", "gone"}, r # NoResult, Conclude(r) PROVE Inv'
    BY <1>1 DEF Conclude
  <1>2. /\ Error.st = "error" /\ Error # NoResult /\ Gone.st = "gone" /\ Gone # NoResult
        /\ \A list : Ok(list).st = "ok" /\ Ok(list) # NoResult
    BY DEF Error, Gone, Ok
  <1>3. CASE Start BY <1>3 DEF Start, Await, Spawned
  <1>4. CASE ApiReplies BY <1>1, <1>2, <1>4 DEF ApiReplies, Await, Spawned
  <1>5. CASE ApiFails BY <1>5 DEF ApiFails, Await, Spawned
  <1>6. CASE ByPid BY <1>1, <1>2, <1>6 DEF ByPid, Await, Spawned
  <1>7. CASE InfoReplies \/ InfoFails BY <1>7 DEF InfoReplies, InfoFails, InfoIs
  <1>8. CASE Listed \/ ListTimeout
    BY <1>8 DEF Listed, ListTimeout, EpisodesAre, Fails, Says
  <1>9. CASE Joined BY <1>1, <1>2, <1>9 DEF Joined
  <1>10. CASE EpisodesListed BY <1>1, <1>2, <1>10 DEF EpisodesListed
  <1>11. CASE WebReplies BY <1>1, <1>2, <1>11 DEF WebReplies, Await, Spawned
  <1>12. CASE WebFails BY <1>12 DEF WebFails, Await, Spawned
  <1>13. CASE Local BY <1>1, <1>2, <1>13 DEF Local
  <1>14. CASE GoAway BY <1>1, <1>2, <1>14 DEF GoAway
  <1>15. CASE UNCHANGED vars BY <1>15 DEF vars
  <1> QED
    BY <1>3, <1>4, <1>5, <1>6, <1>7, <1>8, <1>9, <1>10, <1>11, <1>12, <1>13, <1>14, <1>15
    DEF Next, Proceed

LEMMA Always == Spec => []Inv
  <1>1. Init => Inv
    BY DEF Init, Inv, TypeOK, NoOrphan, JoinIsNew, NotBefore, NoResult, Waiting
  <1> QED BY <1>1, Inductive, PTL DEF Spec

\* The type invariant; with it, that the request is answered exactly when its search is
\* over.
THEOREM SearchTypeOK == Spec => []TypeOK
  BY Always, PTL DEF Inv

\* No get_iplayer outlives the wait for it, by whichever way the wait ends.
THEOREM NoneLeftBehind == Spec => []NoOrphan
  BY Always, PTL DEF Inv
-----------------------------------------------------------------------------
(* What the search has learnt when it waits for a call.                    *)

\* Sources say what they may say; each call is made for its query.
Sources ==
    /\ says["list"].st \in {"ok", "failed", "hangs"}
    /\ says["list"].st = "ok" => says["list"].val \in Listings
    /\ says["cache"].st = "ok" => says["cache"].val \in Rows
    /\ says["web"].st = "ok" => says["web"].val \in Pages

Asks ==
    /\ pc \in {"api", "by_pid", "series"} => query = "pid"
    /\ pc \in {"web", "local"} => query = "text"
    /\ pc = "episodes" => query = "episodes"

\* Before the join: the programme data or the cache have answered, with nothing.
NothingElse ==
    pc = "series" => \/ says["api"].st = "ok" /\ C!ApiList(says["api"].val) = <<>>
                     \/ says["cache"].st = "ok" /\ C!Cached(says["cache"].val) = <<>>

\* In the join: each part is what its source says, or nothing.
InfoSaid ==
    info # Waiting =>
        \/ info.val = NoInfo
        \/ says["info"].st = "ok" /\ info.val = C!SeriesInfo(says["info"].val)

EpsSaid ==
    eps # Waiting =>
        \/ eps = Fails /\ says["list"].st = "failed"
        \/ eps = Says(<<>>) /\ says["list"].st # "failed"
        \/ eps = Says(C!Listing(says["list"].val)) /\ says["list"].st = "ok"

\* A get_iplayer that runs was found.
Found == pc = "series" /\ child = "running" => says["list"].st # "failed"

Learnt == Sources /\ Asks /\ NothingElse /\ InfoSaid /\ EpsSaid /\ Found

(* The two parsers without a loop are their definitions.                   *)
LEMMA Looks ==
  /\ \A prog : lookup_pid_api(prog) = C!ApiList(prog)
  /\ \A prog : get_series_label(prog) = C!SeriesInfo(prog)
  BY DEF lookup_pid_api, C!ApiList, Result, C!Result, get_series_label, C!SeriesInfo,
         NoInfo, None, C!None, C!Orelse

LEMMA StartsLearnt == Init => Learnt
  BY DEF Init, Learnt, Sources, Asks, NothingElse, InfoSaid, EpsSaid, Found,
         Saying, Says, Fails, Hangs, Waiting

(* A step that leaves the search waiting for another call has had a reason. *)
LEMMA Learns == Inv /\ Learnt /\ [Next]_vars => Learnt'
<1>. SUFFICES ASSUME Inv, Learnt, [Next]_vars PROVE Learnt'
  OBVIOUS
<1>. USE DEF Learnt, Asks, NothingElse, InfoSaid, EpsSaid, Found
<1>1. says' = says /\ query' = query
  BY DEF Next, Proceed, Start, ApiReplies, ApiFails, ByPid, InfoReplies, InfoFails, InfoIs,
         Listed, ListTimeout, EpisodesAre, Joined, EpisodesListed, WebReplies, WebFails,
         Local, GoAway, Await, Conclude, vars
<1>2. Sources'
  BY <1>1 DEF Sources
<1>3. ASSUME NEW r, Conclude(r) PROVE Learnt'
  BY <1>2, <1>3 DEF Conclude
<1>4. CASE Start
  BY <1>2, <1>4 DEF Start, Await, Spawned
<1>5. CASE ApiReplies
  BY <1>2, <1>3, <1>5, Looks DEF ApiReplies, Await, Spawned
<1>6. CASE ApiFails
  BY <1>2, <1>6 DEF ApiFails, Await, Spawned
<1>7. CASE ByPid
  <2>1. says["cache"].st = "ok" =>
          parse_get_iplayer_output(says["cache"].val) = C!Cached(says["cache"].val)
    BY CachedParsed DEF Sources
  <2>. QED
    BY <1>2, <1>3, <1>7, <2>1 DEF ByPid, Await, Spawned
<1>8. CASE InfoReplies \/ InfoFails
  BY <1>2, <1>8, Looks DEF InfoReplies, InfoFails, InfoIs
<1>9. CASE Listed \/ ListTimeout
  <2>1. says["list"].st = "ok" =>
          parse_pid_recursive_output(says["list"].val) = C!Listing(says["list"].val)
    BY ListingParsed DEF Sources
  <2>2. says["list"].st \in {"ok", "failed", "hangs"}
    BY DEF Sources
  <2>. QED
    BY <1>2, <1>9, <2>1, <2>2 DEF Listed, ListTimeout, EpisodesAre, Says, Fails
<1>10. CASE Joined \/ EpisodesListed \/ Local \/ GoAway
  BY <1>3, <1>10 DEF Joined, EpisodesListed, Local, GoAway
<1>11. CASE WebReplies \/ WebFails
  BY <1>2, <1>3, <1>11 DEF WebReplies, WebFails, Await, Spawned
<1>12. CASE UNCHANGED vars
  BY <1>2, <1>12 DEF vars
<1>. QED
  BY <1>4, <1>5, <1>6, <1>7, <1>8, <1>9, <1>10, <1>11, <1>12 DEF Next, Proceed

LEMMA AlwaysLearnt == Spec => [](Inv /\ Learnt)
<1>1. Init => Inv
  BY DEF Init, Inv, TypeOK, NoOrphan, JoinIsNew, NotBefore, NoResult, Waiting
<1>. QED
  BY <1>1, Inductive, StartsLearnt, Learns, PTL DEF Spec
-----------------------------------------------------------------------------
(* The answer.                                                             *)

(* What is picked from results are results.                                *)
LEMMA ListingResults ==
  ASSUME NEW val \in Listings, NEW n \in DOMAIN C!Listing(val)
  PROVE  \E pid, series, thumb : C!Listing(val)[n] = Result(pid, series, thumb)
<1>. DEFINE lines == val
            rows  == {i \in DOMAIN lines : ~ lines[i].header /\ lines[i].pid # None}
            row   == [i \in rows |-> Result(lines[i].pid, lines[i].series, None)]
            at    == C!Firsts(lines, rows)
<1>1. C!Listing(val) = Picked(row, at)
  BY SamePicked DEF C!Listing, C!Result, Result, C!None, None
<1>2. Len(lines) \in Nat /\ DOMAIN lines = 1 .. Len(lines)
  <2>1. PICK S : lines \in Seq(S)
    BY SourcesAssumption DEF IsSequence
  <2>. QED
    BY <2>1
<1>3. at \subseteq rows /\ rows \subseteq 1 .. Len(lines)
  BY <1>2 DEF C!Firsts
<1>4. \A i \in rows : row[i] = Result(lines[i].pid, lines[i].series, None)
  OBVIOUS
<1>. HIDE DEF lines, rows, row, at
<1>5. IsFiniteSet(at) /\ at \subseteq Nat
  <2>1. IsFiniteSet(1 .. Len(lines)) /\ at \subseteq 1 .. Len(lines)
    BY <1>2, <1>3, FS_Interval
  <2>2. IsFiniteSet(at)
    BY <2>1, FS_Subset
  <2>. QED
    BY <2>1, <2>2
<1>6. Ascending(at) \in [1 .. Cardinality(at) -> at]
  BY <1>5, AscendingOnce
<1>7. Picked(row, at) = [k \in DOMAIN Ascending(at) |-> row[Ascending(at)[k]]]
  BY DEF Picked
<1>8. n \in DOMAIN Ascending(at) /\ C!Listing(val)[n] = row[Ascending(at)[n]]
  BY <1>1, <1>7
<1>9. Ascending(at)[n] \in rows
  BY <1>3, <1>6, <1>8
<1>. QED
  BY <1>4, <1>8, <1>9

(* Overwriting the fields that are None is taking the other's.             *)
LEMMA Stamps ==
  ASSUME NEW list, NEW i, \A n \in DOMAIN list : \E p, s, t : list[n] = Result(p, s, t)
  PROVE  Stamp(list, i) = C!Stamped(list, i)
<1>1. ASSUME NEW n \in DOMAIN list
      PROVE  [list[n] EXCEPT !.series = IF @ = None THEN i.label ELSE @,
                             !.thumb  = IF @ = None THEN i.thumb ELSE @]
               = C!Result(list[n].pid, C!Orelse(list[n].series, i.label),
                                       C!Orelse(list[n].thumb, i.thumb))
  <2>1. PICK p, s, t : list[n] = Result(p, s, t)
    OBVIOUS
  <2>. DEFINE r == [pid |-> p, series |-> s, thumb |-> t]
              series == IF s # None THEN s ELSE i.label
              thumb  == IF t # None THEN t ELSE i.thumb
  <2>2. /\ list[n] = r /\ r = [pid |-> p, series |-> s, thumb |-> t]
        /\ r.pid = p /\ r.series = s /\ r.thumb = t
    BY <2>1 DEF Result
  <2>3. C!Result(p, C!Orelse(s, i.label), C!Orelse(t, i.thumb))
          = [pid |-> p, series |-> series, thumb |-> thumb]
    BY DEF C!Result, C!Orelse, None, C!None
  <2>4. /\ (IF s = None THEN i.label ELSE s) = series
        /\ (IF t = None THEN i.thumb ELSE t) = thumb
    OBVIOUS
  <2>. HIDE DEF r, series, thumb
  <2>5. [r EXCEPT !.series = series, !.thumb = thumb]
          = [pid |-> p, series |-> series, thumb |-> thumb]
    <3>. DEFINE q == [r EXCEPT !.series = series]
    <3>1. [r EXCEPT !.series = series, !.thumb = thumb] = [q EXCEPT !.thumb = thumb]
      OBVIOUS
    <3>2. q = [pid |-> p, series |-> series, thumb |-> t]
      BY <2>2
    <3>. HIDE DEF q
    <3>3. [q EXCEPT !.thumb = thumb] = [pid |-> p, series |-> series, thumb |-> thumb]
      BY <3>2
    <3>. QED
      BY <3>1, <3>3
  <2>. QED
    BY <2>2, <2>3, <2>4, <2>5
<1>. QED
  BY <1>1 DEF Stamp, C!Stamped

(* What the join answers is the listing's answer, given which limits passed. *)
LEMMA JoinAnswers ==
  ASSUME Inv, Learnt, pc = "series", info # Waiting, eps # Waiting, NEW late,
         "info" \in late <=> info.val = NoInfo,
         "list" \in late <=> eps = Says(<<>>)
  PROVE  C!ListingAnswer(late) = IF eps = Fails THEN Error ELSE Ok(Stamp(eps.val, info.val))
<1>1. (IF C!Heard("info", late) THEN C!SeriesInfo(says["info"].val)
                                ELSE [label |-> C!None, thumb |-> C!None]) = info.val
  BY DEF Learnt, InfoSaid, C!Heard, NoInfo, None, C!None
<1>2. CASE eps = Fails /\ says["list"].st = "failed"
  BY <1>2 DEF C!ListingAnswer, C!Error, Error
<1>3. CASE eps = Says(<<>>) /\ says["list"].st # "failed"
  <2>1. Stamp(<<>>, info.val) = C!Stamped(<<>>, info.val)
    BY Stamps
  <2>2. eps.val = <<>> /\ eps # Fails
    BY <1>3 DEF Says, Fails
  <2>. QED
    BY <1>1, <1>3, <2>1, <2>2 DEF C!ListingAnswer, C!Heard, C!Ok, Ok
<1>4. CASE /\ eps = Says(C!Listing(says["list"].val)) /\ says["list"].st = "ok"
           /\ eps # Says(<<>>)
  <2>1. Stamp(eps.val, info.val) = C!Stamped(C!Listing(says["list"].val), info.val)
    BY <1>4, ListingResults, Stamps DEF Learnt, Sources, Says
  <2>2. eps # Fails
    BY <1>4 DEF Says, Fails
  <2>. QED
    BY <1>1, <1>4, <2>1, <2>2 DEF C!ListingAnswer, C!Heard, C!Ok, Ok
<1>. QED
  BY <1>2, <1>3, <1>4 DEF Learnt, EpsSaid

(* Each step that ends the search is an answer of the contract; the others *)
(* do not show.                                                            *)
LEMMA Concludes ==
  ASSUME Inv, Learnt, [Next]_vars
  PROVE  [C!Answer]_<<query, says, result>>
<1>. USE DEF Learnt, Asks
<1>1. ASSUME NEW r, Conclude(r)
      PROVE  result' = r /\ query' = query /\ says' = says
  BY <1>1 DEF Conclude
<1>2. pc # "over" => result = C!NoResult
  BY DEF Inv, TypeOK, NoResult, C!NoResult
<1>3. ASSUME NEW late \in SUBSET C!Capped, pc # "over", query' = query, says' = says,
             C!AnswerPid(late) \/ C!AnswerText(late)
      PROVE  C!Answer
  BY <1>2, <1>3 DEF C!Answer
<1>4. CASE Start \/ ApiFails \/ WebFails
  BY <1>4 DEF Start, ApiFails, WebFails, Await
<1>5. CASE InfoReplies \/ InfoFails \/ Listed \/ ListTimeout
  BY <1>5 DEF InfoReplies, InfoFails, InfoIs, Listed, ListTimeout, EpisodesAre
<1>6. CASE ApiReplies
  <2>1. CASE lookup_pid_api(says.api.val) = <<>>
    BY <1>6, <2>1 DEF ApiReplies, Await
  <2>2. CASE lookup_pid_api(says.api.val) # <<>>
    <3>1. Conclude(Ok(lookup_pid_api(says.api.val))) /\ pc = "api" /\ says["api"].st = "ok"
      BY <1>6, <2>2 DEF ApiReplies
    <3>2. C!AnswerPid({})
      BY <1>1, <2>2, <3>1, Looks DEF C!AnswerPid, C!Heard, C!Ok, Ok
    <3>. QED
      BY <1>1, <1>3, <3>1, <3>2
  <2>. QED
    BY <2>1, <2>2
<1>7. ASSUME NEW found, found = parse_get_iplayer_output(says["cache"].val), says["cache"].st = "ok"
      PROVE  found = C!Cached(says["cache"].val)
  BY <1>7, CachedParsed DEF Sources
<1>8. CASE ByPid
  <2>. DEFINE found == parse_get_iplayer_output(says["cache"].val)
  <2>1. CASE says["cache"].st = "ok" /\ found = <<>>
    BY <1>8, <2>1 DEF ByPid, Await
  <2>2. CASE says["cache"].st = "failed" \/ found # <<>>
    <3>1. /\ pc = "by_pid"
          /\ \/ says["cache"].st = "failed" /\ Conclude(Error)
             \/ says["cache"].st = "ok" /\ found # <<>> /\ Conclude(Ok(found))
      BY <1>8, <2>2 DEF ByPid
    <3>. HIDE DEF found
    <3>2. /\ query = "pid" /\ query' = query /\ says' = says
          /\ \/ says["cache"].st = "failed" /\ result' = Error
             \/ says["cache"].st = "ok" /\ found # <<>> /\ result' = Ok(found)
      BY <1>1, <3>1
    <3>3. says["cache"].st = "ok" => found = C!Cached(says["cache"].val)
      BY <1>7 DEF found
    <3>4. C!CacheAnswer(C!ListingAnswer({"api"}))
      BY <3>2, <3>3 DEF C!CacheAnswer, C!Ok, Ok, C!Error, Error
    <3>5. C!AnswerPid({"api"})
      BY <3>2, <3>4 DEF C!AnswerPid, C!Heard
    <3>. QED
      BY <1>3, <3>1, <3>2, <3>5 DEF C!Capped
  <2>. QED
    BY <1>8, <2>1, <2>2 DEF ByPid
<1>9. CASE Joined
  <2>. DEFINE early == says["api"].st = "ok" /\ C!ApiList(says["api"].val) = <<>>
              late == (IF early THEN {} ELSE {"api"})
                        \cup (IF info.val = NoInfo THEN {"info"} ELSE {})
                        \cup (IF eps = Says(<<>>) THEN {"list"} ELSE {})
  <2>1. /\ pc = "series" /\ info # Waiting /\ eps # Waiting /\ query = "pid"
        /\ query' = query /\ says' = says
        /\ result' = IF eps = Fails THEN Error ELSE Ok(Stamp(eps.val, info.val))
    BY <1>1, <1>9 DEF Joined
  <2>2. late \in SUBSET C!Capped
    BY <2>1 DEF C!Capped
  <2>3. /\ "info" \in late <=> info.val = NoInfo
        /\ "list" \in late <=> eps = Says(<<>>)
        /\ "api" \in late <=> ~ early
    OBVIOUS
  <2>. HIDE DEF late
  <2>4. result' = C!ListingAnswer(late)
    BY <2>1, <2>3, JoinAnswers
  <2>5. CASE early
    BY <1>3, <2>1, <2>2, <2>3, <2>4, <2>5 DEF C!AnswerPid, C!Heard
  <2>6. CASE ~ early
    <3>1. says["cache"].st = "ok" /\ C!Cached(says["cache"].val) = <<>>
      BY <2>1, <2>6 DEF NothingElse
    <3>2. C!CacheAnswer(C!ListingAnswer(late))
      BY <2>4, <3>1 DEF C!CacheAnswer
    <3>. QED
      BY <1>3, <2>1, <2>2, <2>3, <2>6, <3>2 DEF C!AnswerPid, C!Heard
  <2>. QED
    BY <2>5, <2>6
<1>10. CASE EpisodesListed
  <2>1. says["list"].st = "ok" =>
          parse_pid_recursive_output(says["list"].val) = C!Listing(says["list"].val)
    BY ListingParsed DEF Sources
  <2>2. C!AnswerEpisodes /\ query' = query /\ says' = says /\ pc # "over"
    BY <1>1, <1>10, <2>1 DEF EpisodesListed, C!AnswerEpisodes, C!Ok, Ok, C!Error, Error
  <2>. QED
    BY <1>2, <2>2 DEF C!Answer
<1>11. CASE WebReplies
  <2>. DEFINE found == parse_bbc_search_html(says.web.val)
  <2>1. CASE found = <<>>
    BY <1>11, <2>1 DEF WebReplies, Await
  <2>2. CASE found # <<>>
    <3>1. Conclude(Ok(found)) /\ pc = "web" /\ says["web"].st = "ok"
      BY <1>11, <2>2 DEF WebReplies
    <3>2. found = C!Web(says["web"].val)
      BY <3>1, WebParsed DEF Sources
    <3>. HIDE DEF found
    <3>3. C!AnswerText({})
      BY <1>1, <2>2, <3>1, <3>2 DEF C!AnswerText, C!Heard, C!Ok, Ok
    <3>. QED
      BY <1>1, <1>3, <3>1, <3>3
  <2>. QED
    BY <2>1, <2>2
<1>12. CASE Local
  <2>. DEFINE found == parse_get_iplayer_output(says["cache"].val)
  <2>1. /\ pc = "local"
        /\ \/ says["cache"].st = "failed" /\ Conclude(Error)
           \/ says["cache"].st = "ok" /\ Conclude(Ok(found))
    BY <1>12 DEF Local
  <2>. HIDE DEF found
  <2>2. /\ query = "text" /\ query' = query /\ says' = says
        /\ \/ says["cache"].st = "failed" /\ result' = Error
           \/ says["cache"].st = "ok" /\ result' = Ok(found)
    BY <1>1, <2>1
  <2>3. says["cache"].st = "ok" => found = C!Cached(says["cache"].val)
    BY <1>7 DEF found
  <2>4. C!CacheAnswer(C!Ok(<<>>))
    BY <2>2, <2>3 DEF C!CacheAnswer, C!Ok, Ok, C!Error, Error
  <2>5. C!AnswerText({"web"})
    BY <2>2, <2>4 DEF C!AnswerText, C!Heard
  <2>. QED
    BY <1>3, <2>1, <2>2, <2>5 DEF C!Capped
<1>13. CASE GoAway
  <2>1. result' = C!Gone /\ query' = query /\ says' = says /\ pc # "over"
    BY <1>1, <1>13 DEF GoAway, C!Gone, Gone
  <2>. QED
    BY <1>2, <2>1 DEF C!Answer
<1>14. CASE UNCHANGED vars
  BY <1>14 DEF vars
<1>. QED
  BY <1>4, <1>5, <1>6, <1>8, <1>9, <1>10, <1>11, <1>12, <1>13, <1>14 DEF Next, Proceed

\* The search is answered once, and by the best source that was heard in time with what it
\* says: whatever the sources say, and whichever of them fail, hang or miss their limits.
THEOREM SearchAnswers == Spec => Contract
<1>1. Init => result = C!NoResult
  BY DEF Init, NoResult, C!NoResult
<1>. QED
  BY <1>1, AlwaysLearnt, Concludes, PTL DEF Spec, Contract, C!Answers
=============================================================================
