--------------------------- MODULE QueuePageProofs ---------------------------
(***************************************************************************)
(* Proofs about QueuePage: for any number of sockets, items, writes,       *)
(* restarts, requests in flight and any capacity of the channels, the page *)
(* never shows an item more often than there are sources for it.           *)
(*                                                                         *)
(* The argument: a poll brings each row once, and an item is announced as  *)
(* added once in its life, to every socket that is open then.  The copies  *)
(* on the page and those still due, one per socket on whose way through    *)
(* stream and wire the announcement is (all of them while it is owed), are *)
(* together never more than the sockets and one.                           *)
(***************************************************************************)
EXTENDS QueuePage, PlacesProofs

\* How often members of a set occur in a sequence.
Nowhere(q, X) == \A i \in 1 .. Len(q) : q[i] \notin X
Once(q, X)    == \A i, j \in 1 .. Len(q) : q[i] \in X /\ q[j] \in X => i = j
Spots(q, X)   == {i \in 1 .. Len(q) : q[i] \in X}
Often(q, X)   == Cardinality(Spots(q, X))

RowsOf(id) == [id : {id}, st : Statuses]
AddsOf(id) == [type : {"item_added"}, id : {id}, st : Statuses]

OwedEvents == [type : {"item_added", "item_removed"}, id : Items]
                \cup [type : {"status_change"}, id : Items, st : Reports]
RowEvents == [type : {"item_added"}, id : Items, st : Statuses]
               \cup [type : {"item_removed"}, id : Items]
               \cup [type : {"status_change"}, id : Items, st : Reports]
Events == RowEvents \cup {Progress}

\* The sockets on whose way to the page the announcement of an item is.
Carriers(id) == {s \in Sockets : \/ ~ Nowhere(stream[s], AddsOf(id))
                                 \/ ~ Nowhere(wire[s], AddsOf(id))}

\* The copies that announcement can still bring.
Due(id) == IF Added(id) \in owed THEN Cardinality(Sockets) ELSE Cardinality(Carriers(id))

EventsOK ==
    /\ owed \subseteq OwedEvents
    /\ stream \in [Sockets -> Seq(Events)]
    /\ wire \in [Sockets -> Seq(RowEvents)]

\* A socket has the announcement in one place only.
SocketOK(s, id) ==
    /\ Once(stream[s], AddsOf(id)) /\ Once(wire[s], AddsOf(id))
    /\ Nowhere(stream[s], AddsOf(id)) \/ Nowhere(wire[s], AddsOf(id))

\* An announcement still owed is with no socket, and a row not inserted yet has none.
PendingOK(id) ==
    /\ \A s \in Sockets : SocketOK(s, id)
    /\ Added(id) \in owed => Carriers(id) = {}
    /\ row[id] = "fresh" => Added(id) \notin owed /\ Carriers(id) = {}

ShownOK(id) ==
    /\ Often(items, RowsOf(id)) + Due(id) <= 1 + Cardinality(Sockets)
    /\ row[id] = "fresh" => Nowhere(items, RowsOf(id))

AnswerOK(q) ==
    /\ q \in [op : {"none", "enter", "poll", "remove", "retry"}, id : Items \cup {0},
              data : Seq(Shown)]
    /\ \A id \in Items : /\ Once(q.data, RowsOf(id))
                         /\ row[id] = "fresh" => Nowhere(q.data, RowsOf(id))
    /\ q.op = "none" => q = Idle
    /\ q.op = "retry" => Len(q.data) = 1 /\ q.data[1] \in RowsOf(q.id)

IInv ==
    /\ TypeOK /\ EventsOK
    /\ \A id \in Items : PendingOK(id) /\ ShownOK(id)
    /\ DOMAIN calls = Calls /\ \A c \in Calls : AnswerOK(calls[c])
-----------------------------------------------------------------------------
(* How often members of a set occur in a sequence and in a changed one.    *)

LEMMA OftenOK ==
  ASSUME NEW S, NEW q \in Seq(S), NEW X
  PROVE  /\ IsFiniteSet(Spots(q, X)) /\ Often(q, X) \in Nat
         /\ Nowhere(q, X) => Often(q, X) = 0
         /\ Once(q, X) => Often(q, X) <= 1
<1>1. Spots(q, X) \subseteq 1 .. Len(q) /\ IsFiniteSet(1 .. Len(q))
  <2>1. Len(q) \in Nat
    OBVIOUS
  <2>. QED
    BY <2>1, FS_Interval DEF Spots
<1>2. IsFiniteSet(Spots(q, X))
  BY <1>1, FS_Subset
<1>3. Often(q, X) \in Nat
  BY <1>2, FS_CardinalityType DEF Often
<1>4. Spots(q, X) = {} => Often(q, X) = 0
  BY FS_EmptySet DEF Often
<1>5. ASSUME Once(q, X), Spots(q, X) # {} PROVE Often(q, X) = 1
  <2>1. PICK i \in Spots(q, X) : TRUE
    BY <1>5
  <2>2. Spots(q, X) = {i}
    BY <1>5, <2>1 DEF Spots, Once
  <2>. QED
    BY <2>2, FS_Singleton DEF Often
<1>6. Nowhere(q, X) => Spots(q, X) = {}
  BY DEF Nowhere, Spots
<1>. QED
  BY <1>2, <1>3, <1>4, <1>5, <1>6

LEMMA Appended ==
  ASSUME NEW S, NEW q \in Seq(S), NEW e \in S, NEW X
  PROVE  /\ Append(q, e) \in Seq(S)
         /\ Nowhere(Append(q, e), X) <=> Nowhere(q, X) /\ e \notin X
         /\ Once(q, X) /\ (Nowhere(q, X) \/ e \notin X) => Once(Append(q, e), X)
<1>. DEFINE n == Len(q)
            r == Append(q, e)
<1>1. /\ n \in Nat /\ Len(r) = n + 1 /\ r[n + 1] = e /\ r \in Seq(S)
      /\ \A i \in 1 .. n : r[i] = q[i]
  OBVIOUS
<1>. HIDE DEF r
<1>2. \A i \in 1 .. n + 1 : i = n + 1 \/ i \in 1 .. n
  BY <1>1
<1>3. Nowhere(r, X) <=> Nowhere(q, X) /\ e \notin X
  <2>1. Nowhere(r, X) => Nowhere(q, X) /\ e \notin X
    <3>1. n + 1 \in 1 .. n + 1 /\ \A i \in 1 .. n : i \in 1 .. n + 1
      BY <1>1
    <3>. QED
      BY <1>1, <3>1 DEF Nowhere
  <2>2. Nowhere(q, X) /\ e \notin X => Nowhere(r, X)
    BY <1>1, <1>2 DEF Nowhere
  <2>. QED
    BY <2>1, <2>2
<1>4. Once(q, X) /\ (Nowhere(q, X) \/ e \notin X) => Once(r, X)
  BY <1>1, <1>2 DEF Nowhere, Once
<1>. QED
  BY <1>1, <1>3, <1>4 DEF r

LEMMA Shortened ==
  ASSUME NEW S, NEW q \in Seq(S), q # <<>>, NEW X
  PROVE  /\ Tail(q) \in Seq(S) /\ Head(q) \in S
         /\ Nowhere(q, X) => Nowhere(Tail(q), X) /\ Head(q) \notin X
         /\ Once(q, X) => Once(Tail(q), X)
         /\ Once(q, X) /\ Head(q) \in X => Nowhere(Tail(q), X)
<1>. DEFINE n == Len(q)
            r == Tail(q)
<1>1. /\ n \in Nat \ {0} /\ Len(r) = n - 1 /\ r \in Seq(S) /\ Head(q) = q[1] /\ Head(q) \in S
      /\ \A i \in 1 .. n - 1 : r[i] = q[i + 1]
  OBVIOUS
<1>. HIDE DEF r
<1>2. 1 \in 1 .. n /\ \A i \in 1 .. n - 1 : i + 1 \in 1 .. n /\ i + 1 # 1
  BY <1>1
<1>3. Nowhere(q, X) => Nowhere(r, X) /\ Head(q) \notin X
  BY <1>1, <1>2 DEF Nowhere
<1>4. Once(q, X) => Once(r, X)
  <2>. SUFFICES ASSUME Once(q, X), NEW i \in 1 .. n - 1, NEW j \in 1 .. n - 1,
                       r[i] \in X, r[j] \in X
                PROVE  i = j
    BY <1>1 DEF Once
  <2>1. i + 1 = j + 1
    BY <1>1, <1>2 DEF Once
  <2>. QED
    BY <1>1, <2>1
<1>5. Once(q, X) /\ Head(q) \in X => Nowhere(r, X)
  BY <1>1, <1>2 DEF Once, Nowhere
<1>. QED
  BY <1>1, <1>3, <1>4, <1>5 DEF r

(* What comes from different places of another sequence, member for member. *)
LEMMA Drawn ==
  ASSUME NEW S, NEW q \in Seq(S), NEW r \in Seq(S), NEW X,
         NEW g \in [1 .. Len(r) -> 1 .. Len(q)],
         \A i, j \in 1 .. Len(r) : g[i] = g[j] => i = j,
         \A i \in 1 .. Len(r) : r[i] \in X => q[g[i]] \in X
  PROVE  /\ Nowhere(q, X) => Nowhere(r, X)
         /\ Often(r, X) <= Often(q, X)
<1>1. Nowhere(q, X) => Nowhere(r, X)
  BY DEF Nowhere
<1>2. Often(r, X) <= Often(q, X)
  <2>. DEFINE A == Spots(r, X)
              B == Spots(q, X)
              h == [i \in A |-> g[i]]
  <2>1. h \in [A -> B] /\ \A i, j \in A : h[i] = h[j] => i = j
    BY DEF Spots
  <2>2. h \in Injection(A, B)
    BY <2>1 DEF Injection, IsInjective
  <2>3. IsFiniteSet(B)
    BY OftenOK
  <2>. HIDE DEF A, B, h
  <2>4. Cardinality(A) <= Cardinality(B)
    BY <2>2, <2>3, FS_Injection
  <2>. QED
    BY <2>4 DEF Often, A, B
<1>. QED
  BY <1>1, <1>2

LEMMA Prepended ==
  ASSUME NEW S, NEW q \in Seq(S), NEW e \in S, NEW X
  PROVE  /\ <<e>> \o q \in Seq(S)
         /\ Often(<<e>> \o q, X) <= Often(q, X) + 1
         /\ e \notin X => /\ Nowhere(q, X) => Nowhere(<<e>> \o q, X)
                          /\ Often(<<e>> \o q, X) <= Often(q, X)
<1>. DEFINE n == Len(q)
            r == <<e>> \o q
            A == Spots(r, X)
            B == Spots(q, X)
<1>1. /\ n \in Nat /\ Len(r) = n + 1 /\ r[1] = e /\ r \in Seq(S)
      /\ \A i \in 1 .. n + 1 : i = 1 \/ (i - 1 \in 1 .. n /\ r[i] = q[i - 1])
  OBVIOUS
<1>. HIDE DEF r
<1>2. /\ IsFiniteSet(A) /\ IsFiniteSet(B)
      /\ Cardinality(A) = Often(r, X) /\ Cardinality(B) = Often(q, X)
      /\ Often(r, X) \in Nat /\ Often(q, X) \in Nat
  BY <1>1, OftenOK DEF Often
<1>3. Cardinality(A \ {1}) <= Cardinality(B)
  <2>. DEFINE h == [i \in A \ {1} |-> i - 1]
  <2>1. \A i \in A \ {1} : i \in Nat /\ i - 1 \in B
    BY <1>1 DEF Spots
  <2>2. h \in [A \ {1} -> B] /\ \A i, j \in A \ {1} : h[i] = h[j] => i = j
    BY <2>1
  <2>3. h \in Injection(A \ {1}, B)
    BY <2>2 DEF Injection, IsInjective
  <2>. HIDE DEF h, A, B
  <2>. QED
    BY <1>2, <2>3, FS_Injection
<1>4. Cardinality(A \ {1}) = IF 1 \in A THEN Cardinality(A) - 1 ELSE Cardinality(A)
  <2>. HIDE DEF A
  <2>. QED
    BY <1>2, FS_RemoveElement
<1>5. 1 \in A => e \in X
  BY <1>1 DEF Spots
<1>6. e \notin X /\ Nowhere(q, X) => Nowhere(r, X)
  BY <1>1 DEF Nowhere
<1>7. Often(r, X) <= Often(q, X) + 1 /\ (e \notin X => Often(r, X) <= Often(q, X))
  <2>. HIDE DEF A, B
  <2>. QED
    BY <1>2, <1>3, <1>4, <1>5
<1>. QED
  BY <1>1, <1>6, <1>7 DEF r

(* The list without the copies of an item.                                 *)
LEMMA WithoutOK ==
  ASSUME NEW list \in Seq(Shown), NEW id
  PROVE  /\ Without(list, id) \in Seq(Shown)
         /\ \A x \in Items : /\ Nowhere(list, RowsOf(x)) => Nowhere(Without(list, id), RowsOf(x))
                             /\ Often(Without(list, id), RowsOf(x)) <= Often(list, RowsOf(x))
<1>. DEFINE S == {i \in DOMAIN list : list[i].id # id}
            g == Ascending(S)
            n == Cardinality(S)
            r == Without(list, id)
<1>1. S \subseteq 1 .. Len(list) /\ Len(list) \in Nat
  OBVIOUS
<1>2. IsFiniteSet(S) /\ S \subseteq Nat
  <2>1. IsFiniteSet(1 .. Len(list))
    BY <1>1, FS_Interval
  <2>2. IsFiniteSet(S)
    BY <1>1, <2>1, FS_Subset
  <2>. QED
    BY <1>1, <2>2
<1>3. /\ n \in Nat /\ g \in [1 .. n -> S]
      /\ \A i, j \in 1 .. n : g[i] = g[j] => i = j
  <2>. HIDE DEF S
  <2>. QED
    BY <1>2, AscendingOnce
<1>4. r = [k \in 1 .. n |-> list[g[k]]]
  <2>1. DOMAIN g = 1 .. n
    BY <1>3
  <2>. QED
    BY <2>1 DEF Without, Picked
<1>. HIDE DEF S, g, r, n
<1>5. \A k \in 1 .. n : g[k] \in 1 .. Len(list) /\ r[k] = list[g[k]]
  BY <1>1, <1>3, <1>4
<1>6. r \in Seq(Shown) /\ Len(r) = n
  <2>1. \A k \in 1 .. n : list[g[k]] \in Shown
    BY <1>5
  <2>2. r \in [1 .. n -> Shown]
    BY <1>4, <2>1
  <2>. QED
    BY <1>3, <2>2, SeqDef
<1>7. ASSUME NEW x \in Items
      PROVE  /\ Nowhere(list, RowsOf(x)) => Nowhere(r, RowsOf(x))
             /\ Often(r, RowsOf(x)) <= Often(list, RowsOf(x))
  <2>1. g \in [1 .. Len(r) -> 1 .. Len(list)]
    BY <1>1, <1>3, <1>6
  <2>. QED
    BY <1>3, <1>5, <1>6, <2>1, Drawn
<1>. QED
  BY <1>6, <1>7 DEF r

(* A list whose rows keep their ids.                                       *)
LEMMA SameIds ==
  ASSUME NEW list \in Seq(Shown), NEW r \in Seq(Shown), DOMAIN r = DOMAIN list,
         \A i \in DOMAIN list : r[i].id = list[i].id
  PROVE  \A x \in Items : /\ Nowhere(list, RowsOf(x)) => Nowhere(r, RowsOf(x))
                          /\ Often(r, RowsOf(x)) = Often(list, RowsOf(x))
<1>. TAKE x \in Items
<1>1. Len(r) = Len(list) /\ \A i \in 1 .. Len(r) : r[i] \in Shown /\ list[i] \in Shown
  OBVIOUS
<1>2. \A i \in 1 .. Len(r) : r[i] \in RowsOf(x) <=> list[i] \in RowsOf(x)
  BY <1>1 DEF RowsOf, Shown
<1>3. Spots(r, RowsOf(x)) = Spots(list, RowsOf(x))
  BY <1>1, <1>2 DEF Spots
<1>. QED
  BY <1>1, <1>2, <1>3 DEF Nowhere, Often

(* What GET /api/queue answers: rows that exist, each once.                *)
LEMMA ListedOK ==
  ASSUME TypeOK
  PROVE  /\ Listed \in Seq(Shown) /\ Len(Listed) <= PageSize
         /\ \A id \in Items : /\ Once(Listed, RowsOf(id))
                              /\ row[id] = "fresh" => Nowhere(Listed, RowsOf(id))
<1>. DEFINE S == {id \in Items : Exists(id)}
            g == Ascending(S)
            n == Cardinality(S)
            m == IF n < PageSize THEN n ELSE PageSize
<1>1. IsFiniteSet(S) /\ S \subseteq Nat /\ S \subseteq Items
  <2>1. S \subseteq Items /\ IsFiniteSet(Items) /\ Items \subseteq Nat
    BY EventsAssumption
  <2>. QED
    BY <2>1, FS_Subset
<1>2. /\ n \in Nat /\ g \in [1 .. n -> S]
      /\ \A i, j \in 1 .. n : g[i] = g[j] => i = j
  <2>. HIDE DEF S
  <2>. QED
    BY <1>1, AscendingOnce
<1>3. Len(g) = n /\ PageSize \in Nat /\ m \in 0 .. n /\ m <= PageSize
  BY <1>2, EventsAssumption
<1>4. Listed = [i \in 1 .. m |-> [id |-> g[i], st |-> row[g[i]]]]
  BY <1>3 DEF Listed
<1>5. \A i \in 1 .. m : /\ i \in 1 .. n
                        /\ g[i] \in Items /\ row[g[i]] \in Statuses
  <2>. SUFFICES ASSUME NEW i \in 1 .. m PROVE i \in 1 .. n /\ g[i] \in Items /\ row[g[i]] \in Statuses
    OBVIOUS
  <2>1. i \in 1 .. n
    BY <1>2, <1>3
  <2>2. g[i] \in S
    BY <1>2, <2>1
  <2>. QED
    BY <2>1, <2>2 DEF Exists
<1>. HIDE DEF S, g, n, m
<1>6. \A i \in 1 .. m : Listed[i].id = g[i] /\ Listed[i] \in Shown
  BY <1>4, <1>5 DEF Shown
<1>7. Listed \in Seq(Shown) /\ Len(Listed) = m
  <2>1. Listed \in [1 .. m -> Shown] /\ m \in Nat
    BY <1>3, <1>4, <1>6
  <2>. QED
    BY <2>1, SeqDef
<1>8. ASSUME NEW id \in Items
      PROVE  /\ Once(Listed, RowsOf(id))
             /\ row[id] = "fresh" => Nowhere(Listed, RowsOf(id))
  <2>1. \A i \in 1 .. m : Listed[i] \in RowsOf(id) => g[i] = id
    BY <1>6 DEF RowsOf
  <2>2. Once(Listed, RowsOf(id))
    BY <1>2, <1>5, <1>7, <2>1 DEF Once
  <2>3. row[id] = "fresh" => Nowhere(Listed, RowsOf(id))
    BY <1>5, <1>7, <2>1 DEF Nowhere, Statuses, Settled
  <2>. QED
    BY <2>2, <2>3
<1>. QED
  BY <1>3, <1>7, <1>8
-----------------------------------------------------------------------------
(* The copies still due.                                                   *)

LEMMA DueOK ==
  ASSUME NEW id
  PROVE  /\ Cardinality(Sockets) \in Nat /\ IsFiniteSet(Carriers(id))
         /\ Cardinality(Carriers(id)) \in 0 .. Cardinality(Sockets)
         /\ Due(id) \in Nat /\ Due(id) <= Cardinality(Sockets)
<1>1. IsFiniteSet(Sockets) /\ Carriers(id) \in SUBSET Sockets
  BY EventsAssumption DEF Carriers
<1>2. /\ IsFiniteSet(Carriers(id)) /\ Cardinality(Carriers(id)) <= Cardinality(Sockets)
  BY <1>1, FS_Subset
<1>3. Cardinality(Sockets) \in Nat /\ Cardinality(Carriers(id)) \in Nat
  BY <1>1, <1>2, FS_CardinalityType
<1>. QED
  BY <1>2, <1>3 DEF Due

(* An announcement that is made, moves on or is lost brings no further copy. *)
LEMMA DueFalls ==
  ASSUME NEW id, Added(id) \in owed' => Added(id) \in owed,
         Added(id) \in owed \/ Carriers(id)' \subseteq Carriers(id)
  PROVE  Due(id)' \in Nat /\ Due(id)' <= Due(id)
<1>1. /\ Cardinality(Sockets) \in Nat /\ IsFiniteSet(Carriers(id))
      /\ Cardinality(Carriers(id)) \in Nat
      /\ Due(id) \in Nat /\ Due(id) <= Cardinality(Sockets)
  BY DueOK
<1>2. /\ IsFiniteSet(Sockets) /\ Carriers(id)' \in SUBSET Sockets
  BY EventsAssumption DEF Carriers
<1>3. /\ Cardinality(Carriers(id)') \in Nat /\ Cardinality(Carriers(id)') <= Cardinality(Sockets)
  <2>1. IsFiniteSet(Carriers(id)') /\ Cardinality(Carriers(id)') <= Cardinality(Sockets)
    BY <1>2, FS_Subset
  <2>. QED
    BY <2>1, FS_CardinalityType
<1>4. Carriers(id)' \subseteq Carriers(id)
        => Cardinality(Carriers(id)') <= Cardinality(Carriers(id))
  BY <1>1, FS_Subset
<1>5. Due(id)' = IF Added(id) \in owed' THEN Cardinality(Sockets) ELSE Cardinality(Carriers(id)')
  BY DEF Due, Added
<1>6. CASE Added(id) \in owed
  BY <1>1, <1>3, <1>5, <1>6 DEF Due
<1>7. CASE Added(id) \notin owed
  BY <1>1, <1>3, <1>4, <1>5, <1>7 DEF Due
<1>. QED
  BY <1>6, <1>7
-----------------------------------------------------------------------------
(* The inductive invariant.                                                *)

LEMMA InitIInv == Init => IInv
<1>. SUFFICES ASSUME Init PROVE IInv
  OBVIOUS
<1>1. /\ row \in [Items -> {"fresh", "queued"}] /\ owed = {} /\ connected = {}
      /\ stream = [s \in Sockets |-> <<>>] /\ wire = [s \in Sockets |-> <<>>]
      /\ items = <<>> /\ here = FALSE /\ calls = [c \in Calls |-> Idle]
  BY DEF Init, EventsInit
<1>2. /\ <<>> \in Seq(Shown) /\ <<>> \in Seq(Events) /\ <<>> \in Seq(RowEvents)
      /\ Len(<<>>) = 0
      /\ \A X : Nowhere(<<>>, X) /\ Once(<<>>, X) /\ Often(<<>>, X) = 0
  <2>1. <<>> \in Seq(Shown) /\ \A X : Nowhere(<<>>, X) /\ Once(<<>>, X)
    BY DEF Nowhere, Once
  <2>2. \A X : Often(<<>>, X) = 0
    BY <2>1, OftenOK
  <2>. QED
    BY <2>1, <2>2
<1>3. TypeOK
  <2>1. {PageSize, Buffer, Wire} \subseteq Nat
    BY EventsAssumption
  <2>2. \A c \in Calls : calls[c].data = <<>>
    BY <1>1 DEF Idle
  <2>3. \A s \in Sockets : /\ stream[s] = <<>> /\ wire[s] = <<>>
                           /\ Len(stream[s]) <= Buffer /\ Len(wire[s]) <= Wire
    BY <1>1, <1>2, <2>1
  <2>4. Len(<<>>) <= PageSize
    BY <1>2, <2>1
  <2>. QED
    BY <1>1, <1>2, <2>2, <2>3, <2>4 DEF TypeOK, Statuses
<1>4. EventsOK
  BY <1>1, <1>2 DEF EventsOK
<1>5. ASSUME NEW id \in Items PROVE PendingOK(id) /\ ShownOK(id)
  <2>1. Carriers(id) = {} /\ \A s \in Sockets : SocketOK(s, id)
    BY <1>1, <1>2 DEF Carriers, SocketOK
  <2>2. Cardinality(Sockets) \in Nat /\ Due(id) \in Nat /\ Due(id) <= Cardinality(Sockets)
    BY DueOK
  <2>. QED
    BY <1>1, <1>2, <2>1, <2>2 DEF PendingOK, ShownOK
<1>6. \A c \in Calls : AnswerOK(calls[c])
  BY <1>1, <1>2 DEF AnswerOK, Idle
<1>. QED
  BY <1>1, <1>3, <1>4, <1>5, <1>6 DEF IInv

(* Announcements move on, and copies that were due are brought or lost.    *)
LEMMA OnItsWay ==
  ASSUME NEW id \in Items, items \in Seq(Shown), PendingOK(id), ShownOK(id),
         UNCHANGED row,
         Added(id) \in owed' => Added(id) \in owed /\ Carriers(id)' = {},
         Added(id) \in owed \/ Carriers(id)' \subseteq Carriers(id),
         \A s \in Sockets : SocketOK(s, id)'
  PROVE  /\ PendingOK(id)'
         /\ UNCHANGED items => ShownOK(id)'
<1>1. PendingOK(id)'
  BY DEF PendingOK, Added
<1>2. Due(id)' \in Nat /\ Due(id)' <= Due(id) /\ Due(id) \in Nat /\ Cardinality(Sockets) \in Nat
  BY DueFalls, DueOK
<1>3. ASSUME UNCHANGED items PROVE ShownOK(id)'
  <2>1. /\ Often(items, RowsOf(id))' = Often(items, RowsOf(id))
        /\ Often(items, RowsOf(id)) \in Nat
    BY <1>3, OftenOK
  <2>2. Often(items, RowsOf(id)) + Due(id) <= 1 + Cardinality(Sockets)
    BY DEF ShownOK
  <2>. QED
    BY <1>2, <1>3, <2>1, <2>2 DEF ShownOK
<1>. QED
  BY <1>1, <1>3

(* A step of the stream leaves the rows and the page alone.                *)
LEMMA PageKept ==
  ASSUME IInv, UNCHANGED <<row, page>>, EventsOK', connected' \subseteq Sockets,
         \A s \in Sockets :
            /\ Len(stream'[s]) <= Buffer /\ Len(wire'[s]) <= Wire
            /\ s \notin connected' => stream'[s] = <<>> /\ wire'[s] = <<>>,
         \A id \in Items :
            /\ Added(id) \in owed' => Added(id) \in owed /\ Carriers(id)' = {}
            /\ Added(id) \in owed \/ Carriers(id)' \subseteq Carriers(id)
            /\ \A s \in Sockets : SocketOK(s, id)'
  PROVE  IInv'
<1>1. UNCHANGED <<items, here, calls>>
  BY DEF page
<1>2. TypeOK'
  BY <1>1 DEF IInv, TypeOK
<1>3. ASSUME NEW id \in Items PROVE PendingOK(id)' /\ ShownOK(id)'
  <2>1. items \in Seq(Shown) /\ PendingOK(id) /\ ShownOK(id)
    BY DEF IInv, TypeOK
  <2>. QED
    BY <1>1, <2>1, OnItsWay
<1>4. DOMAIN calls' = Calls /\ \A c \in Calls : AnswerOK(calls[c])'
  BY <1>1 DEF IInv, AnswerOK
<1>. QED
  BY <1>2, <1>3, <1>4 DEF IInv

(* A step that leaves rows, events and list alone.                         *)
LEMMA AllKept ==
  ASSUME NEW id, PendingOK(id), ShownOK(id), UNCHANGED <<row, owed, stream, wire, items>>
  PROVE  PendingOK(id)' /\ ShownOK(id)'
<1>1. Carriers(id)' = Carriers(id) /\ Due(id)' = Due(id)
  BY DEF Carriers, Due, Added
<1>2. \A s \in Sockets : SocketOK(s, id)' <=> SocketOK(s, id)
  BY DEF SocketOK
<1>. QED
  BY <1>1, <1>2 DEF PendingOK, ShownOK, Added

(* What a receiver holds after one more event.                             *)
LEMMA HeardOK ==
  ASSUME TypeOK, EventsOK, NEW s \in Sockets, NEW e \in Events
  PROVE  /\ Heard(s, e) \in Seq(Events) /\ Len(Heard(s, e)) <= Buffer
         /\ s \notin connected => Heard(s, e) = <<>>
         /\ \A X : /\ Nowhere(stream[s], X) /\ e \notin X => Nowhere(Heard(s, e), X)
                   /\ Once(stream[s], X) /\ (Nowhere(stream[s], X) \/ e \notin X)
                        => Once(Heard(s, e), X)
<1>. DEFINE q == stream[s]
<1>1. /\ q \in Seq(Events) /\ Buffer \in Nat \ {0} /\ Len(q) \in Nat /\ Len(q) <= Buffer
      /\ s \notin connected => q = <<>>
  BY EventsAssumption DEF TypeOK, EventsOK
<1>2. Heard(s, e) = IF s \notin connected THEN q
                    ELSE IF Len(q) < Buffer THEN Append(q, e) ELSE Append(Tail(q), e)
  BY DEF Heard
<1>. HIDE DEF q
<1>3. CASE s \notin connected
  BY <1>1, <1>2, <1>3 DEF q
<1>4. CASE s \in connected /\ Len(q) < Buffer
  <2>1. Heard(s, e) = Append(q, e) /\ Len(Append(q, e)) = Len(q) + 1
    BY <1>1, <1>2, <1>4
  <2>2. ASSUME NEW X
        PROVE  /\ Append(q, e) \in Seq(Events)
               /\ Nowhere(q, X) /\ e \notin X => Nowhere(Append(q, e), X)
               /\ Once(q, X) /\ (Nowhere(q, X) \/ e \notin X) => Once(Append(q, e), X)
    BY <1>1, Appended
  <2>. QED
    BY <1>1, <1>4, <2>1, <2>2 DEF q
<1>5. CASE s \in connected /\ ~ (Len(q) < Buffer)
  <2>. DEFINE r == Tail(q)
  <2>1. q # <<>> /\ Heard(s, e) = Append(r, e) /\ Len(r) = Len(q) - 1
    BY <1>1, <1>2, <1>5
  <2>2. ASSUME NEW X
        PROVE  /\ r \in Seq(Events)
               /\ Nowhere(q, X) => Nowhere(r, X)
               /\ Once(q, X) => Once(r, X)
    BY <1>1, <2>1, Shortened
  <2>. HIDE DEF r
  <2>3. r \in Seq(Events)
    BY <2>2
  <2>4. ASSUME NEW X
        PROVE  /\ Nowhere(r, X) /\ e \notin X => Nowhere(Append(r, e), X)
               /\ Once(r, X) /\ (Nowhere(r, X) \/ e \notin X) => Once(Append(r, e), X)
    BY <2>3, Appended
  <2>5. Append(r, e) \in Seq(Events) /\ Len(Append(r, e)) = Len(r) + 1
    BY <2>3
  <2>. QED
    BY <1>1, <1>5, <2>1, <2>2, <2>4, <2>5 DEF q
<1>. QED
  BY <1>3, <1>4, <1>5

(* The event stream.                                                       *)
LEMMA AnnounceIInv ==
  ASSUME IInv, NEW e \in owed, Announce(e), UNCHANGED page
  PROVE  IInv'
<1>1. /\ TypeOK /\ EventsOK /\ \A id \in Items : PendingOK(id)
      /\ stream \in [Sockets -> Seq(Events)] /\ wire \in [Sockets -> Seq(RowEvents)]
      /\ owed \subseteq OwedEvents
  BY DEF IInv, EventsOK
<1>2. UNCHANGED <<row, connected, wire, page>> /\ owed' = owed \ {e}
  BY DEF Announce
<1>3. e \in OwedEvents /\ e.id \in Items
  BY <1>1 DEF OwedEvents
<1>4. CASE e.type = "item_added" /\ ~ Exists(e.id)
  <2>1. stream' = stream
    <3>1. stream' = [s \in Sockets |-> stream[s]]
      BY <1>4 DEF Announce
    <3>. QED
      BY <1>1, <3>1
  <2>2. EventsOK' /\ connected' \subseteq Sockets
        /\ \A s \in Sockets : /\ Len(stream'[s]) <= Buffer /\ Len(wire'[s]) <= Wire
                              /\ s \notin connected' => stream'[s] = <<>> /\ wire'[s] = <<>>
    BY <1>1, <1>2, <2>1 DEF EventsOK, TypeOK
  <2>3. ASSUME NEW id \in Items
        PROVE  /\ Added(id) \in owed' => Added(id) \in owed /\ Carriers(id)' = {}
               /\ Added(id) \in owed \/ Carriers(id)' \subseteq Carriers(id)
               /\ \A s \in Sockets : SocketOK(s, id)'
    <3>1. Carriers(id)' = Carriers(id) /\ \A s \in Sockets : SocketOK(s, id)' <=> SocketOK(s, id)
      BY <1>2, <2>1 DEF Carriers, SocketOK
    <3>. QED
      BY <1>1, <1>2, <3>1 DEF PendingOK
  <2>. QED
    BY <1>2, <2>2, <2>3, PageKept
<1>5. CASE e.type # "item_added" \/ Exists(e.id)
  <2>. DEFINE h == IF e.type # "item_added" THEN e
                   ELSE [type |-> "item_added", id |-> e.id, st |-> row[e.id]]
  <2>1. stream' = [s \in Sockets |-> Heard(s, h)]
    BY <1>5 DEF Announce
  <2>2. /\ h \in Events
        /\ \A id \in Items : h \in AddsOf(id) => e = Added(id)
    BY <1>3, <1>5 DEF OwedEvents, Events, RowEvents, AddsOf, Added, Exists
  <2>. HIDE DEF h
  <2>3. ASSUME NEW s \in Sockets
        PROVE  /\ stream'[s] \in Seq(Events) /\ Len(stream'[s]) <= Buffer
               /\ s \notin connected => stream'[s] = <<>>
               /\ \A X : /\ Nowhere(stream[s], X) /\ h \notin X => Nowhere(stream'[s], X)
                         /\ Once(stream[s], X) /\ (Nowhere(stream[s], X) \/ h \notin X)
                              => Once(stream'[s], X)
    <3>1. stream'[s] = Heard(s, h)
      BY <2>1
    <3>. QED
      BY <1>1, <2>2, <3>1, HeardOK
  <2>4. EventsOK' /\ connected' \subseteq Sockets
        /\ \A s \in Sockets : /\ Len(stream'[s]) <= Buffer /\ Len(wire'[s]) <= Wire
                              /\ s \notin connected' => stream'[s] = <<>> /\ wire'[s] = <<>>
    <3>1. stream' \in [Sockets -> Seq(Events)]
      BY <2>1, <2>3
    <3>. QED
      BY <1>1, <1>2, <2>3, <3>1 DEF EventsOK, TypeOK
  <2>5. ASSUME NEW id \in Items
        PROVE  /\ Added(id) \in owed' => Added(id) \in owed /\ Carriers(id)' = {}
               /\ Added(id) \in owed \/ Carriers(id)' \subseteq Carriers(id)
               /\ \A s \in Sockets : SocketOK(s, id)'
    <3>. DEFINE X == AddsOf(id)
    <3>1. \A s \in Sockets :
            /\ Nowhere(stream[s], X) /\ h \notin X => Nowhere(stream'[s], X)
            /\ Once(stream[s], X) /\ (Nowhere(stream[s], X) \/ h \notin X)
                 => Once(stream'[s], X)
            /\ wire'[s] = wire[s]
      BY <1>2, <2>3
    <3>2. PendingOK(id)
      BY <1>1
    <3>3. CASE h \in X
      <4>1. Added(id) \in owed /\ Added(id) \notin owed'
        BY <1>2, <2>2, <3>3
      <4>2. \A s \in Sockets : Nowhere(stream[s], X) /\ Nowhere(wire[s], X)
        BY <3>2, <4>1 DEF PendingOK, Carriers
      <4>. QED
        BY <3>1, <3>2, <4>1, <4>2 DEF PendingOK, SocketOK
    <3>4. CASE h \notin X
      <4>1. \A s \in Sockets : Nowhere(stream[s], X) => Nowhere(stream'[s], X)
        BY <3>1, <3>4
      <4>2. Carriers(id)' \subseteq Carriers(id)
        BY <3>1, <4>1 DEF Carriers
      <4>3. \A s \in Sockets : SocketOK(s, id)'
        BY <3>1, <3>2, <3>4 DEF PendingOK, SocketOK
      <4>. QED
        BY <1>2, <3>2, <4>2, <4>3 DEF PendingOK
    <3>. QED
      BY <3>3, <3>4
  <2>. QED
    BY <1>2, <2>4, <2>5, PageKept
<1>. QED
  BY <1>4, <1>5

LEMMA ForwardIInv ==
  ASSUME IInv, NEW s \in Sockets, Forward(s), UNCHANGED page
  PROVE  IInv'
<1>. DEFINE q == stream[s]
            w == wire[s]
            e == Head(q)
<1>1. /\ TypeOK /\ EventsOK /\ \A id \in Items : PendingOK(id)
      /\ stream \in [Sockets -> Seq(Events)] /\ wire \in [Sockets -> Seq(RowEvents)]
      /\ q \in Seq(Events) /\ w \in Seq(RowEvents)
  BY DEF IInv, EventsOK
<1>2. /\ UNCHANGED <<row, owed, connected, page>> /\ q # <<>> /\ Len(w) < Wire
      /\ stream' = [stream EXCEPT ![s] = Tail(q)]
      /\ wire' = IF e = Progress THEN wire ELSE [wire EXCEPT ![s] = Append(w, e)]
  BY DEF Forward, backend
<1>3. /\ stream'[s] = Tail(q) /\ wire'[s] = IF e = Progress THEN w ELSE Append(w, e)
      /\ \A o \in Sockets \ {s} : stream'[o] = stream[o] /\ wire'[o] = wire[o]
  BY <1>1, <1>2
<1>. HIDE DEF q, w, e
<1>4. ASSUME NEW X
      PROVE  /\ Tail(q) \in Seq(Events) /\ e \in Events
             /\ Nowhere(q, X) => Nowhere(Tail(q), X) /\ e \notin X
             /\ Once(q, X) => Once(Tail(q), X)
             /\ Once(q, X) /\ e \in X => Nowhere(Tail(q), X)
  BY <1>1, <1>2, Shortened DEF e
<1>5. e \in Events /\ stream'[s] \in Seq(Events)
  BY <1>3, <1>4
<1>6. ASSUME NEW X, Progress \notin X
      PROVE  /\ wire'[s] \in Seq(RowEvents)
             /\ Nowhere(wire'[s], X) <=> Nowhere(w, X) /\ e \notin X
             /\ Once(w, X) /\ (Nowhere(w, X) \/ e \notin X) => Once(wire'[s], X)
  <2>1. CASE e = Progress
    BY <1>1, <1>3, <1>6, <2>1
  <2>2. CASE e # Progress
    <3>1. e \in RowEvents /\ wire'[s] = Append(w, e)
      BY <1>3, <1>5, <2>2 DEF Events
    <3>. QED
      BY <1>1, <3>1, Appended
  <2>. QED
    BY <2>1, <2>2
<1>7. wire'[s] \in Seq(RowEvents)
  <2>1. Progress \notin {}
    OBVIOUS
  <2>. QED
    BY <1>6, <2>1
<1>8. EventsOK'
  <2>1. stream' \in [Sockets -> Seq(Events)]
    BY <1>1, <1>2, <1>3, <1>5
  <2>2. wire' \in [Sockets -> Seq(RowEvents)]
    BY <1>1, <1>2, <1>3, <1>7
  <2>. QED
    BY <1>1, <1>2, <2>1, <2>2 DEF EventsOK
<1>9. /\ connected' \subseteq Sockets
      /\ \A o \in Sockets : /\ Len(stream'[o]) <= Buffer /\ Len(wire'[o]) <= Wire
                            /\ o \notin connected' => stream'[o] = <<>> /\ wire'[o] = <<>>
  <2>1. Wire \in Nat /\ Buffer \in Nat /\ Len(q) \in Nat /\ Len(w) \in Nat
    BY <1>1, EventsAssumption
  <2>2. s \in connected /\ Len(q) <= Buffer
    BY <1>1, <1>2 DEF TypeOK, q
  <2>3. Len(Tail(q)) = Len(q) - 1 /\ Len(Append(w, e)) = Len(w) + 1
    BY <1>1, <1>2
  <2>4. Len(stream'[s]) <= Buffer
    BY <1>3, <2>1, <2>2, <2>3
  <2>5. Len(wire'[s]) = Len(w) \/ Len(wire'[s]) = Len(w) + 1
    BY <1>3, <2>3
  <2>6. Len(wire'[s]) <= Wire
    BY <1>2, <2>1, <2>5
  <2>. QED
    BY <1>1, <1>2, <1>3, <2>2, <2>6, <2>4 DEF TypeOK
<1>10. ASSUME NEW id \in Items
       PROVE  /\ Added(id) \in owed' => Added(id) \in owed /\ Carriers(id)' = {}
              /\ Added(id) \in owed \/ Carriers(id)' \subseteq Carriers(id)
              /\ \A o \in Sockets : SocketOK(o, id)'
  <2>. DEFINE X == AddsOf(id)
  <2>1. PendingOK(id)
    BY <1>1
  <2>2. /\ Nowhere(q, X) => Nowhere(stream'[s], X) /\ e \notin X
        /\ Once(q, X) => Once(stream'[s], X)
        /\ Once(q, X) /\ e \in X => Nowhere(stream'[s], X)
    BY <1>3, <1>4
  <2>3. /\ Nowhere(wire'[s], X) <=> Nowhere(w, X) /\ e \notin X
        /\ Once(w, X) /\ (Nowhere(w, X) \/ e \notin X) => Once(wire'[s], X)
    <3>1. Progress \notin X
      BY DEF Progress, AddsOf
    <3>. QED
      BY <1>6, <3>1
  <2>4. SocketOK(s, id)'
    BY <2>1, <2>2, <2>3 DEF PendingOK, SocketOK, q, w
  <2>5. Carriers(id)' \subseteq Carriers(id)
    <3>1. Nowhere(stream[s], X) /\ Nowhere(wire[s], X)
            => Nowhere(stream'[s], X) /\ Nowhere(wire'[s], X)
      BY <2>2, <2>3 DEF q, w
    <3>. QED
      BY <1>3, <3>1 DEF Carriers
  <2>6. \A o \in Sockets : SocketOK(o, id)'
    BY <1>3, <2>1, <2>4 DEF PendingOK, SocketOK
  <2>. QED
    BY <1>2, <2>1, <2>5, <2>6 DEF PendingOK
<1>. QED
  BY <1>2, <1>8, <1>9, <1>10, PageKept

(* Sockets open, close, or carry an event that is of no row.               *)
LEMMA ConnectionIInv ==
  ASSUME IInv, UNCHANGED page,
         \/ AnnounceProgress
         \/ \E s \in Sockets : Subscribe(s) \/ ConnectionLost(s)
  PROVE  IInv'
<1>1. /\ TypeOK /\ EventsOK /\ \A id \in Items : PendingOK(id)
      /\ stream \in [Sockets -> Seq(Events)] /\ wire \in [Sockets -> Seq(RowEvents)]
  BY DEF IInv, EventsOK
<1>2. /\ <<>> \in Seq(Events) /\ <<>> \in Seq(RowEvents) /\ Len(<<>>) = 0
      /\ \A X : Nowhere(<<>>, X) /\ Once(<<>>, X)
  BY DEF Nowhere, Once
<1>3. UNCHANGED <<row, owed>>
  BY DEF AnnounceProgress, Subscribe, ConnectionLost, backend
<1>4. CASE AnnounceProgress
  <2>1. UNCHANGED <<connected, wire>> /\ stream' = [s \in Sockets |-> Heard(s, Progress)]
    BY <1>4 DEF AnnounceProgress
  <2>2. Progress \in Events /\ \A id \in Items : Progress \notin AddsOf(id)
    BY DEF Events, Progress, AddsOf
  <2>3. ASSUME NEW s \in Sockets
        PROVE  /\ stream'[s] \in Seq(Events) /\ Len(stream'[s]) <= Buffer
               /\ s \notin connected => stream'[s] = <<>>
               /\ \A X : /\ Nowhere(stream[s], X) /\ Progress \notin X => Nowhere(stream'[s], X)
                         /\ Once(stream[s], X) /\ (Nowhere(stream[s], X) \/ Progress \notin X)
                              => Once(stream'[s], X)
    <3>1. stream'[s] = Heard(s, Progress)
      BY <2>1
    <3>. QED
      BY <1>1, <2>2, <3>1, HeardOK
  <2>4. EventsOK' /\ connected' \subseteq Sockets
        /\ \A s \in Sockets : /\ Len(stream'[s]) <= Buffer /\ Len(wire'[s]) <= Wire
                              /\ s \notin connected' => stream'[s] = <<>> /\ wire'[s] = <<>>
    <3>1. stream' \in [Sockets -> Seq(Events)]
      BY <2>1, <2>3
    <3>. QED
      BY <1>1, <1>3, <2>1, <2>3, <3>1 DEF EventsOK, TypeOK
  <2>5. ASSUME NEW id \in Items
        PROVE  /\ Carriers(id)' \subseteq Carriers(id)
               /\ \A s \in Sockets : SocketOK(s, id)'
    <3>1. \A s \in Sockets :
            /\ Nowhere(stream[s], AddsOf(id)) => Nowhere(stream'[s], AddsOf(id))
            /\ Once(stream[s], AddsOf(id)) => Once(stream'[s], AddsOf(id))
      BY <2>2, <2>3
    <3>2. Carriers(id)' \subseteq Carriers(id)
      BY <2>1, <3>1 DEF Carriers
    <3>. QED
      BY <1>1, <2>1, <3>1, <3>2 DEF PendingOK, SocketOK
  <2>6. \A id \in Items : Added(id) \in owed' => Added(id) \in owed /\ Carriers(id)' = {}
    BY <1>1, <1>3, <2>5 DEF PendingOK
  <2>. QED
    BY <1>3, <2>4, <2>5, <2>6, PageKept
<1>5. ASSUME NEW s \in Sockets, Subscribe(s) PROVE IInv'
  <2>1. UNCHANGED <<stream, wire>> /\ connected' = connected \cup {s}
    BY <1>5 DEF Subscribe
  <2>2. EventsOK' /\ connected' \subseteq Sockets
        /\ \A o \in Sockets : /\ Len(stream'[o]) <= Buffer /\ Len(wire'[o]) <= Wire
                              /\ o \notin connected' => stream'[o] = <<>> /\ wire'[o] = <<>>
    BY <1>1, <1>3, <2>1 DEF EventsOK, TypeOK
  <2>3. \A id \in Items : /\ Carriers(id)' = Carriers(id)
                          /\ \A o \in Sockets : SocketOK(o, id)' <=> SocketOK(o, id)
    BY <2>1 DEF Carriers, SocketOK
  <2>. QED
    BY <1>1, <1>3, <2>2, <2>3, PageKept DEF PendingOK
<1>6. ASSUME NEW s \in Sockets, ConnectionLost(s) PROVE IInv'
  <2>1. /\ connected' = connected \ {s}
        /\ stream' = [o \in Sockets |-> IF o \in {s} THEN <<>> ELSE stream[o]]
        /\ wire' = [o \in Sockets |-> IF o \in {s} THEN <<>> ELSE wire[o]]
    BY <1>6 DEF ConnectionLost, Drop
  <2>2. /\ stream'[s] = <<>> /\ wire'[s] = <<>>
        /\ \A o \in Sockets \ {s} : stream'[o] = stream[o] /\ wire'[o] = wire[o]
    BY <2>1
  <2>3. EventsOK'
    <3>1. stream' \in [Sockets -> Seq(Events)]
      BY <1>1, <1>2, <2>1
    <3>2. wire' \in [Sockets -> Seq(RowEvents)]
      BY <1>1, <1>2, <2>1
    <3>. QED
      BY <1>1, <1>3, <3>1, <3>2 DEF EventsOK
  <2>4. /\ connected' \subseteq Sockets
        /\ \A o \in Sockets : /\ Len(stream'[o]) <= Buffer /\ Len(wire'[o]) <= Wire
                              /\ o \notin connected' => stream'[o] = <<>> /\ wire'[o] = <<>>
    <3>1. Len(stream'[s]) <= Buffer /\ Len(wire'[s]) <= Wire
      BY <1>2, <2>2, EventsAssumption
    <3>. QED
      BY <1>1, <2>1, <2>2, <3>1 DEF TypeOK
  <2>5. ASSUME NEW id \in Items
        PROVE  /\ Carriers(id)' \subseteq Carriers(id)
               /\ \A o \in Sockets : SocketOK(o, id)'
    <3>1. SocketOK(s, id)' /\ s \notin Carriers(id)'
      BY <1>2, <2>2 DEF SocketOK, Carriers
    <3>2. \A o \in Sockets \ {s} : /\ SocketOK(o, id)' <=> SocketOK(o, id)
                                   /\ o \in Carriers(id)' <=> o \in Carriers(id)
      BY <2>2 DEF SocketOK, Carriers
    <3>3. Carriers(id)' \subseteq Sockets
      BY DEF Carriers
    <3>. QED
      BY <1>1, <3>1, <3>2, <3>3 DEF PendingOK
  <2>6. \A id \in Items : Added(id) \in owed' => Added(id) \in owed /\ Carriers(id)' = {}
    BY <1>1, <1>3, <2>5 DEF PendingOK
  <2>. QED
    BY <1>3, <2>3, <2>4, <2>5, <2>6, PageKept
<1>. QED
  BY <1>4, <1>5, <1>6

(* Writes: no row is fresh again, and only an insert is announced as added. *)
LEMMA Written ==
  ASSUME IInv, NEW id \in Items,
         \/ Add(id) \/ RemoveItem(id) \/ Retry(id)
         \/ \E st \in Reports : Work(id, st),
         UNCHANGED <<items, here>>
  PROVE  /\ row' \in [Items -> Statuses \cup {"fresh", "gone"}] /\ EventsOK'
         /\ UNCHANGED connection
         /\ Retry(id) => row'[id] = "queued"
         /\ \A x \in Items : PendingOK(x)' /\ ShownOK(x)'
         /\ \A q : AnswerOK(q) => AnswerOK(q)'
<1>1. /\ row \in [Items -> Statuses \cup {"fresh", "gone"}]
      /\ owed \subseteq OwedEvents /\ items \in Seq(Shown)
      /\ stream \in [Sockets -> Seq(Events)] /\ wire \in [Sockets -> Seq(RowEvents)]
      /\ \A x \in Items : PendingOK(x) /\ ShownOK(x)
  BY DEF IInv, TypeOK, EventsOK
<1>2. PICK st \in Statuses \cup {"gone"}, events \in SUBSET OwedEvents :
        /\ Write(id, st, events)
        /\ \A x \in Items : Added(x) \in events => x = id /\ row[id] = "fresh"
        /\ row[id] = "fresh" => st = "queued"
        /\ Retry(id) => st = "queued"
  <2>1. CASE Add(id)
    <3>1. Write(id, "queued", {Added(id)}) /\ row[id] = "fresh"
      BY <2>1 DEF Add
    <3>2. {Added(id)} \subseteq OwedEvents /\ "queued" \in Statuses
      BY DEF OwedEvents, Added, Statuses
    <3>3. \A x \in Items : Added(x) \in {Added(id)} => x = id
      BY DEF Added
    <3>. QED
      BY <3>1, <3>2, <3>3
  <2>2. CASE RemoveItem(id)
    <3>1. PICK st \in {"gone", "cancelled"} : Write(id, st, {Removed(id)})
      BY <2>2 DEF RemoveItem
    <3>2. {Removed(id)} \subseteq OwedEvents /\ \A x \in Items : Added(x) \notin {Removed(id)}
      BY DEF OwedEvents, Removed, Added
    <3>3. row[id] \in {"queued", "downloading", "done", "failed", "cancelled"}
      BY <2>2 DEF RemoveItem, Exists, Statuses, Settled
    <3>4. st \in Statuses \cup {"gone"} /\ (Retry(id) => st = "queued")
      <4>1. ASSUME Retry(id) PROVE st = "queued"
        <5>1. row'[id] = "queued" /\ row'[id] = st
          BY <1>1, <3>1, <4>1 DEF Retry, Write
        <5>. QED
          BY <5>1
      <4>. QED
        BY <4>1 DEF Statuses, Settled
    <3>. QED
      BY <3>1, <3>2, <3>3, <3>4
  <2>3. CASE Retry(id)
    <3>1. Write(id, "queued", {}) /\ row[id] # "fresh" /\ "queued" \in Statuses
      BY <2>3 DEF Retry, Statuses
    <3>. QED
      BY <3>1
  <2>4. ASSUME NEW s \in Reports, Work(id, s), ~ Retry(id)
        PROVE  \E st \in Statuses \cup {"gone"}, events \in SUBSET OwedEvents :
                 /\ Write(id, st, events)
                 /\ \A x \in Items : Added(x) \in events => x = id /\ row[id] = "fresh"
                 /\ row[id] = "fresh" => st = "queued"
                 /\ Retry(id) => st = "queued"
    <3>1. PICK after \in {row[id], IF Exists(id) THEN s ELSE row[id]} :
            Write(id, after, {Status(id, s)})
      BY <2>4 DEF Work
    <3>2. {Status(id, s)} \subseteq OwedEvents /\ \A x \in Items : Added(x) \notin {Status(id, s)}
      BY DEF OwedEvents, Status, Added
    <3>3. row[id] # "fresh" /\ row[id] \in Statuses \cup {"gone"} /\ s \in Statuses
      BY <1>1, <2>4, EventsAssumption DEF Work, Statuses, Settled
    <3>4. after \in Statuses \cup {"gone"}
      BY <3>1, <3>3
    <3>. QED
      BY <2>4, <3>1, <3>2, <3>3, <3>4
  <2>. QED
    BY <2>1, <2>2, <2>3, <2>4
<1>3. /\ row' = [row EXCEPT ![id] = st] /\ owed' = owed \cup events
      /\ UNCHANGED <<connected, stream, wire>>
  BY <1>2 DEF Write, connection
<1>4. /\ row' \in [Items -> Statuses \cup {"fresh", "gone"}] /\ row'[id] = st
      /\ \A x \in Items \ {id} : row'[x] = row[x]
  BY <1>1, <1>3
<1>5. /\ EventsOK' /\ UNCHANGED connection /\ (Retry(id) => row'[id] = "queued")
  BY <1>1, <1>2, <1>3, <1>4 DEF EventsOK, connection
<1>6. \A x \in Items : row'[x] = "fresh" => x # id /\ row[x] = "fresh"
  BY <1>2, <1>4 DEF Statuses, Settled
<1>7. ASSUME NEW x \in Items PROVE PendingOK(x)' /\ ShownOK(x)'
  <2>1. PendingOK(x) /\ ShownOK(x)
    BY <1>1
  <2>2. Added(x) \in owed' => Added(x) \in owed \/ (x = id /\ row[x] = "fresh")
    BY <1>2, <1>3
  <2>3. row'[x] = "fresh" => row[x] = "fresh" /\ (Added(x) \in owed' => Added(x) \in owed)
    BY <1>6, <2>2
  <2>4. Carriers(x)' = Carriers(x) /\ \A s \in Sockets : SocketOK(s, x)' <=> SocketOK(s, x)
    BY <1>3 DEF Carriers, SocketOK
  <2>5. PendingOK(x)'
    BY <1>3, <2>1, <2>2, <2>3, <2>4 DEF PendingOK
  <2>6. /\ Cardinality(Sockets) \in Nat /\ Due(x) \in Nat
        /\ Cardinality(Carriers(x)) \in Nat /\ Cardinality(Carriers(x)) <= Cardinality(Sockets)
    BY DueOK
  <2>7. /\ Often(items, RowsOf(x)) \in Nat /\ Often(items, RowsOf(x))' = Often(items, RowsOf(x))
        /\ row[x] = "fresh" => Often(items, RowsOf(x)) = 0
    BY <1>1, <2>1, OftenOK DEF ShownOK
  <2>8. Due(x)' = IF Added(x) \in owed' THEN Cardinality(Sockets) ELSE Cardinality(Carriers(x))
    BY <2>4 DEF Due, Added
  <2>9. Often(items, RowsOf(x))' + Due(x)' <= 1 + Cardinality(Sockets)
    <3>1. CASE row[x] = "fresh"
      BY <2>6, <2>7, <2>8, <3>1
    <3>2. CASE row[x] # "fresh"
      <4>1. Added(x) \in owed' <=> Added(x) \in owed
        BY <1>3, <2>2, <3>2
      <4>2. Due(x)' = Due(x)
        BY <2>8, <4>1 DEF Due
      <4>3. Often(items, RowsOf(x)) + Due(x) <= 1 + Cardinality(Sockets)
        BY <2>1 DEF ShownOK
      <4>. QED
        BY <2>7, <4>2, <4>3
    <3>. QED
      BY <3>1, <3>2
  <2>10. ShownOK(x)'
    BY <2>1, <2>3, <2>9 DEF ShownOK
  <2>. QED
    BY <2>5, <2>10
<1>8. ASSUME NEW q, AnswerOK(q) PROVE AnswerOK(q)'
  BY <1>6, <1>8 DEF AnswerOK
<1>. QED
  BY <1>4, <1>5, <1>7, <1>8

LEMMA WritersIInv == ASSUME IInv, Writers, UNCHANGED page PROVE IInv'
<1>1. UNCHANGED <<items, here, calls>>
  BY DEF page
<1>2. PICK id \in Items : \/ Add(id) \/ RemoveItem(id) \/ Retry(id)
                          \/ \E st \in Reports : Work(id, st)
  BY DEF Writers
<1>3. /\ row' \in [Items -> Statuses \cup {"fresh", "gone"}] /\ EventsOK'
      /\ UNCHANGED connection
      /\ \A x \in Items : PendingOK(x)' /\ ShownOK(x)'
      /\ \A q : AnswerOK(q) => AnswerOK(q)'
  BY <1>1, <1>2, Written
<1>4. TypeOK'
  BY <1>1, <1>3 DEF IInv, TypeOK, connection
<1>5. ASSUME NEW c \in Calls PROVE AnswerOK(calls[c])'
  <2>1. PICK q : q = calls[c]
    OBVIOUS
  <2>2. AnswerOK(q)
    BY <2>1 DEF IInv
  <2>3. AnswerOK(q)' /\ q = calls'[c]
    BY <1>1, <1>3, <2>1, <2>2
  <2>. QED
    BY <2>3 DEF AnswerOK
<1>. QED
  BY <1>1, <1>3, <1>4, <1>5 DEF IInv

LEMMA StreamIInv == ASSUME IInv, Stream, UNCHANGED page PROVE IInv'
<1>1. CASE \E e \in owed : Announce(e)
  BY <1>1, AnnounceIInv
<1>2. CASE \E s \in Sockets : Forward(s)
  BY <1>2, ForwardIInv
<1>3. CASE AnnounceProgress \/ \E s \in Sockets : Subscribe(s) \/ ConnectionLost(s)
  BY <1>3, ConnectionIInv
<1>. QED
  BY <1>1, <1>2, <1>3 DEF Stream
-----------------------------------------------------------------------------
(* Requests and their answers.                                             *)

(* One entry of calls is replaced by one that is in order.                 *)
LEMMA Replaced ==
  ASSUME IInv, NEW c \in Calls, NEW new, calls' = [calls EXCEPT ![c] = new],
         AnswerOK(new)', Len(new.data) <= PageSize,
         \A q : AnswerOK(q) => AnswerOK(q)'
  PROVE  /\ DOMAIN calls' = Calls /\ \A o \in Calls : AnswerOK(calls[o])'
         /\ (\A o \in Calls : calls[o].data \in Seq(Shown) /\ Len(calls[o].data) <= PageSize)'
<1>1. /\ DOMAIN calls = Calls /\ \A o \in Calls : AnswerOK(calls[o])
      /\ \A o \in Calls : calls[o].data \in Seq(Shown) /\ Len(calls[o].data) <= PageSize
  BY DEF IInv, TypeOK
<1>2. DOMAIN calls' = Calls
  BY <1>1
<1>3. new.data \in Seq(Shown)
  BY DEF AnswerOK
<1>4. ASSUME NEW o \in Calls
      PROVE  /\ AnswerOK(calls[o])'
             /\ calls'[o].data \in Seq(Shown) /\ Len(calls'[o].data) <= PageSize
  <2>1. PICK q : q = calls'[o]
    OBVIOUS
  <2>2. q = new \/ q = calls[o]
    BY <1>1, <2>1
  <2>3. AnswerOK(q)' /\ q.data \in Seq(Shown) /\ Len(q.data) <= PageSize
    <3>1. CASE q = new
      BY <1>3, <3>1
    <3>2. CASE q = calls[o]
      <4>1. AnswerOK(q) /\ q.data \in Seq(Shown) /\ Len(q.data) <= PageSize
        BY <1>1, <3>2
      <4>. QED
        BY <4>1
    <3>. QED
      BY <2>2, <3>1, <3>2
  <2>. QED
    BY <2>1, <2>3 DEF AnswerOK
<1>. QED
  BY <1>2, <1>4

(* A request whose answer is the list, or is taken: the rest is as it was. *)
LEMMA PollIInv == ASSUME IInv, NEW c \in Calls, Enter(c) \/ Poll(c) PROVE IInv'
<1>1. PICK op \in {"enter", "poll"} : Ask(c, op, 0, Listed)
  BY DEF Enter, Poll
<1>2. UNCHANGED <<row, owed, connected, stream, wire, items, here>>
  BY <1>1 DEF Enter, Poll, Ask, backend, connection
<1>3. PICK new : new = [op |-> op, id |-> 0, data |-> Listed]
  OBVIOUS
<1>4. calls' = [calls EXCEPT ![c] = new]
  BY <1>1, <1>3 DEF Ask
<1>5. /\ Listed \in Seq(Shown) /\ Len(Listed) <= PageSize
      /\ \A id \in Items : /\ Once(Listed, RowsOf(id))
                           /\ row[id] = "fresh" => Nowhere(Listed, RowsOf(id))
  BY ListedOK DEF IInv
<1>6. /\ new.data = Listed /\ new.id \in Items \cup {0} /\ new.op \in {"enter", "poll"}
      /\ DOMAIN new = {"op", "id", "data"}
  BY <1>3
<1>7. new \in [op : {"none", "enter", "poll", "remove", "retry"}, id : Items \cup {0},
               data : Seq(Shown)]
  BY <1>3, <1>5
<1>8. AnswerOK(new)' /\ Len(new.data) <= PageSize
  BY <1>2, <1>5, <1>6, <1>7 DEF AnswerOK
<1>9. \A q : AnswerOK(q) => AnswerOK(q)'
  BY <1>2 DEF AnswerOK
<1>10. /\ DOMAIN calls' = Calls /\ \A o \in Calls : AnswerOK(calls[o])'
       /\ (\A o \in Calls : calls[o].data \in Seq(Shown) /\ Len(calls[o].data) <= PageSize)'
  BY <1>4, <1>8, <1>9, Replaced
<1>11. EventsOK' /\ \A id \in Items : PendingOK(id)' /\ ShownOK(id)'
  <2>1. EventsOK'
    BY <1>2 DEF IInv, EventsOK
  <2>. QED
    BY <1>2, <2>1, AllKept DEF IInv
<1>12. TypeOK'
  BY <1>2, <1>10 DEF IInv, TypeOK
<1>. QED
  BY <1>10, <1>11, <1>12 DEF IInv

LEMMA OwnIInv ==
  ASSUME IInv, NEW c \in Calls, NEW id \in Items, RemoveHere(c, id) \/ RetryHere(c, id)
  PROVE  IInv'
<1>1. UNCHANGED <<items, here>> /\ (RemoveItem(id) \/ Retry(id))
  BY DEF RemoveHere, RetryHere, Ask
<1>2. /\ row' \in [Items -> Statuses \cup {"fresh", "gone"}] /\ EventsOK'
      /\ UNCHANGED connection
      /\ Retry(id) => row'[id] = "queued"
      /\ \A x \in Items : PendingOK(x)' /\ ShownOK(x)'
      /\ \A q : AnswerOK(q) => AnswerOK(q)'
  BY <1>1, Written
<1>3. PICK new : /\ calls' = [calls EXCEPT ![c] = new]
                 /\ \/ new = [op |-> "remove", id |-> id, data |-> <<>>]
                    \/ /\ row'[id] = "queued"
                       /\ new = [op |-> "retry", id |-> id,
                                 data |-> <<[id |-> id, st |-> "queued"]>>]
  BY <1>2 DEF RemoveHere, RetryHere, Ask
<1>4. AnswerOK(new)' /\ Len(new.data) <= PageSize
  <2>1. 0 <= PageSize /\ 1 <= PageSize
    BY EventsAssumption
  <2>2. CASE new = [op |-> "remove", id |-> id, data |-> <<>>]
    BY <2>1, <2>2 DEF AnswerOK, Once, Nowhere
  <2>3. CASE new = [op |-> "retry", id |-> id, data |-> <<[id |-> id, st |-> "queued"]>>]
    <3>. DEFINE r == [id |-> id, st |-> "queued"]
    <3>1. r \in Shown /\ r \in RowsOf(id) /\ \A x \in Items : r \in RowsOf(x) => x = id
      BY DEF Shown, RowsOf, Statuses
    <3>2. row'[id] = "queued"
      <4>1. new.op # "remove"
        BY <2>3
      <4>. QED
        BY <1>3, <4>1
    <3>. HIDE DEF r
    <3>3. /\ <<r>> \in Seq(Shown) /\ Len(<<r>>) = 1 /\ <<r>>[1] = r
          /\ \A i, j \in 1 .. 1 : i = j
      BY <3>1
    <3>4. /\ new.op = "retry" /\ new.id = id /\ new.data = <<r>>
          /\ new = [op |-> "retry", id |-> id, data |-> <<r>>]
      BY <2>3 DEF r
    <3>5. \A x \in Items : Once(<<r>>, RowsOf(x))
      BY <3>3 DEF Once
    <3>6. \A x \in Items : row'[x] = "fresh" => Nowhere(<<r>>, RowsOf(x))
      BY <3>1, <3>2, <3>3 DEF Nowhere
    <3>. QED
      BY <2>1, <3>1, <3>3, <3>4, <3>5, <3>6 DEF AnswerOK
  <2>. QED
    BY <1>3, <2>2, <2>3
<1>5. /\ DOMAIN calls' = Calls /\ \A o \in Calls : AnswerOK(calls[o])'
      /\ (\A o \in Calls : calls[o].data \in Seq(Shown) /\ Len(calls[o].data) <= PageSize)'
  BY <1>2, <1>3, <1>4, Replaced
<1>6. TypeOK'
  BY <1>1, <1>2, <1>5 DEF IInv, TypeOK, connection
<1>. QED
  BY <1>2, <1>5, <1>6 DEF IInv

(* An answer that is taken: the list of a poll has each row once; the others *)
(* change the list without a further row.                                  *)
LEMMA DeliverIInv == ASSUME IInv, NEW c \in Calls, Deliver(c) PROVE IInv'
<1>1. PICK q : q = calls[c]
  OBVIOUS
<1>2. /\ q # Idle /\ UNCHANGED <<row, owed, connected, stream, wire>>
      /\ items' = IF q.op \in {"enter", "poll"} THEN q.data
                  ELSE IF q.op = "remove" THEN Without(items, q.id) ELSE Retried(items, q)
      /\ here' = (here \/ q.op = "enter")
      /\ calls' = [calls EXCEPT ![c] = Idle]
  BY <1>1 DEF Deliver, AnswerTaken, backend, connection
<1>3. AnswerOK(q) /\ items \in Seq(Shown) /\ here \in BOOLEAN
  BY <1>1 DEF IInv, TypeOK
<1>4. /\ q.op \in {"enter", "poll", "remove", "retry"} /\ q.id \in Items \cup {0}
      /\ q.data \in Seq(Shown)
  BY <1>2, <1>3 DEF AnswerOK
<1>5. /\ items' \in Seq(Shown)
      /\ \A x \in Items : /\ row[x] = "fresh" => Nowhere(items', RowsOf(x))
                          /\ \/ Often(items', RowsOf(x)) <= 1
                             \/ Often(items', RowsOf(x)) <= Often(items, RowsOf(x))
  <2>1. CASE q.op \in {"enter", "poll"}
    BY <1>2, <1>3, <1>4, <2>1, OftenOK DEF AnswerOK
  <2>2. CASE q.op = "remove"
    BY <1>2, <1>3, <2>2, WithoutOK DEF IInv, ShownOK
  <2>3. CASE q.op = "retry"
    <3>1. items' = [i \in DOMAIN items |-> IF items[i].id = q.id THEN q.data[1] ELSE items[i]]
      BY <1>2, <2>3 DEF Retried
    <3>2. q.data[1] \in Shown /\ q.data[1].id = q.id
      BY <1>3, <1>4, <2>3 DEF AnswerOK, RowsOf
    <3>3. items' \in Seq(Shown) /\ DOMAIN items' = DOMAIN items
      BY <1>3, <3>1, <3>2
    <3>4. \A i \in DOMAIN items : items'[i].id = items[i].id
      BY <3>1, <3>2
    <3>5. \A x \in Items : /\ Nowhere(items, RowsOf(x)) => Nowhere(items', RowsOf(x))
                           /\ Often(items', RowsOf(x)) = Often(items, RowsOf(x))
      BY <1>3, <3>3, <3>4, SameIds
    <3>6. \A x \in Items : Often(items, RowsOf(x)) \in Nat
      BY <1>3, OftenOK
    <3>. QED
      BY <3>3, <3>5, <3>6 DEF IInv, ShownOK
  <2>. QED
    BY <1>4, <2>1, <2>2, <2>3
<1>6. ASSUME NEW x \in Items PROVE ShownOK(x)' /\ PendingOK(x)'
  <2>1. ShownOK(x) /\ PendingOK(x)
    BY DEF IInv
  <2>2. PendingOK(x)' /\ Due(x)' = Due(x)
    BY <1>2, <2>1 DEF PendingOK, SocketOK, Carriers, Due
  <2>3. /\ Due(x) \in Nat /\ Due(x) <= Cardinality(Sockets) /\ Cardinality(Sockets) \in Nat
        /\ Often(items, RowsOf(x)) \in Nat /\ Often(items', RowsOf(x)) \in Nat
    BY <1>3, <1>5, DueOK, OftenOK
  <2>4. Often(items', RowsOf(x)) + Due(x) <= 1 + Cardinality(Sockets)
    <3>1. Often(items, RowsOf(x)) + Due(x) <= 1 + Cardinality(Sockets)
      BY <2>1 DEF ShownOK
    <3>2. \/ Often(items', RowsOf(x)) <= 1
          \/ Often(items', RowsOf(x)) <= Often(items, RowsOf(x))
      BY <1>5
    <3>. QED
      BY <2>3, <3>1, <3>2
  <2>5. row'[x] = "fresh" => Nowhere(items', RowsOf(x))
    BY <1>2, <1>5
  <2>. QED
    BY <2>2, <2>4, <2>5 DEF ShownOK
<1>7. AnswerOK(Idle)' /\ Len(Idle.data) <= PageSize
  <2>1. Idle.data = <<>> /\ Len(<<>>) = 0 /\ 0 <= PageSize
    BY EventsAssumption DEF Idle
  <2>. QED
    BY <2>1 DEF AnswerOK, Idle, Once, Nowhere
<1>8. \A a : AnswerOK(a) => AnswerOK(a)'
  BY <1>2 DEF AnswerOK
<1>9. /\ DOMAIN calls' = Calls /\ \A o \in Calls : AnswerOK(calls[o])'
      /\ (\A o \in Calls : calls[o].data \in Seq(Shown) /\ Len(calls[o].data) <= PageSize)'
  BY <1>2, <1>7, <1>8, Replaced
<1>10. TypeOK' /\ EventsOK'
  BY <1>2, <1>3, <1>5, <1>9 DEF IInv, TypeOK, EventsOK
<1>. QED
  BY <1>6, <1>9, <1>10 DEF IInv

(* What was announced and not made known is lost with the process.         *)
LEMMA RestartIInv == ASSUME IInv, Restart PROVE IInv'
<1>1. /\ UNCHANGED <<row, items, here>> /\ owed' = {} /\ connected' = connected \ Sockets
      /\ stream' = [s \in Sockets |-> <<>>] /\ wire' = [s \in Sockets |-> <<>>]
      /\ calls' = [c \in Calls |-> Idle]
  BY DEF Restart, RestartServer, Drop
<1>2. /\ <<>> \in Seq(Shown) /\ <<>> \in Seq(Events) /\ <<>> \in Seq(RowEvents)
      /\ Len(<<>>) = 0 /\ \A X : Nowhere(<<>>, X) /\ Once(<<>>, X)
  BY DEF Nowhere, Once
<1>3. TypeOK'
  <2>1. {PageSize, Buffer, Wire} \subseteq Nat
    BY EventsAssumption
  <2>2. \A c \in Calls : calls'[c].data = <<>>
    BY <1>1 DEF Idle
  <2>3. \A s \in Sockets : /\ stream'[s] = <<>> /\ wire'[s] = <<>>
                           /\ Len(stream'[s]) <= Buffer /\ Len(wire'[s]) <= Wire
    BY <1>1, <1>2, <2>1
  <2>4. Len(<<>>) <= PageSize /\ connected' \subseteq Sockets
    BY <1>1, <1>2, <2>1 DEF IInv, TypeOK
  <2>. QED
    BY <1>1, <1>2, <2>2, <2>3, <2>4 DEF IInv, TypeOK
<1>4. EventsOK'
  BY <1>1, <1>2 DEF EventsOK
<1>5. ASSUME NEW id \in Items PROVE PendingOK(id)' /\ ShownOK(id)'
  <2>1. ShownOK(id) /\ PendingOK(id) /\ items \in Seq(Shown)
    BY DEF IInv, TypeOK
  <2>2. Carriers(id)' = {} /\ \A s \in Sockets : SocketOK(s, id)'
    BY <1>1, <1>2 DEF Carriers, SocketOK
  <2>3. Added(id) \in owed' => Added(id) \in owed /\ Carriers(id)' = {}
    BY <1>1
  <2>4. Added(id) \in owed \/ Carriers(id)' \subseteq Carriers(id)
    BY <2>2
  <2>. QED
    BY <1>1, <2>1, <2>2, <2>3, <2>4, OnItsWay
<1>6. \A c \in Calls : AnswerOK(calls[c])'
  BY <1>1, <1>2 DEF AnswerOK, Idle
<1>. QED
  BY <1>1, <1>3, <1>4, <1>5, <1>6 DEF IInv
-----------------------------------------------------------------------------
(* Events: the announcement of an item brings one copy where it was due.   *)

LEMMA AfterOK ==
  ASSUME NEW list \in Seq(Shown), NEW e \in RowEvents
  PROVE  /\ After(list, e) \in Seq(Shown)
         /\ \A x \in Items :
              /\ Often(After(list, e), RowsOf(x)) <= Often(list, RowsOf(x)) + 1
              /\ e \notin AddsOf(x) =>
                   /\ Nowhere(list, RowsOf(x)) => Nowhere(After(list, e), RowsOf(x))
                   /\ Often(After(list, e), RowsOf(x)) <= Often(list, RowsOf(x))
<1>. DEFINE Kept(q) == /\ q \in Seq(Shown)
                       /\ \A x \in Items :
                            /\ Nowhere(list, RowsOf(x)) => Nowhere(q, RowsOf(x))
                            /\ Often(q, RowsOf(x)) <= Often(list, RowsOf(x))
<1>0. ASSUME Kept(After(list, e))
      PROVE  \A x \in Items : Often(After(list, e), RowsOf(x)) <= Often(list, RowsOf(x)) + 1
  BY <1>0, OftenOK
<1>1. CASE e \in [type : {"item_added"}, id : Items, st : Statuses]
  <2>. DEFINE r == [id |-> e.id, st |-> e.st]
  <2>1. After(list, e) = <<r>> \o list
    BY <1>1 DEF After
  <2>2. r \in Shown /\ \A x \in Items : r \in RowsOf(x) => e \in AddsOf(x)
    BY <1>1 DEF Shown, RowsOf, AddsOf
  <2>. HIDE DEF r
  <2>3. ASSUME NEW X
        PROVE  /\ <<r>> \o list \in Seq(Shown)
               /\ Often(<<r>> \o list, X) <= Often(list, X) + 1
               /\ r \notin X => /\ Nowhere(list, X) => Nowhere(<<r>> \o list, X)
                                /\ Often(<<r>> \o list, X) <= Often(list, X)
    BY <2>2, Prepended
  <2>. QED
    BY <2>1, <2>2, <2>3
<1>2. CASE e \in [type : {"item_removed"}, id : Items]
  <2>1. After(list, e) = Without(list, e.id) /\ e.id \in Items
    BY <1>2 DEF After
  <2>. QED
    BY <1>0, <2>1, WithoutOK
<1>3. CASE e \in [type : {"status_change"}, id : Items, st : Reports]
  <2>. DEFINE At == {i \in DOMAIN list : list[i].id = e.id}
  <2>1. /\ After(list, e) = IF At = {} THEN list ELSE [list EXCEPT ![Min(At)].st = e.st]
        /\ e.st \in Statuses
    BY <1>3, EventsAssumption DEF After, Changed, Statuses, Settled
  <2>. HIDE DEF At
  <2>2. PICK k : After(list, e) = list \/ After(list, e) = [list EXCEPT ![k].st = e.st]
    BY <2>1
  <2>3. /\ After(list, e) \in Seq(Shown) /\ DOMAIN After(list, e) = DOMAIN list
        /\ \A i \in DOMAIN list : After(list, e)[i].id = list[i].id
    <3>1. CASE After(list, e) = list
      BY <3>1
    <3>2. CASE After(list, e) = [list EXCEPT ![k].st = e.st]
      <4>1. \A i \in DOMAIN list : list[i] \in Shown
        OBVIOUS
      <4>2. DOMAIN After(list, e) = DOMAIN list
        BY <3>2
      <4>3. ASSUME NEW i \in DOMAIN list
            PROVE  After(list, e)[i] \in Shown /\ After(list, e)[i].id = list[i].id
        BY <2>1, <3>2, <4>1 DEF Shown
      <4>4. After(list, e) \in [1 .. Len(list) -> Shown]
        <5>1. DOMAIN list = 1 .. Len(list)
          OBVIOUS
        <5>2. After(list, e) = [i \in 1 .. Len(list) |-> After(list, e)[i]]
          BY <3>2, <5>1
        <5>. QED
          BY <4>3, <5>1, <5>2
      <4>. QED
        BY <4>2, <4>3, <4>4, SeqDef
    <3>. QED
      BY <2>2, <3>1, <3>2
  <2>4. \A x \in Items : /\ Nowhere(list, RowsOf(x)) => Nowhere(After(list, e), RowsOf(x))
                         /\ Often(After(list, e), RowsOf(x)) = Often(list, RowsOf(x))
                         /\ Often(list, RowsOf(x)) \in Nat
    BY <2>3, SameIds, OftenOK
  <2>. QED
    BY <1>0, <2>3, <2>4
<1>. QED
  BY <1>1, <1>2, <1>3 DEF RowEvents

LEMMA HandleIInv == ASSUME IInv, NEW s \in Sockets, Handle(s) PROVE IInv'
<1>. DEFINE w == wire[s]
            e == Head(w)
<1>1. /\ items \in Seq(Shown) /\ wire \in [Sockets -> Seq(RowEvents)] /\ w \in Seq(RowEvents)
      /\ \A id \in Items : PendingOK(id) /\ ShownOK(id)
  BY DEF IInv, TypeOK, EventsOK
<1>2. /\ w # <<>> /\ wire' = [wire EXCEPT ![s] = Tail(w)]
      /\ items' = IF here THEN After(items, e) ELSE items
      /\ UNCHANGED <<row, owed, connected, stream, here, calls>>
  BY DEF Handle, Handling, backend
<1>3. wire'[s] = Tail(w) /\ \A o \in Sockets \ {s} : wire'[o] = wire[o]
  BY <1>1, <1>2
<1>. HIDE DEF w, e
<1>4. ASSUME NEW X
      PROVE  /\ wire'[s] \in Seq(RowEvents) /\ e \in RowEvents
             /\ Nowhere(w, X) => Nowhere(wire'[s], X) /\ e \notin X
             /\ Once(w, X) => Once(wire'[s], X)
             /\ Once(w, X) /\ e \in X => Nowhere(wire'[s], X)
  BY <1>1, <1>2, <1>3, Shortened DEF e
<1>5. e \in RowEvents /\ wire'[s] \in Seq(RowEvents)
  BY <1>4
<1>6. /\ items' \in Seq(Shown)
      /\ \A x \in Items :
           /\ Often(items, RowsOf(x)) \in Nat /\ Often(items', RowsOf(x)) \in Nat
           /\ Often(items', RowsOf(x)) <= Often(items, RowsOf(x)) + 1
           /\ e \notin AddsOf(x) =>
                /\ Nowhere(items, RowsOf(x)) => Nowhere(items', RowsOf(x))
                /\ Often(items', RowsOf(x)) <= Often(items, RowsOf(x))
  <2>1. CASE here
    BY <1>1, <1>2, <1>5, <2>1, AfterOK, OftenOK
  <2>2. CASE ~ here
    BY <1>1, <1>2, <2>2, OftenOK
  <2>. QED
    BY <2>1, <2>2
<1>7. ASSUME NEW x \in Items PROVE PendingOK(x)' /\ ShownOK(x)'
  <2>. DEFINE X == AddsOf(x)
  <2>1. PendingOK(x) /\ ShownOK(x)
    BY <1>1
  <2>2. /\ Nowhere(w, X) => Nowhere(wire'[s], X) /\ e \notin X
        /\ Once(w, X) => Once(wire'[s], X)
        /\ Once(w, X) /\ e \in X => Nowhere(wire'[s], X)
    BY <1>4
  <2>3. \A o \in Sockets : SocketOK(o, x)'
    BY <1>2, <1>3, <2>1, <2>2 DEF PendingOK, SocketOK, w
  <2>4. /\ Carriers(x)' \subseteq Carriers(x)
        /\ e \in X => Carriers(x)' = Carriers(x) \ {s} /\ s \in Carriers(x)
    <3>1. \A o \in Sockets \ {s} : o \in Carriers(x)' <=> o \in Carriers(x)
      BY <1>2, <1>3 DEF Carriers
    <3>2. s \in Carriers(x)' => s \in Carriers(x)
      BY <1>2, <2>2 DEF Carriers, w
    <3>3. e \in X => s \in Carriers(x) /\ s \notin Carriers(x)'
      BY <1>2, <2>1, <2>2 DEF Carriers, PendingOK, SocketOK, w
    <3>4. Carriers(x) \subseteq Sockets /\ Carriers(x)' \subseteq Sockets
      BY DEF Carriers
    <3>. QED
      BY <3>1, <3>2, <3>3, <3>4
  <2>5. PendingOK(x)'
    BY <1>2, <2>1, <2>3, <2>4 DEF PendingOK
  <2>6. /\ Cardinality(Sockets) \in Nat /\ Due(x) \in Nat /\ Due(x)' \in Nat
        /\ Due(x)' <= Due(x)
        /\ Often(items, RowsOf(x)) + Due(x) <= 1 + Cardinality(Sockets)
    BY <1>2, <2>1, <2>4, DueOK, DueFalls DEF ShownOK, Added
  <2>7. CASE e \in X
    <3>1. Added(x) \notin owed /\ row[x] # "fresh"
      BY <2>1, <2>4, <2>7 DEF PendingOK
    <3>2. Due(x) = Cardinality(Carriers(x)) /\ Due(x)' = Cardinality(Carriers(x)')
      BY <1>2, <3>1 DEF Due, Added
    <3>3. IsFiniteSet(Carriers(x)) /\ Cardinality(Carriers(x)) \in Nat
      BY DueOK
    <3>4. Cardinality(Carriers(x) \ {s}) = Cardinality(Carriers(x)) - 1
      BY <2>4, <2>7, <3>3, FS_RemoveElement
    <3>5. Due(x)' = Due(x) - 1
      BY <2>4, <2>7, <3>2, <3>4
    <3>6. Often(items', RowsOf(x)) + Due(x)' <= 1 + Cardinality(Sockets)
      BY <1>6, <2>6, <3>5
    <3>. QED
      BY <1>2, <2>5, <3>1, <3>6 DEF ShownOK
  <2>8. CASE e \notin X
    <3>1. Often(items', RowsOf(x)) + Due(x)' <= 1 + Cardinality(Sockets)
      BY <1>6, <2>6, <2>8
    <3>. QED
      BY <1>2, <1>6, <2>1, <2>5, <2>8, <3>1 DEF ShownOK
  <2>. QED
    BY <2>7, <2>8
<1>8. TypeOK'
  <2>1. Len(w) \in Nat /\ Len(wire'[s]) = Len(w) - 1 /\ Wire \in Nat
    BY <1>1, <1>2, <1>3, EventsAssumption
  <2>2. Len(w) <= Wire /\ s \in connected
    BY <1>2 DEF IInv, TypeOK, w
  <2>3. Len(wire'[s]) <= Wire
    BY <2>1, <2>2
  <2>4. \A o \in Sockets :
          /\ Len(stream'[o]) <= Buffer /\ Len(wire'[o]) <= Wire
          /\ o \notin connected' => stream'[o] = <<>> /\ wire'[o] = <<>>
    BY <1>2, <1>3, <2>2, <2>3 DEF IInv, TypeOK
  <2>. QED
    BY <1>2, <1>6, <2>4 DEF IInv, TypeOK
<1>9. EventsOK' /\ DOMAIN calls' = Calls /\ \A c \in Calls : AnswerOK(calls[c])'
  <2>1. wire' \in [Sockets -> Seq(RowEvents)]
    BY <1>1, <1>2, <1>5
  <2>. QED
    BY <1>2, <2>1 DEF IInv, EventsOK, AnswerOK
<1>. QED
  BY <1>7, <1>8, <1>9 DEF IInv
-----------------------------------------------------------------------------
LEMMA StepIInv == IInv /\ [Next]_vars => IInv'
<1>. SUFFICES ASSUME IInv, [Next]_vars PROVE IInv'
  OBVIOUS
<1>1. CASE Elsewhere /\ UNCHANGED page
  BY <1>1, WritersIInv, StreamIInv DEF Elsewhere
<1>2. CASE Requests
  BY <1>2, PollIInv, OwnIInv, DeliverIInv DEF Requests
<1>3. CASE Leave
  <2>1. UNCHANGED <<row, owed, connected, stream, wire, items, calls>> /\ here' = FALSE
    BY <1>3 DEF Leave, backend, connection
  <2>2. \A id \in Items : PendingOK(id)' /\ ShownOK(id)'
    BY <2>1, AllKept DEF IInv
  <2>. QED
    BY <2>1, <2>2 DEF IInv, TypeOK, EventsOK, AnswerOK
<1>4. CASE Restart
  BY <1>4, RestartIInv
<1>5. CASE \E s \in Sockets : Handle(s)
  BY <1>5, HandleIInv
<1>6. CASE UNCHANGED vars
  <2>1. UNCHANGED <<row, owed, connected, stream, wire, items, here, calls>>
    BY <1>6 DEF vars, page
  <2>2. \A id \in Items : PendingOK(id)' /\ ShownOK(id)'
    BY <2>1, AllKept DEF IInv
  <2>. QED
    BY <2>1, <2>2 DEF IInv, TypeOK, EventsOK, AnswerOK
<1>. QED
  BY <1>1, <1>2, <1>3, <1>4, <1>5, <1>6 DEF Next

LEMMA SpecIInv == Spec => []IInv
  BY InitIInv, StepIInv, PTL DEF Spec

(* Type correctness: whatever arrives in whatever order, the page shows rows *)
(* of known items with known statuses, an answer has at most per_page rows  *)
(* (routes/queue.rs:42), and a closed connection keeps no event             *)
(* (services/socket.js, routes/ws.rs: the receiver is dropped with it).    *)
THEOREM PageTypeOK == Spec => []TypeOK
<1>1. IInv => TypeOK
  BY DEF IInv
<1>. QED
  BY <1>1, SpecIInv, PTL

(* No item is on the page more often than there are sources for it: the     *)
(* polls, which replace the list (controllers/queue.js:130), and each socket *)
(* that was open when it was announced, whose event prepends a row without  *)
(* looking for one (queue.js:75, services/socket.js:68-76).  A retry, a     *)
(* restart, a connection opened again, a late answer or a lost event adds   *)
(* none.                                                                   *)
THEOREM NoMoreThanSources == Spec => []OncePerSource
<1>1. IInv => OncePerSource
  <2>. SUFFICES ASSUME IInv, NEW id \in Items PROVE Copies(id) <= 1 + Cardinality(Sockets)
    BY DEF OncePerSource
  <2>1. items \in Seq(Shown) /\ ShownOK(id)
    BY DEF IInv, TypeOK
  <2>2. {i \in DOMAIN items : items[i].id = id} = Spots(items, RowsOf(id))
    <3>1. DOMAIN items = 1 .. Len(items) /\ \A i \in DOMAIN items : items[i] \in Shown
      BY <2>1
    <3>. QED
      BY <3>1 DEF Spots, RowsOf, Shown
  <2>3. Copies(id) = Often(items, RowsOf(id))
    BY <2>2 DEF Copies, Often
  <2>4. Often(items, RowsOf(id)) \in Nat /\ Due(id) \in Nat /\ Cardinality(Sockets) \in Nat
    BY <2>1, OftenOK, DueOK
  <2>. QED
    BY <2>1, <2>3, <2>4 DEF ShownOK
<1>. QED
  BY <1>1, SpecIInv, PTL
=============================================================================
