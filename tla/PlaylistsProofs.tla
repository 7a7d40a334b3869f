--------------------------- MODULE PlaylistsProofs ---------------------------
(***************************************************************************)
(* For every number of clients, every set of calls whose parameters have   *)
(* their C++ types and every bound: the playlists and the active index     *)
(* stay well formed, and what the calls of playlist.h may not do.          *)
(***************************************************************************)
EXTENDS Playlists, FiniteSetTheorems, SequenceTheorems, TLAPS

-----------------------------------------------------------------------------
\* Nth counts the elements of a finite set of numbers in ascending order.

Below(S, k) == {j \in S : j < k}

LEMMA BelowIsFinite ==
  ASSUME NEW S, S \subseteq Int, IsFiniteSet(S), NEW k
  PROVE  /\ IsFiniteSet(Below(S, k)) /\ Cardinality(Below(S, k)) \in Nat
         /\ k \in S => Cardinality(Below(S, k)) < Cardinality(S)
<1>1. Below(S, k) \subseteq S
  BY DEF Below
<1>2. IsFiniteSet(Below(S, k)) /\ Cardinality(Below(S, k)) \in Nat
  BY <1>1, FS_Subset, FS_CardinalityType
<1>3. ASSUME k \in S PROVE Cardinality(Below(S, k)) < Cardinality(S)
  <2>1. Below(S, k) # S
    BY <1>3 DEF Below
  <2>2. /\ Cardinality(Below(S, k)) <= Cardinality(S)
        /\ Cardinality(S) # Cardinality(Below(S, k))
    BY <1>1, <2>1, FS_Subset
  <2>3. Cardinality(S) \in Nat
    BY FS_CardinalityType
  <2> QED
    BY <1>2, <2>2, <2>3
<1> QED
  BY <1>2, <1>3

\* The greater of two elements has more elements below it.
LEMMA BelowGrows ==
  ASSUME NEW S, S \subseteq Int, IsFiniteSet(S), NEW j \in S, NEW k \in S, j < k
  PROVE  Cardinality(Below(S, j)) < Cardinality(Below(S, k))
<1>1. Below(S, j) \subseteq Below(S, k) /\ Below(S, j) # Below(S, k)
  <2>1. j \in Int /\ k \in Int
    OBVIOUS
  <2>2. j \in Below(S, k) /\ j \notin Below(S, j)
    BY <2>1 DEF Below
  <2>3. ASSUME NEW i \in Below(S, j) PROVE i \in Below(S, k)
    BY <2>1, <2>3 DEF Below
  <2> QED
    BY <2>2, <2>3
<1>2. IsFiniteSet(Below(S, k)) /\ Cardinality(Below(S, k)) \in Nat
      /\ Cardinality(Below(S, j)) \in Nat
  BY BelowIsFinite
<1>3. /\ Cardinality(Below(S, j)) <= Cardinality(Below(S, k))
      /\ Cardinality(Below(S, j)) # Cardinality(Below(S, k))
  BY <1>1, <1>2, FS_Subset
<1> QED
  BY <1>2, <1>3

LEMMA NthProperties ==
  ASSUME NEW S, S \subseteq Int, IsFiniteSet(S)
  PROVE  /\ Cardinality(S) \in Nat
         /\ \A n \in 1..Cardinality(S) :
              Nth(S, n) \in S /\ Cardinality(Below(S, Nth(S, n))) = n - 1
         /\ \A m, n \in 1..Cardinality(S) : m < n => Nth(S, m) < Nth(S, n)
         /\ \A k \in S : \E n \in 1..Cardinality(S) : Nth(S, n) = k
<1> DEFINE size == Cardinality(S)
           rank == [k \in S |-> Cardinality(Below(S, k)) + 1]
<1>1. size \in Nat
  BY FS_CardinalityType
<1>2. rank \in [S -> 1..size]
  <2>1. ASSUME NEW k \in S PROVE Cardinality(Below(S, k)) + 1 \in 1..size
    <3>1. Cardinality(Below(S, k)) \in Nat /\ Cardinality(Below(S, k)) < size
      BY BelowIsFinite
    <3> QED
      BY <1>1, <3>1
  <2> QED
    BY <2>1
<1>3. ASSUME NEW j \in S, NEW k \in S, j < k PROVE rank[j] < rank[k]
  <2>1. /\ Cardinality(Below(S, j)) < Cardinality(Below(S, k))
        /\ Cardinality(Below(S, j)) \in Nat /\ Cardinality(Below(S, k)) \in Nat
    BY <1>3, BelowGrows, BelowIsFinite
  <2> QED
    BY <2>1
<1>4. ASSUME NEW j \in S, NEW k \in S, rank[j] = rank[k] PROVE j = k
  <2>1. j \in Int /\ k \in Int /\ rank[j] \in 1..size /\ rank[k] \in 1..size
    BY <1>2
  <2>2. j < k => rank[j] < rank[k]
    BY <1>3
  <2>3. k < j => rank[k] < rank[j]
    BY <1>3
  <2> HIDE DEF rank, size
  <2> QED
    BY <1>1, <1>4, <2>1, <2>2, <2>3
<1>5. rank \in Surjection(S, 1..size)
  <2>1. rank \in Injection(S, 1..size)
    BY <1>2, <1>4 DEF Injection, IsInjective
  <2>2. IsFiniteSet(1..size) /\ Cardinality(1..size) = size
    BY <1>1, FS_Interval
  <2> QED
    BY <2>1, <2>2, FS_Injection
<1>6. ASSUME NEW n \in 1..size
      PROVE  Nth(S, n) \in S /\ Cardinality(Below(S, Nth(S, n))) = n - 1
  <2>1. PICK k \in S : rank[k] = n
    BY <1>5 DEF Surjection
  <2>2. Cardinality(Below(S, k)) = n - 1
    <3>1. Cardinality(Below(S, k)) \in Nat
      BY BelowIsFinite
    <3> QED
      BY <1>1, <2>1, <3>1
  <2> QED
    BY <2>2 DEF Nth, Below
<1>7. ASSUME NEW n \in 1..size PROVE Nth(S, n) \in S /\ rank[Nth(S, n)] = n
  <2>1. Nth(S, n) \in S /\ Cardinality(Below(S, Nth(S, n))) = n - 1
    BY <1>6
  <2> QED
    BY <1>1, <2>1
<1>8. ASSUME NEW m \in 1..size, NEW n \in 1..size, m < n
      PROVE  Nth(S, m) < Nth(S, n)
  <2>1. /\ Nth(S, m) \in S /\ rank[Nth(S, m)] = m
        /\ Nth(S, n) \in S /\ rank[Nth(S, n)] = n
    BY <1>7
  <2>2. Nth(S, n) < Nth(S, m) => n < m
    BY <1>3, <2>1
  <2>3. Nth(S, m) # Nth(S, n)
    BY <1>1, <1>8, <2>1
  <2>4. Nth(S, m) \in Int /\ Nth(S, n) \in Int
    BY <2>1
  <2> HIDE DEF rank, size
  <2> QED
    BY <1>1, <1>8, <2>2, <2>3, <2>4
<1>9. ASSUME NEW k \in S PROVE \E n \in 1..size : Nth(S, n) = k
  <2>1. rank[k] \in 1..size
    BY <1>2
  <2>2. rank[Nth(S, rank[k])] = rank[k] /\ Nth(S, rank[k]) \in S
    BY <1>7, <2>1
  <2> HIDE DEF rank, size
  <2> QED
    BY <1>4, <2>1, <2>2
<1> QED
  BY <1>1, <1>6, <1>8, <1>9

-----------------------------------------------------------------------------
\* Marked takes the entries whose index is in a bit table, in their order:
\* f says where each of them was.

Kept(s, table) == {k \in DOMAIN s : k - 1 \in table}

LEMMA FunctionIsSeq ==
  ASSUME NEW T, NEW n \in Nat, NEW f \in [1..n -> T]
  PROVE  f \in Seq(T) /\ Len(f) = n
BY SeqDef

LEMMA KeptIsFinite ==
  ASSUME NEW T, NEW s \in Seq(T), NEW table
  PROVE  /\ Kept(s, table) \subseteq 1..Len(s) /\ Kept(s, table) \subseteq Int
         /\ IsFiniteSet(Kept(s, table))
         /\ Cardinality(Kept(s, table)) \in 0..Len(s)
<1>1. Len(s) \in Nat /\ DOMAIN s = 1..Len(s)
  BY LenProperties
<1>2. Kept(s, table) \subseteq 1..Len(s)
  BY <1>1 DEF Kept
<1>3. IsFiniteSet(1..Len(s)) /\ Cardinality(1..Len(s)) = Len(s)
  BY <1>1, FS_Interval
<1>4. IsFiniteSet(Kept(s, table)) /\ Cardinality(Kept(s, table)) <= Len(s)
  BY <1>2, <1>3, FS_Subset
<1>5. Cardinality(Kept(s, table)) \in Nat
  BY <1>4, FS_CardinalityType
<1> QED
  BY <1>1, <1>2, <1>4, <1>5

LEMMA MarkedProperties ==
  ASSUME NEW T, NEW s \in Seq(T), NEW table
  PROVE  /\ Marked(s, table) \in Seq(T)
         /\ Len(Marked(s, table)) = Cardinality(Kept(s, table))
         /\ \E f \in [1..Len(Marked(s, table)) -> Kept(s, table)] :
              /\ \A n \in 1..Len(Marked(s, table)) : Marked(s, table)[n] = s[f[n]]
              /\ \A m, n \in 1..Len(Marked(s, table)) : m < n => f[m] < f[n]
              /\ \A k \in Kept(s, table) :
                   \E n \in 1..Len(Marked(s, table)) : f[n] = k
<1> DEFINE kept == Kept(s, table)
           size == Cardinality(kept)
           f == [n \in 1..size |-> Nth(kept, n)]
<1>1. /\ kept \subseteq 1..Len(s) /\ kept \subseteq Int
      /\ IsFiniteSet(kept) /\ size \in 0..Len(s)
  BY KeptIsFinite
<1>2. /\ size \in Nat
      /\ \A n \in 1..size : Nth(kept, n) \in kept
      /\ \A m, n \in 1..size : m < n => Nth(kept, m) < Nth(kept, n)
      /\ \A k \in kept : \E n \in 1..size : Nth(kept, n) = k
  <2> HIDE DEF kept
  <2> QED
    BY <1>1, NthProperties
<1>3. Marked(s, table) = [n \in 1..size |-> s[Nth(kept, n)]]
  BY DEF Marked, Kept
<1>4. ASSUME NEW k \in kept PROVE s[k] \in T
  BY <1>1, ElementOfSeq
<1> HIDE DEF kept
<1>5. Marked(s, table) \in [1..size -> T]
  BY <1>2, <1>3, <1>4
<1>6. Marked(s, table) \in Seq(T) /\ Len(Marked(s, table)) = size
  <2> HIDE DEF size
  <2> QED
    BY <1>2, <1>5, FunctionIsSeq
<1>7. f \in [1..size -> kept]
  BY <1>2
<1>8. /\ \A n \in 1..size : Marked(s, table)[n] = s[f[n]]
      /\ \A m, n \in 1..size : m < n => f[m] < f[n]
      /\ \A k \in kept : \E n \in 1..size : f[n] = k
  <2>1. \A n \in 1..size : Marked(s, table)[n] = s[f[n]]
    BY <1>3
  <2>2. \A n \in 1..size : f[n] = Nth(kept, n)
    OBVIOUS
  <2> HIDE DEF f, size
  <2> QED
    BY <1>2, <2>1, <2>2
<1> HIDE DEF f, size
<1> QED
  BY <1>6, <1>7, <1>8 DEF kept, size

\* Entries that are not marked, and how many: what a removal leaves.
Left(s, table) == {k \in 1..Len(s) : k - 1 \notin table}

\* Sequence new has the entries of old at some places, in their order.
Picks(new, old, places) ==
  \E f \in [1..Len(new) -> places] :
    /\ \A n \in 1..Len(new) : new[n] = old[f[n]]
    /\ \A m, n \in 1..Len(new) : m < n => f[m] < f[n]
    /\ \A k \in places : \E n \in 1..Len(new) : f[n] = k

LEMMA UnmarkedProperties ==
  ASSUME NEW T, NEW s \in Seq(T), NEW table
  PROVE  /\ Unmarked(s, table) \in Seq(T)
         /\ Len(Unmarked(s, table)) = Cardinality(Left(s, table))
         /\ Len(Unmarked(s, table)) \in 0..Len(s)
         /\ Picks(Unmarked(s, table), s, Left(s, table))
<1> DEFINE others == {k - 1 : k \in DOMAIN s} \ table
           left == Left(s, table)
<1>1. Kept(s, others) = left
  <2>1. DOMAIN s = 1..Len(s) /\ Len(s) \in Nat
    BY LenProperties
  <2>2. ASSUME NEW k \in 1..Len(s)
        PROVE  k - 1 \in others <=> k - 1 \notin table
    BY <2>1, <2>2
  <2> QED
    BY <2>1, <2>2 DEF Kept, Left
<1>2. Unmarked(s, table) = Marked(s, others)
  BY DEF Unmarked
<1>3. Cardinality(left) \in 0..Len(s)
  <2> HIDE DEF others, left
  <2> QED
    BY <1>1, KeptIsFinite
<1> HIDE DEF others, left
<1>4. /\ Unmarked(s, table) \in Seq(T)
      /\ Len(Unmarked(s, table)) = Cardinality(left)
      /\ \E f \in [1..Len(Unmarked(s, table)) -> left] :
           /\ \A n \in 1..Len(Unmarked(s, table)) : Unmarked(s, table)[n] = s[f[n]]
           /\ \A m, n \in 1..Len(Unmarked(s, table)) : m < n => f[m] < f[n]
           /\ \A k \in left : \E n \in 1..Len(Unmarked(s, table)) : f[n] = k
  BY <1>1, <1>2, MarkedProperties
<1> QED
  BY <1>3, <1>4 DEF left, Picks

-----------------------------------------------------------------------------
\* The playlists and the active index, whichever step they are of

Fits == {p \in [name : Seq(Characters), items : Seq(Tracks)] : Len(p.items) <= MaxItems}

WellFormed(ps, a) == /\ ps \in Seq(Fits)
                     /\ Len(ps) <= MaxPlaylists
                     /\ a \in (0..Len(ps) - 1) \cup {Infinite}

\* The types of the variables
PlaylistsOK == /\ WellFormed(playlists, active)
               /\ call \in [Clients -> Calls \cup {None}]

LEMMA PlaylistsAreWellFormed ==
  /\ PlaylistsOK <=> /\ WellFormed(playlists, active)
                     /\ call \in [Clients -> Calls \cup {None}]
  /\ PlaylistsOK' <=> /\ WellFormed(playlists', active')
                      /\ call' \in [Clients -> Calls \cup {None}]
BY DEF PlaylistsOK, WellFormed

LEMMA CountIsNumber ==
  ASSUME NEW a, WellFormed(playlists, a)
  PROVE  /\ Count = Len(playlists) /\ Count \in Nat /\ Count <= MaxPlaylists
         /\ Count < Infinite
         /\ MaxPlaylists \in Nat /\ MaxItems \in Nat /\ Infinite \in Nat
         /\ MaxItems < Infinite
<1>1. Len(playlists) \in Nat
  BY LenProperties DEF WellFormed
<1> QED
  BY <1>1, PlaylistsAssumption DEF WellFormed, Count

\* Items(p) is a playlist's content, and empty where there is no playlist.
LEMMA ItemsType ==
  ASSUME NEW a, WellFormed(playlists, a), NEW p \in Nat
  PROVE  /\ Items(p) \in Seq(Tracks)
         /\ Len(Items(p)) \in Nat /\ Len(Items(p)) <= MaxItems
         /\ p < Count => /\ p + 1 \in 1..Len(playlists)
                         /\ Items(p) = playlists[p + 1].items
                         /\ playlists[p + 1] \in Fits
         /\ p >= Count => Items(p) = <<>>
<1>1. Count = Len(playlists) /\ Count \in Nat /\ MaxItems \in Nat
  BY CountIsNumber
<1>2. CASE p < Count
  <2>1. p + 1 \in 1..Len(playlists)
    BY <1>1, <1>2
  <2>2. playlists[p + 1] \in Fits
    BY <2>1, ElementOfSeq DEF WellFormed
  <2>3. /\ playlists[p + 1].items \in Seq(Tracks)
        /\ Len(playlists[p + 1].items) <= MaxItems
    BY <2>2 DEF Fits
  <2>4. Items(p) = playlists[p + 1].items
    BY <1>2 DEF Items
  <2>5. Len(Items(p)) \in Nat
    BY <2>3, <2>4, LenProperties
  <2> QED
    BY <1>1, <1>2, <2>1, <2>2, <2>3, <2>4, <2>5
<1>3. CASE ~(p < Count)
  <2>1. Items(p) = <<>>
    BY <1>3 DEF Items
  <2>2. <<>> \in Seq(Tracks) /\ Len(<<>>) = 0
    BY EmptySeq
  <2> QED
    BY <1>1, <1>3, <2>1, <2>2
<1> QED
  BY <1>2, <1>3

LEMMA SetItemsProperties ==
  ASSUME WellFormed(playlists, active), NEW p \in Nat, NEW items \in Seq(Tracks),
         Len(items) <= MaxItems, SetItems(p, items)
  PROVE  /\ WellFormed(playlists', active)
         /\ Len(playlists') = Count
         /\ \A k \in 1..Count : k - 1 # p => playlists'[k] = playlists[k]
         /\ p < Count => playlists'[p + 1].items = items
         /\ p >= Count \/ items = Items(p) => playlists' = playlists
<1>1. Count = Len(playlists) /\ Count \in Nat
  BY CountIsNumber
<1>2. CASE p < Count
  <2>1. playlists' = [playlists EXCEPT ![p + 1].items = items]
    BY <1>2 DEF SetItems
  <2>2. /\ p + 1 \in 1..Len(playlists) /\ playlists[p + 1] \in Fits
        /\ Items(p) = playlists[p + 1].items
    BY <1>2, ItemsType
  <2> DEFINE new == [playlists[p + 1] EXCEPT !.items = items]
  <2>3. new \in Fits /\ new.items = items
    BY <2>2 DEF Fits
  <2>4. items = Items(p) => new = playlists[p + 1]
    BY <2>2 DEF Fits
  <2>5. playlists' = [playlists EXCEPT ![p + 1] = new]
    BY <2>1
  <2>s. playlists \in Seq(Fits) /\ playlists \in [1..Len(playlists) -> Fits]
    BY LenProperties DEF WellFormed
  <2> HIDE DEF new
  <2>6. /\ playlists' \in Seq(Fits) /\ Len(playlists') = Len(playlists)
        /\ \A k \in 1..Len(playlists) :
             playlists'[k] = IF k = p + 1 THEN new ELSE playlists[k]
    BY <2>2, <2>3, <2>5, <2>s, ExceptSeq
  <2>7. items = Items(p) => playlists' = playlists
    BY <2>4, <2>5, <2>2, <2>s
  <2>8. \A k \in 1..Count : k - 1 # p => playlists'[k] = playlists[k]
    BY <1>1, <2>6
  <2>9. playlists'[p + 1].items = items
    BY <2>2, <2>3, <2>6
  <2> QED
    BY <1>1, <1>2, <2>6, <2>7, <2>8, <2>9 DEF WellFormed
<1>3. CASE ~(p < Count)
  BY <1>1, <1>3 DEF SetItems
<1> QED
  BY <1>2, <1>3

\* Taking a part of a sequence from its front and the rest of it
LEMMA Halves ==
  ASSUME NEW T, NEW s \in Seq(T), NEW n \in 0..Len(s)
  PROVE  /\ SubSeq(s, 1, n) \in Seq(T) /\ Len(SubSeq(s, 1, n)) = n
         /\ SubSeq(s, n + 1, Len(s)) \in Seq(T)
         /\ Len(SubSeq(s, n + 1, Len(s))) = Len(s) - n
         /\ \A k \in 1..n : SubSeq(s, 1, n)[k] = s[k]
         /\ \A k \in 1..Len(s) - n : SubSeq(s, n + 1, Len(s))[k] = s[n + k]
<1>1. Len(s) \in Nat /\ n \in Int /\ n + 1 \in Int /\ Len(s) \in Int
  BY LenProperties
<1>2. /\ \A i \in 1..n : s[i] \in T
      /\ \A i \in n + 1..Len(s) : s[i] \in T
  BY <1>1, ElementOfSeq
<1>3. /\ SubSeq(s, 1, n) \in Seq(T)
      /\ Len(SubSeq(s, 1, n)) = IF 1 <= n THEN n - 1 + 1 ELSE 0
      /\ \A i \in 1..n - 1 + 1 : SubSeq(s, 1, n)[i] = s[1 + i - 1]
  BY <1>1, <1>2, SubSeqProperties
<1>4. /\ SubSeq(s, n + 1, Len(s)) \in Seq(T)
      /\ Len(SubSeq(s, n + 1, Len(s))) =
           IF n + 1 <= Len(s) THEN Len(s) - (n + 1) + 1 ELSE 0
      /\ \A i \in 1..Len(s) - (n + 1) + 1 :
           SubSeq(s, n + 1, Len(s))[i] = s[n + 1 + i - 1]
  BY <1>1, <1>2, SubSeqProperties
<1> QED
  BY <1>1, <1>3, <1>4

\* Sequence u is s with t between its halves, as create_playlist and
\* playlist_insert_items put things.
HasBetween(u, s, n, t) == /\ Len(u) = Len(s) + Len(t)
                          /\ \A k \in 1..n : u[k] = s[k]
                          /\ \A k \in 1..Len(t) : u[n + k] = t[k]
                          /\ \A k \in 1..Len(s) - n : u[n + Len(t) + k] = s[n + k]

LEMMA Inserted ==
  ASSUME NEW T, NEW s \in Seq(T), NEW n \in 0..Len(s), NEW t \in Seq(T)
  PROVE  /\ Spliced(s, n, t) \in Seq(T) /\ Len(Spliced(s, n, t)) = Len(s) + Len(t)
         /\ HasBetween(Spliced(s, n, t), s, n, t)
<1>h. /\ SubSeq(s, 1, n) \in Seq(T) /\ Len(SubSeq(s, 1, n)) = n
      /\ SubSeq(s, n + 1, Len(s)) \in Seq(T)
      /\ Len(SubSeq(s, n + 1, Len(s))) = Len(s) - n
      /\ \A k \in 1..n : SubSeq(s, 1, n)[k] = s[k]
      /\ \A k \in 1..Len(s) - n : SubSeq(s, n + 1, Len(s))[k] = s[n + k]
  BY Halves
<1>f. PICK front : front = SubSeq(s, 1, n)
  OBVIOUS
<1>b. PICK back : back = SubSeq(s, n + 1, Len(s))
  OBVIOUS
<1>1. /\ front \in Seq(T) /\ back \in Seq(T)
      /\ Len(front) = n /\ Len(back) = Len(s) - n
      /\ \A k \in 1..n : front[k] = s[k]
      /\ \A k \in 1..Len(s) - n : back[k] = s[n + k]
  BY <1>h, <1>f, <1>b
<1>d. PICK d : d = front \o t
  OBVIOUS
<1>u. PICK u : u = d \o back
  OBVIOUS
<1>2. /\ d \in Seq(T) /\ Len(d) = Len(front) + Len(t)
      /\ \A i \in 1..Len(front) + Len(t) :
           d[i] = IF i <= Len(front) THEN front[i] ELSE t[i - Len(front)]
  BY <1>1, <1>d, ConcatProperties, Zenon
<1>3. /\ u \in Seq(T) /\ Len(u) = Len(d) + Len(back)
      /\ \A i \in 1..Len(d) + Len(back) :
           u[i] = IF i <= Len(d) THEN d[i] ELSE back[i - Len(d)]
  <2>1. d \in Seq(T) /\ back \in Seq(T)
    BY <1>1, <1>2
  <2> QED
    BY <2>1, <1>u, ConcatProperties, Zenon
<1>4. Len(s) \in Nat /\ Len(t) \in Nat /\ n \in Nat
  BY LenProperties
<1>5. Len(d) = n + Len(t) /\ Len(u) = Len(s) + Len(t)
  BY <1>1, <1>2, <1>3, <1>4
<1>6. ASSUME NEW k \in 1..n PROVE u[k] = s[k]
  <2>1. u[k] = d[k]
    <3>1. k \in 1..Len(d) + Len(back) /\ k <= Len(d)
      BY <1>1, <1>4, <1>5
    <3> QED
      BY <1>3, <3>1, Zenon
  <2>2. d[k] = front[k]
    <3>1. k \in 1..Len(front) + Len(t) /\ k <= Len(front)
      BY <1>1, <1>4
    <3> QED
      BY <1>2, <3>1, Zenon
  <2> QED
    BY <1>1, <2>1, <2>2
<1>7. ASSUME NEW k \in 1..Len(t) PROVE u[n + k] = t[k]
  <2>1. u[n + k] = d[n + k]
    <3>1. n + k \in 1..Len(d) + Len(back) /\ n + k <= Len(d)
      BY <1>1, <1>4, <1>5
    <3> QED
      BY <1>3, <3>1
  <2>2. d[n + k] = t[n + k - n]
    BY <1>1, <1>2, <1>4
  <2>3. n + k - n = k
    BY <1>4
  <2> QED
    BY <2>1, <2>2, <2>3
<1>8. ASSUME NEW k \in 1..Len(s) - n PROVE u[n + Len(t) + k] = s[n + k]
  <2>1. u[n + Len(t) + k] = back[n + Len(t) + k - Len(d)]
    <3>1. n + Len(t) + k \in 1..Len(d) + Len(back) /\ ~(n + Len(t) + k <= Len(d))
      BY <1>1, <1>4, <1>5
    <3> QED
      BY <1>3, <3>1
  <2>2. n + Len(t) + k - Len(d) = k
    BY <1>4, <1>5
  <2> QED
    BY <1>1, <2>1, <2>2
<1>9. Spliced(s, n, t) = u
  BY <1>f, <1>b, <1>d, <1>u, Zenon DEF Spliced
<1>10. HasBetween(u, s, n, t)
  BY <1>5, <1>6, <1>7, <1>8 DEF HasBetween
<1> QED
  BY <1>3, <1>5, <1>9, <1>10

LEMMA RemoveAtParts ==
  ASSUME NEW s, NEW i
  PROVE  RemoveAt(s, i) = SubSeq(s, 1, i - 1) \o SubSeq(s, i + 1, Len(s))
BY DEF RemoveAt

\* Putting one entry somewhere and taking it away again
LEMMA InsertedIsRemoved ==
  ASSUME NEW T, NEW s \in Seq(T), NEW n \in 0..Len(s), NEW t \in Seq(T), Len(t) = 1
  PROVE  RemoveAt(Spliced(s, n, t), n + 1) = s
<1>1. Len(s) \in Nat /\ n \in Nat /\ n <= Len(s)
  BY LenProperties
<1>u. PICK u : u = Spliced(s, n, t)
  OBVIOUS
<1>a. /\ u \in Seq(T) /\ Len(u) = Len(s) + Len(t)
      /\ \A k \in 1..n : u[k] = s[k]
      /\ \A k \in 1..Len(s) - n : u[n + Len(t) + k] = s[n + k]
  <2>1. u \in Seq(T) /\ HasBetween(u, s, n, t)
    BY <1>u, Inserted
  <2> QED
    BY <2>1 DEF HasBetween
<1>2. /\ u \in Seq(T) /\ Len(u) = Len(s) + 1
      /\ \A k \in 1..n : u[k] = s[k]
      /\ \A k \in 1..Len(s) - n : u[n + 1 + k] = s[n + k]
  BY <1>a
<1>3. n + 1 - 1 = n /\ n \in 0..Len(u) /\ n + 1 \in 0..Len(u)
  BY <1>1, <1>2
<1>f. PICK front : front = SubSeq(u, 1, n)
  OBVIOUS
<1>b. PICK back : back = SubSeq(u, n + 1 + 1, Len(u))
  OBVIOUS
<1>4. /\ front \in Seq(T) /\ Len(front) = n
      /\ \A k \in 1..n : front[k] = u[k]
  BY <1>2, <1>3, <1>f, Halves, Zenon
<1>5. /\ back \in Seq(T) /\ Len(back) = Len(u) - (n + 1)
      /\ \A k \in 1..Len(u) - (n + 1) : back[k] = u[n + 1 + k]
  BY <1>2, <1>3, <1>b, Halves, Zenon
<1>6. RemoveAt(u, n + 1) = front \o back
  <2>1. PICK j : j = n + 1
    OBVIOUS
  <2>2. RemoveAt(u, j) = SubSeq(u, 1, j - 1) \o SubSeq(u, j + 1, Len(u))
    BY RemoveAtParts
  <2>3. j - 1 = n /\ j + 1 = n + 1 + 1
    BY <1>1, <2>1
  <2> QED
    BY <1>f, <1>b, <2>1, <2>2, <2>3, Zenon
<1>w. PICK w : w = front \o back
  OBVIOUS
<1>7. /\ w \in Seq(T) /\ Len(w) = Len(front) + Len(back)
      /\ \A i \in 1..Len(front) + Len(back) :
           w[i] = IF i <= Len(front) THEN front[i] ELSE back[i - Len(front)]
  BY <1>4, <1>5, <1>w, ConcatProperties, Zenon
<1>8. Len(back) = Len(s) - n /\ Len(w) = Len(s)
  BY <1>1, <1>2, <1>4, <1>5, <1>7
<1>9. ASSUME NEW i \in 1..Len(s) PROVE w[i] = s[i]
  <2>1. CASE i <= n
    <3>1. w[i] = front[i]
      BY <1>1, <1>4, <1>7, <1>8, <2>1
    <3> QED
      BY <1>1, <1>2, <1>4, <2>1, <3>1
  <2>2. CASE ~(i <= n)
    <3>1. i - n \in 1..Len(s) - n /\ n + (i - n) = i
      BY <1>1, <2>2
    <3>2. w[i] = back[i - n]
      BY <1>1, <1>4, <1>7, <1>8, <2>2
    <3>3. back[i - n] = u[n + 1 + (i - n)]
      <4>1. i - n \in 1..Len(u) - (n + 1)
        BY <1>1, <1>2, <3>1
      <4> QED
        BY <1>5, <4>1
    <3>4. u[n + 1 + (i - n)] = s[n + (i - n)]
      BY <1>2, <3>1
    <3> QED
      BY <3>1, <3>2, <3>3, <3>4
  <2> QED
    BY <2>1, <2>2
<1>10. w = s
  BY <1>7, <1>8, <1>9, SeqEqual
<1> QED
  BY <1>u, <1>6, <1>w, <1>10

-----------------------------------------------------------------------------
\* What the operators of playlist_manager do to well-formed playlists

LEMMA PlaceProperties ==
  ASSUME WellFormed(playlists, active), NEW p \in Indices
  PROVE  Place(p) \in 0..Count /\ Place(p) < Infinite
<1>1. Count \in Nat /\ Count < Infinite /\ Infinite \in Nat
  BY CountIsNumber
<1> QED
  BY <1>1 DEF Place, Smaller, Indices

\* A name is not longer than its length says, and shorter only when it is whole.
IsNamed(given, name, length) == /\ IsPrefix(given, name) /\ Len(given) <= length
                                /\ given = name \/ Len(given) = length

LEMMA GivenProperties ==
  ASSUME NEW name \in Seq(Characters), NEW length \in Indices
  PROVE  /\ Given(name, length) \in Seq(Characters)
         /\ IsNamed(Given(name, length), name, length)
<1> DEFINE n == Smaller(length, Len(name))
<1>1. Len(name) \in Nat /\ length \in Nat
  BY PlaylistsAssumption DEF Indices
<1>2. n \in 0..Len(name) /\ n <= length /\ (n = length \/ n = Len(name))
  BY <1>1 DEF Smaller
<1>3. Given(name, length) = SubSeq(name, 1, n)
  BY DEF Given
<1> HIDE DEF n
<1>4. PICK given : given = SubSeq(name, 1, n)
  OBVIOUS
<1>5. given \in Seq(Characters) /\ Len(given) = n
  BY <1>2, <1>4, Halves
<1>6. SubSeq(given, 1, Len(given)) = given
  BY <1>5, SubSeqFull
<1>7. IsPrefix(given, name)
  BY <1>1, <1>2, <1>4, <1>5, <1>6 DEF IsPrefix
<1>8. n = Len(name) => given = name
  BY <1>4, SubSeqFull
<1> QED
  BY <1>2, <1>3, <1>4, <1>5, <1>7, <1>8 DEF IsNamed

LEMMA CreateProperties ==
  ASSUME WellFormed(playlists, active), NEW name \in Seq(Characters), NEW p \in Indices,
         NEW items \in Seq(Tracks), Len(items) <= MaxItems, Create(name, p, items)
  PROVE  /\ WellFormed(playlists', active')
         /\ Len(playlists') = Count + 1
         /\ playlists'[Place(p) + 1].name = name
         /\ RemoveAt(playlists', Place(p) + 1) = playlists
<1> DEFINE new == [name |-> name, items |-> items]
           at == Place(p)
<1>1. /\ Count = Len(playlists) /\ Count \in Nat /\ Count < Infinite
      /\ MaxPlaylists \in Nat /\ Infinite \in Nat
  BY CountIsNumber
<1>2. at \in 0..Len(playlists) /\ at \in 0..Count
  BY <1>1, PlaceProperties
<1>3. <<new>> \in Seq(Fits) /\ Len(<<new>>) = 1 /\ <<new>>[1] = new
  <2>1. new \in Fits
    BY DEF Fits
  <2> HIDE DEF new
  <2> QED
    BY <2>1
<1>4. playlists' = Spliced(playlists, at, <<new>>) /\ Count < MaxPlaylists
  BY DEF Create
<1>5. playlists \in Seq(Fits)
  BY DEF WellFormed
<1>n. <<new>>[1].name = name
  BY <1>3
<1> HIDE DEF new
<1>t. PICK t : t = <<new>>
  OBVIOUS
<1>6. t \in Seq(Fits) /\ Len(t) = 1 /\ t[1].name = name /\ playlists' = Spliced(playlists, at, t)
  BY <1>3, <1>4, <1>t, <1>n, Zenon
<1>7. /\ playlists' \in Seq(Fits) /\ Len(playlists') = Len(playlists) + Len(t)
      /\ \A k \in 1..Len(t) : playlists'[at + k] = t[k]
  <2> HIDE DEF at
  <2>1. at \in 0..Len(playlists) /\ t \in Seq(Fits)
    BY <1>2, <1>6
  <2>2. playlists' \in Seq(Fits) /\ HasBetween(playlists', playlists, at, t)
    BY <1>5, <1>6, <2>1, Inserted
  <2> QED
    BY <2>2 DEF HasBetween
<1>8. RemoveAt(playlists', at + 1) = playlists
  <2> HIDE DEF at
  <2> QED
    BY <1>2, <1>5, <1>6, InsertedIsRemoved, Zenon
<1>9. playlists'[at + 1].name = name
  BY <1>6, <1>7
<1>10. Len(playlists') = Count + 1
  BY <1>1, <1>6, <1>7
<1>11. active' \in (0..Len(playlists') - 1) \cup {Infinite}
  <2>1. active \in (0..Len(playlists) - 1) \cup {Infinite}
    BY DEF WellFormed
  <2>2. active' = IF active # Infinite /\ active >= at THEN active + 1 ELSE active
    BY DEF Create
  <2> HIDE DEF at
  <2> QED
    BY <1>1, <1>2, <1>10, <2>1, <2>2
<1> QED
  BY <1>1, <1>4, <1>7, <1>8, <1>9, <1>10, <1>11 DEF WellFormed

\* Every index below that of the active playlist that stays is counted once.
LEMMA RemoveMarkedProperties ==
  ASSUME WellFormed(playlists, active), NEW table, table \subseteq Nat,
         RemoveMarked(table)
  PROVE  WellFormed(playlists', active')
<1> DEFINE left == Left(playlists, table)
           gone == {p \in table : p < active}
           before == 0..active - 1
           stay == before \ gone
           after == left \ {active + 1}
<1>1. /\ Count = Len(playlists) /\ Count \in Nat /\ MaxPlaylists \in Nat
  BY CountIsNumber
<1>2. playlists \in Seq(Fits) /\ active \in (0..Len(playlists) - 1) \cup {Infinite}
  BY DEF WellFormed
<1>3. /\ playlists' \in Seq(Fits) /\ Len(playlists') = Cardinality(left)
      /\ Len(playlists') \in 0..Len(playlists)
  <2>1. playlists' = Unmarked(playlists, table)
    BY DEF RemoveMarked
  <2> QED
    BY <1>2, <2>1, UnmarkedProperties
<1>4. Len(playlists') <= MaxPlaylists
  BY <1>1, <1>3 DEF WellFormed
<1>5. CASE active = Infinite \/ active \in table
  BY <1>3, <1>4, <1>5 DEF RemoveMarked, WellFormed
<1>6. CASE active # Infinite /\ active \notin table
  <2>1. active \in 0..Count - 1 /\ active \in Nat
    BY <1>1, <1>2, <1>6
  <2>2. active' = active - Cardinality(gone)
    BY <1>6 DEF RemoveMarked
  <2>3. IsFiniteSet(before) /\ Cardinality(before) = active
    BY <2>1, FS_Interval
  <2>4. gone \subseteq before
    <3>1. ASSUME NEW p \in gone PROVE p \in before
      <4>1. p \in Nat /\ p < active
        OBVIOUS
      <4> QED
        BY <2>1, <4>1
    <3> QED
      BY <3>1
  <2>5. IsFiniteSet(gone) /\ Cardinality(gone) <= active /\ Cardinality(gone) \in Nat
    <3> HIDE DEF gone, before
    <3> QED
      BY <2>3, <2>4, FS_Subset, FS_CardinalityType
  <2>6. IsFiniteSet(stay) /\ Cardinality(stay) = active - Cardinality(gone)
    <3>1. IsFiniteSet(stay) /\ Cardinality(stay) = Cardinality(before) - Cardinality(before \cap gone)
      <4> HIDE DEF gone, before
      <4> QED
        BY <2>3, FS_Difference
    <3>2. before \cap gone = gone
      BY <2>4
    <3> QED
      BY <2>3, <3>1, <3>2
  <2>7. IsFiniteSet(left) /\ active + 1 \in left
    <3>1. IsFiniteSet(1..Len(playlists)) /\ left \subseteq 1..Len(playlists)
      BY <1>1, FS_Interval DEF Left
    <3>2. active + 1 \in left
      BY <1>1, <1>6, <2>1 DEF Left
    <3> HIDE DEF left
    <3> QED
      BY <3>1, <3>2, FS_Subset
  <2>8. IsFiniteSet(after) /\ Cardinality(after) = Cardinality(left) - 1
    <3> HIDE DEF left
    <3> QED
      BY <2>7, FS_RemoveElement
  <2>9. [p \in stay |-> p + 1] \in Injection(stay, after)
    <3>1. ASSUME NEW p \in stay PROVE p + 1 \in after /\ p \in Nat
      <4>1. p \in Nat /\ p < active /\ p \notin table
        BY <2>1
      <4> QED
        BY <1>1, <2>1, <4>1 DEF Left
    <3> HIDE DEF stay, after
    <3> QED
      BY <3>1 DEF Injection, IsInjective
  <2>10. Cardinality(stay) <= Cardinality(after)
    <3> HIDE DEF stay, after
    <3> QED
      BY <2>8, <2>9, FS_Injection
  <2>11. active' \in 0..Len(playlists') - 1
    <3> HIDE DEF gone, stay, after, left
    <3> QED
      BY <1>1, <1>3, <2>1, <2>2, <2>5, <2>6, <2>8, <2>10
  <2> QED
    BY <1>3, <1>4, <2>11 DEF WellFormed
<1> QED
  BY <1>2, <1>5, <1>6

LEMMA UpTo ==
  ASSUME NEW n \in Nat
  PROVE  IsFiniteSet(1..n) /\ Cardinality(1..n) = n
BY FS_Interval

\* Removing one playlist leaves one less.
LEMMA OneLess ==
  ASSUME WellFormed(playlists, active), NEW p \in Nat, p < Count
  PROVE  /\ Unmarked(playlists, {p}) \in Seq(Fits)
         /\ Len(Unmarked(playlists, {p})) = Count - 1
<1> DEFINE left == Left(playlists, {p})
<1>1. Count = Len(playlists) /\ Count \in Nat
  BY CountIsNumber
<1>2. playlists \in Seq(Fits)
  BY DEF WellFormed
<1>3. left = (1..Len(playlists)) \ {p + 1}
  BY <1>1 DEF Left
<1>4. Cardinality(left) = Count - 1
  <2>1. IsFiniteSet(1..Len(playlists)) /\ Cardinality(1..Len(playlists)) = Len(playlists)
    BY <1>1, UpTo
  <2>2. p + 1 \in 1..Len(playlists)
    BY <1>1
  <2> HIDE DEF left
  <2> QED
    BY <1>1, <1>3, <2>1, <2>2, FS_RemoveElement
<1> QED
  BY <1>2, <1>4, UnmarkedProperties

LEMMA ReorderedProperties ==
  ASSUME NEW T, NEW s \in Seq(T), NEW order \in Orders, Len(order) = Len(s)
  PROVE  Reordered(s, order) \in Seq(T) /\ Len(Reordered(s, order)) = Len(s)
<1>1. Len(s) \in Nat /\ DOMAIN s = 1..Len(s) /\ s \in [1..Len(s) -> T]
  BY LenProperties
<1>2. ASSUME NEW k \in 1..Len(s) PROVE order[k] + 1 \in 1..Len(s)
  <2>1. order \in Seq(Nat) /\ order[k] < Len(order)
    BY <1>2 DEF Orders
  <2>2. order[k] \in Nat
    BY <1>2, <2>1, ElementOfSeq
  <2> QED
    BY <1>1, <2>1, <2>2
<1>3. Reordered(s, order) \in [1..Len(s) -> T]
  BY <1>1, <1>2 DEF Reordered
<1> QED
  BY <1>1, <1>3, FunctionIsSeq

LEMMA PutItemsProperties ==
  ASSUME WellFormed(playlists, active), NEW p \in Nat, NEW base \in Indices,
         NEW files \in Seq(Tracks), Fit(p, files), PutItems(p, base, files)
  PROVE  /\ WellFormed(playlists', active) /\ Len(playlists') = Count
         /\ \A k \in 1..Count : k - 1 # p => playlists'[k] = playlists[k]
         /\ Smaller(base, Len(Items(p))) < Infinite
<1> DEFINE at == Smaller(base, Len(Items(p)))
           new == Spliced(Items(p), at, files)
<1>1. Items(p) \in Seq(Tracks) /\ Len(Items(p)) \in Nat /\ Len(Items(p)) <= MaxItems
  BY ItemsType
<1>2. MaxItems \in Nat /\ Infinite \in Nat /\ MaxItems < Infinite
  BY CountIsNumber
<1>3. at \in 0..Len(Items(p)) /\ at < Infinite
  BY <1>1, <1>2 DEF Smaller, Indices
<1>4. new \in Seq(Tracks) /\ Len(new) = Len(Items(p)) + Len(files)
  <2> HIDE DEF at
  <2> QED
    BY <1>1, <1>3, Inserted
<1>5. Len(new) <= MaxItems
  BY <1>4 DEF Fit
<1>6. SetItems(p, new)
  BY DEF PutItems
<1> HIDE DEF new
<1> QED
  BY <1>3, <1>4, <1>5, <1>6, SetItemsProperties

\* activeplaylist_X may find no active playlist: the index is then one past
\* every playlist.
LEMMA ResolveType ==
  ASSUME WellFormed(playlists, active), NEW at \in Indices \cup {ActivePlaylist}
  PROVE  Resolve(at) \in Nat
<1>1. active \in Nat
  <2>1. Count = Len(playlists) /\ Count \in Nat /\ Infinite \in Nat
    BY CountIsNumber
  <2> QED
    BY <2>1 DEF WellFormed
<1>2. Infinite \in Nat
  BY PlaylistsAssumption
<1> QED
  BY <1>1, <1>2 DEF Resolve, Indices

-----------------------------------------------------------------------------
\* The calls

Answered(c) == call' = [call EXCEPT ![c] = None]

LEMMA BegunIsCall ==
  ASSUME PlaylistsOK, NEW c \in Clients, NEW m, Begun(c, m)
  PROVE  call[c] \in Calls /\ call[c].method = m
BY DEF Begun, PlaylistsOK

LEMMA AnsweredType ==
  ASSUME PlaylistsOK, NEW c \in Clients, Answered(c)
  PROVE  call' \in [Clients -> Calls \cup {None}]
BY DEF Answered, PlaylistsOK

\* The calls that only look change nothing.
LEMMA LookProperties ==
  ASSUME NEW c \in Clients, Look(c)
  PROVE  UNCHANGED <<playlists, active>> /\ Answered(c)
BY DEF Look, GetItemCount, GetAllItems, GetItems, GetItemHandle,
       GetFocusItemHandle, Answer, Answered

\* The calls that edit items touch the playlist they are about, no other.
EditsOnly(p) == /\ WellFormed(playlists', active')
                /\ active' = active
                /\ Len(playlists') = Count
                /\ \A k \in 1..Count : k - 1 # p => playlists'[k] = playlists[k]

LEMMA SetItemsEdits ==
  ASSUME WellFormed(playlists, active), NEW p \in Nat, NEW items \in Seq(Tracks),
         Len(items) <= MaxItems, SetItems(p, items), UNCHANGED active
  PROVE  EditsOnly(p)
BY SetItemsProperties DEF EditsOnly

LEMMA NothingEdited ==
  ASSUME WellFormed(playlists, active), UNCHANGED <<playlists, active>>, NEW p
  PROVE  EditsOnly(p)
BY CountIsNumber DEF EditsOnly

LEMMA EditProperties ==
  ASSUME PlaylistsOK, NEW c \in Clients, Edit(c)
  PROVE  Answered(c) /\ EditsOnly(Resolve(call[c].at))
<1> DEFINE p == Resolve(call[c].at)
<1>w. WellFormed(playlists, active)
  BY PlaylistsAreWellFormed
<1>b. MaxItems \in Nat
  BY PlaylistsAssumption
<1>1. ASSUME InsertItems(c) PROVE Answered(c) /\ EditsOnly(p)
  <2>1. call[c] \in Calls /\ call[c].method = "playlist_insert_items"
    BY <1>1, BegunIsCall DEF InsertItems
  <2>2. /\ call[c].at \in Indices \cup {ActivePlaylist} /\ call[c].base \in Indices
        /\ call[c].files \in Seq(Tracks)
    BY <2>1, CallsAssumption DEF ItemMethods
  <2>3. p \in Nat
    BY <1>w, <2>2, ResolveType
  <2>4. /\ \/ Fit(p, call[c].files) /\ PutItems(p, call[c].base, call[c].files)
           \/ UNCHANGED playlists
        /\ UNCHANGED active /\ Answered(c)
    BY <1>1 DEF InsertItems, Answer, Answered
  <2> HIDE DEF p
  <2>5. CASE Fit(p, call[c].files) /\ PutItems(p, call[c].base, call[c].files)
    BY <1>w, <2>2, <2>3, <2>4, <2>5, PutItemsProperties DEF EditsOnly
  <2>6. CASE UNCHANGED playlists
    BY <1>w, <2>4, <2>6, NothingEdited
  <2> QED
    BY <2>4, <2>5, <2>6
<1>2. ASSUME InsertItemsFilter(c) PROVE Answered(c) /\ EditsOnly(p)
  <2>1. call[c] \in Calls /\ call[c].method = "playlist_insert_items_filter"
    BY <1>2, BegunIsCall DEF InsertItemsFilter
  <2>2. /\ call[c].at \in Indices /\ call[c].base \in Indices
        /\ call[c].files \in Seq(Tracks)
    BY <2>1, CallsAssumption DEF ItemMethods
  <2>3. p \in Nat /\ p = call[c].at
    BY <2>2, PlaylistsAssumption DEF Resolve, Indices
  <2>4. /\ \/ \E k \in 0..Len(call[c].files) :
                /\ Fit(p, SubSeq(call[c].files, 1, k))
                /\ PutItems(p, call[c].base, SubSeq(call[c].files, 1, k))
           \/ UNCHANGED playlists
        /\ UNCHANGED active /\ Answered(c)
    BY <1>2, <2>3 DEF InsertItemsFilter, Answer, Answered
  <2> HIDE DEF p
  <2>5. ASSUME NEW k \in 0..Len(call[c].files),
               Fit(p, SubSeq(call[c].files, 1, k)),
               PutItems(p, call[c].base, SubSeq(call[c].files, 1, k))
        PROVE  EditsOnly(p)
    <3>1. SubSeq(call[c].files, 1, k) \in Seq(Tracks)
      BY <2>2, Halves
    <3> QED
      BY <1>w, <2>2, <2>3, <2>4, <2>5, <3>1, PutItemsProperties DEF EditsOnly
  <2>6. CASE UNCHANGED playlists
    BY <1>w, <2>4, <2>6, NothingEdited
  <2> QED
    BY <2>4, <2>5, <2>6
<1>3. ASSUME RemoveItems(c) PROVE Answered(c) /\ EditsOnly(p)
  <2>1. call[c] \in Calls /\ call[c].method = "playlist_remove_items"
    BY <1>3, BegunIsCall DEF RemoveItems
  <2>2. call[c].at \in Indices \cup {ActivePlaylist}
    BY <2>1, CallsAssumption DEF ItemMethods
  <2>3. p \in Nat
    BY <1>w, <2>2, ResolveType
  <2>4. /\ SetItems(p, Unmarked(Items(p), ToSet(call[c].mask)))
        /\ UNCHANGED active /\ Answered(c)
    BY <1>3 DEF RemoveItems, Answer, Answered
  <2> HIDE DEF p
  <2>5. Items(p) \in Seq(Tracks) /\ Len(Items(p)) \in Nat /\ Len(Items(p)) <= MaxItems
    BY <1>w, <2>3, ItemsType
  <2>6. /\ Unmarked(Items(p), ToSet(call[c].mask)) \in Seq(Tracks)
        /\ Len(Unmarked(Items(p), ToSet(call[c].mask))) \in 0..Len(Items(p))
    BY <2>5, UnmarkedProperties
  <2>7. Len(Unmarked(Items(p), ToSet(call[c].mask))) <= MaxItems
    BY <1>b, <2>5, <2>6
  <2> QED
    BY <1>w, <2>3, <2>4, <2>6, <2>7, SetItemsEdits
<1>4. ASSUME ReplaceItem(c) PROVE Answered(c) /\ EditsOnly(p)
  <2>1. call[c] \in Calls /\ call[c].method = "playlist_replace_item"
    BY <1>4, BegunIsCall DEF ReplaceItem
  <2>2. /\ call[c].at \in Indices \cup {ActivePlaylist}
        /\ call[c].origin \in Nat /\ call[c].replacee \in Nat
    BY <2>1, CallsAssumption, PlaylistsAssumption DEF ItemMethods, Indices
  <2>3. p \in Nat
    BY <1>w, <2>2, ResolveType
  <2> DEFINE valid == call[c].origin < Len(Items(p)) /\ call[c].replacee < Len(Items(p))
             new == [Items(p) EXCEPT ![call[c].origin + 1] = Items(p)[call[c].replacee + 1]]
  <2>4. /\ SetItems(p, IF valid THEN new ELSE Items(p))
        /\ UNCHANGED active /\ Answered(c)
    BY <1>4 DEF ReplaceItem, Answer, Answered
  <2> HIDE DEF p
  <2>5. Items(p) \in Seq(Tracks) /\ Len(Items(p)) \in Nat /\ Len(Items(p)) <= MaxItems
    BY <1>w, <2>3, ItemsType
  <2>6. ASSUME valid PROVE new \in Seq(Tracks) /\ Len(new) <= MaxItems
    <3>1. /\ call[c].origin + 1 \in 1..Len(Items(p))
          /\ call[c].replacee + 1 \in 1..Len(Items(p))
      BY <2>2, <2>5, <2>6
    <3>2. Items(p)[call[c].replacee + 1] \in Tracks
      BY <2>5, <3>1, ElementOfSeq
    <3>3. new \in Seq(Tracks) /\ Len(new) = Len(Items(p))
      BY <2>5, <3>1, <3>2, ExceptSeq
    <3> QED
      BY <2>5, <3>3
  <2> HIDE DEF valid, new
  <2> QED
    BY <1>w, <2>3, <2>4, <2>5, <2>6, SetItemsEdits
<1>5. ASSUME ReorderItems(c) PROVE Answered(c) /\ EditsOnly(p)
  <2>1. call[c] \in Calls /\ call[c].method = "playlist_reorder_items"
    BY <1>5, BegunIsCall DEF ReorderItems
  <2>2. call[c].at \in Indices \cup {ActivePlaylist} /\ call[c].order \in Orders
    BY <2>1, CallsAssumption DEF ItemMethods
  <2>3. p \in Nat
    BY <1>w, <2>2, ResolveType
  <2> DEFINE valid == p < Count /\ Len(call[c].order) = Len(Items(p))
             new == Reordered(Items(p), call[c].order)
  <2>4. /\ SetItems(p, IF valid THEN new ELSE Items(p))
        /\ UNCHANGED active /\ Answered(c)
    BY <1>5 DEF ReorderItems, Answer, Answered
  <2> HIDE DEF p
  <2>5. Items(p) \in Seq(Tracks) /\ Len(Items(p)) \in Nat /\ Len(Items(p)) <= MaxItems
    BY <1>w, <2>3, ItemsType
  <2>6. ASSUME valid PROVE new \in Seq(Tracks) /\ Len(new) <= MaxItems
    BY <2>2, <2>5, <2>6, ReorderedProperties
  <2> HIDE DEF valid, new
  <2> QED
    BY <1>w, <2>3, <2>4, <2>5, <2>6, SetItemsEdits
<1>6. ASSUME Clear(c) PROVE Answered(c) /\ EditsOnly(p)
  <2>1. call[c] \in Calls /\ call[c].method = "playlist_clear"
    BY <1>6, BegunIsCall DEF Clear
  <2>2. call[c].at \in Indices \cup {ActivePlaylist}
    BY <2>1, CallsAssumption DEF ItemMethods
  <2>3. p \in Nat
    BY <1>w, <2>2, ResolveType
  <2>4. SetItems(p, <<>>) /\ UNCHANGED active /\ Answered(c)
    BY <1>6 DEF Clear, Answer, Answered
  <2>5. <<>> \in Seq(Tracks) /\ Len(<<>>) <= MaxItems
    BY <1>b, EmptySeq
  <2> HIDE DEF p
  <2> QED
    BY <1>w, <2>3, <2>4, <2>5, SetItemsEdits
<1> HIDE DEF p
<1>7. Answered(c) /\ EditsOnly(p)
  BY <1>1, <1>2, <1>3, <1>4, <1>5, <1>6 DEF Edit
<1> QED
  BY <1>7 DEF p

\* The index of a playlist of that name, the first one of them
LEMMA FindProperties ==
  ASSUME WellFormed(playlists, active), NEW name
  PROVE  \/ /\ Find(name) \in Nat /\ Find(name) < Count
            /\ playlists[Find(name) + 1].name = name
         \/ Find(name) = Infinite
<1> DEFINE found == {k \in DOMAIN playlists : playlists[k].name = name}
           least == CHOOSE p \in {k - 1 : k \in found} : \A k \in found : p <= k - 1
<1>1. Count = Len(playlists) /\ Count \in Nat
  BY CountIsNumber
<1>2. DOMAIN playlists = 1..Len(playlists)
  BY LenProperties DEF WellFormed
<1>3. CASE found = {}
  BY <1>3 DEF Find
<1>4. CASE found # {}
  <2>1. found \subseteq 1..Len(playlists) /\ found \subseteq Int
    BY <1>1, <1>2
  <2>2. IsFiniteSet(1..Len(playlists))
    BY <1>1, UpTo
  <2>3. IsFiniteSet(found) /\ Cardinality(found) \in Nat \ {0}
    <3> HIDE DEF found
    <3> QED
      BY <1>4, <2>1, <2>2, FS_Subset, FS_CardinalityType, FS_EmptySet
  <2>4. \E j \in found : \A k \in found : j <= k
    <3> HIDE DEF found
    <3>1. 1 \in 1..Cardinality(found)
      BY <2>3
    <3>2. Nth(found, 1) \in found
      BY <2>1, <2>3, <3>1, NthProperties
    <3>3. ASSUME NEW k \in found PROVE Nth(found, 1) <= k
      <4>1. PICK n \in 1..Cardinality(found) : Nth(found, n) = k
        BY <2>1, <2>3, NthProperties
      <4>2. 1 < n => Nth(found, 1) < Nth(found, n)
        BY <2>1, <2>3, <3>1, NthProperties
      <4>3. k \in Int /\ Nth(found, 1) \in Int
        BY <2>1, <3>2
      <4>4. n = 1 \/ 1 < n
        BY <2>3
      <4> QED
        BY <4>1, <4>2, <4>3, <4>4
    <3> QED
      BY <3>2, <3>3
  <2>5. \E p \in {k - 1 : k \in found} : \A k \in found : p <= k - 1
    <3>1. PICK j \in found : \A k \in found : j <= k
      BY <2>4
    <3>2. ASSUME NEW k \in found PROVE j - 1 <= k - 1
      <4>1. j \in Int /\ k \in Int /\ j <= k
        BY <2>1, <3>1
      <4> HIDE DEF found
      <4> QED
        BY <4>1
    <3>3. j - 1 \in {k - 1 : k \in found}
      BY <3>1
    <3> HIDE DEF found
    <3> QED
      BY <3>2, <3>3
  <2>6. least \in {k - 1 : k \in found}
    <3> HIDE DEF found
    <3> QED
      BY <2>5
  <2>7. PICK k \in found : least = k - 1
    BY <2>6
  <2>8. Find(name) = least
    BY <1>4 DEF Find
  <2> HIDE DEF least
  <2>9. k \in 1..Len(playlists) /\ playlists[k].name = name /\ least + 1 = k
    BY <2>1, <2>7
  <2> QED
    BY <1>1, <2>7, <2>8, <2>9
<1> QED
  BY <1>3, <1>4

\* Creating, removing and reordering playlists, and choosing the active one
LEMMA ManageProperties ==
  ASSUME PlaylistsOK, NEW c \in Clients, Manage(c)
  PROVE  Answered(c) /\ WellFormed(playlists', active')
<1>w. WellFormed(playlists, active)
  BY PlaylistsAreWellFormed
<1>n. /\ Count = Len(playlists) /\ Count \in Nat /\ Count <= MaxPlaylists
      /\ Count < Infinite /\ MaxItems \in Nat /\ Infinite \in Nat /\ MaxPlaylists \in Nat
  BY <1>w, CountIsNumber
<1>e. <<>> \in Seq(Tracks) /\ Len(<<>>) <= MaxItems
  BY <1>n, EmptySeq
<1>1. ASSUME \/ GetActivePlaylist(c) \/ GetPlaylistCount(c) \/ GetName(c) \/ FindPlaylist(c)
      PROVE  Answered(c) /\ WellFormed(playlists', active')
  <2>1. Answered(c) /\ UNCHANGED <<playlists, active>>
    BY <1>1 DEF GetActivePlaylist, GetPlaylistCount, GetName, FindPlaylist, Answer, Answered
  <2> QED
    BY <1>w, <2>1
<1>2. ASSUME SetActivePlaylist(c) PROVE Answered(c) /\ WellFormed(playlists', active')
  <2>1. call[c] \in Calls /\ call[c].method = "set_active_playlist"
    BY <1>2, BegunIsCall DEF SetActivePlaylist
  <2>2. call[c].index \in Nat
    BY <2>1, CallsAssumption, <1>n DEF Indices
  <2>3. /\ active' = IF call[c].index < Count \/ call[c].index = Infinite
                     THEN call[c].index ELSE active
        /\ Answered(c) /\ UNCHANGED playlists
    BY <1>2 DEF SetActivePlaylist, Activated, Answer, Answered
  <2> QED
    BY <1>w, <1>n, <2>2, <2>3 DEF WellFormed
<1>3. ASSUME CreatePlaylist(c) PROVE Answered(c) /\ WellFormed(playlists', active')
  <2>1. call[c] \in Calls /\ call[c].method = "create_playlist"
    BY <1>3, BegunIsCall DEF CreatePlaylist
  <2>2. /\ call[c].name \in Seq(Characters) /\ call[c].length \in Indices
        /\ call[c].index \in Indices
        /\ call[c].files \in Seq(Tracks) /\ Len(call[c].files) <= MaxItems
    BY <2>1, CallsAssumption
  <2>3. Given(call[c].name, call[c].length) \in Seq(Characters)
    BY <2>2, GivenProperties
  <2>4. /\ Answered(c)
        /\ \/ Create(Given(call[c].name, call[c].length), call[c].index, call[c].files)
           \/ UNCHANGED <<playlists, active>>
    BY <1>3 DEF CreatePlaylist, Answer, Answered
  <2> QED
    BY <1>w, <2>2, <2>3, <2>4, CreateProperties
<1>4. ASSUME CreatePlaylistAutoname(c) PROVE Answered(c) /\ WellFormed(playlists', active')
  <2>1. call[c] \in Calls /\ call[c].method = "create_playlist_autoname"
    BY <1>4, BegunIsCall DEF CreatePlaylistAutoname
  <2>2. call[c].index \in Indices
    BY <2>1, CallsAssumption
  <2>3. /\ Answered(c)
        /\ \/ \E name \in Names : Create(name, call[c].index, <<>>)
           \/ UNCHANGED <<playlists, active>>
    BY <1>4 DEF CreatePlaylistAutoname, Answer, Answered
  <2> QED
    BY <1>w, <1>e, <2>2, <2>3, PlaylistsAssumption, CreateProperties
<1>5. ASSUME FindOrCreatePlaylist(c) PROVE Answered(c) /\ WellFormed(playlists', active')
  <2>1. call[c] \in Calls /\ call[c].method = "find_or_create_playlist"
    BY <1>5, BegunIsCall DEF FindOrCreatePlaylist
  <2>2. /\ Given(call[c].name, call[c].length) \in Seq(Characters)
        /\ Infinite \in Indices
    <3>1. call[c].name \in Seq(Characters) /\ call[c].length \in Indices
      BY <2>1, CallsAssumption
    <3>2. Infinite \in Indices
      BY <1>n DEF Indices
    <3> QED
      BY <3>1, <3>2, GivenProperties
  <2>3. /\ Answered(c)
        /\ \/ Create(Given(call[c].name, call[c].length), Infinite, <<>>)
           \/ UNCHANGED <<playlists, active>>
    BY <1>5 DEF FindOrCreatePlaylist, Answer, Answered
  <2> QED
    BY <1>w, <1>e, <2>2, <2>3, CreateProperties
<1>6. ASSUME LoadPlaylist(c) PROVE Answered(c) /\ WellFormed(playlists', active')
  <2>1. call[c] \in Calls /\ call[c].method = "load_playlist"
    BY <1>6, BegunIsCall DEF LoadPlaylist
  <2>2. /\ call[c].name \in Seq(Characters) /\ Infinite \in Indices
        /\ call[c].files \in Seq(Tracks) /\ Len(call[c].files) <= MaxItems
    BY <1>n, <2>1, CallsAssumption DEF Indices
  <2>3. /\ Answered(c)
        /\ \/ \E loaded \in {call[c].files, <<>>} : Create(call[c].name, Infinite, loaded)
           \/ UNCHANGED <<playlists, active>>
    BY <1>6 DEF LoadPlaylist, Answer, Answered
  <2>4. ASSUME NEW loaded \in {call[c].files, <<>>},
               Create(call[c].name, Infinite, loaded)
        PROVE  WellFormed(playlists', active')
    <3>1. loaded \in Seq(Tracks) /\ Len(loaded) <= MaxItems
      BY <1>e, <2>2
    <3> QED
      BY <1>w, <2>2, <2>4, <3>1, CreateProperties
  <2> QED
    BY <1>w, <2>3, <2>4
<1>7. ASSUME RemovePlaylist(c) PROVE Answered(c) /\ WellFormed(playlists', active')
  <2>1. call[c] \in Calls /\ call[c].method = "remove_playlist"
    BY <1>7, BegunIsCall DEF RemovePlaylist
  <2>2. {call[c].index} \subseteq Nat
    BY <1>n, <2>1, CallsAssumption DEF Indices
  <2>3. /\ Answered(c)
        /\ RemoveMarked({call[c].index}) \/ UNCHANGED <<playlists, active>>
    BY <1>7 DEF RemovePlaylist, Answer, Answered
  <2> QED
    BY <1>w, <2>2, <2>3, RemoveMarkedProperties
<1>8. ASSUME RemovePlaylistSwitch(c) PROVE Answered(c) /\ WellFormed(playlists', active')
  <2>1. call[c] \in Calls /\ call[c].method = "remove_playlist_switch"
    BY <1>8, BegunIsCall DEF RemovePlaylistSwitch
  <2> DEFINE p == call[c].index
  <2>2. p \in Nat /\ {p} \subseteq Nat
    BY <1>n, <2>1, CallsAssumption DEF Indices
  <2>3. /\ Answered(c)
        /\ \/ RemoveMarked({p})
           \/ /\ p < Count
              /\ playlists' = Unmarked(playlists, {p})
              /\ active' \in 0..Count - 2
           \/ UNCHANGED <<playlists, active>>
    BY <1>8 DEF RemovePlaylistSwitch, Answer, Answered
  <2> HIDE DEF p
  <2>4. CASE RemoveMarked({p})
    BY <1>w, <2>2, <2>3, <2>4, RemoveMarkedProperties
  <2>5. CASE /\ p < Count
             /\ playlists' = Unmarked(playlists, {p})
             /\ active' \in 0..Count - 2
    <3>1. playlists' \in Seq(Fits) /\ Len(playlists') = Count - 1
      BY <1>w, <2>2, <2>5, OneLess
    <3> QED
      BY <1>n, <2>3, <2>5, <3>1 DEF WellFormed
  <2>6. CASE UNCHANGED <<playlists, active>>
    BY <1>w, <2>3, <2>6
  <2> QED
    BY <2>3, <2>4, <2>5, <2>6
<1>9. ASSUME RemovePlaylists(c) PROVE Answered(c) /\ WellFormed(playlists', active')
  <2>1. /\ Answered(c)
        /\ RemoveMarked(ToSet(call[c].mask) \cap 0..MaxPlaylists)
    BY <1>9 DEF RemovePlaylists, Answer, Answered
  <2>2. ToSet(call[c].mask) \cap 0..MaxPlaylists \subseteq Nat
    BY <1>n
  <2> QED
    BY <1>w, <2>1, <2>2, RemoveMarkedProperties
<1>10. ASSUME Reorder(c) PROVE Answered(c) /\ WellFormed(playlists', active')
  <2>1. call[c] \in Calls /\ call[c].method = "reorder"
    BY <1>10, BegunIsCall DEF Reorder
  <2> DEFINE order == call[c].order
  <2>2. order \in Orders
    BY <2>1, CallsAssumption
  <2>3. /\ Answered(c)
        /\ \/ /\ Len(order) = Count
              /\ playlists' = Reordered(playlists, order)
              /\ active' = IF active = Infinite THEN Infinite
                           ELSE CHOOSE p \in 0..Count - 1 : order[p + 1] = active
           \/ UNCHANGED <<playlists, active>>
    BY <1>10 DEF Reorder, Answer, Answered
  <2> HIDE DEF order
  <2>4. CASE /\ Len(order) = Count
             /\ playlists' = Reordered(playlists, order)
             /\ active' = IF active = Infinite THEN Infinite
                          ELSE CHOOSE p \in 0..Count - 1 : order[p + 1] = active
    <3>1. playlists \in Seq(Fits) /\ active \in (0..Count - 1) \cup {Infinite}
      BY <1>w, <1>n DEF WellFormed
    <3>2. playlists' \in Seq(Fits) /\ Len(playlists') = Count
      BY <1>n, <2>2, <2>4, <3>1, ReorderedProperties
    <3>3. ASSUME active # Infinite PROVE active' \in 0..Count - 1
      <4>1. PICK k \in 1..Len(order) : order[k] = active
        BY <2>2, <2>4, <3>1, <3>3 DEF Orders
      <4>2. k - 1 \in 0..Count - 1 /\ k - 1 + 1 = k
        BY <1>n, <2>4
      <4>3. \E p \in 0..Count - 1 : order[p + 1] = active
        BY <4>1, <4>2
      <4> QED
        BY <2>4, <3>3, <4>3
    <3> QED
      BY <1>n, <2>3, <2>4, <3>2, <3>3 DEF WellFormed
  <2>5. CASE UNCHANGED <<playlists, active>>
    BY <1>w, <2>3, <2>5
  <2> QED
    BY <2>3, <2>4, <2>5
<1>11. ASSUME Rename(c) PROVE Answered(c) /\ WellFormed(playlists', active')
  <2>1. call[c] \in Calls /\ call[c].method = "playlist_rename"
    BY <1>11, BegunIsCall DEF Rename
  <2> DEFINE p == Resolve(call[c].at)
             name == Given(call[c].name, call[c].length)
             new == [playlists[p + 1] EXCEPT !.name = name]
  <2>2. call[c].at \in Indices \cup {ActivePlaylist} /\ name \in Seq(Characters)
    <3>1. /\ call[c].at \in Indices \cup {ActivePlaylist}
          /\ call[c].name \in Seq(Characters) /\ call[c].length \in Indices
      BY <2>1, CallsAssumption
    <3> QED
      BY <3>1, GivenProperties
  <2>3. p \in Nat
    BY <1>w, <2>2, ResolveType
  <2>4. /\ playlists' = IF p < Count THEN [playlists EXCEPT ![p + 1].name = name]
                        ELSE playlists
        /\ Answered(c) /\ UNCHANGED active
    BY <1>11 DEF Rename, Answer, Answered
  <2> HIDE DEF p, name
  <2>5. CASE p < Count
    <3>1. p + 1 \in 1..Len(playlists) /\ playlists[p + 1] \in Fits
      BY <1>w, <2>3, <2>5, ItemsType
    <3>2. new \in Fits
      BY <2>2, <3>1 DEF Fits
    <3>3. playlists' = [playlists EXCEPT ![p + 1] = new]
      BY <2>4, <2>5
    <3> HIDE DEF new
    <3>4. playlists' \in Seq(Fits) /\ Len(playlists') = Len(playlists)
      BY <1>w, <3>1, <3>2, <3>3, ExceptSeq DEF WellFormed
    <3> QED
      BY <1>w, <2>4, <3>4 DEF WellFormed
  <2>6. CASE ~(p < Count)
    BY <1>w, <2>4, <2>6
  <2> QED
    BY <2>5, <2>6
<1> QED
  BY <1>1, <1>2, <1>3, <1>4, <1>5, <1>6, <1>7, <1>8, <1>9, <1>10, <1>11 DEF Manage

-----------------------------------------------------------------------------
LEMMA InitPlaylistsOK == Init => PlaylistsOK
<1> SUFFICES ASSUME Init PROVE PlaylistsOK
  OBVIOUS
<1>1. PICK n \in Names : playlists = <<[name |-> n, items |-> <<>>]>>
  BY DEF Init
<1>2. [name |-> n, items |-> <<>>] \in Fits
  BY PlaylistsAssumption, EmptySeq DEF Fits
<1>3. playlists \in Seq(Fits) /\ Len(playlists) = 1
  BY <1>1, <1>2
<1> QED
  BY <1>3, PlaylistsAreWellFormed, PlaylistsAssumption DEF Init, WellFormed

LEMMA NextPlaylistsOK == PlaylistsOK /\ [Next]_vars => PlaylistsOK'
<1> SUFFICES ASSUME PlaylistsOK, [Next]_vars PROVE PlaylistsOK'
  OBVIOUS
<1>w. WellFormed(playlists, active) /\ call \in [Clients -> Calls \cup {None}]
  BY PlaylistsAreWellFormed
<1>1. ASSUME NEW c \in Clients, NEW r \in Calls, Invoke(c, r) PROVE PlaylistsOK'
  <2>1. /\ UNCHANGED <<playlists, active>>
        /\ call' \in [Clients -> Calls \cup {None}]
    BY <1>1, <1>w DEF Invoke
  <2> QED
    BY <1>w, <2>1, PlaylistsAreWellFormed
<1>2. ASSUME NEW c \in Clients, Manage(c) PROVE PlaylistsOK'
  BY <1>2, ManageProperties, AnsweredType, PlaylistsAreWellFormed
<1>3. ASSUME NEW c \in Clients, Edit(c) PROVE PlaylistsOK'
  BY <1>3, EditProperties, AnsweredType, PlaylistsAreWellFormed DEF EditsOnly
<1>4. ASSUME NEW c \in Clients, Look(c) PROVE PlaylistsOK'
  BY <1>4, <1>w, LookProperties, AnsweredType, PlaylistsAreWellFormed
<1>5. CASE UNCHANGED vars
  BY <1>5, <1>w, PlaylistsAreWellFormed DEF vars
<1> QED
  BY <1>1, <1>2, <1>3, <1>4, <1>5 DEF Next

LEMMA PlaylistsStayWellFormed == Spec => []PlaylistsOK
<1>1. Init => PlaylistsOK
  BY InitPlaylistsOK
<1>2. PlaylistsOK /\ [Next]_vars => PlaylistsOK'
  BY NextPlaylistsOK
<1> QED
  BY <1>1, <1>2, PTL DEF Spec

-----------------------------------------------------------------------------
\* A client has its answer in the step that carries out its call, and in no
\* step of another client.
LEMMA ReturnIsStep ==
  ASSUME PlaylistsOK, [Next]_vars, NEW c \in Clients, NEW m, Returns(c, m)
  PROVE  Manage(c) \/ Edit(c) \/ Look(c)
<1>1. /\ call \in [Clients -> Calls \cup {None}]
      /\ call[c] # None /\ call'[c] = None
  BY DEF PlaylistsOK, Returns
<1>2. ASSUME NEW d \in Clients, Answered(d) PROVE d = c
  BY <1>1, <1>2 DEF Answered
<1>3. ASSUME NEW d \in Clients, NEW r \in Calls, Invoke(d, r) PROVE FALSE
  <2>1. None \notin Calls
    BY PlaylistsAssumption
  <2> QED
    BY <1>1, <1>3, <2>1 DEF Invoke
<1>4. ASSUME NEW d \in Clients, Manage(d) \/ Edit(d) \/ Look(d) PROVE d = c
  BY <1>2, <1>4, ManageProperties, EditProperties, LookProperties
<1>5. ~UNCHANGED vars
  BY <1>1 DEF vars
<1> QED
  BY <1>3, <1>4, <1>5 DEF Next

LEMMA ManageMethod ==
  ASSUME NEW c, Manage(c)
  PROVE  call[c].method \notin ItemMethods
BY DEF Manage, ItemMethods, Begun, GetActivePlaylist, SetActivePlaylist, CreatePlaylist,
       CreatePlaylistAutoname, GetPlaylistCount, RemovePlaylistSwitch, Rename, GetName,
       FindPlaylist, FindOrCreatePlaylist, RemovePlaylist, RemovePlaylists, Reorder,
       LoadPlaylist

LEMMA StepKeepsOthers ==
  ASSUME PlaylistsOK, [Next]_vars, NEW c \in Clients, NEW m \in ItemMethods,
         Returns(c, m)
  PROVE  /\ Len(playlists') = Count
         /\ \A k \in 1..Count : k - 1 # Meant(c) => playlists'[k] = playlists[k]
<1>1. ~Manage(c)
  BY ManageMethod DEF Returns
<1>2. CASE Edit(c)
  BY <1>2, EditProperties DEF EditsOnly, Meant, Resolve
<1>3. CASE Look(c)
  BY <1>3, LookProperties DEF Count
<1> QED
  BY <1>1, <1>2, <1>3, ReturnIsStep

\* A call about items leaves every playlist as it was but the one it is
\* about, which for activeplaylist_X is the one active at that instant.
THEOREM OthersAreKept == Spec => OtherPlaylistsKept
<1> DEFINE Keeps == \A c \in Clients, m \in ItemMethods : Returns(c, m) =>
                      /\ Len(playlists') = Count
                      /\ \A k \in 1..Count : k - 1 # Meant(c) => playlists'[k] = playlists[k]
<1>1. PlaylistsOK /\ [Next]_vars => [Keeps]_vars
  BY StepKeepsOthers
<1>2. OtherPlaylistsKept <=> [][Keeps]_vars
  BY DEF OtherPlaylistsKept
<1> HIDE DEF Keeps
<1> QED
  BY <1>1, <1>2, PlaylistsStayWellFormed, PTL DEF Spec

-----------------------------------------------------------------------------
\* Which action answers a call of a method

LEMMA EditMethod ==
  ASSUME NEW c, Edit(c)
  PROVE  /\ call[c].method \in ItemMethods
         /\ call[c].method = "playlist_insert_items" => InsertItems(c)
         /\ call[c].method = "playlist_insert_items_filter" => InsertItemsFilter(c)
         /\ call[c].method = "playlist_remove_items" => RemoveItems(c)
         /\ call[c].method = "playlist_replace_item" => ReplaceItem(c)
         /\ call[c].method = "playlist_reorder_items" => ReorderItems(c)
         /\ call[c].method \notin {"playlist_get_all_items", "playlist_get_items",
                                  "playlist_get_item_handle",
                                  "playlist_get_focus_item_handle"}
<1>1. /\ InsertItems(c) => call[c].method = "playlist_insert_items"
      /\ InsertItemsFilter(c) => call[c].method = "playlist_insert_items_filter"
      /\ RemoveItems(c) => call[c].method = "playlist_remove_items"
      /\ ReplaceItem(c) => call[c].method = "playlist_replace_item"
      /\ ReorderItems(c) => call[c].method = "playlist_reorder_items"
      /\ Clear(c) => call[c].method = "playlist_clear"
  BY DEF Begun, InsertItems, InsertItemsFilter, RemoveItems, ReplaceItem, ReorderItems, Clear
<1> QED
  BY <1>1 DEF Edit, ItemMethods

LEMMA LookMethod ==
  ASSUME NEW c, Look(c)
  PROVE  /\ call[c].method \in {"playlist_get_item_count", "playlist_get_all_items",
                               "playlist_get_items", "playlist_get_item_handle",
                               "playlist_get_focus_item_handle"}
         /\ call[c].method = "playlist_get_all_items" => GetAllItems(c)
         /\ call[c].method = "playlist_get_items" => GetItems(c)
         /\ call[c].method = "playlist_get_item_handle" => GetItemHandle(c)
         /\ call[c].method = "playlist_get_focus_item_handle" => GetFocusItemHandle(c)
<1>1. /\ GetItemCount(c) => call[c].method = "playlist_get_item_count"
      /\ GetAllItems(c) => call[c].method = "playlist_get_all_items"
      /\ GetItems(c) => call[c].method = "playlist_get_items"
      /\ GetItemHandle(c) => call[c].method = "playlist_get_item_handle"
      /\ GetFocusItemHandle(c) => call[c].method = "playlist_get_focus_item_handle"
  BY DEF Begun, GetItemCount, GetAllItems, GetItems, GetItemHandle, GetFocusItemHandle
<1> QED
  BY <1>1 DEF Look

LEMMA ManageMethods ==
  ASSUME NEW c, Manage(c)
  PROVE  /\ call[c].method = "create_playlist" => CreatePlaylist(c)
         /\ call[c].method = "find_playlist" => FindPlaylist(c)
         /\ call[c].method = "find_or_create_playlist" => FindOrCreatePlaylist(c)
         /\ call[c].method = "remove_playlist" => RemovePlaylist(c)
         /\ call[c].method = "remove_playlist_switch" => RemovePlaylistSwitch(c)
         /\ call[c].method = "reorder" => Reorder(c)
         /\ call[c].method = "load_playlist" => LoadPlaylist(c)
         /\ call[c].method = "playlist_rename" => Rename(c)
         /\ call[c].method = "playlist_get_name" => GetName(c)
<1>1. /\ GetActivePlaylist(c) => call[c].method = "get_active_playlist"
      /\ SetActivePlaylist(c) => call[c].method = "set_active_playlist"
      /\ CreatePlaylist(c) => call[c].method = "create_playlist"
      /\ CreatePlaylistAutoname(c) => call[c].method = "create_playlist_autoname"
      /\ GetPlaylistCount(c) => call[c].method = "get_playlist_count"
      /\ RemovePlaylistSwitch(c) => call[c].method = "remove_playlist_switch"
      /\ Rename(c) => call[c].method = "playlist_rename"
      /\ GetName(c) => call[c].method = "playlist_get_name"
      /\ FindPlaylist(c) => call[c].method = "find_playlist"
      /\ FindOrCreatePlaylist(c) => call[c].method = "find_or_create_playlist"
      /\ RemovePlaylist(c) => call[c].method = "remove_playlist"
      /\ RemovePlaylists(c) => call[c].method = "remove_playlists"
      /\ Reorder(c) => call[c].method = "reorder"
      /\ LoadPlaylist(c) => call[c].method = "load_playlist"
  BY DEF Begun, GetActivePlaylist, SetActivePlaylist, CreatePlaylist,
         CreatePlaylistAutoname, GetPlaylistCount, RemovePlaylistSwitch, Rename, GetName,
         FindPlaylist, FindOrCreatePlaylist, RemovePlaylist, RemovePlaylists, Reorder,
         LoadPlaylist
<1> QED
  BY <1>1 DEF Manage

\* The action that answers a call which may report a failure
LEMMA AnsweringAction ==
  ASSUME PlaylistsOK, [Next]_vars, NEW c \in Clients, NEW m, Returns(c, m)
  PROVE  /\ call[c] \in Calls /\ call[c].method = m
         /\ m = "create_playlist" => CreatePlaylist(c)
         /\ m = "find_playlist" => FindPlaylist(c)
         /\ m = "find_or_create_playlist" => FindOrCreatePlaylist(c)
         /\ m = "remove_playlist" => RemovePlaylist(c)
         /\ m = "remove_playlist_switch" => RemovePlaylistSwitch(c)
         /\ m = "reorder" => Reorder(c)
         /\ m = "load_playlist" => LoadPlaylist(c)
         /\ m = "playlist_rename" => Rename(c)
         /\ m = "playlist_get_name" => GetName(c)
         /\ m = "playlist_insert_items" => InsertItems(c)
         /\ m = "playlist_insert_items_filter" => InsertItemsFilter(c)
         /\ m = "playlist_remove_items" => RemoveItems(c)
         /\ m = "playlist_replace_item" => ReplaceItem(c)
         /\ m = "playlist_reorder_items" => ReorderItems(c)
         /\ m = "playlist_get_all_items" => GetAllItems(c)
         /\ m = "playlist_get_items" => GetItems(c)
         /\ m = "playlist_get_item_handle" => GetItemHandle(c)
         /\ m = "playlist_get_focus_item_handle" => GetFocusItemHandle(c)
<1>1. Manage(c) \/ Edit(c) \/ Look(c)
  BY ReturnIsStep
<1>2. call[c].method = m /\ call[c] # None
  BY DEF Returns
<1>c. call[c] \in Calls
  BY <1>2 DEF PlaylistsOK
<1>3. CASE Manage(c)
  BY <1>2, <1>3, <1>c, ManageMethod, ManageMethods DEF ItemMethods
<1>4. CASE Edit(c)
  BY <1>2, <1>4, <1>c, EditMethod DEF ItemMethods
<1>5. CASE Look(c)
  BY <1>2, <1>5, <1>c, LookMethod
<1> QED
  BY <1>1, <1>3, <1>4, <1>5

-----------------------------------------------------------------------------
\* A call that reports its failure has changed nothing.

LEMMA FailedManaging ==
  ASSUME PlaylistsOK, [Next]_vars, NEW c \in Clients,
         NEW m \in {"remove_playlist", "remove_playlist_switch", "reorder",
                    "load_playlist", "playlist_rename"},
         Returns(c, m), ~result'
  PROVE  UNCHANGED <<playlists, active>>
<1>w. WellFormed(playlists, active) /\ Count \in Nat
  BY PlaylistsAreWellFormed, CountIsNumber
<1>c. call[c] \in Calls /\ call[c].method = m
  BY AnsweringAction
<1>1. CASE m = "remove_playlist"
  <2>1. call[c].index \in Nat
    BY <1>1, <1>c, CallsAssumption, PlaylistsAssumption DEF Indices
  <2>2. RemovePlaylist(c)
    BY <1>1, AnsweringAction
  <2>3. ~(call[c].index < Count)
    BY <2>2 DEF RemovePlaylist, Answer
  <2> QED
    BY <2>2, <2>3 DEF RemovePlaylist
<1>2. CASE m = "remove_playlist_switch"
  <2>1. RemovePlaylistSwitch(c)
    BY <1>2, AnsweringAction
  <2>2. ~(call[c].index < Count)
    BY <2>1 DEF RemovePlaylistSwitch, Answer
  <2> QED
    BY <2>1, <2>2 DEF RemovePlaylistSwitch
<1>3. CASE m = "reorder"
  <2>1. Reorder(c)
    BY <1>3, AnsweringAction
  <2>2. Len(call[c].order) # Count
    BY <2>1 DEF Reorder, Answer
  <2> QED
    BY <2>1, <2>2 DEF Reorder
<1>4. CASE m = "load_playlist"
  <2>1. LoadPlaylist(c)
    BY <1>4, AnsweringAction
  <2> QED
    BY <2>1 DEF LoadPlaylist, Answer
<1>5. CASE m = "playlist_rename"
  <2>1. Rename(c)
    BY <1>5, AnsweringAction
  <2>2. ~(Resolve(call[c].at) < Count)
    BY <2>1 DEF Rename, Answer
  <2> QED
    BY <2>1, <2>2 DEF Rename
<1> QED
  BY <1>1, <1>2, <1>3, <1>4, <1>5

LEMMA FailedEditing ==
  ASSUME PlaylistsOK, [Next]_vars, NEW c \in Clients,
         NEW m \in {"playlist_insert_items_filter", "playlist_remove_items",
                    "playlist_replace_item", "playlist_reorder_items"},
         Returns(c, m), ~result'
  PROVE  UNCHANGED <<playlists, active>>
<1> DEFINE p == Resolve(call[c].at)
<1>w. WellFormed(playlists, active) /\ Count \in Nat /\ MaxItems \in Nat
  BY PlaylistsAreWellFormed, CountIsNumber
<1>c. call[c] \in Calls /\ call[c].method = m
  BY AnsweringAction
<1>p. p \in Nat
  <2>1. call[c].at \in Indices \cup {ActivePlaylist}
    BY <1>c, CallsAssumption DEF ItemMethods
  <2> QED
    BY <1>w, <2>1, ResolveType
<1>i. Items(p) \in Seq(Tracks) /\ Len(Items(p)) \in Nat /\ Len(Items(p)) <= MaxItems
  <2> HIDE DEF p
  <2> QED
    BY <1>w, <1>p, ItemsType
<1>s. ASSUME SetItems(p, Items(p)) PROVE playlists' = playlists
  <2> HIDE DEF p
  <2> QED
    BY <1>w, <1>p, <1>i, <1>s, SetItemsProperties
<1>1. CASE m = "playlist_insert_items_filter"
  <2>1. InsertItemsFilter(c)
    BY <1>1, AnsweringAction
  <2> QED
    BY <2>1 DEF InsertItemsFilter, Answer
<1>2. CASE m = "playlist_remove_items"
  <2>1. RemoveItems(c)
    BY <1>2, AnsweringAction
  <2>2. /\ SetItems(p, Unmarked(Items(p), ToSet(call[c].mask)))
        /\ UNCHANGED active
    BY <2>1 DEF RemoveItems
  <2>3. ~(p < Count)
    BY <2>1 DEF RemoveItems, Answer
  <2> QED
    BY <2>2, <2>3 DEF SetItems
<1>3. CASE m = "playlist_replace_item"
  <2>1. ReplaceItem(c)
    BY <1>3, AnsweringAction
  <2>2. ~(call[c].origin < Len(Items(p)) /\ call[c].replacee < Len(Items(p)))
    BY <2>1 DEF ReplaceItem, Answer
  <2>3. SetItems(p, Items(p)) /\ UNCHANGED active
    BY <2>1, <2>2 DEF ReplaceItem
  <2> QED
    BY <2>3, <1>s
<1>4. CASE m = "playlist_reorder_items"
  <2>1. ReorderItems(c)
    BY <1>4, AnsweringAction
  <2>2. ~(p < Count /\ Len(call[c].order) = Len(Items(p)))
    BY <2>1 DEF ReorderItems, Answer
  <2>3. SetItems(p, Items(p)) /\ UNCHANGED active
    BY <2>1, <2>2 DEF ReorderItems
  <2> QED
    BY <2>3, <1>s
<1> QED
  BY <1>1, <1>2, <1>3, <1>4

\* The index of what was put in is never Infinite: that answer is a refusal.
LEMMA RefusedPutting ==
  ASSUME PlaylistsOK, [Next]_vars, NEW c \in Clients,
         NEW m \in {"create_playlist", "playlist_insert_items"},
         Returns(c, m), result' = Infinite
  PROVE  UNCHANGED <<playlists, active>>
<1>w. WellFormed(playlists, active) /\ Infinite \in Nat
  BY PlaylistsAreWellFormed, CountIsNumber
<1>c. call[c] \in Calls /\ call[c].method = m
  BY AnsweringAction
<1>1. CASE m = "create_playlist"
  <2>1. CreatePlaylist(c)
    BY <1>1, AnsweringAction
  <2>2. call[c].index \in Indices
    BY <1>1, <1>c, CallsAssumption
  <2>3. Place(call[c].index) # Infinite
    <3>1. Place(call[c].index) \in 0..Count /\ Place(call[c].index) < Infinite
      BY <1>w, <2>2, PlaceProperties
    <3>2. Count \in Nat
      BY <1>w, CountIsNumber
    <3> QED
      BY <1>w, <3>1, <3>2
  <2> QED
    BY <2>1, <2>3 DEF CreatePlaylist, Answer
<1>2. CASE m = "playlist_insert_items"
  <2> DEFINE p == Resolve(call[c].at)
             at == Smaller(call[c].base, Len(Items(p)))
  <2>1. InsertItems(c)
    BY <1>2, AnsweringAction
  <2>2. /\ call[c].at \in Indices \cup {ActivePlaylist} /\ call[c].base \in Indices
    BY <1>2, <1>c, CallsAssumption DEF ItemMethods
  <2>3. p \in Nat
    BY <1>w, <2>2, ResolveType
  <2>4. at # Infinite
    <3> HIDE DEF p
    <3>1. Len(Items(p)) \in Nat /\ Len(Items(p)) <= MaxItems
      BY <1>w, <2>3, ItemsType
    <3>2. MaxItems \in Nat /\ MaxItems < Infinite
      BY <1>w, CountIsNumber
    <3> QED
      BY <1>w, <2>2, <3>1, <3>2 DEF Smaller, Indices
  <2> QED
    BY <2>1, <2>4 DEF InsertItems, Answer
<1> QED
  BY <1>1, <1>2

\* No call leaves half of its work behind: when a client is told that its
\* call failed, the playlists and the active index are those from before.
THEOREM FailuresLeaveNothing == Spec => FailureChangesNothing
<1> DEFINE Fails ==
      \A c \in Clients :
        \/ \E m \in {"remove_playlist", "remove_playlist_switch", "reorder",
                     "load_playlist", "playlist_rename", "playlist_insert_items_filter",
                     "playlist_remove_items", "playlist_replace_item",
                     "playlist_reorder_items"} : Returns(c, m) /\ ~result'
        \/ \E m \in {"create_playlist", "playlist_insert_items"} :
             Returns(c, m) /\ result' = Infinite
        => UNCHANGED <<playlists, active>>
<1>1. PlaylistsOK /\ [Next]_vars => [Fails]_vars
  BY FailedManaging, FailedEditing, RefusedPutting
<1>2. FailureChangesNothing <=> [][Fails]_vars
  BY DEF FailureChangesNothing
<1> HIDE DEF Fails
<1> QED
  BY <1>1, <1>2, PlaylistsStayWellFormed, PTL DEF Spec

-----------------------------------------------------------------------------
\* What a removal of items leaves, and what an answer about items holds

LEMMA MeantType ==
  ASSUME PlaylistsOK, NEW c \in Clients, call[c] \in Calls,
         call[c].method \in ItemMethods
  PROVE  Meant(c) \in Nat /\ Meant(c) = Resolve(call[c].at)
<1>1. call[c].at \in Indices \cup {ActivePlaylist}
  BY CallsAssumption
<1>2. WellFormed(playlists, active)
  BY PlaylistsAreWellFormed
<1>3. Meant(c) = Resolve(call[c].at)
  BY DEF Meant, Resolve
<1> QED
  BY <1>1, <1>2, <1>3, ResolveType

LEMMA RemovalProperties ==
  ASSUME PlaylistsOK, [Next]_vars, NEW c \in Clients,
         Returns(c, "playlist_remove_items"), Meant(c) < Count
  PROVE  LET old  == playlists[Meant(c) + 1].items
             new  == playlists'[Meant(c) + 1].items
             left == {k \in DOMAIN old :
                        \A j \in DOMAIN call[c].mask : call[c].mask[j] # k - 1}
         IN  \E f \in [DOMAIN new -> left] :
               /\ \A n \in DOMAIN new : new[n] = old[f[n]]
               /\ \A m, n \in DOMAIN new : m < n => f[m] < f[n]
               /\ \A k \in left : \E n \in DOMAIN new : f[n] = k
<1>1. /\ call[c] \in Calls /\ call[c].method = "playlist_remove_items"
      /\ RemoveItems(c)
  BY AnsweringAction
<1>2. Meant(c) \in Nat /\ Meant(c) = Resolve(call[c].at)
  BY <1>1, MeantType DEF ItemMethods
<1>3. PICK p \in Nat : p = Meant(c)
  BY <1>2
<1>4. PICK table : table = ToSet(call[c].mask)
  OBVIOUS
<1>5. PICK items : items = Items(p)
  OBVIOUS
<1>6. SetItems(p, Unmarked(items, table))
  BY <1>1, <1>2, <1>3, <1>4, <1>5 DEF RemoveItems
<1>7. WellFormed(playlists, active)
  BY PlaylistsAreWellFormed
<1>8. /\ items \in Seq(Tracks) /\ Len(items) \in Nat /\ Len(items) <= MaxItems
      /\ items = playlists[p + 1].items
  BY <1>3, <1>5, <1>7, ItemsType
<1>9. PICK new, left : /\ new = Unmarked(items, table)
                       /\ left = Left(items, table)
  OBVIOUS
<1>10. /\ new \in Seq(Tracks) /\ Len(new) \in 0..Len(items)
       /\ Picks(new, items, left)
  BY <1>8, <1>9, UnmarkedProperties
<1>11. playlists'[p + 1].items = new
  <2>1. Len(new) <= MaxItems
    BY <1>8, <1>10, PlaylistsAssumption
  <2> QED
    BY <1>3, <1>6, <1>7, <1>9, <1>10, <2>1, SetItemsProperties
<1>12. DOMAIN new = 1..Len(new) /\ DOMAIN items = 1..Len(items)
  BY <1>8, <1>10, LenProperties
<1>13. left = {k \in DOMAIN items :
                 \A j \in DOMAIN call[c].mask : call[c].mask[j] # k - 1}
  BY <1>4, <1>9, <1>12 DEF ToSet, Left
<1>14. \E f \in [DOMAIN new -> left] :
         /\ \A n \in DOMAIN new : new[n] = items[f[n]]
         /\ \A m, n \in DOMAIN new : m < n => f[m] < f[n]
         /\ \A k \in left : \E n \in DOMAIN new : f[n] = k
  BY <1>10, <1>12, SMTT(30) DEF Picks
<1>15. playlists[Meant(c) + 1].items = items /\ playlists'[Meant(c) + 1].items = new
  BY <1>3, <1>8, <1>11, Zenon
<1>16. \E f \in [DOMAIN new -> {k \in DOMAIN items :
                   \A j \in DOMAIN call[c].mask : call[c].mask[j] # k - 1}] :
         /\ \A n \in DOMAIN new : new[n] = items[f[n]]
         /\ \A m, n \in DOMAIN new : m < n => f[m] < f[n]
         /\ \A k \in {k \in DOMAIN items :
                        \A j \in DOMAIN call[c].mask : call[c].mask[j] # k - 1} :
              \E n \in DOMAIN new : f[n] = k
  BY <1>13, <1>14, Zenon
<1> QED
  BY <1>15, <1>16, ZenonT(30)

\* playlist_remove_items removes exactly the items whose indices it was
\* given, as they were counted before any was gone.
THEOREM RemovalsAreExact == Spec => OnlyMarkedGo
<1> DEFINE Exact ==
      \A c \in Clients : Returns(c, "playlist_remove_items") /\ Meant(c) < Count =>
        LET old  == playlists[Meant(c) + 1].items
            new  == playlists'[Meant(c) + 1].items
            left == {k \in DOMAIN old :
                       \A j \in DOMAIN call[c].mask : call[c].mask[j] # k - 1}
        IN  \E f \in [DOMAIN new -> left] :
              /\ \A n \in DOMAIN new : new[n] = old[f[n]]
              /\ \A m, n \in DOMAIN new : m < n => f[m] < f[n]
              /\ \A k \in left : \E n \in DOMAIN new : f[n] = k
<1>1. PlaylistsOK /\ [Next]_vars => [Exact]_vars
  BY RemovalProperties
<1>2. OnlyMarkedGo <=> [][Exact]_vars
  BY DEF OnlyMarkedGo
<1> HIDE DEF Exact
<1> QED
  BY <1>1, <1>2, PlaylistsStayWellFormed, PTL DEF Spec

-----------------------------------------------------------------------------
\* Names and indices

LEMMA NamedIndex ==
  ASSUME PlaylistsOK, [Next]_vars, NEW c \in Clients,
         NEW m \in {"create_playlist", "find_playlist", "find_or_create_playlist"},
         Returns(c, m), result' # Infinite \/ Len(playlists') # Count
  PROVE  /\ result' < Len(playlists')
         /\ IsNamed(playlists'[result' + 1].name, call[c].name, call[c].length)
         /\ m = "create_playlist" => RemoveAt(playlists', result' + 1) = playlists
<1>w. WellFormed(playlists, active)
  BY PlaylistsAreWellFormed
<1>n. /\ Count = Len(playlists) /\ Count \in Nat /\ Count < Infinite
      /\ Infinite \in Nat /\ MaxItems \in Nat
  BY <1>w, CountIsNumber
<1>c. call[c] \in Calls /\ call[c].method = m
  BY AnsweringAction
<1>d. /\ call[c].name \in Seq(Characters) /\ call[c].length \in Indices
  BY <1>c, CallsAssumption
<1> DEFINE name == Given(call[c].name, call[c].length)
<1>g. name \in Seq(Characters) /\ IsNamed(name, call[c].name, call[c].length)
  BY <1>d, GivenProperties
<1>1. CASE m = "create_playlist"
  <2>1. CreatePlaylist(c)
    BY <1>1, AnsweringAction
  <2>2. /\ call[c].index \in Indices
        /\ call[c].files \in Seq(Tracks) /\ Len(call[c].files) <= MaxItems
    BY <1>1, <1>c, CallsAssumption
  <2>3. CASE /\ Create(name, call[c].index, call[c].files)
             /\ Answer(c, Place(call[c].index))
    <3>1. /\ Len(playlists') = Count + 1
          /\ playlists'[Place(call[c].index) + 1].name = name
          /\ RemoveAt(playlists', Place(call[c].index) + 1) = playlists
      BY <1>w, <1>g, <2>2, <2>3, CreateProperties
    <3>2. Place(call[c].index) \in 0..Count
      BY <1>w, <2>2, PlaceProperties
    <3>3. result' = Place(call[c].index)
      BY <2>3 DEF Answer
    <3> QED
      BY <1>g, <1>n, <3>1, <3>2, <3>3
  <2>4. CASE Answer(c, Infinite) /\ UNCHANGED <<playlists, active>>
    BY <1>n, <2>4 DEF Answer
  <2> QED
    BY <2>1, <2>3, <2>4 DEF CreatePlaylist
<1>2. CASE m = "find_playlist"
  <2>1. FindPlaylist(c)
    BY <1>2, AnsweringAction
  <2>2. result' = Find(name) /\ playlists' = playlists
    BY <2>1 DEF FindPlaylist, Answer
  <2>3. Find(name) # Infinite
    BY <1>n, <2>2
  <2>4. /\ Find(name) < Count
        /\ playlists[Find(name) + 1].name = name
    BY <1>w, <2>3, FindProperties
  <2> QED
    BY <1>2, <1>g, <1>n, <2>2, <2>4
<1>3. CASE m = "find_or_create_playlist"
  <2>1. FindOrCreatePlaylist(c)
    BY <1>3, AnsweringAction
  <2>3. CASE Create(name, Infinite, <<>>) /\ Answer(c, Count)
    <3>1. Infinite \in Indices /\ <<>> \in Seq(Tracks) /\ Len(<<>>) <= MaxItems
      BY <1>n, EmptySeq DEF Indices
    <3>2. /\ Len(playlists') = Count + 1
          /\ playlists'[Place(Infinite) + 1].name = name
      BY <1>w, <1>g, <2>3, <3>1, CreateProperties
    <3>3. Place(Infinite) = Count
      BY <1>n DEF Place, Smaller
    <3>4. result' = Count
      BY <2>3 DEF Answer
    <3> QED
      BY <1>3, <1>g, <1>n, <3>2, <3>3, <3>4
  <2>4. CASE Answer(c, Find(name)) /\ UNCHANGED <<playlists, active>>
    <3>1. result' = Find(name) /\ playlists' = playlists
      BY <2>4 DEF Answer
    <3>2. Find(name) # Infinite
      BY <1>n, <3>1
    <3>3. /\ Find(name) < Count
          /\ playlists[Find(name) + 1].name = name
      BY <1>w, <3>2, FindProperties
    <3> QED
      BY <1>3, <1>g, <1>n, <3>1, <3>3
  <2> QED
    BY <2>1, <2>3, <2>4 DEF FindOrCreatePlaylist
<1> QED
  BY <1>1, <1>2, <1>3

LEMMA IndexedName ==
  ASSUME PlaylistsOK, [Next]_vars, NEW c \in Clients, Returns(c, "playlist_get_name")
  PROVE  \/ Meant(c) < Count /\ result' = playlists[Meant(c) + 1].name
         \/ Meant(c) >= Count /\ result' = NoName
<1>w. WellFormed(playlists, active)
  BY PlaylistsAreWellFormed
<1>n. Count \in Nat
  BY <1>w, CountIsNumber
<1>1. /\ call[c] \in Calls /\ call[c].method = "playlist_get_name" /\ GetName(c)
  BY AnsweringAction
<1>2. call[c].at \in Indices \cup {ActivePlaylist}
  BY <1>1, CallsAssumption
<1>3. Meant(c) = Resolve(call[c].at)
  BY DEF Meant, Resolve
<1>4. Meant(c) \in Nat
  BY <1>2, <1>3, <1>w, ResolveType
<1>5. result' = IF Meant(c) < Count THEN playlists[Meant(c) + 1].name ELSE NoName
  BY <1>1, <1>3 DEF GetName, Answer
<1> QED
  BY <1>4, <1>5, <1>n

\* The index a client gets for a name is the index of a playlist of that name,
\* as long as the length it sent, and the other way round.
THEOREM IndicesDenoteNames == Spec => IndexDenotesName
<1> DEFINE Denotes ==
             \A c \in Clients, m \in {"create_playlist", "find_playlist",
                                      "find_or_create_playlist"} :
               Returns(c, m) /\ (result' # Infinite \/ Len(playlists') # Count) =>
                 /\ result' < Len(playlists')
                 /\ LET name == playlists'[result' + 1].name IN
                    /\ IsPrefix(name, call[c].name) /\ Len(name) <= call[c].length
                    /\ name = call[c].name \/ Len(name) = call[c].length
                 /\ m = "create_playlist" => RemoveAt(playlists', result' + 1) = playlists
           Named ==
             \A c \in Clients : Returns(c, "playlist_get_name") =>
               \/ Meant(c) < Count /\ result' = playlists[Meant(c) + 1].name
               \/ Meant(c) >= Count /\ result' = NoName
<1>1. PlaylistsOK /\ [Next]_vars => [Denotes]_vars
  BY NamedIndex DEF IsNamed
<1>2. PlaylistsOK /\ [Next]_vars => [Named]_vars
  BY IndexedName
<1>3. IndexDenotesName <=> [][Denotes]_vars /\ [][Named]_vars
  BY DEF IndexDenotesName
<1> HIDE DEF Denotes, Named
<1> QED
  BY <1>1, <1>2, <1>3, PlaylistsStayWellFormed, PTL DEF Spec

-----------------------------------------------------------------------------
\* The Tracks of an answer

LEMMA EnumProperties ==
  ASSUME WellFormed(playlists, active), NEW p \in Nat, NEW table
  PROVE  /\ EnumItems(p, table) \in Seq([index : Nat, path : Tracks])
         /\ Len(EnumItems(p, table))
              = Cardinality({k \in 1..Len(Items(p)) : k - 1 \in table})
         /\ \A n \in DOMAIN EnumItems(p, table) :
              /\ EnumItems(p, table)[n].index \in table
              /\ EnumItems(p, table)[n].index < Len(Items(p))
              /\ EnumItems(p, table)[n].path
                   = Items(p)[EnumItems(p, table)[n].index + 1]
         /\ \A m, n \in DOMAIN EnumItems(p, table) : m < n =>
              EnumItems(p, table)[m].index < EnumItems(p, table)[n].index
<1>1. PICK items \in Seq(Tracks) : items = Items(p)
  BY ItemsType
<1>2. Len(items) \in Nat /\ DOMAIN items = 1..Len(items)
  BY LenProperties
<1>3. PICK s : s = [k \in DOMAIN items |-> [index |-> k - 1, path |-> items[k]]]
  OBVIOUS
<1>4. /\ s \in Seq([index : Nat, path : Tracks])
      /\ Len(s) = Len(items) /\ DOMAIN s = 1..Len(items)
      /\ \A k \in 1..Len(items) : s[k].index = k - 1 /\ s[k].path = items[k]
  <2>1. ASSUME NEW k \in 1..Len(items)
        PROVE  [index |-> k - 1, path |-> items[k]] \in [index : Nat, path : Tracks]
    <3>1. items[k] \in Tracks
      BY ElementOfSeq
    <3>2. k - 1 \in Nat
      BY <1>2
    <3> QED
      BY <3>1, <3>2
  <2>2. s \in [1..Len(items) -> [index : Nat, path : Tracks]]
    BY <1>2, <1>3, <2>1
  <2>3. s \in Seq([index : Nat, path : Tracks]) /\ Len(s) = Len(items)
    BY <1>2, <2>2, FunctionIsSeq
  <2>4. \A k \in 1..Len(items) : s[k].index = k - 1 /\ s[k].path = items[k]
    BY <1>2, <1>3
  <2> QED
    BY <2>2, <2>3, <2>4
<1>5. PICK answer : answer = EnumItems(p, table)
  OBVIOUS
<1>6. answer = Marked(s, table)
  BY <1>1, <1>3, <1>5 DEF EnumItems
<1>7. PICK kept : kept = {k \in 1..Len(items) : k - 1 \in table}
  OBVIOUS
<1>8. Kept(s, table) = kept
  BY <1>4, <1>7 DEF Kept
<1>9. /\ answer \in Seq([index : Nat, path : Tracks])
      /\ Len(answer) = Cardinality(kept)
      /\ \E f \in [1..Len(answer) -> kept] :
           /\ \A n \in 1..Len(answer) : answer[n] = s[f[n]]
           /\ \A m, n \in 1..Len(answer) : m < n => f[m] < f[n]
  <2>1. /\ Marked(s, table) \in Seq([index : Nat, path : Tracks])
        /\ Len(Marked(s, table)) = Cardinality(Kept(s, table))
        /\ \E f \in [1..Len(Marked(s, table)) -> Kept(s, table)] :
             /\ \A n \in 1..Len(Marked(s, table)) : Marked(s, table)[n] = s[f[n]]
             /\ \A m, n \in 1..Len(Marked(s, table)) : m < n => f[m] < f[n]
    BY <1>4, MarkedProperties, Zenon
  <2> QED
    BY <1>6, <1>8, <2>1, Zenon
<1>10. DOMAIN answer = 1..Len(answer)
  BY <1>9, LenProperties
<1>11. PICK f \in [1..Len(answer) -> kept] :
             /\ \A n \in 1..Len(answer) : answer[n] = s[f[n]]
             /\ \A m, n \in 1..Len(answer) : m < n => f[m] < f[n]
  BY <1>9
<1>12. ASSUME NEW n \in 1..Len(answer)
       PROVE  /\ f[n] \in 1..Len(items) /\ f[n] - 1 \in table
              /\ answer[n].index = f[n] - 1 /\ answer[n].path = items[f[n]]
  <2>1. f[n] \in kept
    BY <1>11
  <2>2. f[n] \in 1..Len(items) /\ f[n] - 1 \in table
    BY <1>7, <2>1
  <2>3. answer[n] = s[f[n]]
    BY <1>11
  <2> QED
    BY <1>4, <2>2, <2>3
<1>13. ASSUME NEW n \in 1..Len(answer)
       PROVE  /\ answer[n].index \in table /\ answer[n].index < Len(items)
              /\ answer[n].path = items[answer[n].index + 1]
  BY <1>2, <1>12
<1>14. ASSUME NEW m \in 1..Len(answer), NEW n \in 1..Len(answer), m < n
       PROVE  answer[m].index < answer[n].index
  <2>1. f[m] < f[n]
    BY <1>11, <1>14
  <2> QED
    BY <1>2, <1>12, <2>1
<1> QED
  BY <1>1, <1>5, <1>7, <1>9, <1>10, <1>13, <1>14

\* One item is asked for: the answer has it, when it is there.
LEMMA OneEnumerated ==
  ASSUME WellFormed(playlists, active), NEW p \in Nat, NEW item \in Nat
  PROVE  IF item < Len(Items(p))
         THEN /\ Len(EnumItems(p, {item})) = 1
              /\ EnumItems(p, {item})[1].index = item
         ELSE EnumItems(p, {item}) = <<>>
<1>1. Len(Items(p)) \in Nat
  BY ItemsType
<1>2. PICK size \in Nat : size = Len(Items(p))
  BY <1>1
<1>3. PICK answer : answer = EnumItems(p, {item})
  OBVIOUS
<1>4. /\ answer \in Seq([index : Nat, path : Tracks])
      /\ Len(answer) = Cardinality({k \in 1..size : k - 1 \in {item}})
      /\ \A n \in DOMAIN answer : answer[n].index \in {item}
  BY <1>2, <1>3, EnumProperties
<1>5. CASE item < size
  <2>1. {k \in 1..size : k - 1 \in {item}} = {item + 1}
    BY <1>5
  <2>2. Len(answer) = 1
    BY <1>4, <2>1, FS_Singleton
  <2>3. 1 \in DOMAIN answer
    BY <1>4, <2>2, LenProperties
  <2> QED
    BY <1>2, <1>3, <1>4, <1>5, <2>2, <2>3
<1>6. CASE ~(item < size)
  <2>1. {k \in 1..size : k - 1 \in {item}} = {}
    BY <1>6
  <2>2. Len(answer) = 0
    BY <1>4, <2>1, FS_EmptySet
  <2>3. answer = <<>>
    BY <1>4, <2>2, EmptySeq
  <2> QED
    BY <1>2, <1>3, <1>6, <2>3
<1> QED
  BY <1>5, <1>6

LEMMA AllEnumerated ==
  ASSUME WellFormed(playlists, active), NEW p \in Nat
  PROVE  Len(EnumItems(p, AllItems)) = Len(Items(p))
<1>1. Len(Items(p)) \in Nat /\ Len(Items(p)) <= MaxItems /\ MaxItems \in Nat
  BY ItemsType, CountIsNumber
<1>2. PICK size \in Nat : size = Len(Items(p))
  BY <1>1
<1>3. {k \in 1..size : k - 1 \in AllItems} = 1..size
  BY <1>1, <1>2 DEF AllItems
<1>4. Cardinality(1..size) = size
  BY FS_Interval
<1> QED
  BY <1>2, <1>3, <1>4, EnumProperties

LEMMA AnswerHoldsTracks ==
  ASSUME PlaylistsOK, [Next]_vars, NEW c \in Clients,
         NEW m \in {"playlist_get_all_items", "playlist_get_items",
                    "playlist_get_item_handle", "playlist_get_focus_item_handle"},
         Returns(c, m)
  PROVE  LET items == Items(Meant(c)) IN
         /\ \A k \in DOMAIN result' :
              /\ result'[k].index < Len(items)
              /\ result'[k].path = items[result'[k].index + 1]
         /\ \A j, k \in DOMAIN result' : j < k => result'[j].index < result'[k].index
         /\ m = "playlist_get_all_items" => Len(result') = Len(items)
         /\ m = "playlist_get_item_handle" =>
              IF call[c].item < Len(items)
              THEN Len(result') = 1 /\ result'[1].index = call[c].item
              ELSE result' = <<>>
<1>1. call[c] \in Calls /\ call[c].method = m
  BY AnsweringAction
<1>2. Meant(c) \in Nat /\ Meant(c) = Resolve(call[c].at)
  BY <1>1, MeantType DEF ItemMethods
<1>3. WellFormed(playlists, active)
  BY PlaylistsAreWellFormed
<1>4. PICK p \in Nat : p = Meant(c)
  BY <1>2
<1>5. ASSUME NEW table, result' = EnumItems(p, table)
      PROVE  /\ \A k \in DOMAIN result' :
                  /\ result'[k].index < Len(Items(p))
                  /\ result'[k].path = Items(p)[result'[k].index + 1]
             /\ \A j, k \in DOMAIN result' :
                  j < k => result'[j].index < result'[k].index
  BY <1>3, <1>5, EnumProperties
<1>6. CASE m = "playlist_get_all_items"
  <2>1. GetAllItems(c)
    BY <1>6, AnsweringAction
  <2>2. result' = EnumItems(p, AllItems)
    BY <1>2, <1>4, <2>1 DEF GetAllItems, Answer
  <2>3. Len(result') = Len(Items(p))
    BY <1>3, <2>2, AllEnumerated
  <2> QED
    BY <1>4, <1>5, <1>6, <2>2, <2>3
<1>7. CASE m = "playlist_get_items"
  <2>1. GetItems(c)
    BY <1>7, AnsweringAction
  <2>2. result' = EnumItems(p, BitTable(call[c].mask))
    BY <1>2, <1>4, <2>1 DEF GetItems, Answer
  <2> QED
    BY <1>4, <1>5, <1>7, <2>2
<1>8. CASE m = "playlist_get_item_handle"
  <2>1. GetItemHandle(c)
    BY <1>8, AnsweringAction
  <2>2. result' = EnumItems(p, {call[c].item})
    BY <1>2, <1>4, <2>1 DEF GetItemHandle, Answer, ItemAsTrack
  <2>3. call[c].item \in Nat
    BY <1>1, <1>8, CallsAssumption, PlaylistsAssumption DEF Indices
  <2>4. IF call[c].item < Len(Items(p))
        THEN Len(result') = 1 /\ result'[1].index = call[c].item
        ELSE result' = <<>>
    BY <1>3, <2>2, <2>3, OneEnumerated
  <2> QED
    BY <1>4, <1>5, <1>8, <2>2, <2>4
<1>9. CASE m = "playlist_get_focus_item_handle"
  <2>1. GetFocusItemHandle(c)
    BY <1>9, AnsweringAction
  <2>2. PICK item : result' = EnumItems(p, {item})
    BY <1>2, <1>4, <2>1 DEF GetFocusItemHandle, Answer, ItemAsTrack
  <2> QED
    BY <1>4, <1>5, <1>9, <2>2
<1> QED
  BY <1>6, <1>7, <1>8, <1>9

\* Every Track a client gets is at its index in the playlist the call is
\* about, and no Track it asked for with one index, or with none, is missing.
THEOREM AnswersHoldTracks == Spec => TracksAreThere
<1> DEFINE Holds ==
      \A c \in Clients, m \in {"playlist_get_all_items", "playlist_get_items",
                               "playlist_get_item_handle",
                               "playlist_get_focus_item_handle"} :
        Returns(c, m) =>
          LET items == Items(Meant(c)) IN
          /\ \A k \in DOMAIN result' :
               /\ result'[k].index < Len(items)
               /\ result'[k].path = items[result'[k].index + 1]
          /\ \A j, k \in DOMAIN result' : j < k => result'[j].index < result'[k].index
          /\ m = "playlist_get_all_items" => Len(result') = Len(items)
          /\ m = "playlist_get_item_handle" =>
               IF call[c].item < Len(items)
               THEN Len(result') = 1 /\ result'[1].index = call[c].item
               ELSE result' = <<>>
<1>1. PlaylistsOK /\ [Next]_vars => [Holds]_vars
  BY AnswerHoldsTracks
<1>2. TracksAreThere <=> [][Holds]_vars
  BY DEF TracksAreThere
<1> HIDE DEF Holds
<1> QED
  BY <1>1, <1>2, PlaylistsStayWellFormed, PTL DEF Spec
=============================================================================
