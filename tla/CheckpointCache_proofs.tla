------------------------ MODULE CheckpointCache_proofs ------------------------
(***************************************************************************)
(* Proofs about CheckpointCache, for any contents, caches, requests and    *)
(* faults: first what the loop over the sorted byte ranges computes, then  *)
(* what a call knows of the cache and of the header at each of its stages. *)
(***************************************************************************)
EXTENDS CheckpointCache, FiniteSetTheorems, TLAPS

(***************************************************************************)
(* The ranges of P, taken from the header c, cover 0 .. e - 1 exactly: the *)
(* invariant of the second loop, with d the bytes of the data.             *)
(***************************************************************************)
Tiles(c, P, e, d) ==
    /\ P \subseteq Tensors(c)
    /\ e \in Int /\ 0 <= e /\ e <= d
    /\ \A i \in P : c.entries[i].end <= e
    /\ \A b \in 0..(e - 1) : \E i \in P : Holds(c.entries[i], b)
    /\ \A b \in Int : \A i, j \in P :
           Holds(c.entries[i], b) /\ Holds(c.entries[j], b) => i = j
    /\ \A i, j \in P :
           ~(/\ c.entries[i].start = c.entries[i].end
             /\ c.entries[j].start < c.entries[i].start
             /\ c.entries[i].start < c.entries[j].end)

Before(c, i, j) ==
    \/ c.entries[i].start < c.entries[j].start
    \/ /\ c.entries[i].start = c.entries[j].start
       /\ c.entries[i].end <= c.entries[j].end

\* what has been placed sorts before what has not
Sorted(c, P) == \A i \in P, j \in Tensors(c) \ P : Before(c, i, j)

\* the first n records were passed
Passed(c, n, d) == \A k \in 1..n : ~RecordRefused(c.entries[k], d)

-----------------------------------------------------------------------------
(* The product of the dimensions *)

\* A set of naturals that is not empty has a least element: of the initial segments of
\* the naturals up to its elements, which are finite, one includes no smaller one.
LEMMA Least ==
    ASSUME NEW T \in SUBSET Nat, T # {}
    PROVE  \E m \in T : \A k \in T : m <= k
  <1> DEFINE Segments == {0..k : k \in T}
  <1>1. Segments \subseteq FiniteSubsetsOf(Nat) /\ Segments # {}
    <2>1. ASSUME NEW k \in T PROVE 0..k \in FiniteSubsetsOf(Nat)
      BY FS_Interval DEF FiniteSubsetsOf
    <2> QED  BY <2>1
  <1>2. PICK X \in Segments : \A Y \in Segments : <<Y, X>> \notin StrictSubsetOrdering(Nat)
    <2> HIDE DEF Segments
    <2> QED  BY <1>1, FS_StrictSubsetOrderingWellFounded, WFMin
  <1>3. PICK m \in T : X = 0..m
    BY <1>2
  <1>4. ASSUME NEW k \in T, k < m PROVE FALSE
    <2>1. 0..k \in SUBSET Nat /\ 0..m \in SUBSET Nat /\ 0..k \subseteq 0..m
      BY <1>4
    <2>2. m \in 0..m /\ m \notin 0..k
      BY <1>4
    <2>3. 0..k # 0..m
      BY <2>2
    <2>4. <<0..k, 0..m>> \in StrictSubsetOrdering(Nat)
      BY <2>1, <2>3 DEF StrictSubsetOrdering
    <2> QED  BY <1>2, <1>3, <2>4
  <1> QED  BY <1>4

\* f holds the first m products of the dimensions.
Products(shape, f, m) ==
    /\ f \in [0..m -> Nat]
    /\ \A n \in 0..m : f[n] = IF n = 0 THEN 1 ELSE f[n - 1] * shape[n]

\* The products of any shape exist: of the first length at which they would not, the
\* products of the length before it give them.
LEMMA ProductsExist ==
    ASSUME NEW shape \in Seq(Nat)
    PROVE  \E f : Products(shape, f, Len(shape))
  <1> DEFINE T == {m \in 0..Len(shape) : ~\E f : Products(shape, f, m)}
  <1> SUFFICES ASSUME ~\E f : Products(shape, f, Len(shape)) PROVE FALSE
    OBVIOUS
  <1>1. Len(shape) \in T
    OBVIOUS
  <1>2. PICK m \in T : \A k \in T : m <= k
    <2>1. T \in SUBSET Nat
      OBVIOUS
    <2> HIDE DEF T
    <2> QED  BY <1>1, <2>1, Least
  <1>3. CASE m = 0
    <2>1. Products(shape, [n \in 0..0 |-> 1], 0)
      BY DEF Products
    <2> QED  BY <1>2, <1>3, <2>1
  <1>4. CASE m > 0
    <2>1. m \in 1..Len(shape) /\ m - 1 \in 0..Len(shape) /\ m - 1 \notin T
      BY <1>2, <1>4
    <2>2. PICK f : Products(shape, f, m - 1)
      BY <2>1
    <2>3. shape[m] \in Nat
      BY <2>1
    <2> DEFINE g == [n \in 0..m |-> IF n = m THEN f[m - 1] * shape[m] ELSE f[n]]
    <2>4. g \in [0..m -> Nat]
      BY <2>1, <2>2, <2>3 DEF Products
    <2>5. \A n \in 0..m : g[n] = IF n = 0 THEN 1 ELSE g[n - 1] * shape[n]
      <3>1. ASSUME NEW n \in 0..m PROVE g[n] = IF n = 0 THEN 1 ELSE g[n - 1] * shape[n]
        <4>1. CASE n = m
          BY <4>1, <2>1, <2>2 DEF Products
        <4>2. CASE n < m
          BY <4>2, <2>1, <2>2 DEF Products
        <4> QED  BY <4>1, <4>2, <2>1
      <3> QED  BY <3>1
    <2> QED  BY <1>2, <2>4, <2>5 DEF Products
  <1> QED  BY <1>2, <1>3, <1>4

\* Elements, which CHOOSEs the function of its recursion, is the products.
LEMMA ElementsAreProducts ==
    ASSUME NEW shape \in Seq(Nat)
    PROVE  Products(shape, Elements(shape), Len(shape))
  <1> DEFINE Recursion(f) ==
               f = [n \in 0..Len(shape) |-> IF n = 0 THEN 1 ELSE f[n - 1] * shape[n]]
             E == Elements(shape)
  <1>1. PICK f : Products(shape, f, Len(shape))
    BY ProductsExist
  <1>2. Recursion(f)
    BY <1>1 DEF Products
  <1>3. E = CHOOSE g : Recursion(g)
    BY DEF Elements
  <1>4. Recursion(E)
    <2> HIDE DEF Recursion, E
    <2> QED  BY <1>2, <1>3
  <1> HIDE DEF E
  <1>5. \A n \in 0..Len(shape) : E[n] = f[n]
    <2> DEFINE T == {n \in 0..Len(shape) : E[n] # f[n]}
    <2> SUFFICES ASSUME T # {} PROVE FALSE
      OBVIOUS
    <2>1. PICK m \in T : \A k \in T : m <= k
      <3>1. T \in SUBSET Nat
        OBVIOUS
      <3> HIDE DEF T
      <3> QED  BY <3>1, Least
    <2>2. CASE m = 0
      BY <1>2, <1>4, <2>1, <2>2
    <2>3. CASE m # 0
      <3>1. m \in 1..Len(shape) /\ m - 1 \in 0..Len(shape) /\ m - 1 \notin T
        BY <2>1, <2>3
      <3>2. E[m] = E[m - 1] * shape[m] /\ f[m] = f[m - 1] * shape[m]
        BY <1>2, <1>4, <3>1
      <3> QED  BY <2>1, <3>1, <3>2
    <2> QED  BY <2>2, <2>3
  <1>6. E = f
    BY <1>1, <1>4, <1>5 DEF Products
  <1> QED  BY <1>1, <1>6 DEF E

\* A product that is not zero in the end never shrank on the way, so it is the largest
\* that was compared.
LEMMA ProductsGrow ==
    ASSUME NEW shape \in Seq(Nat), NEW n \in 0..Len(shape),
           Elements(shape)[Len(shape)] # 0
    PROVE  Elements(shape)[n] <= Elements(shape)[Len(shape)]
  <1> DEFINE E == Elements(shape)
             L == Len(shape)
             T == {k \in 0..L : n <= k /\ E[k] # 0 /\ E[k] < E[n]}
  <1>1. /\ E \in [0..L -> Nat] /\ L \in Nat
        /\ \A k \in 1..L : E[k] = E[k - 1] * shape[k] /\ shape[k] \in Nat
    BY ElementsAreProducts DEF Products
  <1>2. E[L] \in Nat /\ E[n] \in Nat /\ E[L] # 0
    <2>1. L \in 0..L /\ n \in 0..L /\ E[L] # 0
      OBVIOUS
    <2> HIDE DEF E, L
    <2> QED  BY <1>1, <2>1
  <1>3. ASSUME E[L] < E[n] PROVE FALSE
    <2> HIDE DEF E
    <2>1. L \in T
      BY <1>1, <1>2, <1>3
    <2>2. PICK m \in T : \A k \in T : m <= k
      <3>1. T \in SUBSET Nat
        OBVIOUS
      <3> HIDE DEF T
      <3> QED  BY <2>1, <3>1, Least
    <2>3. m \in 1..L /\ m - 1 \in 0..L /\ m - 1 \notin T /\ n <= m - 1
      <3>1. m \in 0..L /\ n <= m /\ E[m] < E[n] /\ E[m] \in Nat
        BY <1>1, <2>2
      <3>2. m # n
        BY <1>2, <3>1
      <3>3. m \in 1..L /\ m - 1 \in 0..L /\ n <= m - 1 /\ ~(m <= m - 1)
        BY <1>1, <3>1, <3>2
      <3> HIDE DEF T
      <3> QED  BY <2>2, <3>3
    <2>4. E[m] = E[m - 1] * shape[m] /\ shape[m] \in Nat /\ E[m] # 0 /\ E[m] < E[n]
      BY <1>1, <2>2, <2>3
    <2>5. E[m - 1] \in Nat /\ E[n] \in Nat
      BY <1>1, <2>3
    <2>6. E[m - 1] = 0 \/ E[m - 1] >= E[n]
      BY <2>3, <2>5
    <2>7. \A x, y \in Nat : x * y # 0 => x # 0 /\ x <= x * y
      OBVIOUS
    <2>8. E[m - 1] # 0 /\ E[m - 1] <= E[m - 1] * shape[m]
      BY <2>4, <2>5, <2>7, Zenon
    <2> QED  BY <2>4, <2>5, <2>6, <2>8
  <1>4. E[n] <= E[L]
    <2> HIDE DEF E
    <2> QED  BY <1>2, <1>3
  <1> QED  BY <1>4

-----------------------------------------------------------------------------
(* Headers and ranges *)

LEMMA ContentShape ==
    ASSUME NEW c \in Contents
    PROVE  /\ c.size \in Nat /\ c.length \in Nat
           /\ Len(c.entries) \in Nat
           /\ \A i \in 1..Len(c.entries) :
                /\ c.entries[i].start \in Int /\ c.entries[i].end \in Int
                /\ c.entries[i].width \in Nat /\ c.entries[i].shape \in Seq(Nat)
           /\ Tensors(c) \subseteq 1..Len(c.entries)
  <1>1. c \in Content
    BY LayoutAssumption
  <1>2. /\ c.size \in Nat /\ c.length \in Nat /\ c.entries \in Seq(Entry)
    BY <1>1 DEF Content
  <1>3. \A i \in 1..Len(c.entries) : c.entries[i] \in Entry
    BY <1>2
  <1>4. \A e \in Entry : e.start \in Int /\ e.end \in Int /\ e.width \in Nat /\ e.shape \in Seq(Nat)
    BY DEF Entry
  <1> QED  BY <1>2, <1>3, <1>4 DEF Tensors

\* What a tensor that was passed is known to be.
LEMMA PassedTensor ==
    ASSUME NEW c \in Contents, NEW d \in Int, Passed(c, Len(c.entries), d),
           NEW i \in Tensors(c)
    PROVE  /\ c.entries[i].valid /\ c.entries[i].name # "" /\ c.entries[i].width > 0
           /\ c.entries[i].start \in Int /\ c.entries[i].end \in Int
           /\ 0 <= c.entries[i].start
           /\ c.entries[i].start <= c.entries[i].end
           /\ c.entries[i].end <= d
           /\ c.entries[i].end - c.entries[i].start = BytesOf(c.entries[i])
  <1>1. i \in 1..Len(c.entries) /\ ~IsMetadata(c.entries[i])
    BY DEF Tensors
  <1>2. ~RecordRefused(c.entries[i], d)
    BY <1>1 DEF Passed
  <1>3. c.entries[i].valid
    BY <1>2 DEF RecordRefused
  <1>4. c.entries[i].name # ""
    BY <1>1, <1>2 DEF RecordRefused
  <1>5. c.entries[i].end - c.entries[i].start = BytesOf(c.entries[i])
    BY <1>1, <1>2 DEF RecordRefused
  <1>6. /\ c.entries[i].width # 0
        /\ ~(c.entries[i].start < 0) /\ ~(c.entries[i].start > c.entries[i].end)
        /\ ~(c.entries[i].end > d)
    BY <1>1, <1>2 DEF RecordRefused
  <1>7. /\ c.entries[i].start \in Int /\ c.entries[i].end \in Int
        /\ c.entries[i].width \in Nat
    BY <1>1, ContentShape
  <1>8. /\ c.entries[i].width > 0
        /\ 0 <= c.entries[i].start
        /\ c.entries[i].start <= c.entries[i].end
        /\ c.entries[i].end <= d
    BY <1>6, <1>7
  <1> QED  BY <1>3, <1>4, <1>5, <1>7, <1>8

\* The next range, starting where the last one ended, keeps the tiling.
LEMMA PlaceKeepsTiles ==
    ASSUME NEW c \in Contents, NEW d \in Int, Passed(c, Len(c.entries), d),
           NEW P, NEW e, Tiles(c, P, e, d),
           NEW i \in Tensors(c), c.entries[i].start = e
    PROVE  Tiles(c, P \cup {i}, c.entries[i].end, d)
  <1> DEFINE f == c.entries[i].end
  <1>1. /\ e \in Int /\ f \in Int /\ 0 <= e /\ e <= f /\ f <= d
    BY PassedTensor DEF Tiles
  <1>2. \A j \in P : /\ c.entries[j].start \in Int /\ c.entries[j].end \in Int
                     /\ c.entries[j].start <= c.entries[j].end
                     /\ c.entries[j].end <= e
    BY PassedTensor DEF Tiles
  <1>3. P \cup {i} \subseteq Tensors(c)
    BY DEF Tiles
  <1>4. \A j \in P \cup {i} : c.entries[j].end <= f
    BY <1>1, <1>2
  <1>5. ASSUME NEW b \in 0..(f - 1) PROVE \E j \in P \cup {i} : Holds(c.entries[j], b)
    <2>1. CASE b < e
      BY <2>1, <1>1 DEF Tiles
    <2>2. CASE b >= e
      BY <2>2, <1>1 DEF Holds
    <2> QED  BY <2>1, <2>2, <1>1
  <1>6. ASSUME NEW b \in Int, NEW j \in P, Holds(c.entries[j], b), Holds(c.entries[i], b)
        PROVE  FALSE
    BY <1>6, <1>1, <1>2 DEF Holds
  <1>7. ASSUME NEW b \in Int, NEW j \in P \cup {i}, NEW k \in P \cup {i},
               Holds(c.entries[j], b), Holds(c.entries[k], b)
        PROVE  j = k
    BY <1>6, <1>7 DEF Tiles
  <1>8. ASSUME NEW j \in P \cup {i}, NEW k \in P \cup {i},
               c.entries[j].start = c.entries[j].end,
               c.entries[k].start < c.entries[j].start,
               c.entries[j].start < c.entries[k].end
        PROVE  FALSE
    <2>1. CASE j \in P /\ k \in P
      BY <2>1, <1>8 DEF Tiles
    <2>2. CASE j = i /\ k \in P
      BY <2>2, <1>8, <1>1, <1>2
    <2>3. CASE j \in P /\ k = i
      BY <2>3, <1>8, <1>1, <1>2
    <2>4. CASE j = i /\ k = i
      BY <2>4, <1>8, <1>1
    <2> QED  BY <2>1, <2>2, <2>3, <2>4
  <1> QED  BY <1>1, <1>3, <1>4, <1>5, <1>7, <1>8 DEF Tiles

\* A tiling of the whole data by all tensors is a sound layout.
LEMMA TilesAreLaidOut ==
    ASSUME NEW c \in Contents, NEW d \in Int, Passed(c, Len(c.entries), d),
           Tensors(c) # {}, Tiles(c, Tensors(c), d, d)
    PROVE  LaidOut(c, d)
  <1>1. \A b \in 0..(d - 1) :
            /\ \E i \in Tensors(c) : Holds(c.entries[i], b)
            /\ \A i, j \in Tensors(c) : Holds(c.entries[i], b) /\ Holds(c.entries[j], b) => i = j
    BY DEF Tiles
  <1>2. \A i, j \in Tensors(c) :
            ~(/\ c.entries[i].start = c.entries[i].end
              /\ c.entries[j].start < c.entries[i].start
              /\ c.entries[i].start < c.entries[j].end)
    BY DEF Tiles
  <1> QED  BY <1>1, <1>2, PassedTensor DEF LaidOut

\* In a sound layout the next range of the sorted list starts where the last ended.
LEMMA NextStartsHere ==
    ASSUME NEW c \in Contents, NEW d \in Int, Passed(c, Len(c.entries), d),
           LaidOut(c, d), NEW P, NEW e, Tiles(c, P, e, d), Sorted(c, P),
           NEW i \in Tensors(c) \ P, \A j \in Tensors(c) \ P : Before(c, i, j)
    PROVE  c.entries[i].start = e
  <1>1. /\ e \in Int /\ P \subseteq Tensors(c) /\ 0 <= e /\ e <= d
        /\ \A j \in P : c.entries[j].end <= e
    BY DEF Tiles
  <1>2. \A j \in Tensors(c) :
            /\ c.entries[j].start \in Int /\ c.entries[j].end \in Int
            /\ 0 <= c.entries[j].start /\ c.entries[j].start <= c.entries[j].end
            /\ c.entries[j].end <= d
    BY PassedTensor
  <1>3. ASSUME c.entries[i].start > e PROVE FALSE
    <2>1. e \in 0..(d - 1)
      BY <1>1, <1>2, <1>3
    <2>2. PICK j \in Tensors(c) : Holds(c.entries[j], e)
      BY <2>1 DEF LaidOut
    <2>3. j \notin P
      BY <2>2, <1>1, <1>2 DEF Holds
    <2>4. Before(c, i, j)
      BY <2>3
    <2> QED  BY <2>2, <2>4, <1>1, <1>2, <1>3 DEF Holds, Before
  <1>4. ASSUME c.entries[i].start < e PROVE FALSE
    <2> DEFINE b == c.entries[i].start
    <2>1. b \in 0..(e - 1) /\ b \in 0..(d - 1)
      BY <1>1, <1>2, <1>4
    <2>2. PICK j \in P : Holds(c.entries[j], b)
      BY <2>1 DEF Tiles
    <2>3. j \in Tensors(c) /\ i # j
      BY <1>1
    <2>4. CASE c.entries[i].start < c.entries[i].end
      <3>1. Holds(c.entries[i], b)
        BY <2>4, <1>2 DEF Holds
      <3> QED  BY <3>1, <2>1, <2>2, <2>3 DEF LaidOut
    <2>5. CASE c.entries[i].start = c.entries[i].end
      <3>1. Before(c, j, i)
        BY DEF Sorted
      <3>2. c.entries[j].start < b
        BY <3>1, <2>2, <2>3, <2>5, <1>2 DEF Before, Holds
      <3> QED  BY <3>2, <2>2, <2>3, <2>5 DEF LaidOut, Holds
    <2> QED  BY <2>4, <2>5, <1>2
  <1> QED  BY <1>1, <1>2, <1>3, <1>4

\* If every range has been placed, a sound layout leaves nothing of the data over.
LEMMA AllPlacedCovers ==
    ASSUME NEW c \in Contents, NEW d \in Int, Passed(c, Len(c.entries), d),
           LaidOut(c, d), NEW e, Tiles(c, Tensors(c), e, d)
    PROVE  e = d
  <1>1. /\ e \in Int /\ 0 <= e /\ e <= d
        /\ \A j \in Tensors(c) : c.entries[j].end <= e
    BY DEF Tiles
  <1>2. ASSUME e < d PROVE FALSE
    <2>1. e \in 0..(d - 1)
      BY <1>1, <1>2
    <2>2. PICK j \in Tensors(c) : Holds(c.entries[j], e)
      BY <2>1 DEF LaidOut
    <2>3. c.entries[j].end <= e /\ c.entries[j].end \in Int
      BY <1>1, PassedTensor
    <2> QED  BY <2>2, <2>3, <1>1 DEF Holds
  <1> QED  BY <1>1, <1>2

\* What the range loop computes is a tiling or the refusal of an unsound layout.
LEMMA SortedGrows ==
    ASSUME NEW c, NEW P, Sorted(c, P),
           NEW i \in Tensors(c) \ P, \A j \in Tensors(c) \ P : Before(c, i, j)
    PROVE  Sorted(c, P \cup {i})
  BY DEF Sorted

-----------------------------------------------------------------------------
(* What a call knows of the header, however the host interferes             *)

AtHeader == {"records", "ranges", "accepted", "resolved"}
AtRanges == {"ranges", "accepted", "resolved"}
AtEnd == {"accepted", "resolved"}

Inspected ==
    /\ stage \in AtHeader => opened \in Contents /\ ~HeaderRefused(opened, size)
    /\ stage = "records" => /\ index \in 1..(Len(opened.entries) + 1)
                            /\ Passed(opened, index - 1, DataBytes)
    /\ stage \in AtRanges => /\ Passed(opened, Len(opened.entries), DataBytes)
                             /\ Tensors(opened) # {}
                             /\ Tiles(opened, placed, expected, DataBytes)
                             /\ Sorted(opened, placed)
    /\ stage \in AtEnd => placed = Tensors(opened) /\ expected = DataBytes

\* size and the header give a number of data bytes
LEMMA DataBytesNat ==
    ASSUME opened \in Contents, size \in Nat, ~HeaderRefused(opened, size)
    PROVE  DataBytes \in Nat
  BY ContentShape DEF DataBytes, HeaderRefused, PrefixBytes

LEMMA NothingPlaced ==
    ASSUME NEW c, NEW d \in Nat
    PROVE  Tiles(c, {}, 0, d) /\ Sorted(c, {})
  BY DEF Tiles, Sorted

LEMMA ReachedContent ==
    ASSUME disk \in Disk, NEW p \in Place
    PROVE  Reached(p) \in Contents \cup {Missing}
  BY DEF Reached, Disk, Place

LEMMA InitTyped == Init => TypeOK /\ Inspected
  <1> SUFFICES ASSUME Init PROVE TypeOK /\ Inspected
    OBVIOUS
  <1>1. stage = "locate" /\ disk \in Disk /\ request \in Request
    BY CacheAssumption DEF Init
  <1>2. size \in Nat /\ index \in Nat /\ expected \in Int /\ placed \subseteq Nat
    BY DEF Init
  <1>3. opened \in Contents \cup {Missing} /\ hashed \in Contents \cup {Missing}
    BY DEF Init
  <1>4. bytes \in Nat /\ disturbed \in BOOLEAN /\ path \in Place
    BY DEF Init, Place
  <1>5. TypeOK
    BY <1>1, <1>2, <1>3, <1>4 DEF TypeOK
  <1>6. Inspected
    BY <1>1 DEF Inspected, AtHeader, AtRanges, AtEnd
  <1> QED  BY <1>5, <1>6

\* The steps of resolve proper leave the inspection alone and do not enter it.
LEMMA LookTyped ==
    ASSUME TypeOK, Inspected,
           \/ Locate \/ ReadReference \/ Walk \/ WalkMisses \/ ResolvePath \/ Classify
           \/ Hash \/ Compare \/ Return \/ ReadFails \/ HostChanges \/ Done
    PROVE  TypeOK' /\ Inspected'
  <1> DEFINE To == {"main", "revision", "walk", "path", "kind", "hash", "compare", "stat",
                    "refused"}
  <1>1. UNCHANGED inspection
    BY DEF Locate, ReadReference, Walk, WalkMisses, ResolvePath, Classify, Hash, Compare,
           Return, ReadFails, HostChanges, Done, GoOn, Refuse, vars, locals
  <1>2. \/ stage' \in To
        \/ stage' = stage
        \/ stage = "accepted" /\ stage' = "resolved"
    BY DEF Locate, ReadReference, Walk, WalkMisses, ResolvePath, Classify, Hash, Compare,
           Return, ReadFails, HostChanges, Done, GoOn, Refuse, vars, locals
  <1>3. request' \in Request /\ disk' \in Disk
    BY CacheAssumption
    DEF TypeOK, Locate, ReadReference, Walk, WalkMisses, ResolvePath, Classify, Hash,
        Compare, Return, ReadFails, HostChanges, Done, GoOn, Refuse, vars, locals
  <1>4. disturbed' \in BOOLEAN
    BY DEF TypeOK, Locate, ReadReference, Walk, WalkMisses, ResolvePath, Classify, Hash,
           Compare, Return, ReadFails, HostChanges, Done, GoOn, Refuse, vars, locals
  <1>5. path' \in Place /\ bytes' \in Nat
    <2>1. CASE ResolvePath
      <3>1. ASSUME NEW p \in Place, disk.files[p] # Missing PROVE disk.files[p].size \in Nat
        BY <3>1, ContentShape DEF TypeOK, Disk
      <3>2. ASSUME request \in Request PROVE {request.bytes} \ {Unpinned} \subseteq Nat
        BY <3>2 DEF Request
      <3> QED  BY <2>1, <3>1, <3>2 DEF TypeOK, ResolvePath, Place
    <2>2. CASE UNCHANGED <<path, bytes>>
      BY <2>2 DEF TypeOK
    <2> QED
      BY <2>1, <2>2 DEF Locate, ReadReference, Walk, WalkMisses, Classify, Hash,
           Compare, Return, ReadFails, HostChanges, Done, GoOn, Refuse, vars, locals
  <1>6. hashed' \in Contents \cup {Missing}
    <2>1. CASE Hash
      BY <2>1, ReachedContent DEF TypeOK, Hash
    <2>2. CASE UNCHANGED hashed
      BY <2>2 DEF TypeOK
    <2> QED
      BY <2>1, <2>2 DEF Locate, ReadReference, Walk, WalkMisses, ResolvePath, Classify,
           Compare, Return, ReadFails, HostChanges, Done, GoOn, Refuse, vars, locals
  <1>7. TypeOK'
    BY <1>1, <1>2, <1>3, <1>4, <1>5, <1>6 DEF TypeOK, inspection, Ended
  <1>8. /\ stage' \in AtHeader => stage \in AtHeader
        /\ stage' = "records" => stage = "records"
        /\ stage' \in AtRanges => stage \in AtRanges
        /\ stage' \in AtEnd => stage \in AtEnd
    BY <1>2 DEF AtHeader, AtRanges, AtEnd
  <1> QED
    BY <1>1, <1>7, <1>8 DEF Inspected, inspection, DataBytes, Tiles, Sorted

LEMMA InspectTyped == ASSUME TypeOK, Inspected, Inspect PROVE TypeOK' /\ Inspected'
  <1> DEFINE c == Reached(path)
  <1>1. c \in Contents \cup {Missing}
    BY ReachedContent DEF TypeOK
  <1>2. UNCHANGED <<disk, request, path, bytes, hashed, disturbed>>
    BY DEF Inspect, locals
  <1>3. ASSUME stage' = "refused", UNCHANGED inspection PROVE TypeOK' /\ Inspected'
    BY <1>2, <1>3 DEF TypeOK, Inspected, inspection, AtHeader, AtRanges, AtEnd, Ended
  <1>4. CASE StatFile(c)
    <2>1. c # Missing => c.size \in Nat
      BY <1>1, ContentShape
    <2> QED
      BY <1>2, <1>3, <1>4, <2>1
      DEF StatFile, InspectRefuses, TypeOK, Inspected, AtHeader, AtRanges, AtEnd
  <1>5. CASE OpenFile(c)
    <2>1. CASE c # Missing /\ ~HeaderRefused(c, size) /\ stage' = "records"
      <3>1. opened' = c /\ index' = 1 /\ UNCHANGED <<size, placed, expected>>
        BY <1>5, <2>1 DEF OpenFile, InspectRefuses
      <3>2. TypeOK'
        BY <1>1, <1>2, <2>1, <3>1 DEF TypeOK
      <3>3. Len(c.entries) \in Nat
        BY <1>1, <2>1, ContentShape
      <3>4. (index \in 1..(Len(opened.entries) + 1) /\ Passed(opened, index - 1, DataBytes))'
        BY <3>1, <3>3 DEF Passed
      <3> QED
        BY <1>1, <2>1, <3>1, <3>2, <3>4
        DEF Inspected, AtHeader, AtRanges, AtEnd, HeaderRefused, Repeated
    <2>2. CASE stage' = "refused"
      <3>1. TypeOK'
        BY <1>1, <1>2, <1>5, <2>2 DEF OpenFile, InspectRefuses, inspection, TypeOK, Ended
      <3> QED  BY <3>1, <2>2 DEF Inspected, AtHeader, AtRanges, AtEnd
    <2> QED  BY <1>5, <2>1, <2>2 DEF OpenFile, InspectRefuses
  <1>6. ASSUME stage \in AtHeader, UNCHANGED <<size, opened>>
        PROVE  /\ opened \in Contents /\ ~HeaderRefused(opened, size)
               /\ DataBytes \in Nat /\ UNCHANGED DataBytes
               /\ (opened \in Contents /\ ~HeaderRefused(opened, size))'
    BY <1>6, DataBytesNat DEF Inspected, TypeOK, DataBytes, HeaderRefused, Repeated
  <1>7. CASE ReadRecord
    <2>1. CASE InspectRefuses
      BY <1>3, <2>1 DEF InspectRefuses
    <2>2. CASE ~RecordRefused(opened.entries[index], DataBytes) /\ index' = index + 1
      <3>1. /\ stage = "records" /\ index <= Len(opened.entries)
            /\ UNCHANGED <<stage, size, opened, placed, expected>>
        BY <1>7, <2>2 DEF ReadRecord, InspectRefuses, inspection, TypeOK
      <3>2. stage \in AtHeader
        BY <3>1 DEF AtHeader
      <3>3. Len(opened.entries) \in Nat /\ index \in Nat /\ Passed(opened, index - 1, DataBytes)
        BY <3>1, <3>2, <1>6, ContentShape DEF Inspected, TypeOK
      <3>4. Passed(opened, index, DataBytes)
        BY <2>2, <3>3 DEF Passed
      <3>5. (index \in 1..(Len(opened.entries) + 1) /\ Passed(opened, index - 1, DataBytes))'
        <4>1. index' - 1 = index
          BY <2>2, <3>3
        <4> QED  BY <1>6, <2>2, <3>1, <3>2, <3>3, <3>4, <4>1 DEF Passed, Inspected
      <3>6. TypeOK'
        BY <1>2, <2>2, <3>1, <3>3 DEF TypeOK
      <3> QED  BY <1>6, <3>1, <3>2, <3>5, <3>6 DEF Inspected, AtRanges, AtEnd
    <2> QED  BY <1>7, <2>1, <2>2 DEF ReadRecord
  <1>8. CASE RecordsEnd
    <2>1. CASE InspectRefuses
      BY <1>3, <2>1 DEF InspectRefuses
    <2>2. CASE Tensors(opened) # {} /\ stage' = "ranges"
      <3>1. /\ stage = "records" /\ index > Len(opened.entries)
            /\ placed' = {} /\ expected' = 0 /\ UNCHANGED <<size, opened, index>>
        BY <1>8, <2>2 DEF RecordsEnd, InspectRefuses
      <3>2. stage \in AtHeader
        BY <3>1 DEF AtHeader
      <3>3. Len(opened.entries) \in Nat
        BY <1>6, <3>1, <3>2, ContentShape
      <3>4. index - 1 = Len(opened.entries)
        BY <3>1, <3>3 DEF Inspected
      <3>5. Passed(opened, Len(opened.entries), DataBytes)
        BY <3>1, <3>4 DEF Inspected
      <3>6. Tiles(opened, {}, 0, DataBytes) /\ Sorted(opened, {})
        BY <1>6, <3>1, <3>2, NothingPlaced
      <3>7. TypeOK'
        BY <1>2, <2>2, <3>1 DEF TypeOK
      <3>8. (/\ Passed(opened, Len(opened.entries), DataBytes)
             /\ Tensors(opened) # {}
             /\ Tiles(opened, placed, expected, DataBytes)
             /\ Sorted(opened, placed))'
        BY <1>6, <2>2, <3>1, <3>2, <3>5, <3>6
      <3> QED  BY <1>6, <2>2, <3>1, <3>2, <3>7, <3>8 DEF Inspected, AtEnd
    <2> QED  BY <1>8, <2>1, <2>2 DEF RecordsEnd
  <1>9. CASE PlaceRange
    <2> PICK i \in Remaining :
            /\ \A j \in Remaining : Precedes(i, j)
            /\ \/ opened.entries[i].start # expected /\ InspectRefuses
               \/ /\ opened.entries[i].start = expected
                  /\ placed' = placed \cup {i} /\ expected' = opened.entries[i].end
                  /\ UNCHANGED <<stage, size, opened, index>>
      BY <1>9 DEF PlaceRange
    <2>1. CASE InspectRefuses
      BY <1>3, <2>1 DEF InspectRefuses
    <2>2. CASE /\ opened.entries[i].start = expected
               /\ placed' = placed \cup {i} /\ expected' = opened.entries[i].end
               /\ UNCHANGED <<stage, size, opened, index>>
      <3>1. stage = "ranges"
        BY <1>9 DEF PlaceRange
      <3>2. stage \in AtHeader /\ stage \in AtRanges
        BY <3>1 DEF AtHeader, AtRanges
      <3>3. /\ Passed(opened, Len(opened.entries), DataBytes) /\ Tensors(opened) # {}
            /\ Tiles(opened, placed, expected, DataBytes) /\ Sorted(opened, placed)
        BY <3>2 DEF Inspected
      <3>4. i \in Tensors(opened) \ placed
        BY DEF Remaining
      <3>5. \A j \in Tensors(opened) \ placed : Before(opened, i, j)
        BY DEF Remaining, Precedes, Before
      <3>6. opened \in Contents /\ DataBytes \in Int
        BY <1>6, <2>2, <3>2
      <3>7. Tiles(opened, placed \cup {i}, opened.entries[i].end, DataBytes)
        BY <2>2, <3>3, <3>4, <3>6, PlaceKeepsTiles
      <3>8. Sorted(opened, placed \cup {i})
        BY <3>3, <3>4, <3>5, SortedGrows
      <3>9. (/\ Passed(opened, Len(opened.entries), DataBytes)
             /\ Tensors(opened) # {}
             /\ Tiles(opened, placed, expected, DataBytes)
             /\ Sorted(opened, placed))'
        BY <1>6, <2>2, <3>2, <3>3, <3>7, <3>8
      <3>10. opened.entries[i].end \in Int /\ i \in Nat
        BY <3>4, <3>6, ContentShape
      <3>11. TypeOK'
        BY <1>2, <2>2, <3>1, <3>10 DEF TypeOK
      <3> QED  BY <1>6, <2>2, <3>1, <3>2, <3>9, <3>11 DEF Inspected, AtEnd
    <2> QED  BY <2>1, <2>2
  <1>10. CASE RangesEnd
    <2>1. stage = "ranges" /\ Remaining = {} /\ UNCHANGED inspection
      BY <1>10 DEF RangesEnd
    <2>2. CASE stage' = "refused"
      BY <1>3, <2>1, <2>2
    <2>3. CASE stage' = "accepted" /\ expected = DataBytes
      <3>1. stage \in AtHeader /\ stage \in AtRanges
        BY <2>1 DEF AtHeader, AtRanges
      <3>2. UNCHANGED <<size, opened, index, placed, expected>>
        BY <2>1 DEF inspection
      <3>3. placed = Tensors(opened)
        BY <2>1, <3>1 DEF Inspected, Remaining, Tiles
      <3>4. (/\ Passed(opened, Len(opened.entries), DataBytes)
             /\ Tensors(opened) # {}
             /\ Tiles(opened, placed, expected, DataBytes)
             /\ Sorted(opened, placed))'
        BY <1>6, <3>1, <3>2 DEF Inspected
      <3>5. TypeOK'
        BY <1>2, <2>3, <3>2 DEF TypeOK
      <3> QED  BY <1>6, <2>3, <3>1, <3>2, <3>3, <3>4, <3>5 DEF Inspected
    <2> QED  BY <1>10, <2>2, <2>3 DEF RangesEnd
  <1> QED  BY <1>4, <1>5, <1>7, <1>8, <1>9, <1>10 DEF Inspect

LEMMA StepTyped == TypeOK /\ Inspected /\ [Next]_vars => TypeOK' /\ Inspected'
  <1> SUFFICES ASSUME TypeOK, Inspected, [Next]_vars PROVE TypeOK' /\ Inspected'
    OBVIOUS
  <1>1. CASE UNCHANGED vars
    BY <1>1 DEF vars, inspection, locals, TypeOK, Inspected, DataBytes, Tiles, Sorted,
                HeaderRefused, Repeated
  <1> QED  BY <1>1, LookTyped, InspectTyped DEF Next

\* Every variable stays within its type; the offsets a header gives are integers the
\* loops can compute with, although nothing of the file was trusted before.
THEOREM TypeCorrect == Spec => []TypeOK
  BY InitTyped, StepTyped, PTL DEF Spec

LEMMA InspectedAlways == Spec => []Inspected
  BY InitTyped, StepTyped, PTL DEF Spec

\* Whatever the file is and however the host replaces it between stat and open, a
\* header is accepted only if its tensors tile the bytes that stat promised.
THEOREM AcceptedTiles == Spec => []AcceptedTilesData
  <1>1. TypeOK /\ Inspected => AcceptedTilesData
    <2> SUFFICES ASSUME TypeOK, Inspected, stage \in AtEnd PROVE LaidOut(opened, DataBytes)
      BY DEF AcceptedTilesData, AtEnd
    <2>1. stage \in AtHeader /\ stage \in AtRanges
      BY DEF AtHeader, AtRanges, AtEnd
    <2>2. opened \in Contents /\ DataBytes \in Int
      BY <2>1, DataBytesNat DEF Inspected, TypeOK
    <2> QED  BY <2>1, <2>2, TilesAreLaidOut DEF Inspected
  <1> QED  BY <1>1, TypeCorrect, InspectedAlways, PTL

-----------------------------------------------------------------------------
(* What a call knows of the cache                                           *)

FromOpen == AtHeader \cup {"open"}
FromStat == FromOpen \cup {"stat"}
FromCompare == FromStat \cup {"compare"}
FromHash == FromCompare \cup {"hash"}
FromKind == FromHash \cup {"kind"}
FromPath == FromKind \cup {"path"}
FromWalk == FromPath \cup {"walk"}
FromRevision == FromWalk \cup {"revision"}
FromMain == FromRevision \cup {"main"}

\* What stays true of a call's own findings whatever becomes of the cache.
Kept ==
    /\ stage \in FromHash => path \in {"own", "blob"}
    /\ stage \in FromStat => AsExpected

\* What is true of the cache itself while nothing interferes.
Located ==
    /\ stage \in FromMain => request.valid /\ disk.found
    /\ stage \in FromRevision => disk.refs["main"] \in {"absent", "same"}
    /\ stage \in FromWalk => disk.refs["revision"] \in {"absent", "same"}
    /\ stage \in FromPath => ~disk.extra
Identified ==
    /\ stage \in FromKind /\ disk.entry \in Place => /\ path = disk.entry
                                                     /\ disk.files[path] # Missing
                                                     /\ bytes = disk.files[path].size
    /\ stage \in FromHash => disk.entry \in Place
    /\ stage \in FromCompare => hashed = disk.files[path]
    /\ stage \in FromStat => request.safetensors
    /\ stage \in FromOpen => size = hashed.size
    /\ stage \in AtHeader => opened = hashed
Undisturbed == ~disturbed => Located /\ Identified /\ RefusedForAReason

LEMMA KeptAlways == Spec => []Kept
  <1> USE DEF FromOpen, FromStat, FromCompare, FromHash, AtHeader
  <1>1. Init => Kept
    BY DEF Init, Kept
  <1>2. ASSUME Kept, [Next]_vars PROVE Kept'
    <2>1. CASE Classify
      BY <1>2, <2>1 DEF Kept, Classify, SafeKind, GoOn, Refuse, locals
    <2>2. CASE Compare
      BY <1>2, <2>2 DEF Kept, Compare, AsExpected, GoOn, Refuse, locals
    <2>3. CASE Inspect
      <3>1. stage \in FromStat
        BY <2>3 DEF Inspect, StatFile, OpenFile, ReadRecord, RecordsEnd, PlaceRange, RangesEnd
      <3>2. UNCHANGED <<request, path, bytes, hashed>>
        BY <2>3 DEF Inspect, locals
      <3> QED  BY <1>2, <3>1, <3>2 DEF Kept, AsExpected
    <2>4. CASE ResolvePath \/ Hash
      BY <1>2, <2>4 DEF Kept, ResolvePath, Hash
    <2>5. CASE \/ Locate \/ ReadReference \/ Walk \/ WalkMisses \/ Return
               \/ ReadFails \/ HostChanges \/ Done \/ UNCHANGED vars
      <3>1. UNCHANGED <<request, path, bytes, hashed>>
        BY <2>5 DEF Locate, ReadReference, Walk, WalkMisses, Return, ReadFails, HostChanges,
                    Done, GoOn, Refuse, vars, locals
      <3>2. stage' \in FromHash => stage \in FromStat \/ stage' = stage
        BY <2>5 DEF Locate, ReadReference, Walk, WalkMisses, Return, ReadFails, HostChanges,
                    Done, GoOn, Refuse, vars
      <3> QED  BY <1>2, <3>1, <3>2 DEF Kept, AsExpected
    <2> QED  BY <1>2, <2>1, <2>2, <2>3, <2>4, <2>5 DEF Next
  <1> QED  BY <1>1, <1>2, PTL DEF Spec

\* A path that was found to be safe, in a cache that stands still, is the checkpoint.
LEMMA ReachedIsFile ==
    ASSUME path \in {"own", "blob"}, path = disk.entry
    PROVE  Reached(path) = disk.files[path] /\ Reached("own") = disk.files[path]
  BY DEF Reached, Place

\* A sound file passes every test of its header.
LEMMA SoundPassesHeader ==
    ASSUME NEW c \in Contents, HeaderRefused(c, c.size)
    PROVE  ~Sound(c)
  BY ContentShape DEF HeaderRefused, Sound, PrefixBytes

\* A range that lies within the data bounds every product on the way to its length,
\* unless that length is zero.
LEMMA ProductsFit ==
    ASSUME NEW c \in Contents, NEW d \in Int, NEW k \in 1..Len(c.entries),
           ShapeTooLarge(c.entries[k], d), BytesOf(c.entries[k]) <= d
    PROVE  BytesOf(c.entries[k]) = 0
  <1> DEFINE e == c.entries[k]
             E == Elements(e.shape)
             L == Len(e.shape)
  <1>1. e.shape \in Seq(Nat) /\ e.width \in Nat
    BY ContentShape
  <1>2. PICK n \in 1..L : E[n] * e.width > d
    BY DEF ShapeTooLarge
  <1>3. n \in 0..L /\ L \in 0..L
    BY <1>1
  <1>4. E[n] \in Nat /\ E[L] \in Nat
    BY <1>1, <1>3, ElementsAreProducts DEF Products
  <1>5. E[L] # 0 => E[n] <= E[L]
    BY <1>1, <1>3, ProductsGrow
  <1>6. BytesOf(e) = E[L] * e.width
    BY DEF BytesOf
  <1>7. E[L] = 0
    <2> HIDE DEF E, L, e
    <2>1. \A x, y, w \in Nat : x <= y => x * w <= y * w
      OBVIOUS
    <2>2. E[n] <= E[L] => E[n] * e.width <= E[L] * e.width
      BY <1>1, <1>4, <2>1, Zenon
    <2>3. E[n] * e.width \in Nat /\ E[L] * e.width \in Nat
      BY <1>1, <1>4
    <2>4. E[L] * e.width <= d
      BY <1>6 DEF e
    <2> QED  BY <1>2, <1>5, <2>2, <2>3, <2>4
  <1> QED  BY <1>1, <1>6, <1>7

\* A sound file has its records accepted, but for a zero dimension that comes too late.
LEMMA SoundPassesRecord ==
    ASSUME NEW c \in Contents, NEW k \in 1..Len(c.entries),
           RecordRefused(c.entries[k], c.size - PrefixBytes - c.length)
    PROVE  Sound(c) => LateZero(c)
  <1> SUFFICES ASSUME Sound(c) PROVE LateZero(c)
    OBVIOUS
  <1> DEFINE d == c.size - PrefixBytes - c.length
             e == c.entries[k]
  <1>1. e.valid /\ LaidOut(c, d)
    BY DEF Sound
  <1>2. ~IsMetadata(e) /\ k \in Tensors(c)
    BY <1>1 DEF RecordRefused, Tensors
  <1>3. e.name # ""
    BY <1>1, <1>2 DEF LaidOut
  <1>4. e.end - e.start = BytesOf(e)
    BY <1>1, <1>2 DEF LaidOut
  <1>5. e.width > 0 /\ 0 <= e.start /\ e.start <= e.end /\ e.end <= d
    BY <1>1, <1>2 DEF LaidOut
  <1>6. e.start \in Int /\ e.end \in Int /\ e.width \in Nat /\ d \in Int
    BY ContentShape DEF PrefixBytes
  <1>7. ~(e.width = 0 \/ e.start < 0 \/ e.start > e.end \/ e.end > d)
    BY <1>5, <1>6
  <1>8. ShapeTooLarge(e, d)
    BY <1>1, <1>3, <1>4, <1>7 DEF RecordRefused
  <1>9. BytesOf(e) <= d
    BY <1>4, <1>5, <1>6
  <1>10. BytesOf(e) = 0
    BY <1>6, <1>8, <1>9, ProductsFit
  <1> QED  BY <1>2, <1>8, <1>10 DEF LateZero

\* The steps that read the header, of an undisturbed call.
LEMMA InspectUndisturbed ==
    ASSUME TypeOK, Inspected, Kept, Located, Identified, Inspect
    PROVE  Located' /\ Identified' /\ RefusedForAReason'
  <1> DEFINE c == disk.files[path]
  <1>1. stage \in FromStat
    BY DEF Inspect, StatFile, OpenFile, ReadRecord, RecordsEnd, PlaceRange, RangesEnd,
           FromStat, FromOpen, AtHeader
  <1>2. /\ stage \in FromCompare /\ stage \in FromHash /\ stage \in FromKind
        /\ stage \in FromPath /\ stage \in FromWalk /\ stage \in FromRevision
        /\ stage \in FromMain
    BY <1>1 DEF FromCompare, FromHash, FromKind, FromPath, FromWalk, FromRevision, FromMain
  <1>3. UNCHANGED <<disk, request, path, bytes, hashed, disturbed>>
    BY DEF Inspect, locals
  <1>4. /\ path \in {"own", "blob"} /\ path = disk.entry
        /\ c # Missing /\ bytes = c.size /\ hashed = c /\ request.safetensors
    BY <1>1, <1>2 DEF Kept, Identified, Place
  <1>5. Reached(path) = c /\ Reached("own") = c /\ c \in Contents
    BY <1>4, ReachedIsFile DEF TypeOK
  <1>6. Located'
    BY <1>2, <1>3 DEF Located
  <1>7. ASSUME Sound(c) => LateZero(c) PROVE Usable' => LateZero(Reached("own"))'
    <2>1. Reached("own")' = c
      BY <1>3, <1>5 DEF Reached
    <2> QED  BY <1>7, <2>1 DEF Usable
  <1>8. ASSUME stage' \in FromOpen => size' = c.size,
               stage' \in AtHeader => opened' = c
        PROVE  Identified'
    <2>1. disk.entry \in Place
      BY <1>4 DEF Place
    <2> QED  BY <1>3, <1>4, <1>8, <2>1 DEF Identified
  <1>9. ASSUME stage' = "refused", Sound(c) => LateZero(c)
        PROVE  Located' /\ Identified' /\ RefusedForAReason'
    <2>1. Identified'
      BY <1>8, <1>9 DEF FromOpen, AtHeader
    <2> QED  BY <1>6, <1>7, <1>9, <2>1 DEF RefusedForAReason
  <1>10. ASSUME stage' # "refused", stage' \in FromOpen => size' = c.size,
                stage' \in AtHeader => opened' = c
         PROVE  Located' /\ Identified' /\ RefusedForAReason'
    BY <1>6, <1>8, <1>10 DEF RefusedForAReason
  <1>11. CASE StatFile(c)
    BY <1>4, <1>10, <1>11 DEF StatFile, InspectRefuses, AtHeader
  <1>12. ASSUME stage \in FromOpen PROVE size = c.size
    BY <1>4, <1>12 DEF Identified
  <1>13. CASE OpenFile(c)
    <2>1. size = c.size
      BY <1>12, <1>13 DEF OpenFile, FromOpen
    <2>2. CASE HeaderRefused(c, size)
      BY <1>4, <1>5, <1>9, <1>13, <2>1, <2>2, SoundPassesHeader DEF OpenFile, InspectRefuses
    <2>3. CASE ~HeaderRefused(c, size)
      BY <1>4, <1>10, <1>13, <2>1, <2>3 DEF OpenFile, InspectRefuses
    <2> QED  BY <2>2, <2>3
  <1>14. CASE stage \in AtHeader /\ ~StatFile(c) /\ ~OpenFile(c)
    <2> DEFINE d == c.size - PrefixBytes - c.length
    <2>1. opened = c /\ size = c.size /\ DataBytes = d
      BY <1>4, <1>14 DEF Identified, FromOpen, DataBytes
    <2>2. d \in Nat
      BY <1>14, <2>1, DataBytesNat DEF Inspected, TypeOK
    <2>3. ASSUME stage' # "refused", UNCHANGED <<size, opened>>
          PROVE  Located' /\ Identified' /\ RefusedForAReason'
      BY <1>10, <2>1, <2>3
    <2>4. CASE ReadRecord
      <3>1. CASE RecordRefused(c.entries[index], d) /\ stage' = "refused"
        <4>1. index \in 1..Len(c.entries)
          <5>1. stage = "records" /\ index <= Len(c.entries)
            BY <2>1, <2>4 DEF ReadRecord
          <5>2. index >= 1 /\ index \in Nat /\ Len(c.entries) \in Nat
            BY <1>5, <2>1, <5>1, ContentShape DEF Inspected
          <5> QED  BY <5>1, <5>2
        <4> QED  BY <1>5, <1>9, <3>1, <4>1, SoundPassesRecord
      <3>2. CASE ~RecordRefused(c.entries[index], d)
        BY <1>14, <2>1, <2>3, <2>4, <3>2 DEF ReadRecord, AtHeader
      <3> QED  BY <2>1, <2>4, <3>1, <3>2 DEF ReadRecord, InspectRefuses
    <2>5. CASE RecordsEnd
      <3>1. CASE Tensors(c) = {} /\ stage' = "refused"
        BY <1>9, <3>1 DEF Sound, LaidOut
      <3>2. CASE Tensors(c) # {}
        BY <2>1, <2>3, <2>5, <3>2 DEF RecordsEnd
      <3> QED  BY <2>1, <2>5, <3>1, <3>2 DEF RecordsEnd, InspectRefuses
    <2>6. ASSUME stage \in AtRanges
          PROVE  /\ Passed(c, Len(c.entries), d) /\ d \in Int
                 /\ Tiles(c, placed, expected, d) /\ Sorted(c, placed)
      BY <2>1, <2>2, <2>6 DEF Inspected
    <2>7. CASE PlaceRange
      <3>1. stage = "ranges" /\ stage \in AtRanges
        BY <2>7 DEF PlaceRange, AtRanges
      <3> PICK i \in Remaining :
              /\ \A j \in Remaining : Precedes(i, j)
              /\ \/ opened.entries[i].start # expected /\ InspectRefuses
                 \/ /\ opened.entries[i].start = expected
                    /\ UNCHANGED <<stage, size, opened, index>>
        BY <2>7 DEF PlaceRange
      <3>2. i \in Tensors(c) \ placed /\ \A j \in Tensors(c) \ placed : Before(c, i, j)
        BY <2>1 DEF Remaining, Precedes, Before
      <3>3. CASE c.entries[i].start # expected /\ stage' = "refused"
        <4>1. ~LaidOut(c, d)
          BY <1>5, <2>6, <3>1, <3>2, <3>3, NextStartsHere
        <4> QED  BY <1>9, <3>3, <4>1 DEF Sound
      <3>4. CASE UNCHANGED <<stage, size, opened>>
        BY <2>3, <3>1, <3>4
      <3> QED  BY <2>1, <3>3, <3>4 DEF InspectRefuses
    <2>8. CASE RangesEnd
      <3>1. stage = "ranges" /\ stage \in AtRanges
        BY <2>8 DEF RangesEnd, AtRanges
      <3>2. placed = Tensors(c) /\ UNCHANGED <<size, opened>>
        BY <2>1, <2>6, <2>8, <3>1 DEF RangesEnd, Remaining, Tiles, inspection
      <3>3. CASE expected # d
        <4>1. ~LaidOut(c, d)
          BY <1>5, <2>6, <3>1, <3>2, <3>3, AllPlacedCovers
        <4>2. stage' = "refused"
          BY <2>1, <2>8, <3>3 DEF RangesEnd
        <4> QED  BY <1>9, <4>1, <4>2 DEF Sound
      <3>4. CASE expected = d
        BY <2>1, <2>3, <2>8, <3>2, <3>4 DEF RangesEnd
      <3> QED  BY <3>3, <3>4
    <2> QED  BY <1>5, <1>14, <2>4, <2>5, <2>7, <2>8 DEF Inspect
  <1>15. stage \in AtHeader \/ StatFile(c) \/ OpenFile(c)
    BY <1>5 DEF Inspect, ReadRecord, RecordsEnd, PlaceRange, RangesEnd, AtHeader
  <1> QED  BY <1>11, <1>13, <1>14, <1>15

\* The steps before the header, of an undisturbed call.
LEMMA LookUndisturbed ==
    ASSUME TypeOK, Kept, Located, Identified, RefusedForAReason,
           \/ Locate \/ ReadReference \/ Walk \/ ResolvePath \/ Classify \/ Hash \/ Compare
           \/ Return
    PROVE  Located' /\ Identified' /\ RefusedForAReason'
  <1> USE DEF FromMain, FromRevision, FromWalk, FromPath, FromKind, FromHash, FromCompare,
              FromStat, FromOpen, AtHeader
  <1>1. UNCHANGED <<inspection, disk, request, disturbed>>
    BY DEF Locate, ReadReference, Walk, ResolvePath, Classify, Hash, Compare, Return,
           GoOn, Refuse
  <1>2. ASSUME ~Usable, UNCHANGED <<path, bytes, hashed>>, stage' = "refused"
        PROVE  Located' /\ Identified' /\ RefusedForAReason'
    BY <1>1, <1>2 DEF Located, Identified, RefusedForAReason, Usable, Reached
  <1>3. CASE Locate
    <2>1. CASE request.valid /\ disk.found
      BY <1>1, <1>3, <2>1 DEF Locate, GoOn, Located, Identified, RefusedForAReason
    <2>2. CASE ~(request.valid /\ disk.found)
      BY <1>2, <1>3, <2>2 DEF Locate, GoOn, Refuse, Usable, locals
    <2> QED  BY <2>1, <2>2
  <1>4. CASE ReadReference
    <2>1. CASE disk.refs[stage] \in {"absent", "same"}
      <3>1. stage' = IF stage = "main" THEN "revision" ELSE "walk"
        BY <1>4, <2>1 DEF ReadReference, GoOn
      <3>2. UNCHANGED <<path, bytes, hashed>>
        BY <1>4, <2>1 DEF ReadReference, GoOn, locals
      <3>3. stage \in {"main", "revision"}
        BY <1>4 DEF ReadReference, Reference
      <3> QED
        BY <1>1, <2>1, <3>1, <3>2, <3>3 DEF Located, Identified, RefusedForAReason
    <2>2. CASE disk.refs[stage] \notin {"absent", "same"}
      BY <1>2, <1>4, <2>2 DEF ReadReference, GoOn, Refuse, Usable, locals
    <2> QED  BY <2>1, <2>2
  <1>5. CASE Walk
    <2>1. CASE ~disk.extra
      BY <1>1, <1>5, <2>1 DEF Walk, GoOn, Located, Identified, RefusedForAReason
    <2>2. CASE disk.extra
      BY <1>2, <1>5, <2>2 DEF Walk, GoOn, Refuse, Usable, locals
    <2> QED  BY <2>1, <2>2
  <1>6. CASE ResolvePath
    <2>1. CASE stage' = "kind" /\ path' = "own" /\ disk.entry = "odd"
      BY <1>1, <1>6, <2>1 DEF ResolvePath, Place, Located, Identified, RefusedForAReason
    <2>2. CASE /\ disk.entry \in Place /\ disk.files[disk.entry] # Missing
               /\ stage' = "kind" /\ path' = disk.entry
               /\ bytes' = disk.files[disk.entry].size
      BY <1>1, <1>6, <2>2 DEF ResolvePath, Located, Identified, RefusedForAReason
    <2>3. CASE /\ \/ disk.entry = "absent"
                  \/ disk.entry \in Place /\ disk.files[disk.entry] = Missing
               /\ stage' = "refused" /\ UNCHANGED <<path, bytes>>
      <3>1. Reached("own") = Missing
        BY <2>3 DEF Reached, Place
      <3> QED  BY <1>2, <1>6, <2>3, <3>1 DEF ResolvePath, Usable
    <2> QED  BY <1>6, <2>1, <2>2, <2>3 DEF ResolvePath
  <1>7. CASE Classify
    <2>1. disk.entry \in Place => path = disk.entry /\ disk.files[path] # Missing
      BY <1>7 DEF Classify, Identified
    <2>2. CASE SafeKind /\ Reached(path) # Missing
      <3>1. disk.entry \in Place
        BY <2>2 DEF SafeKind, Reached, Place
      <3> QED  BY <1>1, <1>7, <2>2, <3>1
               DEF Classify, GoOn, locals, Located, Identified, RefusedForAReason
    <2>3. CASE ~(SafeKind /\ Reached(path) # Missing)
      <3>1. disk.entry \notin {"own", "blob"}
        BY <2>1, <2>3 DEF SafeKind, Reached, Place
      <3> QED  BY <1>2, <1>7, <2>3, <3>1 DEF Classify, GoOn, Refuse, Usable, locals
    <2> QED  BY <2>2, <2>3
  <1>8. ASSUME stage \in FromHash
        PROVE  /\ path \in Place /\ path = disk.entry
               /\ disk.files[path] # Missing /\ bytes = disk.files[path].size
               /\ Reached(path) = disk.files[path] /\ Reached("own") = disk.files[path]
    <2>1. path \in {"own", "blob"} /\ stage \in FromKind
      BY <1>8 DEF Kept
    <2>2. disk.entry \in Place
      BY <1>8 DEF Identified
    <2> QED  BY <2>1, <2>2, ReachedIsFile DEF Identified, Place
  <1>9. CASE Hash
    BY <1>1, <1>8, <1>9 DEF Hash, Located, Identified, RefusedForAReason
  <1>10. CASE Compare
    <2>1. CASE AsExpected /\ request.safetensors
      BY <1>1, <1>10, <2>1 DEF Compare, GoOn, locals, Located, Identified, RefusedForAReason
    <2>2. CASE ~(AsExpected /\ request.safetensors)
      <3>1. hashed = Reached("own") /\ bytes = Reached("own").size
        BY <1>8, <1>10 DEF Compare, Identified
      <3>2. ~Usable
        BY <2>2, <3>1 DEF AsExpected, Usable
      <3> QED  BY <1>2, <1>10, <2>2, <3>2 DEF Compare, GoOn, Refuse, locals
    <2> QED  BY <2>1, <2>2
  <1>11. CASE Return
    <2>1. /\ stage = "accepted" /\ stage' = "resolved"
          /\ UNCHANGED <<disk, request, path, bytes, hashed, size, opened>>
      BY <1>11 DEF Return, GoOn, locals, inspection
    <2>2. Located'
      BY <1>1, <2>1 DEF Located
    <2>3. Identified'
      BY <1>1, <2>1 DEF Identified
    <2> QED  BY <2>1, <2>2, <2>3 DEF RefusedForAReason
  <1> QED  BY <1>3, <1>4, <1>5, <1>6, <1>7, <1>9, <1>10, <1>11

LEMMA UndisturbedAlways == Spec => []Undisturbed
  <1>1. Init => Undisturbed
    BY DEF Init, Undisturbed, Located, Identified, RefusedForAReason, FromMain, FromRevision,
           FromWalk, FromPath, FromKind, FromHash, FromCompare, FromStat, FromOpen, AtHeader
  <1>2. ASSUME TypeOK, Inspected, Kept, Undisturbed, [Next]_vars PROVE Undisturbed'
    <2>1. CASE WalkMisses \/ ReadFails \/ HostChanges
      BY <2>1 DEF WalkMisses, ReadFails, HostChanges, Undisturbed
    <2>2. CASE disturbed
      <3>1. disturbed'
        <4>1. CASE UNCHANGED disturbed
          BY <2>2, <4>1
        <4>2. CASE WalkMisses \/ ReadFails \/ HostChanges
          BY <4>2 DEF WalkMisses, ReadFails, HostChanges
        <4>3. UNCHANGED disturbed \/ WalkMisses \/ ReadFails \/ HostChanges
          BY <1>2 DEF Next, Locate, ReadReference, Walk, ResolvePath, Classify, Hash, Compare,
                      Inspect, Return, Done, GoOn, Refuse, vars
        <4> QED  BY <4>1, <4>2, <4>3
      <3> QED  BY <3>1 DEF Undisturbed
    <2>3. CASE UNCHANGED vars
      BY <1>2, <2>3
      DEF vars, inspection, locals, Undisturbed, Located, Identified, RefusedForAReason,
          Usable, Reached
    <2>4. CASE Inspect /\ ~disturbed
      BY <1>2, <2>4, InspectUndisturbed DEF Undisturbed
    <2>5. CASE ~disturbed /\ ~Inspect /\ ~WalkMisses /\ ~ReadFails /\ ~HostChanges /\ ~Done
               /\ Next
      BY <1>2, <2>5, LookUndisturbed DEF Next, Undisturbed
    <2> QED  BY <1>2, <2>1, <2>2, <2>3, <2>4, <2>5 DEF Done
  <1> QED  BY <1>1, <1>2, TypeCorrect, InspectedAlways, KeptAlways, PTL DEF Spec

\* A call that nothing interfered with never turns a usable cache away, whatever the
\* order of the records, the shapes and the sizes of a sound file, except for an empty
\* tensor whose zero dimension comes after a product that exceeds the data.
THEOREM RefusalsHaveReasons == Spec => []RefusedForAReason
  <1>1. Undisturbed => RefusedForAReason
    BY DEF Undisturbed, RefusedForAReason
  <1> QED  BY <1>1, UndisturbedAlways, PTL

\* The record that resolve returns is of one usable checkpoint of this model if nothing
\* interfered, and of the pinned content whenever the manifest pins it.
THEOREM RecordsAgree == Spec => []RecordIsOfOneFile
  <1>1. TypeOK /\ Inspected /\ Kept /\ Undisturbed => RecordIsOfOneFile
    <2> SUFFICES ASSUME TypeOK, Inspected, Kept, Undisturbed, stage = "resolved"
                 PROVE  RecordIsOfOneFile
      BY DEF RecordIsOfOneFile
    <2>1. /\ stage \in AtHeader /\ stage \in AtRanges /\ stage \in AtEnd
          /\ stage \in FromOpen /\ stage \in FromStat /\ stage \in FromCompare
          /\ stage \in FromHash /\ stage \in FromKind /\ stage \in FromPath
          /\ stage \in FromWalk /\ stage \in FromRevision /\ stage \in FromMain
      BY DEF FromMain, FromRevision, FromWalk, FromPath, FromKind, FromHash, FromCompare,
             FromStat, FromOpen, AtHeader, AtRanges, AtEnd
    <2>2. path \in {"own", "blob"} /\ AsExpected
      BY <2>1 DEF Kept
    <2>3. ASSUME request.hash # Unpinned, request.bytes = request.hash.size
          PROVE  hashed = request.hash /\ bytes = hashed.size
      <3>1. hashed = request.hash /\ request.bytes \in {Unpinned, bytes}
        BY <2>2, <2>3 DEF AsExpected
      <3>2. request.hash \in Contents
        BY <2>3 DEF TypeOK, Request
      <3>3. request.bytes # Unpinned
        BY <2>3, <3>2, ContentShape, CacheAssumption
      <3> QED  BY <2>3, <3>1, <3>3
    <2>4. ASSUME ~disturbed PROVE Usable /\ opened = hashed /\ bytes = hashed.size
      <3>1. Located /\ Identified
        BY <2>4 DEF Undisturbed
      <3> DEFINE c == disk.files[path]
      <3>2. /\ path = disk.entry /\ c # Missing /\ bytes = c.size /\ hashed = c
            /\ size = c.size /\ opened = c /\ request.safetensors
        BY <2>1, <2>2, <3>1 DEF Identified, Place
      <3>3. Reached("own") = c /\ c \in Contents
        BY <2>2, <3>2, ReachedIsFile DEF TypeOK, Disk, Place
      <3>4. /\ ~HeaderRefused(c, c.size) /\ Passed(c, Len(c.entries), DataBytes)
            /\ Tensors(c) # {} /\ Tiles(c, Tensors(c), DataBytes, DataBytes)
        BY <2>1, <3>2 DEF Inspected
      <3>5. DataBytes = c.size - PrefixBytes - c.length /\ DataBytes \in Nat
        BY <2>1, <3>2, <3>3, <3>4, DataBytesNat DEF DataBytes, TypeOK
      <3>6. LaidOut(c, DataBytes)
        BY <3>3, <3>4, <3>5, TilesAreLaidOut
      <3>7. \A i \in 1..Len(c.entries) : c.entries[i].valid
        BY <3>4 DEF Passed, RecordRefused
      <3>8. Sound(c)
        <4>1. /\ c.length \in 1..MaxHeaderBytes /\ c.length % 8 = 0
              /\ c.json = "object" /\ ~Repeated(c)
          BY <3>4 DEF HeaderRefused
        <4>2. PrefixBytes + c.length <= c.size
          BY <3>3, <3>4, ContentShape DEF HeaderRefused, PrefixBytes
        <4> QED  BY <3>5, <3>6, <3>7, <4>1, <4>2 DEF Sound
      <3>9. /\ request.valid /\ disk.found /\ ~disk.extra
            /\ \A r \in Reference : disk.refs[r] \in {"absent", "same"}
        BY <2>1, <3>1 DEF Located, Reference
      <3>10. request.bytes \in {Unpinned, c.size} /\ request.hash \in {Unpinned, c}
        BY <2>2, <3>2 DEF AsExpected
      <3> QED  BY <2>2, <3>2, <3>3, <3>8, <3>9, <3>10 DEF Usable
    <2> QED  BY <2>2, <2>3, <2>4 DEF RecordIsOfOneFile
  <1> QED  BY <1>1, TypeCorrect, InspectedAlways, KeptAlways, UndisturbedAlways, PTL
=============================================================================
