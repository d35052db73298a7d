---------------------------- MODULE MemoryProof ----------------------------
(***************************************************************************)
(* Proofs about Memory: types, that every frame has one use and every share *)
(* count is the number of its pages less one, that a CPU with a writable    *)
(* translation of a shared page is about to be flushed, and that processes  *)
(* are isolated.                                                           *)
(***************************************************************************)
EXTENDS Memory, FiniteSetTheorems, WellFoundedInduction, TLAPS

-----------------------------------------------------------------------------
(* Numbers: the least and the greatest of a set, and the rank of its members. *)

\* The least member of a set of numbers is one of them.
LEMMA MinIn ==
    ASSUME NEW S \in SUBSET Nat, S # {}
    PROVE  Min(S) \in S /\ \A j \in S : Min(S) <= j
<1>1. PICK m \in S : \A j \in S : ~(<<j, m>> \in OpToRel(<, Nat))
  BY NatLessThanWellFounded, WFMin
<1>2. \A j \in S : m <= j
  <2> TAKE j \in S
  <2>1. ~(j < m)
    BY <1>1 DEF OpToRel
  <2> QED BY <2>1
<1> QED BY <1>1, <1>2 DEF Min

\* So is the greatest of a bounded one.
LEMMA MaxIn ==
    ASSUME NEW n \in Nat, NEW S \in SUBSET (0..n), S # {}
    PROVE  Max(S) \in S /\ \A j \in S : Max(S) >= j
<1> DEFINE T == {n - x : x \in S}
<1>1. T \in SUBSET Nat /\ T # {}
  <2>1. \A x \in S : n - x \in Nat
    OBVIOUS
  <2>2. \A y \in T : y \in Nat
    BY <2>1
  <2> QED BY <2>2
<1>2. Min(T) \in T /\ \A j \in T : Min(T) <= j
  BY <1>1, MinIn
<1>3. PICK m \in S : Min(T) = n - m
  BY <1>2
<1>4. \A j \in S : m >= j
  <2> TAKE j \in S
  <2>1. n - m <= n - j
    BY <1>2, <1>3
  <2> QED BY <2>1
<1> QED BY <1>4 DEF Max

\* How many members of a set are less than f.
Rank(S, f) == Cardinality({g \in S : g < f})

\* Ranks number the members of a finite set from 0.
LEMMA Ranks ==
    ASSUME NEW S \in SUBSET Nat, IsFiniteSet(S)
    PROVE  /\ Cardinality(S) \in Nat
           /\ \A f \in S : Rank(S, f) \in 0..(Cardinality(S) - 1)
           /\ \A f, g \in S : Rank(S, f) = Rank(S, g) => f = g
           /\ \A k \in 0..(Cardinality(S) - 1) : \E f \in S : Rank(S, f) = k
<1> DEFINE below(f) == {g \in S : g < f}
           n == Cardinality(S)
<1>1. n \in Nat
  BY FS_CardinalityType
<1>2. \A f \in S : IsFiniteSet(below(f)) /\ Cardinality(below(f)) \in Nat
  BY FS_Subset, FS_CardinalityType
<1>3. ASSUME NEW f \in S PROVE Cardinality(below(f)) <= n - 1
  <2>1. IsFiniteSet(S \ {f}) /\ Cardinality(S \ {f}) = n - 1
    BY FS_RemoveElement
  <2>2. below(f) \in SUBSET (S \ {f})
    OBVIOUS
  <2> QED BY <2>1, <2>2, FS_Subset
<1>4. ASSUME NEW f \in S, NEW g \in S, f < g
      PROVE  Cardinality(below(f)) < Cardinality(below(g))
  <2>0. \A h \in S : h < f => h < g
    BY <1>4
  <2>1. below(f) \cup {f} \in SUBSET below(g)
    BY <1>4, <2>0
  <2>2. Cardinality(below(f) \cup {f}) = Cardinality(below(f)) + 1
    <3>1. f \notin below(f) /\ IsFiniteSet(below(f))
      BY <1>2
    <3> HIDE DEF below
    <3> QED BY <3>1, FS_AddElement
  <2>3. Cardinality(below(f) \cup {f}) <= Cardinality(below(g))
    BY <1>2, <2>1, FS_Subset
  <2> QED BY <1>2, <2>2, <2>3
<1> HIDE DEF below
<1>5. \A f, g \in S : Cardinality(below(f)) = Cardinality(below(g)) => f = g
  <2> SUFFICES ASSUME NEW f \in S, NEW g \in S, Cardinality(below(f)) = Cardinality(below(g)), f # g
               PROVE  FALSE
    OBVIOUS
  <2>1. f < g \/ g < f
    OBVIOUS
  <2> QED BY <1>2, <1>4, <2>1
<1> DEFINE r == [f \in S |-> Cardinality(below(f))]
<1>6. r \in Injection(S, 0..(n - 1))
  BY <1>1, <1>2, <1>3, <1>5 DEF Injection, IsInjective
<1>7. IsFiniteSet(0..(n - 1)) /\ Cardinality(0..(n - 1)) = n
  <2> HIDE DEF n
  <2>1. 0 \in Int /\ n - 1 \in Int
    BY <1>1
  <2>2. IsFiniteSet(0..(n - 1)) /\ Cardinality(0..(n - 1)) = IF 0 > n - 1 THEN 0 ELSE (n - 1) - 0 + 1
    BY <2>1, FS_Interval
  <2> QED BY <1>1, <2>2
<1>8. r \in Surjection(S, 0..(n - 1))
  BY <1>6, <1>7, FS_Injection
<1>9. \A k \in 0..(n - 1) : \E f \in S : Cardinality(below(f)) = k
  BY <1>8 DEF Surjection
<1> QED BY <1>1, <1>2, <1>3, <1>5, <1>9, SMTT(30) DEF Rank, below

\* What n calls of alloc give: free frames, at most n.
LEMMA Allocated ==
    ASSUME NEW u \in SUBSET Frames, NEW n \in Nat
    PROVE  /\ AllocMany(u, n) \subseteq Frames \ u
           /\ AllocMany(u, n) \in SUBSET Nat /\ IsFiniteSet(AllocMany(u, n))
           /\ Cardinality(AllocMany(u, n)) \in Nat /\ Cardinality(AllocMany(u, n)) <= n
<1> DEFINE A == AllocMany(u, n)
<1>1. IsFiniteSet(Frames) /\ Frames \in SUBSET Nat
  <2>1. 1 \in Int /\ NFrames \in Int
    BY MemoryAssumption
  <2>2. IsFiniteSet(1..NFrames)
    BY <2>1, FS_Interval
  <2> QED BY <2>1, <2>2 DEF Frames
<1>2. Free(u) \in SUBSET Frames /\ IsFiniteSet(Free(u)) /\ A \in SUBSET Free(u) /\ IsFiniteSet(A)
  BY <1>1, FS_Subset DEF Free, AllocMany
<1>3. \A f, g \in A : Rank(Free(u), f) = Rank(Free(u), g) => f = g
  BY <1>1, <1>2, Ranks
<1>4. \A f \in A : Rank(Free(u), f) \in 0..(n - 1)
  <2> TAKE f \in A
  <2>1. Rank(Free(u), f) < n
    BY DEF AllocMany, Rank
  <2>2. Rank(Free(u), f) \in 0..(Cardinality(Free(u)) - 1) /\ Cardinality(Free(u)) \in Nat
    BY <1>1, <1>2, Ranks
  <2> QED BY <2>1, <2>2
<1> DEFINE r == [f \in A |-> Rank(Free(u), f)]
<1>5. r \in Injection(A, 0..(n - 1))
  BY <1>3, <1>4 DEF Injection, IsInjective
<1>6. IsFiniteSet(0..(n - 1)) /\ Cardinality(0..(n - 1)) = n
  <2>1. 0 \in Int /\ n - 1 \in Int
    OBVIOUS
  <2>2. IsFiniteSet(0..(n - 1)) /\ Cardinality(0..(n - 1)) = IF 0 > n - 1 THEN 0 ELSE (n - 1) - 0 + 1
    BY <2>1, FS_Interval
  <2> QED BY <2>2
<1>7. Cardinality(A) <= n
  BY <1>5, <1>6, FS_Injection
<1> QED BY <1>1, <1>2, <1>7, FS_CardinalityType DEF Free

\* alloc gives a free frame or none.
LEMMA AllocFree ==
    ASSUME NEW u, Alloc(u) # 0
    PROVE  Alloc(u) \in Frames /\ Alloc(u) \notin u
<1>1. Free(u) \in SUBSET Nat /\ Free(u) # {}
  BY MemoryAssumption DEF Free, Frames, Alloc
<1> QED BY <1>1, MinIn DEF Alloc, Free

\* alloc_contig finds a run of frames.
LEMMA RunFree ==
    ASSUME NEW u, {b \in Frames : Stack(b) \subseteq Free(u)} # {}
    PROVE  LET b == Min({c \in Frames : Stack(c) \subseteq Free(u)})
           IN  b \in Frames /\ Stack(b) \subseteq Frames \ u
<1> DEFINE B == {c \in Frames : Stack(c) \subseteq Free(u)}
<1>1. B \in SUBSET Nat
  BY MemoryAssumption DEF Frames
<1> QED BY <1>1, MinIn DEF Free

-----------------------------------------------------------------------------
(* Types.                                                                   *)

\* An entry is empty, writable, or marked for copy-on-write.
Writable(f) == [f |-> f, w |-> TRUE, cow |-> FALSE]
Marked(f) == [f |-> f, w |-> FALSE, cow |-> TRUE]
Entries == {NoPage} \cup {Writable(f) : f \in Frames} \cup {Marked(f) : f \in Frames}

\* What a thread may be in the middle of.
Works == [at : {"idle", "cow", "grow", "unmap", "exec", "shoot", "acks", "stack", "mark"}, page : 0..NPages,
          f : 0..NFrames, new : Nat, space : 0..(MaxForks + 1)]
WorkOK(c) ==
    /\ c.at = "idle" => c = Idle
    /\ c.at = "cow" => c.page \in Pages /\ c.f # 0 /\ c.new \in 0..NFrames /\ c.space = 0
    /\ c.at \in {"grow", "unmap"} => c.page \in Pages /\ c.space = 0
    /\ c.at = "unmap" => c.new \in Pages
    /\ c.at \in {"exec", "shoot", "acks"} => c.space # 0
    /\ c.at = "mark" => Stack(c.f) \subseteq Frames /\ c.f # 0

Typed ==
    /\ used \subseteq Frames /\ refs \in [Frames -> Nat] /\ mem \in [Frames -> 0..NThreads]
    /\ pt \in [Spaces -> [Pages -> Entries]]
    /\ tab \in [Spaces -> [0..NPages -> 0..NFrames]]
    /\ tlb \in [Threads -> [Pages -> Entries]]
    /\ sp \in [Threads -> 0..(MaxForks + 1)]
    /\ brk \in [Threads -> Pages]
    /\ kst \in [Threads -> 0..NFrames] /\ \A t \in Threads : Stack(kst[t]) \subseteq Frames
    /\ pc \in [Threads -> Works] /\ \A t \in Threads : WorkOK(pc[t])
    /\ \A t \in Threads : /\ pc[t] # Idle => sp[t] # 0
                         /\ sp[t] <= forks + 1 /\ pc[t].space <= forks + 1
    /\ ipi \subseteq Threads /\ acks \in Nat /\ acks + Cardinality(ipi) <= NThreads
    /\ want \in [Spaces -> [Pages -> 0..NThreads]]
    /\ lost \subseteq 0..NFrames /\ ops \in Nat /\ forks \in 0..MaxForks

\* The bounds of the constants.
LEMMA Bounds ==
    /\ NFrames \in Nat /\ NThreads \in Nat /\ NPages \in Nat /\ KSTACK_PAGES \in Nat
    /\ MaxForks \in Nat /\ MaxOps \in Nat /\ NPages >= 1 /\ NThreads >= 1 /\ KSTACK_PAGES >= 1
    /\ NFrames > 3 + KSTACK_PAGES
BY MemoryAssumption

\* Frames taken from the map of frames in use.
LEMMA Taken ==
    ASSUME Typed, NEW n \in Nat
    PROVE  /\ AllocMany(used, n) \subseteq Frames \ used
           /\ AllocMany(used, n) \in SUBSET Nat /\ IsFiniteSet(AllocMany(used, n))
           /\ Cardinality(AllocMany(used, n)) \in Nat /\ Cardinality(AllocMany(used, n)) <= n
<1>1. used \in SUBSET Frames
  BY DEF Typed
<1> QED BY <1>1, Allocated

\* The frames of an image.
LEMMA ImageTaken ==
    ASSUME Typed
    PROVE  Image \subseteq Frames \ used /\ Image \in SUBSET Nat /\ IsFiniteSet(Image)
<1>1. 3 \in Nat
  OBVIOUS
<1> QED BY <1>1, Taken DEF Image

\* How an entry is read.
LEMMA EntryFields ==
    /\ NoPage \in Entries /\ NoPage.f = 0 /\ ~NoPage.w /\ ~NoPage.cow
    /\ \A f \in Frames : Writable(f) \in Entries /\ Marked(f) \in Entries
    /\ \A f : Writable(f).f = f /\ Writable(f).w /\ ~Writable(f).cow
    /\ \A f : Marked(f).f = f /\ ~Marked(f).w /\ Marked(f).cow
    /\ \A e \in Entries : /\ e.f \in 0..NFrames /\ e.w \in BOOLEAN /\ e.cow \in BOOLEAN
                          /\ e.f = 0 <=> e = NoPage
                          /\ e.f # 0 => e.f \in Frames
                          /\ e.w => e = Writable(e.f) /\ ~e.cow /\ e.f \in Frames
                          /\ e.cow => e = Marked(e.f) /\ ~e.w /\ e.f \in Frames
                          /\ e # NoPage => e.w \/ e.cow
<1>0. 0 \notin Frames /\ Frames \subseteq 0..NFrames /\ 0 \in 0..NFrames
  BY Bounds DEF Frames
<1>1. NoPage.f = 0 /\ ~NoPage.w /\ ~NoPage.cow
  BY DEF NoPage
<1>2. \A f : Writable(f).f = f /\ Writable(f).w /\ ~Writable(f).cow
  BY DEF Writable
<1>3. \A f : Marked(f).f = f /\ ~Marked(f).w /\ Marked(f).cow
  BY DEF Marked
<1>4. ASSUME NEW e \in Entries
      PROVE  /\ e.f \in 0..NFrames /\ e.w \in BOOLEAN /\ e.cow \in BOOLEAN
             /\ e.f = 0 <=> e = NoPage
             /\ e.f # 0 => e.f \in Frames
             /\ e.w => e = Writable(e.f) /\ ~e.cow /\ e.f \in Frames
             /\ e.cow => e = Marked(e.f) /\ ~e.w /\ e.f \in Frames
             /\ e # NoPage => e.w \/ e.cow
  <2>1. CASE e = NoPage
    <3>1. e.w \in BOOLEAN /\ e.cow \in BOOLEAN
      BY <2>1 DEF NoPage
    <3> QED BY <1>0, <1>1, <2>1, <3>1
  <2>2. CASE \E f \in Frames : e = Writable(f)
    <3>1. e.w \in BOOLEAN /\ e.cow \in BOOLEAN
      BY <2>2 DEF Writable
    <3> QED BY <1>0, <1>1, <1>2, <2>2, <3>1
  <2>3. CASE \E f \in Frames : e = Marked(f)
    <3>1. e.w \in BOOLEAN /\ e.cow \in BOOLEAN
      BY <2>3 DEF Marked
    <3> QED BY <1>0, <1>1, <1>3, <2>3, <3>1
  <2> QED BY <2>1, <2>2, <2>3 DEF Entries
<1> QED BY <1>1, <1>2, <1>3, <1>4 DEF Entries

\* A CPU reads a well-formed entry.
LEMMA EntryIn ==
    ASSUME Typed, NEW t \in Threads, sp[t] # 0, NEW p \in Pages
    PROVE  sp[t] \in Spaces /\ pt[sp[t]][p] \in Entries /\ Entry(t, p) \in Entries
<1>1. sp[t] \in Spaces
  BY Bounds, SMTT(30) DEF Typed, Spaces
<1> QED BY <1>1 DEF Typed, Entry

\* A space gives back what it maps: no frame is taken, and shares only go down.
LEMMA TeardownTypes ==
    ASSUME Typed, NEW s \in Spaces, NEW root, Set(Teardown(Now, s, root)) 
    PROVE  /\ used' \subseteq used /\ refs' \in [Frames -> Nat]
           /\ used' = (used \ {f \in Frames : refs[f] = 0 /\ \E p \in Mapped(s) : pt[s][p].f = f})
                          \ ({tab[s][p] : p \in 1..NPages} \cup root)
           /\ \A f \in Frames : refs'[f] = IF refs[f] # 0 /\ \E p \in Mapped(s) : pt[s][p].f = f
                                           THEN refs[f] - 1 ELSE refs[f]
<1> DEFINE fs == {pt[s][p].f : p \in Mapped(s)}
           gone == {tab[s][p] : p \in 1..NPages} \cup root
           m == ReleaseAll(Now, fs)
<1>1. m = [used |-> used \ {f \in fs : refs[f] = 0},
           refs |-> [f \in Frames |-> IF f \in fs /\ refs[f] # 0 THEN refs[f] - 1 ELSE refs[f]]]
  BY DEF ReleaseAll, Now
<1>2. used' = m.used \ gone /\ refs' = m.refs
  <2>1. Teardown(Now, s, root) = [m EXCEPT !.used = m.used \ gone]
    BY DEF Teardown
  <2>2. [m EXCEPT !.used = m.used \ gone].used = m.used \ gone /\ [m EXCEPT !.used = m.used \ gone].refs = m.refs
    BY <1>1
  <2> QED BY <2>1, <2>2 DEF Set
<1>3. used' = (used \ {f \in fs : refs[f] = 0}) \ gone
  BY <1>1, <1>2
<1>4. refs' = [f \in Frames |-> IF f \in fs /\ refs[f] # 0 THEN refs[f] - 1 ELSE refs[f]]
  BY <1>1, <1>2
<1>5. \A p \in Mapped(s) : pt[s][p].f \in Frames
  BY EntryFields DEF Typed, Mapped
<1>6. \A f : f \in fs <=> \E p \in Mapped(s) : pt[s][p].f = f
  OBVIOUS
<1>7. {f \in fs : refs[f] = 0} = {f \in Frames : refs[f] = 0 /\ \E p \in Mapped(s) : pt[s][p].f = f}
  BY <1>5, <1>6
<1> HIDE DEF fs, gone
<1>8. refs \in [Frames -> Nat]
  BY DEF Typed
<1>9. refs' \in [Frames -> Nat]
  BY <1>4, <1>8
<1> QED BY <1>3, <1>4, <1>6, <1>7, <1>9 DEF gone

\* One owner less.
LEMMA ReleaseTypes ==
    ASSUME Typed, NEW f \in Frames, Set(Release(Now, f))
    PROVE  /\ used' = (IF refs[f] = 0 THEN used \ {f} ELSE used)
           /\ refs' = (IF refs[f] = 0 THEN refs ELSE [refs EXCEPT ![f] = refs[f] - 1])
           /\ refs' \in [Frames -> Nat]
BY DEF Typed, Set, Release, Now

\* A set of two or three numbers, by rank.
LEMMA ByRank ==
    ASSUME NEW S \in SUBSET Frames, IsFiniteSet(S)
    PROVE  LET nth(k) == CHOOSE f \in S : Rank(S, f) = k
           IN  /\ \A k \in 0..(Cardinality(S) - 1) : nth(k) \in S /\ Rank(S, nth(k)) = k
               /\ \A f \in S : Rank(S, f) \in 0..(Cardinality(S) - 1) /\ f = nth(Rank(S, f))
<1> DEFINE nth(k) == CHOOSE f \in S : Rank(S, f) = k
<1>0. S \in SUBSET Nat
  BY Bounds DEF Frames
<1>1. \A k \in 0..(Cardinality(S) - 1) : nth(k) \in S /\ Rank(S, nth(k)) = k
  BY <1>0, Ranks
<1>2. ASSUME NEW f \in S PROVE Rank(S, f) \in 0..(Cardinality(S) - 1) /\ f = nth(Rank(S, f))
  <2>1. Rank(S, f) \in 0..(Cardinality(S) - 1)
    BY <1>0, Ranks
  <2>2. nth(Rank(S, f)) \in S /\ Rank(S, nth(Rank(S, f))) = Rank(S, f)
    BY <1>1, <2>1
  <2> QED BY <1>0, <2>1, <2>2, Ranks
<1> QED BY <1>1, <1>2

\* A program image: a root, a page and a leaf table, all fresh.
LEMMA BuiltEffect ==
    ASSUME Typed, NEW s \in Spaces, Complete, Built(s)
    PROVE  \E a, b, c \in Frames \ used :
               /\ a # b /\ b # c /\ a # c /\ Image = {a, b, c}
               /\ mem' = [mem EXCEPT ![b] = 0]
               /\ pt' = [pt EXCEPT ![s][1] = Writable(b)]
               /\ tab' = [tab EXCEPT ![s] = [p \in 0..NPages |->
                              CASE p = 0 -> a [] p = 1 -> c [] OTHER -> 0]]
               /\ want' = [want EXCEPT ![s] = [p \in Pages |-> 0]]
               /\ forks' = forks + 1
<1> DEFINE nth(k) == CHOOSE f \in Image : Rank(Image, f) = k
<1>1. Image \subseteq Frames \ used /\ IsFiniteSet(Image) /\ Cardinality(Image) = 3
  BY ImageTaken DEF Complete
<1>2. /\ \A k \in 0..2 : nth(k) \in Image /\ Rank(Image, nth(k)) = k
      /\ \A f \in Image : Rank(Image, f) \in 0..2 /\ f = nth(Rank(Image, f))
  BY <1>1, ByRank
<1>3. nth(0) \in Image /\ nth(1) \in Image /\ nth(2) \in Image
  BY <1>2
<1>4. nth(0) # nth(1) /\ nth(1) # nth(2) /\ nth(0) # nth(2)
  BY <1>2
<1>5. Image = {nth(0), nth(1), nth(2)}
  <2>1. \A f \in Image : f \in {nth(0), nth(1), nth(2)}
    BY <1>2
  <2> QED BY <1>3, <2>1
<1>6. /\ mem' = [mem EXCEPT ![nth(1)] = 0]
      /\ pt' = [pt EXCEPT ![s][1] = Writable(nth(1))]
      /\ tab' = [tab EXCEPT ![s] = [p \in 0..NPages |->
                     CASE p = 0 -> nth(0) [] p = 1 -> nth(2) [] OTHER -> 0]]
      /\ want' = [want EXCEPT ![s] = [p \in Pages |-> 0]]
      /\ forks' = forks + 1
  BY DEF Built, Rank, Writable
<1> HIDE DEF nth
<1> QED BY <1>1, <1>3, <1>4, <1>5, <1>6

\* The frames sbrk takes: the page, and the leaf table if there is none.
LEMMA LeafFrames ==
    ASSUME Typed, NEW n \in {1, 2}, NEW leaf, leaf = AllocMany(used, n), Cardinality(leaf) = n
    PROVE  /\ leaf = {Min(leaf), Max(leaf)} /\ Min(leaf) \in Frames \ used /\ Max(leaf) \in Frames \ used
           /\ Min(leaf) # 0 /\ Max(leaf) # 0 /\ (n = 1 <=> Min(leaf) = Max(leaf))
<1>1. leaf \subseteq Frames \ used /\ IsFiniteSet(leaf) /\ leaf \in SUBSET Nat
  <2>1. n \in Nat /\ used \in SUBSET Frames
    BY DEF Typed
  <2> QED BY <2>1, Allocated
<1>2. leaf # {}
  BY FS_EmptySet
<1>3. leaf \in SUBSET (0..NFrames) /\ 0 \notin leaf
  BY <1>1, Bounds DEF Frames
<1>4. /\ Min(leaf) \in leaf /\ \A j \in leaf : Min(leaf) <= j
      /\ Max(leaf) \in leaf /\ \A j \in leaf : Max(leaf) >= j
  BY <1>1, <1>2, <1>3, MinIn, MaxIn, Bounds
<1>5. CASE n = 1
  <2>1. PICK x : leaf = {x}
    BY <1>1, <1>5, FS_Singleton
  <2> QED BY <1>1, <1>3, <1>4, <1>5, <2>1
<1>6. CASE n = 2
  <2>1. Min(leaf) # Max(leaf)
    <3> SUFFICES ASSUME Min(leaf) = Max(leaf) PROVE FALSE
      OBVIOUS
    <3>1. \A j \in leaf : j = Min(leaf)
      BY <1>1, <1>4
    <3>2. leaf = {Min(leaf)}
      BY <1>4, <3>1
    <3>3. Cardinality(leaf) = 1
      BY <3>2, FS_Singleton
    <3> QED BY <1>6, <3>3
  <2>2. IsFiniteSet({Min(leaf)}) /\ Cardinality({Min(leaf)}) = 1
    BY FS_Singleton
  <2>3. Cardinality({Min(leaf)} \cup {Max(leaf)}) = 2
    BY <2>1, <2>2, FS_AddElement
  <2>4. {Min(leaf)} \cup {Max(leaf)} \in SUBSET leaf
    BY <1>4
  <2>5. {Min(leaf)} \cup {Max(leaf)} = leaf
    BY <1>1, <1>6, <2>3, <2>4, FS_Subset
  <2> QED BY <1>1, <1>3, <1>4, <1>6, <2>1, <2>5
<1> QED BY <1>5, <1>6

\* The frames fork takes, and the pages it has shared when they are gone.
Got(t) == AllocMany(used, 1 + Cardinality(Mapped(sp[t])))
Done(t) == {p \in Mapped(sp[t]) :
               Cardinality({q \in Mapped(sp[t]) : q < p}) + 1 < Cardinality(Got(t))}

\* What fork does to the tables: the entries of both spaces, the tables of the new one.
LEMMA ForkEffect ==
    ASSUME Typed, NEW t \in Threads, ForkCow(t)
    PROVE  /\ sp[t] \in Spaces /\ forks + 2 \in Spaces /\ sp[t] # forks + 2
           /\ Got(t) \subseteq Frames \ used /\ Done(t) \subseteq Mapped(sp[t])
           /\ used' = used \cup Got(t)
           /\ \A s \in Spaces, p \in Pages :
                  pt'[s][p] = IF s = sp[t]
                              THEN IF p \in Done(t) /\ pt[s][p].w THEN Marked(pt[s][p].f) ELSE pt[s][p]
                              ELSE IF s = forks + 2
                              THEN IF Done(t) # Mapped(sp[t]) \/ p \notin Done(t) THEN NoPage
                                   ELSE IF pt[sp[t]][p].w THEN Marked(pt[sp[t]][p].f) ELSE pt[sp[t]][p]
                              ELSE pt[s][p]
           /\ pt' \in [Spaces -> [Pages -> Entries]]
           /\ \E T \in [0..NPages -> 0..NFrames] :
                  /\ tab' = [tab EXCEPT ![forks + 2] = T]
                  /\ Done(t) = Mapped(sp[t]) =>
                       /\ T[0] # 0
                       /\ \A p, q \in 0..NPages : T[p] = T[q] /\ T[p] # 0 => p = q
                       /\ \A f \in Frames : f \in Got(t) <=> \E p \in 0..NPages : T[p] = f
<1> DEFINE s == sp[t]
           new == forks + 2
           need == 1 + Cardinality(Mapped(s))
           got == Got(t)
           done == Done(t)
           nth(k) == CHOOSE f \in got : Rank(got, f) = k
           cow(p) == IF pt[s][p].w THEN Marked(pt[s][p].f) ELSE pt[s][p]
           old == [p \in Pages |-> IF p \in done THEN cow(p) ELSE pt[s][p]]
           young == [p \in Pages |-> IF p \in done THEN cow(p) ELSE NoPage]
           T == [p \in 0..NPages |->
                    IF done # Mapped(s) THEN 0 ELSE IF p = 0 THEN nth(0)
                    ELSE IF p \in done THEN nth(Cardinality({q \in done : q <= p})) ELSE 0]
<1>1. s \in Spaces /\ new \in Spaces /\ s # new /\ got # {}
  <2>1. Call(t) /\ forks < MaxForks /\ got # {}
    BY DEF ForkCow, Got
  <2>2. sp[t] # 0
    BY <2>1 DEF Call, Step
  <2>3. sp[t] <= forks + 1 /\ sp[t] \in 0..(MaxForks + 1) /\ forks \in Nat
    BY Bounds DEF Typed
  <2> QED BY <2>1, <2>2, <2>3, Bounds DEF Spaces
<1>2. IsFiniteSet(Mapped(s)) /\ Mapped(s) \in SUBSET Nat /\ Cardinality(Mapped(s)) \in Nat
      /\ Mapped(s) \subseteq 1..NPages
  <2>1. IsFiniteSet(1..NPages)
    BY Bounds, FS_Interval
  <2>2. Mapped(s) \in SUBSET (1..NPages)
    BY DEF Mapped, Pages
  <2>3. IsFiniteSet(Mapped(s))
    BY <2>1, <2>2, FS_Subset
  <2>4. Cardinality(Mapped(s)) \in Nat
    BY <2>3, FS_CardinalityType
  <2> QED BY <2>2, <2>3, <2>4, Bounds
<1>3. /\ got \subseteq Frames \ used /\ got \in SUBSET Frames /\ IsFiniteSet(got)
      /\ Cardinality(got) \in Nat /\ Cardinality(got) <= need
  <2>1. need \in Nat /\ used \in SUBSET Frames
    BY <1>2 DEF Typed
  <2> HIDE DEF need
  <2>2. got = AllocMany(used, need)
    BY DEF Got, need
  <2> QED BY <2>1, <2>2, Allocated
<1>4. done \in SUBSET Mapped(s) /\ IsFiniteSet(done) /\ done \in SUBSET Nat /\ done \subseteq 1..NPages
  BY <1>2, FS_Subset DEF Done
<1>5. used' = used \cup got
  BY DEF ForkCow, Got
<1>6. /\ pt' = IF done = Mapped(s) THEN [pt EXCEPT ![s] = old, ![new] = young]
               ELSE [pt EXCEPT ![s] = old, ![new] = [p \in Pages |-> NoPage]]
  <2>1. Downgraded(s, done, new) = [pt EXCEPT ![s] = old, ![new] = young]
    BY DEF Downgraded, Marked
  <2>2. [Downgraded(s, done, new) EXCEPT ![new] = [p \in Pages |-> NoPage]]
          = [pt EXCEPT ![s] = old, ![new] = [p \in Pages |-> NoPage]]
    BY <1>1, <2>1 DEF Typed
  <2>3. pt' = IF done = Mapped(s) THEN Downgraded(s, done, new)
              ELSE [Downgraded(s, done, new) EXCEPT ![new] = [p \in Pages |-> NoPage]]
    BY DEF ForkCow, Done, Got
  <2> QED BY <2>1, <2>2, <2>3
<1>7. \A r \in Spaces, p \in Pages :
          pt'[r][p] = IF r = s THEN IF p \in done /\ pt[r][p].w THEN Marked(pt[r][p].f) ELSE pt[r][p]
                      ELSE IF r = new
                      THEN IF done # Mapped(s) \/ p \notin done THEN NoPage ELSE cow(p)
                      ELSE pt[r][p]
  BY <1>1, <1>6 DEF Typed
<1>8. pt' \in [Spaces -> [Pages -> Entries]]
  <2>0. \A p \in Pages : pt[s][p] \in Entries /\ NoPage \in Entries
    BY <1>1, EntryFields DEF Typed
  <2>1. \A p \in Pages : cow(p) \in Entries
    BY <2>0, EntryFields
  <2> HIDE DEF cow
  <2>2. old \in [Pages -> Entries] /\ young \in [Pages -> Entries]
        /\ [p \in Pages |-> NoPage] \in [Pages -> Entries]
    BY <2>0, <2>1
  <2> HIDE DEF old, young, done
  <2> QED BY <1>1, <1>6, <2>2 DEF Typed
<1>9. tab' = [tab EXCEPT ![new] = T]
  BY DEF ForkCow, Done, Got, Rank
<1>10. /\ \A k \in 0..(Cardinality(got) - 1) : nth(k) \in got /\ Rank(got, nth(k)) = k
       /\ \A f \in got : Rank(got, f) \in 0..(Cardinality(got) - 1) /\ f = nth(Rank(got, f))
  BY <1>3, ByRank
<1>11. \A p \in done : Rank(done, p) \in Nat
                       /\ Cardinality({q \in done : q <= p}) = Rank(done, p) + 1
  <2> TAKE p \in done
  <2>1. IsFiniteSet({q \in done : q < p}) /\ Rank(done, p) \in Nat
    BY <1>4, FS_Subset, FS_CardinalityType DEF Rank
  <2>2. {q \in done : q <= p} = {q \in done : q < p} \cup {p} /\ p \notin {q \in done : q < p}
    BY <1>4
  <2> QED BY <2>1, <2>2, FS_AddElement DEF Rank
<1>12. Cardinality(got) >= 1
  BY <1>1, <1>3, FS_EmptySet
<1>13. CASE done # Mapped(s)
  <2>1. T \in [0..NPages -> 0..NFrames]
    BY <1>13, Bounds
  <2> HIDE DEF T, nth
  <2> QED BY <1>1, <1>3, <1>4, <1>5, <1>7, <1>8, <1>9, <1>13, <2>1
<1>14. CASE done = Mapped(s)
  <2>1. Cardinality(got) = Cardinality(done) + 1 /\ Cardinality(done) \in Nat
    <3>1. CASE done = {}
      BY <1>2, <1>3, <1>12, <1>14, <3>1, FS_EmptySet
    <3>2. CASE done # {}
      <4>1. Cardinality(done) \in Nat /\ Cardinality(done) # 0
        BY <1>2, <1>14, <3>2, FS_EmptySet
      <4>2. PICK p \in done : Rank(done, p) = Cardinality(done) - 1
        BY <1>4, <4>1, Ranks
      <4>3. Rank(Mapped(s), p) + 1 < Cardinality(got)
        BY DEF Done, Rank
      <4>4. Cardinality(done) - 1 + 1 < Cardinality(got)
        BY <1>14, <4>2, <4>3
      <4> QED BY <1>3, <1>14, <4>1, <4>4
    <3> QED BY <3>1, <3>2
  <2>2. /\ \A p \in done : Rank(done, p) \in 0..(Cardinality(done) - 1)
        /\ \A p, q \in done : Rank(done, p) = Rank(done, q) => p = q
        /\ \A k \in 0..(Cardinality(done) - 1) : \E p \in done : Rank(done, p) = k
    BY <1>4, Ranks
  <2>3. \A p \in done : Cardinality({q \in done : q <= p}) \in 1..(Cardinality(got) - 1)
    BY <1>11, <2>1, <2>2
  <2> HIDE DEF nth
  <2>4. T[0] = nth(0) /\ \A p \in 1..NPages : T[p] = IF p \in done THEN nth(Rank(done, p) + 1) ELSE 0
    BY <1>4, <1>11, <1>14, Bounds
  <2>5. T = [p \in 0..NPages |-> T[p]] /\ \A p \in 0..NPages : p = 0 \/ p \in 1..NPages
    BY Bounds
  <2> HIDE DEF T
  <2>6. nth(0) \in got /\ \A p \in done : nth(Rank(done, p) + 1) \in got
    BY <1>10, <1>12, <2>1, <2>2
  <2>7. got \subseteq 0..NFrames /\ 0 \notin got
    BY <1>3, Bounds DEF Frames
  <2>8. T \in [0..NPages -> 0..NFrames] /\ T[0] # 0
    <3>1. ASSUME NEW p \in 0..NPages PROVE T[p] \in 0..NFrames
      <4>1. 0 \in 0..NFrames
        BY Bounds
      <4>2. CASE p = 0
        BY <2>4, <2>6, <2>7, <4>2
      <4>3. CASE p \in 1..NPages
        BY <2>4, <2>6, <2>7, <4>1, <4>3
      <4> QED BY <2>5, <4>2, <4>3
    <3>2. T[0] # 0
      BY <2>4, <2>6, <2>7
    <3> QED BY <2>5, <3>1, <3>2
  <2>9. \A p, q \in 0..NPages : T[p] = T[q] /\ T[p] # 0 => p = q
    <3>1. \A p \in done : nth(Rank(done, p) + 1) # nth(0)
      BY <1>10, <1>12, <2>1, <2>2
    <3>2. \A p, q \in done : nth(Rank(done, p) + 1) = nth(Rank(done, q) + 1) => p = q
      BY <1>10, <2>1, <2>2
    <3>3. \A p \in 0..NPages : p = 0 \/ p \in 1..NPages
      BY Bounds
    <3> QED BY <2>4, <3>1, <3>2, <3>3
  <2>10. \A f \in Frames : f \in got <=> \E p \in 0..NPages : T[p] = f
    <3> TAKE f \in Frames
    <3>1. ASSUME f \in got PROVE \E p \in 0..NPages : T[p] = f
      <4>1. Rank(got, f) \in 0..(Cardinality(got) - 1) /\ f = nth(Rank(got, f))
        BY <1>10, <3>1
      <4>2. CASE Rank(got, f) = 0
        BY <2>4, <4>1, <4>2, Bounds
      <4>3. CASE Rank(got, f) # 0
        <5>1. PICK p \in done : Rank(done, p) = Rank(got, f) - 1
          BY <2>1, <2>2, <4>1, <4>3
        <5>2. Rank(done, p) + 1 = Rank(got, f)
          BY <4>1, <5>1
        <5> QED BY <1>4, <2>4, <4>1, <5>2
      <4> QED BY <4>2, <4>3
    <3>2. ASSUME NEW p \in 0..NPages, T[p] = f PROVE f \in got
      <4>1. f # 0
        BY DEF Frames
      <4>2. p = 0 \/ p \in 1..NPages
        BY Bounds
      <4> QED BY <2>4, <2>6, <3>2, <4>1, <4>2
    <3> QED BY <3>1, <3>2
  <2> QED BY <1>1, <1>3, <1>4, <1>5, <1>7, <1>8, <1>9, <2>8, <2>9, <2>10
<1> QED BY <1>13, <1>14

\* What the thread parts of the types need of a step that changes one thread's work.
LEMMA WorkSet ==
    ASSUME Typed, NEW t \in Threads, NEW c \in Works, WorkOK(c), sp' = sp, forks' = forks, sp[t] # 0,
           c.space <= forks + 1, pc' = [pc EXCEPT ![t] = c]
    PROVE  /\ pc' \in [Threads -> Works] /\ \A u \in Threads : WorkOK(pc'[u])
           /\ \A u \in Threads : /\ pc'[u] # Idle => sp'[u] # 0
                                 /\ sp'[u] <= forks' + 1 /\ pc'[u].space <= forks' + 1
BY DEF Typed

\* An idle thread's work.
LEMMA IdleOK == Idle \in Works /\ WorkOK(Idle) /\ Idle.space = 0 /\ Idle.at = "idle"
BY Bounds DEF Idle, Works, WorkOK, Work

\* The parts of a work.
LEMMA WorkFields ==
    \A a, p, f, n, s : /\ Work(a, p, f, n, s).at = a /\ Work(a, p, f, n, s).page = p
                       /\ Work(a, p, f, n, s).f = f /\ Work(a, p, f, n, s).new = n
                       /\ Work(a, p, f, n, s).space = s
BY DEF Work

\* When a record of work in progress has its type and is coherent.
LEMMA WorkTyped ==
    ASSUME NEW a \in {"cow", "exec", "shoot", "acks", "stack", "mark"}, NEW p \in 0..NPages,
           NEW f \in 0..NFrames, NEW n \in 0..NFrames, NEW s \in 0..(MaxForks + 1)
    PROVE  /\ Work(a, p, f, n, s) \in Works
           /\ WorkOK(Work(a, p, f, n, s)) <=>
                  /\ a = "cow" => p \in Pages /\ f # 0 /\ s = 0
                  /\ a \in {"exec", "shoot", "acks"} => s # 0
                  /\ a = "mark" => Stack(f) \subseteq Frames /\ f # 0
           /\ Work(a, p, f, n, s) # Idle
<1>1. Work(a, p, f, n, s) \in Works
  BY DEF Work, Works
<1>2. Work(a, p, f, n, s).at # "idle"
  BY WorkFields
<1>3. Work(a, p, f, n, s) # Idle
  BY <1>2, IdleOK
<1> QED BY <1>1, <1>2, <1>3, WorkFields DEF WorkOK

\* The same for sbrk.
LEMMA HeapTyped ==
    ASSUME NEW a \in {"grow", "unmap"}, NEW p \in Pages, NEW n \in Nat,
           a = "unmap" => n \in Pages
    PROVE  /\ Work(a, p, 0, n, 0) \in Works /\ WorkOK(Work(a, p, 0, n, 0))
           /\ Work(a, p, 0, n, 0) # Idle /\ Work(a, p, 0, n, 0).space = 0
<1>1. p \in 0..NPages /\ 0 \in 0..NFrames /\ 0 \in 0..(MaxForks + 1)
  BY Bounds DEF Pages
<1>2. Work(a, p, 0, n, 0) \in Works
  BY <1>1 DEF Work, Works
<1>3. Work(a, p, 0, n, 0).at # "idle" /\ Work(a, p, 0, n, 0).space = 0
  BY WorkFields
<1>4. Work(a, p, 0, n, 0) # Idle
  BY <1>3, IdleOK
<1> QED BY <1>2, <1>3, <1>4, WorkFields DEF WorkOK

\* A thread that is killed leaves the way one that exits does.
LEMMA KilledLeaves ==
    ASSUME NEW t, NEW p, Killed(t, p)
    PROVE  Exit(t)
BY DEF Killed, Exit

\* Every step keeps the types.
LEMMA TypedInd == Typed /\ [Next]_vars => Typed'
<1> SUFFICES ASSUME Typed, [Next]_vars PROVE Typed'
  OBVIOUS
<1> DEFINE PcOK == /\ pc' \in [Threads -> Works] /\ \A u \in Threads : WorkOK(pc'[u])
                   /\ \A u \in Threads : /\ pc'[u] # Idle => sp'[u] # 0
                                         /\ sp'[u] <= forks' + 1 /\ pc'[u].space <= forks' + 1
<1>a. UNCHANGED <<pc, sp, forks>> => PcOK
  BY DEF Typed
<1>c. ASSUME NEW t \in Threads, Call(t) PROVE sp[t] \in Spaces /\ sp[t] # 0 /\ pc[t] = Idle
  BY <1>c, Bounds, SMTT(30) DEF Call, Step, Typed, Spaces
<1>d. Count => ops' \in Nat
  BY DEF Count, Typed
<1>e. [p \in Pages |-> NoPage] \in [Pages -> Entries]
  BY EntryFields
<1>f. \A t \in Threads : pc[t] \in Works /\ WorkOK(pc[t]) /\ pc[t].space <= forks + 1
                         /\ (pc[t] # Idle => sp[t] # 0)
  BY DEF Typed
<1>1. ASSUME NEW t \in Threads, NEW p \in Pages, Store(t, p) PROVE Typed'
  <2>1. Entry(t, p) \in Entries /\ Entry(t, p).f \in Frames
    BY <1>1, <1>c, EntryIn, EntryFields DEF Store
  <2>2. t \in 0..NThreads
    BY Bounds DEF Threads
  <2>3. tlb' \in [Threads -> [Pages -> Entries]] /\ mem' \in [Frames -> 0..NThreads]
    BY <1>1, <2>1, <2>2 DEF Store, Typed
  <2>4. want' \in [Spaces -> [Pages -> 0..NThreads]]
    <3>1. \A s \in Spaces : [want[s] EXCEPT ![p] = t] \in [Pages -> 0..NThreads]
      BY <2>2 DEF Typed
    <3> QED BY <1>1, <3>1 DEF Store, Typed
  <2> QED BY <1>1, <1>a, <1>d, <2>3, <2>4 DEF Store, Typed, tvars
<1>2. ASSUME NEW t \in Threads, NEW p \in Pages, CowFault(t, p) PROVE Typed'
  <2> DEFINE e == pt[sp[t]][p]
             n == IF Shared(e.f) THEN Alloc(used) ELSE 0
             c == Work("cow", p, e.f, n, 0)
  <2>1. e \in Entries /\ e.f \in Frames /\ sp[t] # 0 /\ e.f \in 0..NFrames /\ e.f # 0 /\ p \in 0..NPages
    <3>1. Call(t) /\ e.cow
      BY <1>2 DEF CowFault
    <3>2. sp[t] # 0
      BY <1>c, <3>1
    <3>3. e \in Entries
      BY <3>2, EntryIn
    <3>4. e.f \in Frames
      BY <3>1, <3>3, EntryFields
    <3> QED BY <3>2, <3>3, <3>4, Bounds DEF Frames, Pages
  <2>2. Shared(e.f) => Alloc(used) \in Frames
    BY <1>2, AllocFree DEF CowFault
  <2>3. n \in 0..NFrames
    BY <2>2, Bounds DEF Frames
  <2>4. pc' = [pc EXCEPT ![t] = c]
    BY <1>2 DEF CowFault
  <2>5. used' \subseteq Frames /\ mem' \in [Frames -> 0..NThreads]
    <3>1. CASE Shared(e.f)
      <4>1. used' = used \cup {Alloc(used)} /\ mem' = [mem EXCEPT ![Alloc(used)] = mem[e.f]]
        BY <1>2, <3>1 DEF CowFault
      <4>2. mem[e.f] \in 0..NThreads
        BY <2>1 DEF Typed
      <4> HIDE DEF e
      <4> QED BY <2>2, <3>1, <4>1, <4>2 DEF Typed
    <3>2. CASE ~Shared(e.f)
      BY <1>2, <3>2 DEF CowFault, Typed
    <3> QED BY <3>1, <3>2
  <2> HIDE DEF n, e
  <2>6. c \in Works /\ WorkOK(c) /\ c.space = 0
    BY <2>1, <2>3, Bounds, WorkTyped, WorkFields
  <2> HIDE DEF c
  <2>7. UNCHANGED <<sp, forks>> /\ 0 <= forks + 1
    BY <1>2, Bounds DEF CowFault, Typed
  <2>8. PcOK
    BY <2>1, <2>4, <2>6, <2>7, WorkSet
  <2> QED BY <1>2, <1>d, <2>5, <2>8 DEF CowFault, Typed
<1>3. ASSUME NEW t \in Threads, CowResolve(t) PROVE Typed'
  <2> DEFINE c == pc[t]
             n == IF c.new = 0 THEN c.f ELSE c.new
  <2>1. c.page \in Pages /\ c.f \in Frames /\ n \in Frames /\ sp[t] # 0
    <3>1. c.at = "cow" /\ c # Idle
      BY <1>3, IdleOK DEF CowResolve
    <3>2. c.page \in Pages /\ c.f # 0 /\ c.new \in 0..NFrames /\ c.f \in 0..NFrames /\ sp[t] # 0
      BY <1>f, <3>1 DEF WorkOK, Works
    <3> QED BY <3>2, Bounds DEF Frames
  <2>2. sp[t] \in Spaces
    BY <2>1, EntryIn
  <2>3. pt' \in [Spaces -> [Pages -> Entries]]
    <3>1. pt' = [pt EXCEPT ![sp[t]][c.page] = Writable(n)]
      BY <1>3 DEF CowResolve, Writable
    <3>2. Writable(n) \in Entries
      BY <2>1, EntryFields
    <3> QED BY <2>1, <2>2, <3>1, <3>2 DEF Typed
  <2>4. tlb' \in [Threads -> [Pages -> Entries]]
    BY <1>3, EntryFields DEF CowResolve, Typed
  <2>5. used' \subseteq Frames /\ refs' \in [Frames -> Nat]
    <3>1. CASE c.new = 0
      BY <1>3, <3>1 DEF CowResolve, Typed, Set, Now
    <3>2. CASE c.new # 0
      BY <1>3, <2>1, <3>2, ReleaseTypes DEF CowResolve, Typed
    <3> QED BY <3>1, <3>2
  <2>6. PcOK
    <3>1. UNCHANGED <<sp, forks>> /\ pc' = [pc EXCEPT ![t] = Idle]
      BY <1>3 DEF CowResolve
    <3>2. Idle.space <= forks + 1
      BY IdleOK, Bounds DEF Typed
    <3> HIDE DEF c, n
    <3> QED BY <2>1, <3>1, <3>2, IdleOK, WorkSet
  <2>7. UNCHANGED <<mem, tab, sp, brk, kst, ipi, acks, want, lost, ops, forks>>
    BY <1>3 DEF CowResolve
  <2> QED BY <2>3, <2>4, <2>5, <2>6, <2>7 DEF Typed
<1>4. ASSUME NEW t \in Threads, NEW p \in Pages, KernelWrite(t, p) PROVE Typed'
  <2>1. Call(t)
    BY <1>4 DEF KernelWrite
  <2>2. sp[t] \in Spaces /\ t \in 0..NThreads
    BY <1>c, <2>1, Bounds DEF Threads
  <2>3. mem' \in [Frames -> 0..NThreads] /\ want' \in [Spaces -> [Pages -> 0..NThreads]]
    BY <1>4, <2>2 DEF KernelWrite, Typed
  <2> QED BY <1>4, <1>a, <1>d, <2>3 DEF KernelWrite, Typed, tvars
<1>5. ASSUME NEW t \in Threads, SbrkGrow(t) PROVE Typed'
  <2> DEFINE c == Work("grow", brk[t] + 1, 0, 0, 0)
  <2>1. sp[t] # 0 /\ brk[t] + 1 \in Pages
    <3>1. brk[t] \in 1..NPages /\ brk[t] < NPages
      BY <1>5 DEF SbrkGrow, Typed, Pages
    <3>2. sp[t] # 0
      BY <1>5, <1>c DEF SbrkGrow
    <3> QED BY <3>1, <3>2, Bounds DEF Pages
  <2>2. c \in Works /\ WorkOK(c) /\ c.space <= forks + 1
    <3>1. 0 \in Nat /\ 0 <= forks + 1
      BY Bounds DEF Typed
    <3> QED BY <2>1, <3>1, HeapTyped
  <2>3. pc' = [pc EXCEPT ![t] = c] /\ UNCHANGED <<sp, forks>>
    BY <1>5 DEF SbrkGrow
  <2> HIDE DEF c
  <2>4. PcOK
    BY <2>1, <2>2, <2>3, WorkSet
  <2> QED BY <1>5, <1>d, <2>4 DEF SbrkGrow, Typed, mvars
<1>k. ASSUME NEW t \in Threads, pc[t].at \in {"grow", "unmap"}
      PROVE  sp[t] \in Spaces /\ sp[t] # 0 /\ pc[t].page \in Pages /\ pc[t].new \in Nat
  <2>1. pc[t] # Idle /\ pc[t].page \in Pages /\ pc[t].new \in Nat
    BY <1>f, <1>k, IdleOK DEF WorkOK, Works
  <2>2. sp[t] \in 0..(MaxForks + 1) /\ sp[t] # 0
    BY <1>f, <2>1 DEF Typed
  <2> QED BY <2>1, <2>2, Bounds DEF Spaces
<1>22. ASSUME NEW t \in Threads, NEW last \in BOOLEAN, SbrkPage(t, last) PROVE Typed'
  <2>0. pc[t].at = "grow"
    BY <1>22 DEF SbrkPage
  <2>1. PICK s \in Spaces, p \in Pages : s = sp[t] /\ p = pc[t].page
    BY <1>k, <2>0
  <2> DEFINE n == IF tab[s][p] = 0 THEN 2 ELSE 1
             leaf == HeapFrames(s, p)
  <2>2. n \in {1, 2} /\ Cardinality(leaf) = n /\ leaf = AllocMany(used, n)
    BY <1>22, <2>1 DEF SbrkPage, CanMap, HeapFrames
  <2>3. leaf \subseteq Frames /\ Min(leaf) \in Frames /\ Max(leaf) \in Frames
    <3> HIDE DEF n, leaf
    <3> QED BY <2>2, LeafFrames
  <2>4. /\ used' = used \cup leaf /\ mem' = [mem EXCEPT ![Min(leaf)] = 0]
        /\ pt' = [pt EXCEPT ![s][p] = Writable(Min(leaf))]
        /\ tab' = [tab EXCEPT ![s][p] = IF tab[s][p] = 0 THEN Max(leaf) ELSE tab[s][p]]
        /\ brk' = (IF last THEN [brk EXCEPT ![t] = p] ELSE brk) /\ want' = [want EXCEPT ![s][p] = 0]
    BY <1>22, <2>1 DEF SbrkPage, Writable
  <2>5. Writable(Min(leaf)) \in Entries /\ Max(leaf) \in 0..NFrames
    BY <2>3, EntryFields, Bounds DEF Frames
  <2> HIDE DEF leaf, n
  <2>6. /\ pt' \in [Spaces -> [Pages -> Entries]] /\ tab' \in [Spaces -> [0..NPages -> 0..NFrames]]
        /\ used' \subseteq Frames
    <3>1. p \in 0..NPages /\ tab[s][p] \in 0..NFrames
      BY Bounds DEF Pages, Typed
    <3>2. PICK k \in 0..NFrames : tab' = [tab EXCEPT ![s][p] = k]
      BY <2>4, <2>5, <3>1
    <3>3. tab' \in [Spaces -> [0..NPages -> 0..NFrames]]
      BY <3>1, <3>2 DEF Typed
    <3>4. pt' \in [Spaces -> [Pages -> Entries]]
      BY <2>4, <2>5 DEF Typed
    <3>5. used' \subseteq Frames
      BY <2>3, <2>4 DEF Typed
    <3> QED BY <3>3, <3>4, <3>5
  <2>7. brk' \in [Threads -> Pages]
    BY <2>4 DEF Typed
  <2>8. mem' \in [Frames -> 0..NThreads] /\ want' \in [Spaces -> [Pages -> 0..NThreads]]
    BY <2>3, <2>4, Bounds, SMTT(30) DEF Typed
  <2>9. PICK c \in Works : pc' = [pc EXCEPT ![t] = c] /\ WorkOK(c) /\ c.space <= forks + 1
    <3>1. 0 <= forks + 1 /\ 0 \in Nat
      BY Bounds DEF Typed
    <3>2. CASE last
      <4>1. pc' = [pc EXCEPT ![t] = Idle]
        BY <1>22, <3>2 DEF SbrkPage
      <4> QED BY <3>1, <4>1, IdleOK
    <3>3. CASE ~last
      <4>1. pc' = [pc EXCEPT ![t] = Work("grow", p + 1, 0, 0, 0)] /\ p < NPages
        BY <1>22, <2>1, <3>3 DEF SbrkPage
      <4>2. p + 1 \in Pages
        BY <4>1, Bounds DEF Pages
      <4> QED BY <3>1, <4>1, <4>2, HeapTyped
    <3> QED BY <3>2, <3>3
  <2>10. UNCHANGED <<sp, forks>> /\ sp[t] # 0
    BY <1>22, <1>k, <2>0 DEF SbrkPage
  <2>11. PcOK
    BY <2>9, <2>10, WorkSet
  <2> QED BY <1>22, <2>6, <2>7, <2>8, <2>11 DEF SbrkPage, Typed
<1>23. ASSUME NEW t \in Threads, SbrkFails(t) PROVE Typed'
  <2>0. pc[t].at = "grow" /\ UNCHANGED <<sp, forks>>
    BY <1>23 DEF SbrkFails, hvars
  <2>1. pc[t].page \in 1..NPages /\ brk[t] \in 1..NPages /\ sp[t] # 0
    BY <1>k, <2>0 DEF Pages, Typed
  <2>3. PICK c \in Works : pc' = [pc EXCEPT ![t] = c] /\ WorkOK(c) /\ c.space <= forks + 1
    <3>1. 0 <= forks + 1
      BY Bounds DEF Typed
    <3>2. CASE pc[t].page <= brk[t] + 1
      <4>1. pc' = [pc EXCEPT ![t] = Idle]
        BY <1>23, <3>2 DEF SbrkFails
      <4> QED BY <3>1, <4>1, IdleOK
    <3>3. CASE ~(pc[t].page <= brk[t] + 1)
      <4>1. pc' = [pc EXCEPT ![t] = Work("unmap", brk[t] + 1, 0, pc[t].page - 1, 0)]
        BY <1>23, <3>3 DEF SbrkFails
      <4>2. /\ brk[t] + 1 \in Pages /\ pc[t].page - 1 \in Pages /\ pc[t].page - 1 \in Nat
        BY <2>1, <3>3, Bounds DEF Pages
      <4> QED BY <3>1, <4>1, <4>2, HeapTyped
    <3> QED BY <3>2, <3>3
  <2>4. PcOK
    BY <2>0, <2>1, <2>3, WorkSet
  <2> QED BY <1>23, <2>4 DEF SbrkFails, Typed, mvars, hvars
<1>6. ASSUME NEW t \in Threads, NEW b \in Pages, SbrkShrink(t, b) PROVE Typed'
  <2> DEFINE c == Work("unmap", b + 1, 0, brk[t], 0)
  <2>1. sp[t] # 0 /\ b + 1 \in Pages /\ brk[t] \in Pages /\ brk[t] \in Nat
    <3>1. b \in 1..NPages /\ brk[t] \in 1..NPages /\ b < brk[t]
      BY <1>6 DEF SbrkShrink, Typed, Pages
    <3>2. sp[t] # 0
      BY <1>6, <1>c DEF SbrkShrink
    <3> QED BY <3>1, <3>2, Bounds DEF Pages
  <2>2. c \in Works /\ WorkOK(c) /\ c.space <= forks + 1
    <3>1. 0 <= forks + 1
      BY Bounds DEF Typed
    <3> QED BY <2>1, <3>1, HeapTyped
  <2>3. pc' = [pc EXCEPT ![t] = c] /\ UNCHANGED <<sp, forks>> /\ brk' = [brk EXCEPT ![t] = b]
    BY <1>6 DEF SbrkShrink
  <2> HIDE DEF c
  <2>4. PcOK
    BY <2>1, <2>2, <2>3, WorkSet
  <2> QED BY <1>6, <1>d, <2>3, <2>4 DEF SbrkShrink, Typed, mvars
<1>24. ASSUME NEW t \in Threads, SbrkUnmap(t) PROVE Typed'
  <2>0. pc[t].at = "unmap" /\ UNCHANGED <<sp, forks>>
    BY <1>24 DEF SbrkUnmap
  <2>1. PICK s \in Spaces, p \in Pages : s = sp[t] /\ p = pc[t].page
    BY <1>k, <2>0
  <2>2. pt[s][p].f # 0 => pt[s][p].f \in Frames
    BY EntryFields DEF Typed
  <2>3. used' \subseteq Frames /\ refs' \in [Frames -> Nat]
    <3>1. CASE pt[s][p].f = 0
      BY <1>24, <2>1, <3>1 DEF SbrkUnmap, Typed
    <3>2. CASE pt[s][p].f # 0
      BY <1>24, <2>1, <2>2, <3>2, ReleaseTypes DEF SbrkUnmap, Typed
    <3> QED BY <3>1, <3>2
  <2>4. pt' \in [Spaces -> [Pages -> Entries]] /\ tlb' \in [Threads -> [Pages -> Entries]]
    BY <1>24, <2>1, EntryFields DEF SbrkUnmap, Typed
  <2>5. PICK c \in Works : pc' = [pc EXCEPT ![t] = c] /\ WorkOK(c) /\ c.space <= forks + 1
    <3>1. 0 <= forks + 1
      BY Bounds DEF Typed
    <3>2. CASE p >= pc[t].new
      <4>1. pc' = [pc EXCEPT ![t] = Idle]
        BY <1>24, <2>1, <3>2 DEF SbrkUnmap
      <4> QED BY <3>1, <4>1, IdleOK
    <3>3. CASE ~(p >= pc[t].new)
      <4>1. pc' = [pc EXCEPT ![t] = Work("unmap", p + 1, 0, pc[t].new, 0)]
        BY <1>24, <2>1, <3>3 DEF SbrkUnmap
      <4>2. pc[t].new \in Pages
        BY <1>f, <2>0, <2>1 DEF WorkOK
      <4>3. p + 1 \in Pages /\ pc[t].new \in Nat
        BY <3>3, <4>2, Bounds DEF Pages
      <4> QED BY <3>1, <4>1, <4>2, <4>3, HeapTyped
    <3> QED BY <3>2, <3>3
  <2>6. PcOK
    BY <1>k, <2>0, <2>5, WorkSet
  <2> QED BY <1>24, <2>3, <2>4, <2>6 DEF SbrkUnmap, Typed
<1>25. ASSUME NEW t \in Threads, NEW p \in Pages, Load(t, p) PROVE Typed'
  <2>1. pt[sp[t]][p] \in Entries
    <3>1. sp[t] # 0
      BY <1>25 DEF Load, Step
    <3> QED BY <3>1, EntryIn
  <2>2. tlb' \in [Threads -> [Pages -> Entries]]
    BY <1>25, <2>1 DEF Load, Typed
  <2> QED BY <1>25, <1>a, <2>2 DEF Load, Typed, tvars, hvars
<1>g. ASSUME NEW s \in Spaces, Dropped(s)
      PROVE  pt' \in [Spaces -> [Pages -> Entries]] /\ tab' \in [Spaces -> [0..NPages -> 0..NFrames]]
  BY <1>e, <1>g, Bounds DEF Dropped, Typed
<1>h. ASSUME NEW s \in Spaces, NEW root, Set(Teardown(Now, s, root))
      PROVE  used' \subseteq Frames /\ refs' \in [Frames -> Nat]
  BY <1>h, TeardownTypes DEF Typed
<1>i. ASSUME forks < MaxForks PROVE forks + 2 \in Spaces /\ forks + 1 \in 0..MaxForks
  BY <1>i, Bounds DEF Spaces, Typed
<1>j. ASSUME NEW s \in Spaces, Complete, Built(s)
      PROVE  /\ Image \subseteq Frames /\ forks' = forks + 1
             /\ mem' \in [Frames -> 0..NThreads] /\ pt' \in [Spaces -> [Pages -> Entries]]
             /\ tab' \in [Spaces -> [0..NPages -> 0..NFrames]]
             /\ want' \in [Spaces -> [Pages -> 0..NThreads]]
  <2>1. PICK a, b, c \in Frames :
               /\ Image = {a, b, c}
               /\ mem' = [mem EXCEPT ![b] = 0]
               /\ pt' = [pt EXCEPT ![s][1] = Writable(b)]
               /\ tab' = [tab EXCEPT ![s] = [p \in 0..NPages |->
                              CASE p = 0 -> a [] p = 1 -> c [] OTHER -> 0]]
               /\ want' = [want EXCEPT ![s] = [p \in Pages |-> 0]]
               /\ forks' = forks + 1
    BY <1>j, BuiltEffect
  <2>2. Writable(b) \in Entries /\ 1 \in Pages /\ 0 \in 0..NThreads /\ 0 \in 0..NFrames
        /\ a \in 0..NFrames /\ c \in 0..NFrames
    BY EntryFields, Bounds DEF Pages, Frames
  <2>3. pt' \in [Spaces -> [Pages -> Entries]] /\ mem' \in [Frames -> 0..NThreads]
        /\ want' \in [Spaces -> [Pages -> 0..NThreads]]
    BY <2>1, <2>2 DEF Typed
  <2>4. [p \in 0..NPages |-> CASE p = 0 -> a [] p = 1 -> c [] OTHER -> 0] \in [0..NPages -> 0..NFrames]
    BY <2>2
  <2> QED BY <2>1, <2>3, <2>4 DEF Typed
<1>l. BuildLeaks \subseteq Frames
  <2>1. Image \subseteq Frames /\ IsFiniteSet(Image)
    BY ImageTaken
  <2>2. Cardinality(Image) = 2 => Max(Image) \in Image
    <3>1. Cardinality(Image) = 2 => Image # {}
      BY FS_EmptySet
    <3>2. Image \in SUBSET (0..NFrames)
      BY <2>1, Bounds DEF Frames
    <3> QED BY <3>1, <3>2, MaxIn, Bounds
  <2> QED BY <2>1, <2>2 DEF BuildLeaks
<1>7. ASSUME NEW t \in Threads, ExecBuild(t) PROVE Typed'
  <2>1. CASE Complete
    <3> DEFINE c == Work("exec", 0, 0, 0, forks + 2)
    <3>1. forks + 2 \in Spaces /\ forks + 1 \in 0..MaxForks /\ sp[t] # 0
      BY <1>7, <1>c, <1>i DEF ExecBuild
    <3>2. forks + 2 \in 0..(MaxForks + 1) /\ forks + 2 # 0
      BY <3>1, Bounds DEF Spaces
    <3>3. c \in Works /\ WorkOK(c) /\ c.space = forks + 2
      BY <3>2, Bounds, WorkTyped, WorkFields
    <3>4. /\ Image \subseteq Frames /\ forks' = forks + 1
          /\ mem' \in [Frames -> 0..NThreads] /\ pt' \in [Spaces -> [Pages -> Entries]]
          /\ tab' \in [Spaces -> [0..NPages -> 0..NFrames]]
          /\ want' \in [Spaces -> [Pages -> 0..NThreads]]
      BY <1>7, <1>j, <2>1, <3>1 DEF ExecBuild
    <3>5. pc' = [pc EXCEPT ![t] = c] /\ sp' = sp /\ used' = used \cup Image
      BY <1>7, <2>1 DEF ExecBuild
    <3> HIDE DEF c
    <3>6. PcOK
      <4>1. pc' \in [Threads -> Works] /\ \A u \in Threads : WorkOK(pc'[u])
        BY <3>3, <3>5 DEF Typed
      <4>2. \A u \in Threads : (pc'[u] # Idle => sp'[u] # 0)
        BY <3>1, <3>5 DEF Typed
      <4>3. \A u \in Threads : sp'[u] <= forks' + 1 /\ pc'[u].space <= forks' + 1
        <5> TAKE u \in Threads
        <5>1. sp[u] <= forks + 1 /\ pc[u].space <= forks + 1 /\ sp[u] \in Nat /\ pc[u].space \in Nat
              /\ forks \in Nat
          BY Bounds DEF Typed, Works
        <5>2. pc'[u] = IF u = t THEN c ELSE pc[u]
          BY <3>5 DEF Typed
        <5> QED BY <3>3, <3>4, <3>5, <5>1, <5>2
      <4> QED BY <4>1, <4>2, <4>3
    <3> QED BY <1>7, <1>d, <3>1, <3>4, <3>5, <3>6 DEF ExecBuild, Typed
  <2>2. CASE ~Complete
    BY <1>7, <1>a, <1>d, <1>l, <2>2 DEF ExecBuild, Built, Typed
  <2> QED BY <2>1, <2>2
<1>8. ASSUME NEW t \in Threads, NEW refused \in BOOLEAN, ExecReplace(t, refused) PROVE Typed'
  <2>0. pc[t].at = "exec"
    BY <1>8 DEF ExecReplace
  <2>1. /\ pc[t].space \in Spaces /\ pc[t].space # 0 /\ pc[t].space \in 0..(MaxForks + 1)
        /\ pc[t].space <= forks + 1 /\ sp[t] \in Spaces /\ sp[t] # 0
    <3>1. pc[t].space # 0 /\ pc[t].space \in 0..(MaxForks + 1) /\ pc[t].space <= forks + 1
      BY <1>f, <2>0 DEF WorkOK, Works
    <3>2. sp[t] # 0
      BY <1>f, <2>0, IdleOK
    <3>3. sp[t] \in Spaces
      BY <3>2, EntryIn, Bounds DEF Typed, Spaces
    <3> QED BY <3>1, <3>2, <3>3, Bounds DEF Spaces
  <2>2. \/ Set(Teardown(Now, pc[t].space, {tab[pc[t].space][0]})) /\ Dropped(pc[t].space)
        \/ Set(Teardown(Now, sp[t], {tab[sp[t]][0]})) /\ Dropped(sp[t])
        \/ UNCHANGED <<used, refs, pt, tab>>
    BY <1>8 DEF ExecReplace
  <2>3. /\ used' \subseteq Frames /\ refs' \in [Frames -> Nat]
        /\ pt' \in [Spaces -> [Pages -> Entries]] /\ tab' \in [Spaces -> [0..NPages -> 0..NFrames]]
    BY <1>g, <1>h, <2>1, <2>2 DEF Typed
  <2>4. /\ tlb' = tlb \/ tlb' = [tlb EXCEPT ![t] = [p \in Pages |-> NoPage]]
        /\ sp' = sp \/ sp' = [sp EXCEPT ![t] = pc[t].space]
        /\ brk' = brk \/ brk' = [brk EXCEPT ![t] = 1]
    BY <1>8 DEF ExecReplace
  <2>5. 1 \in Pages
    BY Bounds DEF Pages
  <2>6. brk' \in [Threads -> Pages] /\ tlb' \in [Threads -> [Pages -> Entries]]
    <3>1. brk \in [Threads -> Pages] /\ tlb \in [Threads -> [Pages -> Entries]]
      BY DEF Typed
    <3>2. brk' \in [Threads -> Pages]
      BY <2>4, <2>5, <3>1
    <3>3. tlb' \in [Threads -> [Pages -> Entries]]
      <4> DEFINE none == [p \in Pages |-> NoPage]
      <4>1. none \in [Pages -> Entries]
        BY <1>e
      <4>2. tlb' = tlb \/ tlb' = [tlb EXCEPT ![t] = none]
        BY <2>4
      <4> HIDE DEF none
      <4> QED BY <3>1, <4>1, <4>2
    <3> QED BY <3>2, <3>3
  <2>7. /\ sp' \in [Threads -> 0..(MaxForks + 1)] /\ \A u \in Threads : sp[u] # 0 => sp'[u] # 0
        /\ \A u \in Threads : sp'[u] <= forks + 1
    BY <2>1, <2>4 DEF Typed
  <2>8. PcOK
    <3>1. pc' = [pc EXCEPT ![t] = Idle] /\ forks' = forks
      BY <1>8 DEF ExecReplace, hvars
    <3>2. \A u \in Threads : pc'[u] = IF u = t THEN Idle ELSE pc[u]
      BY <3>1 DEF Typed
    <3>3. pc' \in [Threads -> Works]
      BY <3>1, IdleOK DEF Typed
    <3>4. Idle.space <= forks + 1
      BY IdleOK, Bounds DEF Typed
    <3> QED BY <1>f, <2>7, <3>1, <3>2, <3>3, <3>4, IdleOK
  <2> QED BY <1>8, <2>3, <2>6, <2>7, <2>8 DEF ExecReplace, Typed, hvars
<1>9. ASSUME NEW u \in Threads, SpawnImage(u) PROVE Typed'
  <2>1. forks + 2 \in Spaces /\ forks + 1 \in 0..MaxForks
    BY <1>9, <1>i DEF SpawnImage, CanSpawn
  <2>2. /\ Image \subseteq Frames /\ forks' = forks + 1
        /\ mem' \in [Frames -> 0..NThreads] /\ pt' \in [Spaces -> [Pages -> Entries]]
        /\ tab' \in [Spaces -> [0..NPages -> 0..NFrames]]
        /\ want' \in [Spaces -> [Pages -> 0..NThreads]]
    BY <1>9, <1>j, <2>1 DEF SpawnImage
  <2>3. Min(SpawnRuns) \in Frames /\ Stack(Min(SpawnRuns)) \subseteq Frames
    BY <1>9, RunFree DEF SpawnImage, SpawnRuns
  <2>4. used' \subseteq Frames
    BY <1>9, <2>2, <2>3 DEF SpawnImage, Typed
  <2>5. kst' \in [Threads -> 0..NFrames] /\ \A t \in Threads : Stack(kst'[t]) \subseteq Frames
    BY <1>9, <2>3, Bounds, SMTT(30) DEF SpawnImage, Typed, Frames
  <2>6. /\ sp' \in [Threads -> 0..(MaxForks + 1)] /\ brk' \in [Threads -> Pages]
        /\ tlb' \in [Threads -> [Pages -> Entries]]
    <3>1. forks + 2 \in 0..(MaxForks + 1) /\ 1 \in Pages
      BY <2>1, Bounds DEF Spaces, Pages
    <3>2. /\ sp' = [sp EXCEPT ![u] = forks + 2] /\ brk' = [brk EXCEPT ![u] = 1]
          /\ tlb' = [tlb EXCEPT ![u] = [p \in Pages |-> NoPage]]
      BY <1>9 DEF SpawnImage
    <3> QED BY <1>e, <3>1, <3>2 DEF Typed
  <2>7. PcOK
    <3>1. \A t \in Threads : sp'[t] = (IF t = u THEN forks + 2 ELSE sp[t]) /\ pc'[t] = pc[t]
      BY <1>9 DEF SpawnImage, Typed
    <3>2. \A t \in Threads : sp[t] <= forks + 1 /\ sp[t] \in Nat /\ pc[t].space <= forks + 1
                             /\ pc[t].space \in Nat /\ forks \in Nat
      BY Bounds DEF Typed, Works
    <3>3. pc' = pc
      BY <1>9 DEF SpawnImage
    <3>4. \A t \in Threads : sp'[t] <= forks' + 1 /\ pc'[t].space <= forks' + 1
      BY <2>2, <3>1, <3>2
    <3>5. \A t \in Threads : pc'[t] # Idle => sp'[t] # 0
      <4>1. forks + 2 # 0
        BY Bounds DEF Typed
      <4> QED BY <1>f, <3>1, <4>1
    <3>6. pc' \in [Threads -> Works] /\ \A t \in Threads : WorkOK(pc'[t])
      BY <1>f, <3>1, <3>3 DEF Typed
    <3> QED BY <3>4, <3>5, <3>6
  <2> QED BY <1>9, <1>d, <2>1, <2>2, <2>4, <2>5, <2>6, <2>7 DEF SpawnImage, Typed
<1>10. CASE SpawnFails
  <2>1. used' \subseteq Frames
    <3>1. used \subseteq Frames
      BY DEF Typed
    <3>2. used' = used \cup Image \/ used' = used \cup BuildLeaks
      BY <1>10 DEF SpawnFails
    <3> QED BY <3>1, <3>2, <1>l, ImageTaken
  <2> QED BY <1>10, <1>a, <1>d, <2>1 DEF SpawnFails, Typed, tvars
<1>11. ASSUME NEW t \in Threads, ForkCow(t) PROVE Typed'
  <2>1. /\ sp[t] \in Spaces /\ forks + 2 \in Spaces /\ Got(t) \subseteq Frames
        /\ used' = used \cup Got(t) /\ pt' \in [Spaces -> [Pages -> Entries]]
    BY <1>11, ForkEffect
  <2>2. PICK T \in [0..NPages -> 0..NFrames] : tab' = [tab EXCEPT ![forks + 2] = T]
    BY <1>11, ForkEffect
  <2>3. tab' \in [Spaces -> [0..NPages -> 0..NFrames]]
    BY <2>2 DEF Typed
  <2>4. refs' \in [Frames -> Nat]
    <3>1. refs' = [f \in Frames |-> IF \E p \in Done(t) : pt[sp[t]][p].f = f THEN refs[f] + 1 ELSE refs[f]]
      BY <1>11 DEF ForkCow, Done, Got
    <3>2. \A f \in Frames : refs[f] \in Nat /\ refs[f] + 1 \in Nat
      BY DEF Typed
    <3> QED BY <3>1, <3>2
  <2>5. tlb' \in [Threads -> [Pages -> Entries]]
    <3>1. tlb' = [tlb EXCEPT ![t] = [p \in Pages |->
                     IF p \in Done(t) /\ pt[sp[t]][p].w THEN NoPage ELSE tlb[t][p]]]
      BY <1>11 DEF ForkCow, Done, Got
    <3>2. [p \in Pages |-> IF p \in Done(t) /\ pt[sp[t]][p].w THEN NoPage ELSE tlb[t][p]]
             \in [Pages -> Entries]
      BY EntryFields DEF Typed
    <3> QED BY <3>1, <3>2 DEF Typed
  <2>6. want' \in [Spaces -> [Pages -> 0..NThreads]]
    BY <1>11, <2>1 DEF ForkCow, Typed
  <2> DEFINE c == Work("shoot", 0, 0, 0, forks + 2)
  <2>7. forks' = forks + 1 /\ sp' = sp /\ sp[t] # 0 /\ (pc' = pc \/ pc' = [pc EXCEPT ![t] = c])
        /\ forks < MaxForks
    BY <1>11, <1>c DEF ForkCow
  <2>8. forks + 2 \in 0..(MaxForks + 1) /\ forks + 2 # 0
    BY <2>1, Bounds DEF Spaces
  <2>9. c \in Works /\ WorkOK(c) /\ c.space = forks + 2
    BY <2>8, Bounds, WorkTyped, WorkFields, SMTT(30)
  <2> HIDE DEF c
  <2>10. PcOK
    <3>1. \A u \in Threads : pc'[u] = c \/ pc'[u] = pc[u]
      BY <2>7 DEF Typed
    <3>2. pc' \in [Threads -> Works] /\ \A u \in Threads : WorkOK(pc'[u])
      BY <1>f, <2>7, <2>9 DEF Typed
    <3>3. \A u \in Threads : (pc'[u] # Idle => sp'[u] # 0)
      BY <2>7 DEF Typed
    <3>4. \A u \in Threads : sp'[u] <= forks' + 1 /\ pc'[u].space <= forks' + 1
      <4> TAKE u \in Threads
      <4>1. sp[u] <= forks + 1 /\ pc[u].space <= forks + 1 /\ sp[u] \in Nat /\ pc[u].space \in Nat
            /\ forks \in Nat
        BY Bounds DEF Typed, Works
      <4> QED BY <2>7, <2>9, <3>1, <4>1
    <3> QED BY <3>2, <3>3, <3>4
  <2>11. forks' \in 0..MaxForks
    BY <2>7, <1>i
  <2> QED BY <1>11, <1>d, <2>1, <2>3, <2>4, <2>5, <2>6, <2>10, <2>11 DEF ForkCow, Typed
<1>12. ASSUME NEW t \in Threads, Shootdown(t) PROVE Typed'
  <2> DEFINE A == {u \in Threads \ {t} : sp[u] = 0}
             B == {u \in Threads \ {t} : sp[u] # 0}
  <2>1. IsFiniteSet(Threads) /\ Cardinality(Threads) = NThreads
    <3>1. 1 \in Int /\ NThreads \in Int /\ ~(1 > NThreads)
      BY Bounds
    <3> QED BY <3>1, FS_Interval DEF Threads
  <2>2. IsFiniteSet(Threads \ {t}) /\ Cardinality(Threads \ {t}) = NThreads - 1
    BY <2>1, FS_RemoveElement
  <2>3. IsFiniteSet(A) /\ IsFiniteSet(B) /\ Cardinality(A) \in Nat /\ Cardinality(B) \in Nat
    BY <2>2, FS_Subset, FS_CardinalityType
  <2>4. A \cup B = Threads \ {t} /\ A \cap B = {}
    OBVIOUS
  <2>5. Cardinality(A) + Cardinality(B) = NThreads - 1
    <3> HIDE DEF A, B
    <3>1. Cardinality(A \cup B) = Cardinality(A) + Cardinality(B) - Cardinality(A \cap B)
      BY <2>3, FS_Union
    <3>2. Cardinality(A \cap B) = 0
      BY <2>4, FS_EmptySet
    <3>3. Cardinality(A \cup B) = NThreads - 1
      BY <2>2, <2>4
    <3> QED BY <2>3, <3>1, <3>2, <3>3, Bounds
  <2>6. acks' = Cardinality(A) /\ ipi' = (ipi \cap {t}) \cup B
    BY <1>12 DEF Shootdown
  <2>10. Cardinality(ipi') <= Cardinality(B) + 1 /\ Cardinality(ipi') \in Nat
    <3>1. t \notin B
      OBVIOUS
    <3> HIDE DEF B
    <3>2. IsFiniteSet(B \cup {t}) /\ Cardinality(B \cup {t}) = Cardinality(B) + 1
      BY <2>3, <3>1, FS_AddElement
    <3>3. ipi' \in SUBSET (B \cup {t})
      BY <2>6
    <3> QED BY <3>2, <3>3, FS_Subset, FS_CardinalityType
  <2> DEFINE c == Work("acks", 0, 0, 0, pc[t].space)
  <2>7. pc[t].at = "shoot" /\ pc' = [pc EXCEPT ![t] = c] /\ UNCHANGED <<sp, forks>>
    BY <1>12 DEF Shootdown
  <2>8. c \in Works /\ WorkOK(c) /\ sp[t] # 0 /\ c.space = pc[t].space
    <3>1. pc[t].space # 0 /\ sp[t] # 0
      BY <1>f, <2>7, IdleOK DEF WorkOK
    <3>2. pc[t].space \in 0..(MaxForks + 1)
      BY <1>f DEF Works
    <3> QED BY <3>1, <3>2, Bounds, WorkTyped, WorkFields
  <2> HIDE DEF c
  <2>9. PcOK
    BY <1>f, <2>7, <2>8, WorkSet
  <2>11. acks' + Cardinality(ipi') <= NThreads /\ acks' \in Nat
    <3> HIDE DEF A, B
    <3> QED BY <2>3, <2>5, <2>6, <2>10, Bounds
  <2>12. ipi' \subseteq Threads
    BY <2>6
  <2> HIDE DEF A, B
  <2> QED BY <1>12, <2>9, <2>11, <2>12 DEF Shootdown, Typed, mvars
<1>13. ASSUME NEW t \in Threads, OnIpi(t) PROVE Typed'
  <2>1. IsFiniteSet(Threads)
    BY Bounds, FS_Interval DEF Threads
  <2>2. IsFiniteSet(ipi) /\ Cardinality(ipi) \in Nat
    BY <2>1, FS_Subset, FS_CardinalityType DEF Typed
  <2>3. Cardinality(ipi \ {t}) = Cardinality(ipi) - 1
    BY <1>13, <2>2, FS_RemoveElement DEF OnIpi
  <2>4. acks' + Cardinality(ipi') <= NThreads /\ acks' \in Nat
    BY <1>13, <2>2, <2>3, Bounds DEF OnIpi, Typed
  <2>5. tlb' \in [Threads -> [Pages -> Entries]]
    BY <1>13, <1>e DEF OnIpi, Typed
  <2> QED BY <1>13, <1>a, <2>4, <2>5 DEF OnIpi, Typed, tvars, hvars
<1>14. ASSUME NEW t \in Threads, ShootdownEnds(t) PROVE Typed'
  <2> DEFINE c == Work("stack", 0, 0, 0, pc[t].space)
  <2>1. pc[t].at = "acks" /\ pc' = [pc EXCEPT ![t] = c] /\ UNCHANGED <<sp, forks>>
    BY <1>14 DEF ShootdownEnds, hvars
  <2>2. c \in Works /\ WorkOK(c) /\ sp[t] # 0 /\ c.space = pc[t].space
    <3>1. sp[t] # 0
      BY <1>f, <2>1, IdleOK
    <3>2. pc[t].space \in 0..(MaxForks + 1)
      BY <1>f DEF Works
    <3> QED BY <3>1, <3>2, Bounds, WorkTyped, WorkFields
  <2> HIDE DEF c
  <2>3. PcOK
    BY <1>f, <2>1, <2>2, WorkSet
  <2> QED BY <1>14, <2>3 DEF ShootdownEnds, Typed, mvars, hvars
<1>15. ASSUME NEW t \in Threads, ScanRun(t) PROVE Typed'
  <2> DEFINE b == Min(Runs)
             c == Work("mark", 0, b, 0, pc[t].space)
  <2>1. b \in Frames /\ Stack(b) \subseteq Frames /\ b \in 0..NFrames /\ b # 0
    <3>1. b \in Frames /\ Stack(b) \subseteq Frames
      BY <1>15, RunFree DEF ScanRun, Runs
    <3> HIDE DEF b
    <3> QED BY <3>1, Bounds DEF Frames
  <2>2. pc[t].at = "stack" /\ pc' = [pc EXCEPT ![t] = c] /\ UNCHANGED <<sp, forks>>
    BY <1>15 DEF ScanRun, hvars
  <2> HIDE DEF b
  <2>3. c \in Works /\ WorkOK(c) /\ sp[t] # 0 /\ c.space = pc[t].space
    <3>1. sp[t] # 0
      BY <1>f, <2>2, IdleOK
    <3>2. PICK r \in 0..(MaxForks + 1) : r = pc[t].space
      BY <1>f DEF Works
    <3>3. 0 \in 0..NPages /\ 0 \in 0..NFrames
      BY Bounds
    <3>4. /\ Work("mark", 0, b, 0, r) \in Works /\ WorkOK(Work("mark", 0, b, 0, r))
          /\ Work("mark", 0, b, 0, r).space = r
      BY <2>1, <3>2, <3>3, WorkTyped, WorkFields
    <3> QED BY <3>1, <3>2, <3>4
  <2> HIDE DEF c
  <2>4. PcOK
    BY <1>f, <2>2, <2>3, WorkSet
  <2> QED BY <1>15, <2>4 DEF ScanRun, Typed, mvars, hvars
<1>16. ASSUME NEW t \in Threads, NEW u \in Threads, MarkRun(t, u) PROVE Typed'
  <2>1. /\ Stack(pc[t].f) \subseteq Frames /\ pc[t].f \in 0..NFrames /\ sp[t] # 0
        /\ sp[t] \in 0..(MaxForks + 1) /\ sp[t] <= forks + 1
        /\ pc[t].space \in 0..(MaxForks + 1) /\ pc[t].space <= forks + 1
    BY <1>16, <1>f, IdleOK DEF MarkRun, WorkOK, Works, Typed
  <2>2. used' \subseteq Frames
    BY <1>16, <2>1 DEF MarkRun, Typed
  <2>3. kst' \in [Threads -> 0..NFrames] /\ \A v \in Threads : Stack(kst'[v]) \subseteq Frames
    BY <1>16, <2>1 DEF MarkRun, Typed
  <2>4. /\ sp' \in [Threads -> 0..(MaxForks + 1)] /\ brk' \in [Threads -> Pages]
        /\ tlb' \in [Threads -> [Pages -> Entries]] /\ \A v \in Threads : sp[v] # 0 => sp'[v] # 0
        /\ \A v \in Threads : sp'[v] <= forks + 1
    BY <1>16, <1>e, <2>1 DEF MarkRun, Typed
  <2>5. PcOK
    BY <1>16, <2>4, IdleOK, Bounds DEF MarkRun, Typed
  <2> QED BY <1>16, <2>2, <2>3, <2>4, <2>5 DEF MarkRun, Typed
<1>17. ASSUME NEW t \in Threads, ForkFails(t) PROVE Typed'
  <2>1. pc[t].space # 0 => pc[t].space \in Spaces
    BY <1>f, Bounds DEF Works, Spaces
  <2>2. sp[t] # 0
    BY <1>17, <1>f, IdleOK DEF ForkFails
  <2>3. /\ used' \subseteq Frames /\ refs' \in [Frames -> Nat]
        /\ pt' \in [Spaces -> [Pages -> Entries]] /\ tab' \in [Spaces -> [0..NPages -> 0..NFrames]]
    <3>1. CASE pc[t].space = 0
      BY <1>17, <3>1 DEF ForkFails, Typed
    <3>2. CASE pc[t].space # 0
      BY <1>17, <1>g, <1>h, <2>1, <3>2 DEF ForkFails
    <3> QED BY <3>1, <3>2
  <2>4. PcOK
    BY <1>17, <2>2, IdleOK, WorkSet, Bounds DEF ForkFails, hvars, Typed
  <2> QED BY <1>17, <2>3, <2>4 DEF ForkFails, Typed, hvars
<1>18. ASSUME NEW t \in Threads, Clone(t) PROVE Typed'
  <2> DEFINE c == Work("stack", 0, 0, 0, 0)
  <2>1. c \in Works /\ WorkOK(c) /\ c.space = 0
    BY Bounds, WorkTyped, WorkFields
  <2>2. sp[t] # 0 /\ pc' = [pc EXCEPT ![t] = c] /\ UNCHANGED <<sp, forks>> /\ 0 <= forks + 1
    BY <1>18, <1>c, Bounds DEF Clone, Typed
  <2> HIDE DEF c
  <2>3. PcOK
    BY <2>1, <2>2, WorkSet
  <2> QED BY <1>18, <1>d, <2>3 DEF Clone, Typed, mvars
<1>19. ASSUME NEW t \in Threads, Exit(t) PROVE Typed'
  <2>1. sp[t] \in Spaces /\ pc[t] = Idle
    BY <1>19, <1>c DEF Exit, Leave
  <2>2. /\ used' \subseteq Frames /\ refs' \in [Frames -> Nat] /\ lost' \subseteq 0..NFrames
        /\ pt' \in [Spaces -> [Pages -> Entries]] /\ tab' \in [Spaces -> [0..NPages -> 0..NFrames]]
    <3>1. CASE LastOwner(t)
      <4>1. Set(Teardown(Now, sp[t], {})) /\ lost' = lost \cup {tab[sp[t]][0]} /\ Dropped(sp[t])
        BY <1>19, <3>1 DEF Exit, Leave
      <4>2. tab[sp[t]][0] \in 0..NFrames
        BY <2>1, Bounds DEF Typed
      <4> QED BY <1>g, <1>h, <2>1, <4>1, <4>2 DEF Typed
    <3>2. CASE ~LastOwner(t)
      BY <1>19, <3>2 DEF Exit, Leave, Typed
    <3> QED BY <3>1, <3>2
  <2>3. /\ sp' = [sp EXCEPT ![t] = 0] /\ tlb' = [tlb EXCEPT ![t] = [p \in Pages |-> NoPage]]
        /\ UNCHANGED <<pc, forks>>
    BY <1>19 DEF Exit, Leave
  <2>4. sp' \in [Threads -> 0..(MaxForks + 1)] /\ tlb' \in [Threads -> [Pages -> Entries]]
    BY <1>e, <2>3, Bounds DEF Typed
  <2>5. PcOK
    <3>1. \A u \in Threads : sp'[u] = IF u = t THEN 0 ELSE sp[u]
      BY <2>3 DEF Typed
    <3>2. 0 <= forks + 1
      BY Bounds DEF Typed
    <3> QED BY <2>1, <2>3, <3>1, <3>2 DEF Typed
  <2> QED BY <1>19, <1>d, <2>2, <2>4, <2>5 DEF Exit, Leave, Typed
<1>26. ASSUME NEW t \in Threads, NEW p \in Pages, Killed(t, p) PROVE Typed'
  BY <1>19, <1>26, KilledLeaves
<1>20. ASSUME NEW t \in Threads, Reap(t) PROVE Typed'
  BY <1>20, <1>a, Bounds DEF Reap, Typed, hvars, Stack
<1>21. CASE UNCHANGED vars
  BY <1>21, <1>a DEF vars, mvars, tvars, hvars, Typed
<1> QED BY <1>1, <1>2, <1>3, <1>4, <1>5, <1>6, <1>7, <1>8, <1>9, <1>10, <1>11, <1>12, <1>13,
           <1>14, <1>15, <1>16, <1>17, <1>18, <1>19, <1>20, <1>21, <1>22, <1>23, <1>24, <1>25, <1>26 DEF Next

-----------------------------------------------------------------------------
(* Structure: until a race is recorded, every frame has one use.             *)

\* The pages that map a frame, in a table of entries and now.
OwnOf(P, f) == {x \in Spaces \X Pages : P[x[1]][x[2]].f = f}
Own(f) == OwnOf(pt, f)

\* A frame has at most one use, is in use if it has one, and its share count is exact.
OneUse(T, S, K, l, O, u, r) ==
    /\ \A x, y \in T : x = y
    /\ \A x, y \in S : x = y
    /\ \A x, y \in K : x = y
    /\ T # {} => S = {} /\ K = {} /\ ~l /\ O = {}
    /\ S # {} => K = {} /\ ~l /\ O = {}
    /\ K # {} => ~l /\ O = {}
    /\ l => O = {}
    /\ u <=> (T # {} \/ S # {} \/ K # {} \/ l \/ O # {})
    /\ r = IF O = {} THEN 0 ELSE Cardinality(O) - 1
FrameOK(f) == OneUse(Tables(f), Stacks(f), Copies(f), f \in lost, Own(f), f \in used, refs[f])

\* Address spaces: what is not in use is empty, what is in use has a root, and
\* a space that waits for its thread belongs to one call.
Empty(s) == \A p \in Pages : pt[s][p] = NoPage /\ tab[s][p] = 0
SpacesOK ==
    /\ \A s \in Spaces : tab[s][0] = 0 => Empty(s)
    /\ \A s \in Spaces : s > forks + 1 => tab[s][0] = 0
    /\ \A t \in Threads : sp[t] # 0 => tab[sp[t]][0] # 0
    /\ \A t \in Threads : pc[t].space # 0 =>
           /\ tab[pc[t].space][0] # 0
           /\ \A u \in Threads : sp[u] # pc[t].space /\ (u # t => pc[u].space # pc[t].space)
    /\ \A s \in Spaces : \A p, q \in Pages : pt[s][p].f = pt[s][q].f /\ pt[s][p].f # 0 => p = q

\* A writable page is not shared, and a copy-on-write fault in flight has the page to itself.
Unshared == \A s \in Spaces : \A p \in Pages : pt[s][p].w => refs[pt[s][p].f] = 0
Faults ==
    \A t \in Threads : pc[t].at = "cow" =>
        /\ pt[sp[t]][pc[t].page] = Marked(pc[t].f)
        /\ pc[t].new = 0 => refs[pc[t].f] = 0
        /\ ~Faulting(t, pc[t].page)

Clean == harm \subseteq Contained
Sound == SpacesOK /\ (\A f \in Frames : FrameOK(f)) /\ Unshared /\ Faults
Struct == Clean => Sound

\* The pages that map a frame are finitely many.
LEMMA OwnFinite ==
    ASSUME NEW P, NEW f
    PROVE  /\ IsFiniteSet(OwnOf(P, f)) /\ Cardinality(OwnOf(P, f)) \in Nat
           /\ Cardinality(OwnOf(P, f)) <= (MaxForks + 1) * NPages
           /\ OwnOf(P, f) # {} => Cardinality(OwnOf(P, f)) >= 1
<1>1. IsFiniteSet(Spaces) /\ Cardinality(Spaces) = MaxForks + 1
  <2>1. 1 \in Int /\ MaxForks + 1 \in Int /\ ~(1 > MaxForks + 1) /\ MaxForks + 1 - 1 + 1 = MaxForks + 1
    BY Bounds
  <2> QED BY <2>1, FS_Interval DEF Spaces
<1>2. IsFiniteSet(Pages) /\ Cardinality(Pages) = NPages
  <2>1. 1 \in Int /\ NPages \in Int /\ ~(1 > NPages) /\ NPages - 1 + 1 = NPages
    BY Bounds
  <2> QED BY <2>1, FS_Interval DEF Pages
<1>3. IsFiniteSet(Spaces \X Pages) /\ Cardinality(Spaces \X Pages) = (MaxForks + 1) * NPages
  BY <1>1, <1>2, FS_Product
<1>4. OwnOf(P, f) \in SUBSET (Spaces \X Pages)
  BY DEF OwnOf
<1>5. IsFiniteSet(OwnOf(P, f)) /\ Cardinality(OwnOf(P, f)) <= (MaxForks + 1) * NPages
  BY <1>3, <1>4, FS_Subset
<1>6. Cardinality(OwnOf(P, f)) \in Nat
  BY <1>5, FS_CardinalityType
<1>7. OwnOf(P, f) # {} => Cardinality(OwnOf(P, f)) # 0
  BY <1>5, FS_EmptySet
<1> QED BY <1>5, <1>6, <1>7

\* A frame with two owners is shared.
LEMMA TwoOwners ==
    ASSUME NEW O, IsFiniteSet(O), NEW x \in O, NEW y \in O, x # y
    PROVE  Cardinality(O) \in Nat /\ Cardinality(O) >= 2
<1>1. IsFiniteSet({x, y}) /\ Cardinality({x, y}) = 2
  <2>1. IsFiniteSet({x}) /\ Cardinality({x}) = 1 /\ y \notin {x}
    BY FS_Singleton
  <2>2. Cardinality({x} \cup {y}) = 2 /\ IsFiniteSet({x} \cup {y})
    BY <2>1, FS_AddElement
  <2>3. {x} \cup {y} = {x, y}
    OBVIOUS
  <2> QED BY <2>2, <2>3
<1>2. {x, y} \in SUBSET O
  OBVIOUS
<1> QED BY <1>1, <1>2, FS_Subset, FS_CardinalityType

\* A free frame has no use.
LEMMA FreshFrame ==
    ASSUME NEW T, NEW S, NEW K, NEW l, NEW O, NEW r, OneUse(T, S, K, l, O, FALSE, r)
    PROVE  T = {} /\ S = {} /\ K = {} /\ ~l /\ O = {} /\ r = 0
BY DEF OneUse

\* A frame that gets its one use.
LEMMA NewUse ==
    ASSUME NEW x
    PROVE  /\ OneUse({x}, {}, {}, FALSE, {}, TRUE, 0)
           /\ OneUse({}, {x}, {}, FALSE, {}, TRUE, 0)
           /\ OneUse({}, {}, {x}, FALSE, {}, TRUE, 0)
           /\ OneUse({}, {}, {}, TRUE, {}, TRUE, 0)
           /\ OneUse({}, {}, {}, FALSE, {x}, TRUE, 0)
           /\ OneUse({}, {}, {}, FALSE, {}, FALSE, 0)
<1>1. Cardinality({x}) - 1 = 0
  BY FS_Singleton
<1> QED BY <1>1 DEF OneUse

\* A page of a frame goes: the share count goes down, or the frame is free.
LEMMA DropOwner ==
    ASSUME NEW O, IsFiniteSet(O), NEW x \in O, NEW r, NEW T, NEW S, NEW K, NEW l, NEW u,
           OneUse(T, S, K, l, O, u, r)
    PROVE  /\ T = {} /\ S = {} /\ K = {} /\ ~l /\ r \in Nat
           /\ r = 0 => OneUse(T, S, K, l, O \ {x}, FALSE, 0)
           /\ r # 0 => OneUse(T, S, K, l, O \ {x}, u, r - 1)
<1>1. Cardinality(O) \in Nat /\ Cardinality(O \ {x}) = Cardinality(O) - 1 /\ IsFiniteSet(O \ {x})
  BY FS_CardinalityType, FS_RemoveElement
<1>2. O \ {x} = {} <=> Cardinality(O) = 1
  BY <1>1, FS_EmptySet
<1>3. r = Cardinality(O) - 1 /\ T = {} /\ S = {} /\ K = {} /\ (l <=> FALSE) /\ (u <=> TRUE)
  BY DEF OneUse
<1>4. Cardinality(O) # 0
  BY FS_EmptySet
<1>5. ASSUME r = 0 PROVE OneUse(T, S, K, l, O \ {x}, FALSE, 0)
  <2>1. O \ {x} = {}
    BY <1>1, <1>2, <1>3, <1>5
  <2> QED BY <1>3, <2>1 DEF OneUse
<1>6. ASSUME r # 0 PROVE OneUse(T, S, K, l, O \ {x}, u, r - 1)
  <2>1. O \ {x} # {} /\ Cardinality(O \ {x}) - 1 = r - 1
    BY <1>1, <1>2, <1>3, <1>6
  <2> QED BY <1>3, <2>1 DEF OneUse
<1>7. r \in Nat
  BY <1>1, <1>3, <1>4
<1> QED BY <1>3, <1>5, <1>6, <1>7

\* One more page of a frame that has some.
LEMMA AddOwner ==
    ASSUME NEW O, IsFiniteSet(O), O # {}, NEW x, x \notin O, NEW r, NEW T, NEW S, NEW K, NEW l, NEW u,
           OneUse(T, S, K, l, O, u, r)
    PROVE  OneUse(T, S, K, l, O \cup {x}, u, r + 1)
<1>1. Cardinality(O) \in Nat /\ Cardinality(O \cup {x}) = Cardinality(O) + 1
  BY FS_CardinalityType, FS_AddElement
<1>2. r = Cardinality(O) - 1 /\ T = {} /\ S = {} /\ K = {} /\ (l <=> FALSE) /\ (u <=> TRUE)
  BY DEF OneUse
<1>3. O \cup {x} # {} /\ Cardinality(O \cup {x}) - 1 = r + 1
  BY <1>1, <1>2
<1> QED BY <1>2, <1>3 DEF OneUse

\* A frame that the step does not touch.
LEMMA SameFrame ==
    ASSUME NEW f, FrameOK(f), Tables(f)' = Tables(f), Stacks(f)' = Stacks(f), Copies(f)' = Copies(f),
           f \in lost' <=> f \in lost, Own(f)' = Own(f), f \in used' <=> f \in used, refs'[f] = refs[f]
    PROVE  FrameOK(f)'
BY DEF FrameOK, OneUse

\* The uses of a frame that variables which keep their values say.
LEMMA SameUses ==
    ASSUME NEW f
    PROVE  /\ tab' = tab => Tables(f)' = Tables(f)
           /\ kst' = kst => Stacks(f)' = Stacks(f)
           /\ pt' = pt => Own(f)' = Own(f)
           /\ (\A u \in Threads : (pc'[u].at = "cow" \/ pc[u].at = "cow") => pc'[u] = pc[u])
                  => Copies(f)' = Copies(f)
BY DEF Tables, Stacks, Own, OwnOf, Copies

\* Faults in flight, in a step that begins none and leaves their pages alone.
LEMMA FaultsKept ==
    ASSUME Faults,
           \A u \in Threads : pc'[u].at = "cow" =>
               /\ pc[u] = pc'[u] /\ sp'[u] = sp[u]
               /\ pt'[sp[u]][pc[u].page] = pt[sp[u]][pc[u].page]
               /\ refs[pc[u].f] = 0 => refs'[pc[u].f] = 0,
           \A u, v \in Threads : pc'[u].at = "cow" /\ pc'[v].at = "cow" =>
               (sp'[u] = sp'[v] => sp[u] = sp[v])
    PROVE  Faults'
BY DEF Faults, Faulting, Siblings

\* Spaces, in a step that leaves the tables alone.
LEMMA SpacesKept ==
    ASSUME Typed, SpacesOK, UNCHANGED <<tab, pt, sp, forks>>,
           \A u \in Threads : pc'[u].space # 0 => pc'[u].space = pc[u].space
    PROVE  SpacesOK'
BY DEF SpacesOK, Empty

\* A step that moves no frame.
LEMMA Quiet ==
    ASSUME Typed, Sound, UNCHANGED <<used, refs, pt, tab, kst, lost, sp, forks>>,
           \A u \in Threads : (pc'[u].at = "cow" \/ pc[u].at = "cow") => pc'[u] = pc[u],
           \A u \in Threads : pc'[u].space # 0 => pc'[u].space = pc[u].space
    PROVE  Sound'
<1>1. SpacesOK'
  BY SpacesKept DEF Sound
<1>2. \A f \in Frames : FrameOK(f)'
  BY SameFrame, SameUses DEF Sound
<1>3. Unshared'
  BY DEF Sound, Unshared
<1>4. Faults'
  BY FaultsKept DEF Sound
<1> QED BY <1>1, <1>2, <1>3, <1>4 DEF Sound

\* The first half of a fault takes a fresh frame, if it copies.
LEMMA CowFaultSound ==
    ASSUME Typed, Sound, NEW t \in Threads, NEW p \in Pages, CowFault(t, p), Clean'
    PROVE  Sound'
<1> DEFINE e == pt[sp[t]][p]
           n == IF Shared(e.f) THEN Alloc(used) ELSE 0
           c == Work("cow", p, e.f, n, 0)
<1>1. sp[t] # 0 /\ pc[t] = Idle /\ e \in Entries /\ e.cow
  <2>1. Call(t) /\ e.cow
    BY DEF CowFault
  <2>2. sp[t] # 0 /\ pc[t] = Idle
    BY <2>1 DEF Call, Step
  <2> QED BY <2>1, <2>2, EntryIn
<1>2. e = Marked(e.f) /\ e.f \in Frames
  BY <1>1, EntryFields
<1>3. pc' = [pc EXCEPT ![t] = c] /\ UNCHANGED <<refs, pt, tab, kst, lost, sp, forks>>
  BY DEF CowFault
<1>4. c.at = "cow" /\ c.page = p /\ c.f = e.f /\ c.new = n /\ c.space = 0
  BY WorkFields
<1>5. ~Faulting(t, p)
  BY DEF CowFault, Clean, Contained
<1>6. used' = IF Shared(e.f) THEN used \cup {n} ELSE used
  BY DEF CowFault
<1>7. Shared(e.f) => n \in Frames \ used
  BY AllocFree DEF CowFault
<1>8. n = 0 => refs[e.f] = 0
  <2>1. Shared(e.f) => n # 0
    BY <1>7, Bounds DEF Frames
  <2>2. refs[e.f] \in Nat
    BY <1>2 DEF Typed
  <2> QED BY <2>1, <2>2 DEF Shared
<1>9. pc[t].at = "idle" /\ pc[t].space = 0
  BY <1>1, IdleOK
<1>a. ~Shared(e.f) => n = 0
  OBVIOUS
<1> HIDE DEF c, n, e
<1>10. \A u \in Threads : pc'[u] = IF u = t THEN c ELSE pc[u]
  BY <1>3 DEF Typed
<1>11. SpacesOK'
  <2>1. \A u \in Threads : pc'[u].space # 0 => pc'[u].space = pc[u].space
    BY <1>4, <1>10
  <2> QED BY <1>3, <2>1, SpacesKept DEF Sound
<1>12. ASSUME NEW f \in Frames PROVE FrameOK(f)'
  <2>1. Tables(f)' = Tables(f) /\ Stacks(f)' = Stacks(f) /\ Own(f)' = Own(f)
    BY <1>3, SameUses
  <2>2. CASE f = n
    <3>1. Shared(e.f) /\ f \notin used /\ f \in used'
      BY <1>6, <1>7, <1>a, <2>2, Bounds DEF Frames
    <3>2. /\ Tables(f) = {} /\ Stacks(f) = {} /\ Copies(f) = {} /\ f \notin lost /\ Own(f) = {}
          /\ refs[f] = 0
      BY <3>1, FreshFrame DEF Sound, FrameOK, OneUse
    <3>3. Copies(f)' = {t}
      BY <1>4, <1>10, <2>2, <3>2 DEF Copies
    <3>4. OneUse({}, {}, {t}, FALSE, {}, TRUE, 0)
      BY NewUse
    <3> QED BY <1>3, <2>1, <3>1, <3>2, <3>3, <3>4 DEF FrameOK, OneUse
  <2>3. CASE f # n
    <3>1. Copies(f)' = Copies(f)
      BY <1>4, <1>9, <1>10, <2>3 DEF Copies
    <3>2. f \in used' <=> f \in used
      BY <1>6, <2>3
    <3> QED BY <1>3, <2>1, <3>1, <3>2, SameFrame DEF Sound
  <2> QED BY <2>2, <2>3
<1>13. Unshared'
  BY <1>3 DEF Sound, Unshared
<1>14. Faults'
  <2> SUFFICES ASSUME NEW u \in Threads, pc'[u].at = "cow"
               PROVE  /\ pt[sp[u]][pc'[u].page] = Marked(pc'[u].f)
                      /\ pc'[u].new = 0 => refs[pc'[u].f] = 0
                      /\ ~\E v \in Threads \ {u} : sp[v] = sp[u] /\ pc'[v].at = "cow" /\ pc'[v].page = pc'[u].page
    BY <1>3 DEF Faults, Faulting, Siblings
  <2>1. CASE u = t
    BY <1>2, <1>4, <1>5, <1>8, <1>10, <2>1 DEF e, Faulting, Siblings
  <2>2. CASE u # t
    BY <1>4, <1>5, <1>10, <2>2 DEF Sound, Faults, Faulting, Siblings
  <2> QED BY <2>1, <2>2
<1> QED BY <1>11, <1>12, <1>13, <1>14 DEF Sound

\* One entry of a table of pages changes.
LEMMA EntrySet ==
    ASSUME Typed, NEW s \in Spaces, NEW p \in Pages, NEW e, pt' = [pt EXCEPT ![s][p] = e]
    PROVE  /\ \A r \in Spaces, q \in Pages : pt'[r][q] = IF r = s /\ q = p THEN e ELSE pt[r][q]
           /\ \A f : Own(f)' = IF e.f = f THEN Own(f) \cup {<<s, p>>} ELSE Own(f) \ {<<s, p>>}
           /\ \A f : <<s, p>> \in Own(f) <=> pt[s][p].f = f
<1>1. \A r \in Spaces, q \in Pages : pt'[r][q] = IF r = s /\ q = p THEN e ELSE pt[r][q]
  BY DEF Typed
<1>2. \A x \in Spaces \X Pages : x = <<s, p>> <=> x[1] = s /\ x[2] = p
  OBVIOUS
<1>3. ASSUME NEW f PROVE Own(f)' = IF e.f = f THEN Own(f) \cup {<<s, p>>} ELSE Own(f) \ {<<s, p>>}
  <2>1. \A x \in Spaces \X Pages : pt'[x[1]][x[2]] = IF x = <<s, p>> THEN e ELSE pt[x[1]][x[2]]
    BY <1>1, <1>2
  <2>2. \A x : x \in Own(f)' <=> x \in Spaces \X Pages /\ pt'[x[1]][x[2]].f = f
    BY DEF Own, OwnOf
  <2>3. \A x : x \in Own(f) <=> x \in Spaces \X Pages /\ pt[x[1]][x[2]].f = f
    BY DEF Own, OwnOf
  <2>4. <<s, p>> \in Spaces \X Pages
    OBVIOUS
  <2> HIDE DEF Own
  <2> QED BY <2>1, <2>2, <2>3, <2>4
<1>4. \A f : <<s, p>> \in Own(f) <=> pt[s][p].f = f
  BY DEF Own, OwnOf
<1> QED BY <1>1, <1>3, <1>4

\* The pages of a frame are those whose entries name it.
LEMMA OwnIn ==
    ASSUME NEW f, NEW s \in Spaces, NEW p \in Pages
    PROVE  <<s, p>> \in Own(f) <=> pt[s][p].f = f
BY DEF Own, OwnOf

\* A frame that loses an owner and is released.
LEMMA Released ==
    ASSUME Typed, NEW f \in Frames, FrameOK(f), NEW x \in Own(f), Own(f)' = Own(f) \ {x},
           Set(Release(Now, f)), tab' = tab, kst' = kst, lost' = lost, Copies(f)' = Copies(f)
    PROVE  /\ FrameOK(f)'
           /\ \A g \in Frames \ {f} : (g \in used' <=> g \in used) /\ refs'[g] = refs[g]
           /\ refs[f] = 0 => refs'[f] = 0
<1>1. /\ used' = (IF refs[f] = 0 THEN used \ {f} ELSE used)
      /\ refs' = (IF refs[f] = 0 THEN refs ELSE [refs EXCEPT ![f] = refs[f] - 1])
  BY ReleaseTypes
<1>2. Tables(f)' = Tables(f) /\ Stacks(f)' = Stacks(f)
  BY SameUses
<1>3. IsFiniteSet(Own(f))
  BY OwnFinite DEF Own
<1>4. /\ refs[f] = 0 => OneUse(Tables(f), Stacks(f), Copies(f), f \in lost, Own(f) \ {x}, FALSE, 0)
      /\ refs[f] # 0 => OneUse(Tables(f), Stacks(f), Copies(f), f \in lost, Own(f) \ {x}, f \in used, refs[f] - 1)
  BY <1>3, DropOwner, ZenonT(60) DEF FrameOK
<1>5. refs'[f] = IF refs[f] = 0 THEN 0 ELSE refs[f] - 1
  BY <1>1 DEF Typed
<1>6. f \in used' <=> refs[f] # 0 /\ f \in used
  BY <1>1
<1>7. FrameOK(f)'
  <2>1. CASE refs[f] = 0
    BY <1>2, <1>4, <1>5, <1>6, <2>1 DEF FrameOK, OneUse
  <2>2. CASE refs[f] # 0
    BY <1>2, <1>4, <1>5, <1>6, <2>2 DEF FrameOK, OneUse
  <2> QED BY <2>1, <2>2
<1>8. \A g \in Frames \ {f} : (g \in used' <=> g \in used) /\ refs'[g] = refs[g]
  BY <1>1 DEF Typed
<1> QED BY <1>1, <1>7, <1>8

\* A fault in flight.
LEMMA InFlight ==
    ASSUME Typed, NEW t \in Threads, pc[t].at = "cow"
    PROVE  /\ pc[t].page \in Pages /\ pc[t].f \in Frames /\ pc[t].new \in 0..NFrames
           /\ pc[t].space = 0 /\ sp[t] \in Spaces /\ sp[t] # 0
           /\ pc[t].new # 0 => pc[t].new \in Frames /\ t \in Copies(pc[t].new)
<1>1. pc[t] \in Works /\ WorkOK(pc[t]) /\ (pc[t] # Idle => sp[t] # 0)
  BY DEF Typed
<1>2. pc[t].page \in Pages /\ pc[t].f \in 0..NFrames /\ pc[t].f # 0 /\ pc[t].new \in 0..NFrames
      /\ pc[t].space = 0
  BY <1>1 DEF Works, WorkOK
<1>3. sp[t] # 0 /\ sp[t] \in Spaces
  <2>1. sp[t] # 0
    BY <1>1, IdleOK
  <2>2. sp[t] \in 0..(MaxForks + 1)
    BY DEF Typed
  <2> QED BY <2>1, <2>2, Bounds DEF Spaces
<1>4. \A f \in 0..NFrames : f # 0 => f \in Frames
  BY Bounds DEF Frames
<1>5. pc[t].new # 0 => t \in Copies(pc[t].new)
  BY DEF Copies
<1> QED BY <1>2, <1>3, <1>4, <1>5

\* A thread in a call of sbrk.
LEMMA InSbrk ==
    ASSUME Typed, NEW t \in Threads, pc[t].at \in {"grow", "unmap"}
    PROVE  /\ pc[t].page \in Pages /\ pc[t].new \in Nat /\ pc[t].space = 0
           /\ sp[t] \in Spaces /\ sp[t] # 0
<1>1. pc[t] \in Works /\ WorkOK(pc[t]) /\ (pc[t] # Idle => sp[t] # 0)
  BY DEF Typed
<1>2. pc[t].page \in Pages /\ pc[t].new \in Nat /\ pc[t].space = 0
  BY <1>1 DEF Works, WorkOK
<1>3. sp[t] # 0
  BY <1>1, IdleOK
<1> QED BY <1>2, <1>3, EntryIn

\* A step of sbrk, for the rest of what threads are in the middle of.
Calm ==
    /\ \A u \in Threads : /\ pc'[u].space = pc[u].space
                          /\ pc'[u] = pc[u] \/ {pc[u].at, pc'[u].at} \subseteq {"idle", "grow", "unmap"}
    /\ UNCHANGED <<sp, kst, ipi, acks, lost, forks>>

LEMMA SbrkCalm ==
    ASSUME Typed, NEW t \in Threads,
           \/ SbrkGrow(t) \/ SbrkFails(t) \/ SbrkUnmap(t)
           \/ \E last \in BOOLEAN : SbrkPage(t, last)
           \/ \E b \in Pages : SbrkShrink(t, b)
    PROVE  Calm
<1>1. UNCHANGED <<sp, kst, ipi, acks, lost, forks>>
  BY DEF SbrkGrow, SbrkFails, SbrkUnmap, SbrkPage, SbrkShrink, hvars
<1>2. pc[t].at \in {"idle", "grow", "unmap"} /\ pc[t].space = 0
  <2>1. CASE pc[t].at \in {"grow", "unmap"}
    BY <2>1, InSbrk
  <2>2. CASE pc[t] = Idle
    BY <2>2, IdleOK
  <2> QED BY <2>1, <2>2 DEF SbrkGrow, SbrkFails, SbrkUnmap, SbrkPage, SbrkShrink, Call, Step
<1>3. PICK c : pc' = [pc EXCEPT ![t] = c] /\ c.at \in {"idle", "grow", "unmap"} /\ c.space = 0
  <2>1. \A q, n : /\ Work("grow", q, 0, n, 0).at = "grow" /\ Work("grow", q, 0, n, 0).space = 0
                  /\ Work("unmap", q, 0, n, 0).at = "unmap" /\ Work("unmap", q, 0, n, 0).space = 0
    BY WorkFields
  <2>2. \/ pc' = [pc EXCEPT ![t] = Idle]
        \/ \E q, n : \/ pc' = [pc EXCEPT ![t] = Work("grow", q, 0, n, 0)]
                     \/ pc' = [pc EXCEPT ![t] = Work("unmap", q, 0, n, 0)]
    <3>1. CASE SbrkGrow(t)
      BY <3>1 DEF SbrkGrow
    <3>2. CASE SbrkFails(t)
      BY <3>2 DEF SbrkFails
    <3>3. CASE SbrkUnmap(t)
      BY <3>3 DEF SbrkUnmap
    <3>4. ASSUME NEW last \in BOOLEAN, SbrkPage(t, last)
          PROVE  \/ pc' = [pc EXCEPT ![t] = Idle]
                 \/ \E q, n : pc' = [pc EXCEPT ![t] = Work("grow", q, 0, n, 0)]
      BY <3>4 DEF SbrkPage
    <3>5. ASSUME NEW b \in Pages, SbrkShrink(t, b)
          PROVE  \E q, n : pc' = [pc EXCEPT ![t] = Work("unmap", q, 0, n, 0)]
      BY <3>5 DEF SbrkShrink
    <3> QED BY <3>1, <3>2, <3>3, <3>4, <3>5
  <2> QED BY <2>1, <2>2, IdleOK
<1>4. \A u \in Threads : pc'[u] = IF u = t THEN c ELSE pc[u]
  BY <1>3 DEF Typed
<1> QED BY <1>1, <1>2, <1>3, <1>4 DEF Calm

\* What such a step leaves alone.
LEMMA CalmKeeps ==
    ASSUME Calm
    PROVE  /\ \A u \in Threads : (pc'[u].at = "cow" \/ pc[u].at = "cow") => pc'[u] = pc[u]
           /\ \A f : Stacks(f)' = Stacks(f) /\ Copies(f)' = Copies(f)
<1>1. \A u \in Threads : (pc'[u].at = "cow" \/ pc[u].at = "cow") => pc'[u] = pc[u]
  BY DEF Calm
<1>2. kst' = kst
  BY DEF Calm
<1> QED BY <1>1, <1>2, SameUses

\* The second half of a fault: the entry and the share of the old frame.
LEMMA CowResolveSound ==
    ASSUME Typed, Sound, NEW t \in Threads, CowResolve(t), Clean'
    PROVE  Sound'
<1>0. pc[t].at = "cow" /\ UNCHANGED <<tab, kst, lost, sp, forks>>
  BY DEF CowResolve
<1>1. PICK s \in Spaces, p \in Pages, o \in Frames, k \in 0..NFrames :
          s = sp[t] /\ p = pc[t].page /\ o = pc[t].f /\ k = pc[t].new
  BY <1>0, InFlight
<1> DEFINE n == IF k = 0 THEN o ELSE k
<1>2. n \in Frames /\ (k # 0 => k \in Frames /\ t \in Copies(k)) /\ sp[t] # 0 /\ pc[t].space = 0
  BY <1>0, <1>1, InFlight
<1>3. pt' = [pt EXCEPT ![s][p] = Writable(n)] /\ pc' = [pc EXCEPT ![t] = Idle]
  BY <1>1 DEF CowResolve, Writable
<1>4. pt[s][p] = Marked(o) /\ (k = 0 => refs[o] = 0) /\ ~Faulting(t, p)
  BY <1>0, <1>1 DEF Sound, Faults
<1>12. k = 0 => n = o /\ UNCHANGED <<used, refs>>
  BY <1>1 DEF CowResolve, Set, Now
<1>13. k # 0 => n = k /\ Set(Release(Now, o))
  BY <1>1 DEF CowResolve
<1> HIDE DEF n
<1>5. /\ \A r \in Spaces, q \in Pages : pt'[r][q] = IF r = s /\ q = p THEN Writable(n) ELSE pt[r][q]
      /\ \A f : Own(f)' = IF Writable(n).f = f THEN Own(f) \cup {<<s, p>>} ELSE Own(f) \ {<<s, p>>}
      /\ \A f : <<s, p>> \in Own(f) <=> pt[s][p].f = f
  BY <1>3, EntrySet
<1>6. Writable(n).f = n /\ pt[s][p].f = o
  BY <1>4, EntryFields
<1>a. \A f : Own(f)' = IF n = f THEN Own(f) \cup {<<s, p>>} ELSE Own(f) \ {<<s, p>>}
  BY <1>5, <1>6
<1>b. \A f : <<s, p>> \in Own(f) <=> f = o
  BY <1>5, <1>6
<1>7. \A u \in Threads : pc'[u] = IF u = t THEN Idle ELSE pc[u]
  BY <1>3 DEF Typed
<1>8. Idle.at = "idle" /\ Idle.space = 0
  BY IdleOK
<1>10. k # 0 => /\ k # o /\ Own(k) = {} /\ Tables(k) = {} /\ Stacks(k) = {}
                /\ k \notin lost /\ Copies(k) = {t} /\ k \in used /\ refs[k] = 0
  <2> SUFFICES ASSUME k # 0
               PROVE  /\ k # o /\ Own(k) = {} /\ Tables(k) = {} /\ Stacks(k) = {}
                      /\ k \notin lost /\ Copies(k) = {t} /\ k \in used /\ refs[k] = 0
    OBVIOUS
  <2>1. FrameOK(k)
    BY <1>2 DEF Sound
  <2>2. Own(k) = {} /\ Tables(k) = {} /\ Stacks(k) = {} /\ k \notin lost
    BY <1>2, <2>1 DEF FrameOK, OneUse
  <2>3. k \in used /\ refs[k] = 0 /\ \A u \in Copies(k) : u = t
    BY <1>2, <2>1, <2>2 DEF FrameOK, OneUse
  <2>4. k # o
    BY <1>b, <2>2
  <2> QED BY <1>2, <2>2, <2>3, <2>4
<1>11. \A f \in Frames : f # k => Copies(f)' = Copies(f)
  <2>1. \A f \in Frames : f # k => \A u \in Threads :
            pc'[u].at = "cow" /\ pc'[u].new = f <=> pc[u].at = "cow" /\ pc[u].new = f
    BY <1>1, <1>7, <1>8
  <2> QED BY <2>1 DEF Copies
<1>14. \A f \in Frames : (refs[f] = 0 => refs'[f] = 0) /\ FrameOK(f)'
  <2> TAKE f \in Frames
  <2>0. f # 0
    BY Bounds DEF Frames
  <2>a. FrameOK(f)
    BY DEF Sound
  <2>1. Tables(f)' = Tables(f) /\ Stacks(f)' = Stacks(f) /\ lost' = lost
    BY <1>0, SameUses
  <2>2. CASE k = 0
    <3>1. Own(f)' = Own(f)
      BY <1>a, <1>b, <1>12, <2>2
    <3>2. Copies(f)' = Copies(f)
      BY <1>11, <2>0, <2>2
    <3> QED BY <1>12, <2>1, <2>2, <2>a, <3>1, <3>2, SameFrame
  <2>3. CASE k # 0
    <3>0. n = k /\ Set(Release(Now, o))
      BY <1>13, <2>3
    <3>1. Own(o)' = Own(o) \ {<<s, p>>} /\ <<s, p>> \in Own(o) /\ Copies(o)' = Copies(o)
      BY <1>a, <1>b, <1>10, <1>11, <2>3, <3>0
    <3>2. FrameOK(o)
      BY DEF Sound
    <3>3. /\ FrameOK(o)'
          /\ \A g \in Frames \ {o} : (g \in used' <=> g \in used) /\ refs'[g] = refs[g]
          /\ refs[o] = 0 => refs'[o] = 0
      BY <1>0, <3>0, <3>1, <3>2, Released
    <3>4. CASE f = o
      BY <3>3, <3>4
    <3>5. CASE f = k
      <4>1. Own(f)' = {<<s, p>>}
        BY <1>a, <1>10, <2>3, <3>0, <3>5
      <4>a. Copies(f)' = {}
        <5>1. \A u \in Threads : pc[u].at = "cow" /\ pc[u].new = f => u = t
          BY <1>10, <2>3, <3>5 DEF Copies
        <5> QED BY <1>7, <1>8, <5>1 DEF Copies
      <4>2. OneUse({}, {}, {}, FALSE, {<<s, p>>}, TRUE, 0)
        BY NewUse
      <4>3. f \in used' /\ refs'[f] = 0
        BY <1>10, <2>3, <3>3, <3>5
      <4> QED BY <1>10, <2>1, <2>3, <3>5, <4>1, <4>a, <4>2, <4>3 DEF FrameOK, OneUse
    <3>6. CASE f # o /\ f # k
      <4>1. Own(f)' = Own(f) /\ Copies(f)' = Copies(f)
        BY <1>a, <1>b, <1>11, <3>0, <3>6
      <4> QED BY <2>1, <2>a, <3>3, <3>6, <4>1, SameFrame
    <3> QED BY <3>4, <3>5, <3>6
  <2> QED BY <2>2, <2>3
<1>15. refs'[n] = 0
  <2>1. CASE k = 0
    BY <1>4, <1>12, <1>14, <2>1
  <2>2. CASE k # 0
    BY <1>2, <1>10, <1>13, <1>14, <2>2
  <2> QED BY <2>1, <2>2
<1>16. SpacesOK'
  <2>1. \A q \in Pages : pt[s][q].f = n => q = p
    <3>1. CASE k = 0
      <4>1. o # 0
        BY Bounds DEF Frames
      <4> QED BY <1>6, <1>12, <3>1, <4>1 DEF Sound, SpacesOK
    <3>2. CASE k # 0
      BY <1>10, <1>13, <3>2, OwnIn
    <3> QED BY <3>1, <3>2
  <2>2. \A r \in Spaces : \A q, v \in Pages : pt'[r][q].f = pt'[r][v].f /\ pt'[r][q].f # 0 => q = v
    BY <1>5, <1>6, <2>1 DEF Sound, SpacesOK
  <2>3. tab[s][0] # 0
    BY <1>1, <1>2 DEF Sound, SpacesOK
  <2>4. \A r \in Spaces : tab'[r][0] = 0 => Empty(r)'
    BY <1>0, <1>5, <2>3 DEF Sound, SpacesOK, Empty
  <2>5. \A u \in Threads : pc'[u].space # 0 => pc'[u].space = pc[u].space
    BY <1>7, <1>8
  <2> QED BY <1>0, <2>2, <2>4, <2>5 DEF Sound, SpacesOK
<1>17. Unshared'
  <2> SUFFICES ASSUME NEW r \in Spaces, NEW q \in Pages, pt'[r][q].w PROVE refs'[pt'[r][q].f] = 0
    BY DEF Unshared
  <2>1. CASE r = s /\ q = p
    BY <1>5, <1>6, <1>15, <2>1
  <2>2. CASE ~(r = s /\ q = p)
    <3>1. pt'[r][q] = pt[r][q] /\ refs[pt[r][q].f] = 0
      BY <1>5, <2>2 DEF Sound, Unshared
    <3>2. pt[r][q].f \in Frames
      BY <3>1, EntryFields, SMTT(30) DEF Typed
    <3> QED BY <1>14, <3>1, <3>2
  <2> QED BY <2>1, <2>2
<1>18. Faults'
  <2>1. ASSUME NEW u \in Threads, pc'[u].at = "cow"
        PROVE  /\ pc[u] = pc'[u] /\ sp'[u] = sp[u]
               /\ pt'[sp[u]][pc[u].page] = pt[sp[u]][pc[u].page]
               /\ refs[pc[u].f] = 0 => refs'[pc[u].f] = 0
    <3>1. u # t /\ pc[u] = pc'[u] /\ sp'[u] = sp[u]
      BY <1>0, <1>7, <1>8, <2>1
    <3>2. pc[u].page \in Pages /\ pc[u].f \in Frames /\ sp[u] \in Spaces
      BY <2>1, <3>1, InFlight
    <3>4. ~(sp[u] = s /\ pc[u].page = p)
      BY <1>1, <1>4, <2>1, <3>1 DEF Faulting, Siblings
    <3> QED BY <1>5, <1>14, <3>1, <3>2, <3>4
  <2> QED BY <1>0, <2>1, FaultsKept DEF Sound
<1> QED BY <1>14, <1>16, <1>17, <1>18 DEF Sound

\* Writable pages, in a step that raises no share count and makes no shared page writable.
LEMMA UnsharedKept ==
    ASSUME Typed, Unshared, \A f \in Frames : refs[f] = 0 => refs'[f] = 0,
           \A r \in Spaces, q \in Pages : pt'[r][q].w => pt'[r][q] = pt[r][q] \/ refs'[pt'[r][q].f] = 0
    PROVE  Unshared'
<1> SUFFICES ASSUME NEW r \in Spaces, NEW q \in Pages, pt'[r][q].w, pt'[r][q] = pt[r][q]
             PROVE  refs'[pt'[r][q].f] = 0
  BY DEF Unshared
<1>1. pt[r][q].f \in Frames
  BY EntryFields DEF Typed
<1> QED BY <1>1 DEF Unshared

\* One slot of the tables of a space changes.
LEMMA TableSet ==
    ASSUME Typed, NEW s \in Spaces, NEW p \in 0..NPages, NEW b, tab' = [tab EXCEPT ![s][p] = b]
    PROVE  /\ \A r \in Spaces, q \in 0..NPages : tab'[r][q] = IF r = s /\ q = p THEN b ELSE tab[r][q]
           /\ \A f : Tables(f)' = IF b = f THEN Tables(f) \cup {<<s, p>>} ELSE Tables(f) \ {<<s, p>>}
           /\ \A f : <<s, p>> \in Tables(f) <=> tab[s][p] = f
<1>1. \A r \in Spaces, q \in 0..NPages : tab'[r][q] = IF r = s /\ q = p THEN b ELSE tab[r][q]
  BY DEF Typed
<1>2. \A x \in Spaces \X (0..NPages) : x = <<s, p>> <=> x[1] = s /\ x[2] = p
  OBVIOUS
<1>3. ASSUME NEW f PROVE Tables(f)' = IF b = f THEN Tables(f) \cup {<<s, p>>} ELSE Tables(f) \ {<<s, p>>}
  <2>1. \A x \in Spaces \X (0..NPages) : tab'[x[1]][x[2]] = IF x = <<s, p>> THEN b ELSE tab[x[1]][x[2]]
    BY <1>1, <1>2
  <2>2. \A x : x \in Tables(f)' <=> x \in Spaces \X (0..NPages) /\ tab'[x[1]][x[2]] = f
    BY DEF Tables
  <2>3. \A x : x \in Tables(f) <=> x \in Spaces \X (0..NPages) /\ tab[x[1]][x[2]] = f
    BY DEF Tables
  <2>4. <<s, p>> \in Spaces \X (0..NPages)
    OBVIOUS
  <2> QED BY <2>1, <2>2, <2>3, <2>4
<1>4. \A f : <<s, p>> \in Tables(f) <=> tab[s][p] = f
  BY DEF Tables
<1> QED BY <1>1, <1>3, <1>4

\* A frame that is free has no use yet.
LEMMA NoUse ==
    ASSUME Sound, NEW f \in Frames, f \notin used
    PROVE  /\ Tables(f) = {} /\ Stacks(f) = {} /\ Copies(f) = {} /\ f \notin lost /\ Own(f) = {}
           /\ refs[f] = 0
BY DEF Sound, FrameOK, OneUse

\* A page more takes a frame, and perhaps a leaf table.
LEMMA SbrkPageSound ==
    ASSUME Typed, Sound, NEW t \in Threads, NEW last \in BOOLEAN, SbrkPage(t, last)
    PROVE  Sound'
<1>c. Calm
  BY SbrkCalm
<1>0. UNCHANGED <<refs, kst, lost, sp, forks>> /\ pc[t].at = "grow"
  BY DEF SbrkPage
<1>a. sp[t] # 0
  BY <1>0, InSbrk
<1>1. PICK s \in Spaces, p \in Pages : s = sp[t] /\ p = pc[t].page
  BY <1>0, InSbrk
<1>2. p \in 0..NPages /\ p # 0 /\ 0 \in 0..NPages
  BY Bounds DEF Pages
<1>3. pt[s][p] = NoPage
  BY <1>1 DEF SbrkPage, CanMap
<1>4. PICK a, b \in Frames \ used :
          /\ used' = used \cup {a, b} /\ pt' = [pt EXCEPT ![s][p] = Writable(a)]
          /\ \/ tab[s][p] = 0 /\ a # b /\ tab' = [tab EXCEPT ![s][p] = b]
             \/ tab[s][p] # 0 /\ a = b /\ tab' = tab
  <2> DEFINE n == IF tab[s][p] = 0 THEN 2 ELSE 1
             leaf == AllocMany(used, n)
  <2>1. n \in {1, 2} /\ Cardinality(leaf) = n
    BY <1>1 DEF SbrkPage, CanMap, HeapFrames
  <2>2. /\ used' = used \cup leaf /\ pt' = [pt EXCEPT ![s][p] = Writable(Min(leaf))]
        /\ tab' = [tab EXCEPT ![s][p] = IF tab[s][p] = 0 THEN Max(leaf) ELSE tab[s][p]]
    BY <1>1 DEF SbrkPage, HeapFrames, Writable
  <2> HIDE DEF n
  <2>3. /\ leaf = {Min(leaf), Max(leaf)} /\ Min(leaf) \in Frames \ used /\ Max(leaf) \in Frames \ used
        /\ (n = 1 <=> Min(leaf) = Max(leaf))
    BY <2>1, LeafFrames
  <2> HIDE DEF leaf
  <2>4. tab[s][p] # 0 => tab' = tab
    BY <2>2 DEF Typed
  <2> DEFINE lo == Min(leaf)
             hi == Max(leaf)
  <2> HIDE DEF lo, hi
  <2>5. /\ lo \in Frames \ used /\ hi \in Frames \ used /\ used' = used \cup {lo, hi}
        /\ pt' = [pt EXCEPT ![s][p] = Writable(lo)]
    BY <2>2, <2>3 DEF lo, hi
  <2>6. CASE tab[s][p] = 0
    <3>1. tab' = [tab EXCEPT ![s][p] = hi] /\ lo # hi
      BY <2>2, <2>3, <2>6 DEF lo, hi, n
    <3> QED BY <2>5, <2>6, <3>1
  <2>7. CASE tab[s][p] # 0
    <3>1. lo = hi
      BY <2>3, <2>7 DEF lo, hi, n
    <3> QED BY <2>4, <2>5, <2>7, <3>1
  <2> QED BY <2>6, <2>7
<1>5. Writable(a).f = a /\ NoPage.f = 0 /\ 0 \notin Frames
  BY EntryFields, Bounds DEF Frames
<1>6. /\ \A r \in Spaces, q \in Pages : pt'[r][q] = IF r = s /\ q = p THEN Writable(a) ELSE pt[r][q]
      /\ \A f \in Frames : Own(f)' = IF f = a THEN {<<s, p>>} ELSE Own(f)
  <2>1. /\ \A r \in Spaces, q \in Pages : pt'[r][q] = IF r = s /\ q = p THEN Writable(a) ELSE pt[r][q]
        /\ \A f : Own(f)' = IF Writable(a).f = f THEN Own(f) \cup {<<s, p>>} ELSE Own(f) \ {<<s, p>>}
        /\ \A f : <<s, p>> \in Own(f) <=> pt[s][p].f = f
    BY <1>2, <1>4, EntrySet
  <2>2. Own(a) = {}
    BY <1>4, NoUse
  <2> QED BY <1>3, <1>5, <2>1, <2>2
<1>7. /\ \A r \in Spaces, q \in 0..NPages : tab'[r][q] = tab[r][q] \/ (r = s /\ q = p /\ tab'[r][q] = b)
      /\ \A f \in Frames : Tables(f)' = IF f = b /\ a # b THEN {<<s, p>>} ELSE Tables(f)
  <2>1. CASE tab[s][p] = 0
    <3>1. /\ \A r \in Spaces, q \in 0..NPages : tab'[r][q] = IF r = s /\ q = p THEN b ELSE tab[r][q]
          /\ \A f : Tables(f)' = IF b = f THEN Tables(f) \cup {<<s, p>>} ELSE Tables(f) \ {<<s, p>>}
          /\ \A f : <<s, p>> \in Tables(f) <=> tab[s][p] = f
      BY <1>2, <1>4, <2>1, TableSet
    <3>2. Tables(b) = {}
      BY <1>4, NoUse
    <3>3. \A f \in Frames : <<s, p>> \notin Tables(f)
      BY <1>5, <2>1, <3>1
    <3>4. \A f \in Frames : Tables(f)' = IF f = b /\ a # b THEN {<<s, p>>} ELSE Tables(f)
      BY <1>4, <2>1, <3>1, <3>2, <3>3
    <3> QED BY <3>1, <3>4
  <2>2. CASE tab[s][p] # 0
    BY <1>4, <2>2, SameUses
  <2> QED BY <2>1, <2>2
<1>8. ASSUME NEW f \in Frames PROVE FrameOK(f)'
  <2>1. Stacks(f)' = Stacks(f) /\ Copies(f)' = Copies(f)
    BY <1>c, CalmKeeps
  <2>2. CASE f = a
    <3>1. OneUse({}, {}, {}, FALSE, {<<s, p>>}, TRUE, 0)
      BY NewUse
    <3>2. Tables(f)' = Tables(f)
      BY <1>7, <2>2
    <3>3. /\ Tables(f) = {} /\ Stacks(f) = {} /\ Copies(f) = {} /\ f \notin lost /\ refs[f] = 0
          /\ f \in used'
      BY <1>4, <2>2, NoUse
    <3>4. Own(f)' = {<<s, p>>}
      BY <1>6, <2>2
    <3> QED BY <1>0, <2>1, <3>1, <3>2, <3>3, <3>4 DEF FrameOK, OneUse
  <2>3. CASE f # a /\ f = b
    <3>1. OneUse({<<s, p>>}, {}, {}, FALSE, {}, TRUE, 0)
      BY NewUse
    <3>2. Tables(f)' = {<<s, p>>} /\ Own(f)' = Own(f)
      BY <1>6, <1>7, <2>3
    <3>3. /\ Own(f) = {} /\ Stacks(f) = {} /\ Copies(f) = {} /\ f \notin lost /\ refs[f] = 0
          /\ f \in used'
      BY <1>4, <2>3, NoUse
    <3> QED BY <1>0, <2>1, <3>1, <3>2, <3>3 DEF FrameOK, OneUse
  <2>4. CASE f # a /\ f # b
    <3>1. Tables(f)' = Tables(f) /\ Own(f)' = Own(f) /\ (f \in used' <=> f \in used)
      BY <1>4, <1>6, <1>7, <2>4
    <3> QED BY <1>0, <2>1, <3>1, SameFrame DEF Sound
  <2> QED BY <2>2, <2>3, <2>4
<1>9. SpacesOK'
  <2>1. tab[s][0] # 0
    BY <1>1, <1>a DEF Sound, SpacesOK
  <2>2. \A r \in Spaces : tab'[r][0] = tab[r][0]
    BY <1>2, <1>7
  <2>3. \A r \in Spaces : tab'[r][0] = 0 => Empty(r)'
    <3> SUFFICES ASSUME NEW r \in Spaces, tab'[r][0] = 0, NEW q \in Pages
                 PROVE  pt'[r][q] = NoPage /\ tab'[r][q] = 0
      BY DEF Empty
    <3>1. r # s /\ q \in 0..NPages
      BY <2>1, <2>2, Bounds DEF Pages
    <3>2. pt[r][q] = NoPage /\ tab[r][q] = 0
      BY <2>2 DEF Sound, SpacesOK, Empty
    <3> QED BY <1>6, <1>7, <3>1, <3>2
  <2>4. \A q \in Pages : pt[s][q].f # a
    <3>1. Own(a) = {}
      BY <1>4, NoUse
    <3> QED BY <3>1, OwnIn
  <2>5. \A r \in Spaces : \A q, v \in Pages : pt'[r][q].f = pt'[r][v].f /\ pt'[r][q].f # 0 => q = v
    BY <1>5, <1>6, <2>4 DEF Sound, SpacesOK
  <2>6. \A u \in Threads : (sp[u] # 0 => sp[u] \in Spaces) /\ (pc[u].space # 0 => pc[u].space \in Spaces)
    <3>1. \A u \in Threads : sp[u] \in 0..(MaxForks + 1) /\ pc[u].space \in 0..(MaxForks + 1)
      BY DEF Typed, Works
    <3> QED BY <3>1, Bounds DEF Spaces
  <2>7. \A u \in Threads : sp'[u] # 0 => tab'[sp'[u]][0] # 0
    BY <1>0, <2>2, <2>6 DEF Sound, SpacesOK
  <2>8. \A u \in Threads : pc'[u].space # 0 => tab'[pc'[u].space][0] # 0
    BY <1>c, <2>2, <2>6 DEF Sound, SpacesOK, Calm
  <2>9. \A u \in Threads : pc'[u].space = pc[u].space
    BY <1>c DEF Calm
  <2> QED BY <1>0, <2>2, <2>3, <2>5, <2>7, <2>8, <2>9 DEF Sound, SpacesOK
<1>10. Unshared'
  <2>1. refs[a] = 0
    BY <1>4, NoUse
  <2> QED BY <1>0, <1>5, <1>6, <2>1, UnsharedKept DEF Sound
<1>11. Faults'
  <2>1. ASSUME NEW u \in Threads, pc'[u].at = "cow"
        PROVE  /\ pc[u] = pc'[u] /\ sp'[u] = sp[u]
               /\ pt'[sp[u]][pc[u].page] = pt[sp[u]][pc[u].page]
               /\ refs[pc[u].f] = 0 => refs'[pc[u].f] = 0
    <3>1. pc[u] = pc'[u] /\ sp'[u] = sp[u] /\ refs' = refs
      BY <1>0, <1>c, <2>1, CalmKeeps
    <3>2. pc[u].page \in Pages /\ pc[u].f \in Frames /\ sp[u] \in Spaces
      BY <2>1, <3>1, InFlight
    <3>3. pt[sp[u]][pc[u].page].f # 0
      BY <1>5, <2>1, <3>1, <3>2, EntryFields DEF Sound, Faults
    <3> QED BY <1>3, <1>5, <1>6, <3>1, <3>2, <3>3
  <2> QED BY <1>0, <2>1, FaultsKept DEF Sound
<1> QED BY <1>8, <1>9, <1>10, <1>11 DEF Sound

\* A page less gives its frame back.
LEMMA SbrkUnmapSound ==
    ASSUME Typed, Sound, NEW t \in Threads, SbrkUnmap(t), Clean'
    PROVE  Sound'
<1>c. Calm
  BY SbrkCalm
<1>0. UNCHANGED <<tab, kst, lost, sp, forks>> /\ pc[t].at = "unmap"
  BY DEF SbrkUnmap
<1>b. sp[t] \in Spaces /\ pc[t].page \in Pages
  BY <1>0, InSbrk
<1>1. PICK s \in Spaces, p \in Pages, o \in 0..NFrames : s = sp[t] /\ p = pc[t].page /\ o = pt[s][p].f
  <2>1. PICK s \in Spaces, p \in Pages : s = sp[t] /\ p = pc[t].page
    BY <1>b
  <2>2. pt[s][p].f \in 0..NFrames
    BY EntryFields DEF Typed
  <2> QED BY <2>1, <2>2
<1>2. pt' = [pt EXCEPT ![s][p] = NoPage]
  BY <1>1 DEF SbrkUnmap
<1>3. IF o = 0 THEN UNCHANGED <<used, refs>> ELSE Set(Release(Now, o))
  BY <1>1 DEF SbrkUnmap
<1>4. ~Faulting(t, p)
  BY <1>1 DEF SbrkUnmap, Clean, Contained
<1>5. NoPage.f = 0 /\ ~NoPage.w /\ 0 \notin Frames /\ (o # 0 => o \in Frames)
  BY EntryFields, Bounds DEF Frames
<1>6. /\ \A r \in Spaces, q \in Pages : pt'[r][q] = IF r = s /\ q = p THEN NoPage ELSE pt[r][q]
      /\ \A f \in Frames : Own(f)' = Own(f) \ {<<s, p>>}
      /\ \A f : <<s, p>> \in Own(f) <=> f = o
  <2>1. /\ \A r \in Spaces, q \in Pages : pt'[r][q] = IF r = s /\ q = p THEN NoPage ELSE pt[r][q]
        /\ \A f : Own(f)' = IF NoPage.f = f THEN Own(f) \cup {<<s, p>>} ELSE Own(f) \ {<<s, p>>}
        /\ \A f : <<s, p>> \in Own(f) <=> pt[s][p].f = f
    BY <1>2, EntrySet
  <2> QED BY <1>1, <1>5, <2>1
<1>7. \A f \in Frames : FrameOK(f)' /\ (refs[f] = 0 => refs'[f] = 0)
  <2> TAKE f \in Frames
  <2>1. Tables(f)' = Tables(f) /\ Stacks(f)' = Stacks(f) /\ Copies(f)' = Copies(f) /\ FrameOK(f)
    BY <1>0, <1>c, CalmKeeps, SameUses DEF Sound
  <2>2. CASE o = 0
    <3>1. Own(f)' = Own(f)
      BY <1>5, <1>6, <2>2
    <3>2. UNCHANGED <<used, refs>>
      BY <1>3, <2>2
    <3> QED BY <1>0, <2>1, <3>1, <3>2, SameFrame
  <2>3. CASE o # 0
    <3>1. Copies(o)' = Copies(o) /\ FrameOK(o)
      BY <1>5, <1>c, <2>3, CalmKeeps DEF Sound
    <3>2. o \in Frames /\ Set(Release(Now, o)) /\ <<s, p>> \in Own(o) /\ Own(o)' = Own(o) \ {<<s, p>>}
      BY <1>3, <1>5, <1>6, <2>3
    <3>3. /\ FrameOK(o)'
          /\ \A g \in Frames \ {o} : (g \in used' <=> g \in used) /\ refs'[g] = refs[g]
          /\ refs[o] = 0 => refs'[o] = 0
      BY <1>0, <3>1, <3>2, Released
    <3>4. CASE f = o
      BY <3>3, <3>4
    <3>5. CASE f # o
      <4>1. Own(f)' = Own(f)
        BY <1>6, <3>5
      <4> QED BY <1>0, <2>1, <3>3, <3>5, <4>1, SameFrame
    <3> QED BY <3>4, <3>5
  <2> QED BY <2>2, <2>3
<1>8. SpacesOK'
  <2>1. \A r \in Spaces : tab'[r][0] = 0 => Empty(r)'
    BY <1>0, <1>6 DEF Sound, SpacesOK, Empty
  <2>2. \A r \in Spaces : \A q, v \in Pages : pt'[r][q].f = pt'[r][v].f /\ pt'[r][q].f # 0 => q = v
    BY <1>5, <1>6 DEF Sound, SpacesOK
  <2>3. \A u \in Threads : pc'[u].space = pc[u].space
    BY <1>c DEF Calm
  <2> QED BY <1>0, <2>1, <2>2, <2>3 DEF Sound, SpacesOK
<1>9. Unshared'
  BY <1>5, <1>6, <1>7, UnsharedKept DEF Sound
<1>10. Faults'
  <2>1. ASSUME NEW u \in Threads, pc'[u].at = "cow"
        PROVE  /\ pc[u] = pc'[u] /\ sp'[u] = sp[u]
               /\ pt'[sp[u]][pc[u].page] = pt[sp[u]][pc[u].page]
               /\ refs[pc[u].f] = 0 => refs'[pc[u].f] = 0
    <3>1. pc[u] = pc'[u] /\ sp'[u] = sp[u]
      BY <1>0, <1>c, <2>1, CalmKeeps
    <3>2. pc[u].page \in Pages /\ pc[u].f \in Frames /\ sp[u] \in Spaces
      BY <2>1, <3>1, InFlight
    <3>4. ~(sp[u] = s /\ pc[u].page = p)
      BY <1>0, <1>1, <1>4, <2>1, <3>1 DEF Faulting, Siblings
    <3> QED BY <1>6, <1>7, <3>1, <3>2, <3>4
  <2> QED BY <1>0, <2>1, FaultsKept DEF Sound
<1> QED BY <1>7, <1>8, <1>9, <1>10 DEF Sound

\* A thread gets another kernel stack, or none.
LEMMA StackSet ==
    ASSUME Typed, NEW u \in Threads, NEW k, kst' = [kst EXCEPT ![u] = k]
    PROVE  /\ \A f : Stacks(f)' = IF f \in Stack(k) THEN Stacks(f) \cup {u} ELSE Stacks(f) \ {u}
           /\ \A f : u \in Stacks(f) <=> f \in Stack(kst[u])
<1>1. \A v \in Threads : kst'[v] = IF v = u THEN k ELSE kst[v]
  BY DEF Typed
<1>2. \A f : Stacks(f)' = {v \in Threads : f \in Stack(kst'[v])}
  BY DEF Stacks, Stack
<1>3. \A f : Stacks(f)' = IF f \in Stack(k) THEN Stacks(f) \cup {u} ELSE Stacks(f) \ {u}
  BY <1>1, <1>2 DEF Stacks
<1> QED BY <1>3 DEF Stacks

\* No frame is 0, and stack 0 has no frames.
LEMMA NoStack == Stack(0) = {} /\ 0 \notin Frames
BY Bounds DEF Stack, Frames

\* A program image in the space that is next: what it is, and which uses it adds.
NextSpace(s) == s = forks + 2
ImageAt(s, a, b, c, x, y, z) ==
    /\ a # b /\ b # c /\ a # c /\ Image = {a, b, c}
    /\ \A r \in Spaces \ {s}, q \in Pages : pt'[r][q] = pt[r][q]
    /\ \A q \in Pages : pt'[s][q] \in {NoPage, Writable(b)}
    /\ \A f \in Frames : Own(f)' = IF f = b THEN {x} ELSE Own(f)
    /\ \A f \in Frames : Tables(f)' = IF f = a THEN {y} ELSE IF f = c THEN {z} ELSE Tables(f)
    /\ forks' = forks + 1 /\ Unshared' /\ tab[s][0] = 0
    /\ mem' = [mem EXCEPT ![b] = 0] /\ want' = [want EXCEPT ![s] = [q \in Pages |-> 0]]
    /\ \A r \in Spaces : /\ tab'[r][0] = 0 => Empty(r)'
                         /\ r > forks' + 1 => tab'[r][0] = 0
                         /\ tab[r][0] # 0 \/ r = s => tab'[r][0] # 0
    /\ \A r \in Spaces : \A p, q \in Pages : pt'[r][p].f = pt'[r][q].f /\ pt'[r][p].f # 0 => p = q

\* An image lands in an empty space with frames nobody owns.
LEMMA ImageEffect ==
    ASSUME Typed, Sound, NEW s \in Spaces, NextSpace(s), Complete, Built(s), refs' = refs
    PROVE  \E a, b, c \in Frames \ used : \E x, y, z : ImageAt(s, a, b, c, x, y, z)
<1>1. PICK a, b, c \in Frames \ used :
               /\ a # b /\ b # c /\ a # c /\ Image = {a, b, c}
               /\ pt' = [pt EXCEPT ![s][1] = Writable(b)]
               /\ tab' = [tab EXCEPT ![s] = [p \in 0..NPages |->
                              CASE p = 0 -> a [] p = 1 -> c [] OTHER -> 0]]
               /\ forks' = forks + 1
               /\ mem' = [mem EXCEPT ![b] = 0] /\ want' = [want EXCEPT ![s] = [q \in Pages |-> 0]]
  BY BuiltEffect
<1>2. 1 \in Pages /\ 0 \in 0..NPages /\ 1 \in 0..NPages /\ Pages \subseteq 0..NPages /\ 0 \notin Pages
  BY Bounds DEF Pages
<1>o. PICK i \in 0..NPages, o \in Pages : i = 0 /\ o = 1 /\ o \in 0..NPages
  BY <1>2
<1>3. tab[s][0] = 0 /\ \A q \in Pages : pt[s][q] = NoPage /\ tab[s][q] = 0
  <2>1. s > forks + 1
    BY Bounds DEF Typed, NextSpace
  <2> QED BY <2>1 DEF Sound, SpacesOK, Empty
<1>4. NoPage.f = 0 /\ ~NoPage.w /\ Writable(b).f = b /\ 0 \notin Frames
  BY EntryFields, NoStack
<1>5. /\ \A r \in Spaces, q \in Pages : pt'[r][q] = IF r = s /\ q = o THEN Writable(b) ELSE pt[r][q]
      /\ \A f : Own(f)' = IF Writable(b).f = f THEN Own(f) \cup {<<s, o>>} ELSE Own(f) \ {<<s, o>>}
      /\ \A f : <<s, o>> \in Own(f) <=> pt[s][o].f = f
  <2>1. pt' = [pt EXCEPT ![s][o] = Writable(b)]
    BY <1>1, <1>o
  <2> QED BY <2>1, EntrySet
<1>6. Own(b) = {} /\ Tables(a) = {} /\ Tables(c) = {} /\ refs[b] = 0
  BY <1>1, NoUse
<1>7. \A f \in Frames : Own(f)' = IF f = b THEN {<<s, o>>} ELSE Own(f)
  BY <1>3, <1>4, <1>5, <1>6
<1>8. \A r \in Spaces, q \in 0..NPages :
          tab'[r][q] = IF r = s THEN IF q = i THEN a ELSE IF q = o THEN c ELSE 0 ELSE tab[r][q]
  BY <1>1, <1>o DEF Typed
<1>9. ASSUME NEW f \in Frames
      PROVE  Tables(f)' = IF f = a THEN {<<s, i>>} ELSE IF f = c THEN {<<s, o>>} ELSE Tables(f)
  <2>0. i # o /\ <<s, i>> \in Spaces \X (0..NPages) /\ <<s, o>> \in Spaces \X (0..NPages)
    BY <1>o
  <2>1. \A x : x \in Tables(f)' <=> x \in Spaces \X (0..NPages) /\ tab'[x[1]][x[2]] = f
    BY DEF Tables
  <2>2. \A x : x \in Tables(f) <=> x \in Spaces \X (0..NPages) /\ tab[x[1]][x[2]] = f
    BY DEF Tables
  <2>3. \A x \in Spaces \X (0..NPages) : /\ x = <<s, i>> <=> x[1] = s /\ x[2] = i
                                         /\ x = <<s, o>> <=> x[1] = s /\ x[2] = o
    BY <2>0
  <2>5. \A q \in 0..NPages : tab[s][q] = 0
    BY <1>3, <1>2 DEF Pages
  <2>6. \A x \in Spaces \X (0..NPages) : x[1] = s => tab[x[1]][x[2]] = 0
    BY <2>5
  <2>7. \A x \in Spaces \X (0..NPages) :
            tab'[x[1]][x[2]] = IF x[1] = s THEN IF x[2] = i THEN a ELSE IF x[2] = o THEN c ELSE 0
                               ELSE tab[x[1]][x[2]]
    BY <1>8
  <2>a. f # 0 /\ a # b /\ b # c /\ a # c
    BY <1>1, <1>4
  <2>8. CASE f = a
    <3>1. \A x : x \in Tables(f)' <=> x = <<s, i>>
      <4> TAKE x
      <4>1. x \in Spaces \X (0..NPages) => ~(tab[x[1]][x[2]] = f)
        BY <1>6, <2>2, <2>8
      <4> QED BY <2>0, <2>1, <2>3, <2>7, <2>8, <2>a, <4>1
    <3> QED BY <2>8, <3>1
  <2>9. CASE f = c
    <3>1. \A x : x \in Tables(f)' <=> x = <<s, o>>
      <4> TAKE x
      <4>1. x \in Spaces \X (0..NPages) => ~(tab[x[1]][x[2]] = f)
        BY <1>6, <2>2, <2>9
      <4> QED BY <2>0, <2>1, <2>3, <2>7, <2>9, <2>a, <4>1
    <3> QED BY <2>a, <2>9, <3>1
  <2>10. CASE f # a /\ f # c
    <3>1. \A x : x \in Tables(f)' <=> x \in Tables(f)
      BY <2>1, <2>2, <2>6, <2>7, <2>10, <2>a
    <3> QED BY <2>10, <3>1
  <2> QED BY <2>8, <2>9, <2>10
<1>10. ASSUME NEW r \in Spaces
       PROVE  /\ tab'[r][0] = 0 => Empty(r)'
              /\ r > forks' + 1 => tab'[r][0] = 0
              /\ tab[r][0] # 0 \/ r = s => tab'[r][0] # 0
  <2>1. CASE r = s
    <3>1. tab'[r][0] # 0
      BY <1>2, <1>4, <1>8, <1>o, <2>1
    <3>2. ~(r > forks' + 1)
      <4>1. forks \in Nat /\ forks' = forks + 1 /\ r = forks + 2
        BY <1>1, <2>1, Bounds DEF Typed, NextSpace
      <4> QED BY <4>1
    <3> QED BY <3>1, <3>2
  <2>2. CASE r # s
    <3>1. tab'[r][0] = tab[r][0]
      BY <1>2, <1>8, <2>2
    <3>2. tab[r][0] = 0 => Empty(r)'
      BY <1>2, <1>5, <1>8, <2>2 DEF Sound, SpacesOK, Empty
    <3>3. r > forks' + 1 => r > forks + 1
      <4>1. forks \in Nat /\ r \in Nat /\ forks' = forks + 1
        BY <1>1, Bounds DEF Typed, Spaces
      <4> QED BY <4>1
    <3> QED BY <2>2, <3>1, <3>2, <3>3 DEF Sound, SpacesOK
  <2> QED BY <2>1, <2>2
<1>11. /\ \A r \in Spaces \ {s}, q \in Pages : pt'[r][q] = pt[r][q]
       /\ \A q \in Pages : pt'[s][q] \in {NoPage, Writable(b)}
  BY <1>3, <1>5
<1>12. \A r \in Spaces : \A p, q \in Pages : pt'[r][p].f = pt'[r][q].f /\ pt'[r][p].f # 0 => p = q
  BY <1>3, <1>4, <1>5 DEF Sound, SpacesOK
<1>13. Unshared'
  BY <1>4, <1>5, <1>6, UnsharedKept DEF Sound
<1>14. ImageAt(s, a, b, c, <<s, o>>, <<s, i>>, <<s, o>>)
  BY <1>1, <1>3, <1>7, <1>9, <1>10, <1>11, <1>12, <1>13 DEF ImageAt
<1> QED BY <1>14

\* The frames of a new image, and of the kernel stack of the thread that may run it.
LEMMA ImageFrames ==
    ASSUME Typed, Sound, NEW s \in Spaces, NextSpace(s), Complete, Built(s), refs' = refs, lost' = lost,
           \A u \in Threads : (pc'[u].at = "cow" \/ pc[u].at = "cow") => pc'[u] = pc[u],
           NEW v \in Threads, NEW k, Stack(k) \subseteq Frames \ (used \cup Image),
           used' = used \cup Image \cup Stack(k),
           \/ k = 0 /\ kst' = kst
           \/ kst[v] = 0 /\ kst' = [kst EXCEPT ![v] = k]
    PROVE  \A f \in Frames : FrameOK(f)'
<1> TAKE f \in Frames
<1>0. PICK a, b, c \in Frames \ used : \E x, y, z : ImageAt(s, a, b, c, x, y, z)
  BY ImageEffect
<1>a. PICK x, y, z : ImageAt(s, a, b, c, x, y, z)
  BY <1>0
<1>1. /\ a # b /\ b # c /\ a # c /\ Image = {a, b, c}
      /\ \A g \in Frames : Own(g)' = IF g = b THEN {x} ELSE Own(g)
      /\ \A g \in Frames : Tables(g)' = IF g = a THEN {y} ELSE IF g = c THEN {z} ELSE Tables(g)
  BY <1>a DEF ImageAt
<1>2. Copies(f)' = Copies(f) /\ FrameOK(f)
  BY SameUses DEF Sound
<1>3. Stacks(f)' = IF f \in Stack(k) THEN Stacks(f) \cup {v} ELSE Stacks(f)
  <2>1. CASE k = 0 /\ kst' = kst
    BY <2>1, SameUses, NoStack
  <2>2. CASE kst[v] = 0 /\ kst' = [kst EXCEPT ![v] = k]
    <3>1. v \notin Stacks(f)
      BY <2>2, NoStack DEF Stacks
    <3>2. Stacks(f)' = IF f \in Stack(k) THEN Stacks(f) \cup {v} ELSE Stacks(f) \ {v}
      BY <2>2, StackSet
    <3>3. Stacks(f) \ {v} = Stacks(f)
      BY <3>1
    <3> QED BY <3>2, <3>3
  <2> QED BY <2>1, <2>2
<1>4. f \notin used =>
           /\ Tables(f) = {} /\ Stacks(f) = {} /\ Copies(f) = {} /\ f \notin lost /\ Own(f) = {}
           /\ refs[f] = 0
  BY NoUse
<1>5. f \in used' <=> f \in used \/ f \in {a, b, c} \/ f \in Stack(k)
  BY <1>1
<1>6. \A w : /\ OneUse({w}, {}, {}, FALSE, {}, TRUE, 0) /\ OneUse({}, {w}, {}, FALSE, {}, TRUE, 0)
             /\ OneUse({}, {}, {}, FALSE, {w}, TRUE, 0)
  BY NewUse
<1>7. CASE f = a
  BY <1>1, <1>2, <1>3, <1>4, <1>5, <1>6, <1>7 DEF FrameOK, OneUse
<1>8. CASE f = b
  <2>1. OneUse({}, {}, {}, FALSE, {x}, TRUE, 0)
    BY <1>6
  <2>2. Tables(f)' = {} /\ Stacks(f)' = {} /\ Copies(f)' = {} /\ f \notin lost' /\ Own(f)' = {x}
        /\ f \in used' /\ refs'[f] = 0
    BY <1>1, <1>2, <1>3, <1>4, <1>5, <1>8
  <2> QED BY <2>1, <2>2 DEF FrameOK, OneUse
<1>9. CASE f = c
  BY <1>1, <1>2, <1>3, <1>4, <1>5, <1>6, <1>9 DEF FrameOK, OneUse
<1>10. CASE f \in Stack(k)
  <2>1. f \notin used /\ f # a /\ f # b /\ f # c
    BY <1>1, <1>10
  <2> QED BY <1>1, <1>2, <1>3, <1>4, <1>5, <1>6, <1>10, <2>1 DEF FrameOK, OneUse
<1>11. CASE f \notin {a, b, c} \cup Stack(k)
  <2>1. /\ Own(f)' = Own(f) /\ Tables(f)' = Tables(f) /\ Stacks(f)' = Stacks(f)
        /\ (f \in used' <=> f \in used)
    BY <1>1, <1>3, <1>5, <1>11
  <2> QED BY <1>2, <2>1, SameFrame
<1> QED BY <1>7, <1>8, <1>9, <1>10, <1>11

\* The space that is next is nobody's.
LEMMA NextFree ==
    ASSUME Typed, NEW s \in Spaces, NextSpace(s)
    PROVE  \A u \in Threads : sp[u] # s /\ pc[u].space # s
<1> TAKE u \in Threads
<1>1. sp[u] <= forks + 1 /\ pc[u].space <= forks + 1 /\ forks \in Nat /\ s = forks + 2
  BY Bounds DEF Typed, NextSpace
<1> QED BY <1>1

\* Every thread's space, and every space a call is building, is a space.
LEMMA SpaceIn ==
    ASSUME Typed, NEW u \in Threads
    PROVE  (sp[u] # 0 => sp[u] \in Spaces) /\ (pc[u].space # 0 => pc[u].space \in Spaces)
<1>1. sp[u] \in 0..(MaxForks + 1) /\ pc[u].space \in 0..(MaxForks + 1)
  BY DEF Typed, Works
<1> QED BY <1>1, Bounds DEF Spaces

\* Faults in flight do not see a new image.
LEMMA ImageFaults ==
    ASSUME Typed, Sound, NEW s \in Spaces, NextSpace(s), refs' = refs,
           \A r \in Spaces \ {s}, q \in Pages : pt'[r][q] = pt[r][q],
           \A u \in Threads : pc'[u].at = "cow" => pc'[u] = pc[u] /\ sp'[u] = sp[u]
    PROVE  Faults'
<1>1. ASSUME NEW u \in Threads, pc'[u].at = "cow"
      PROVE  /\ pc[u] = pc'[u] /\ sp'[u] = sp[u]
             /\ pt'[sp[u]][pc[u].page] = pt[sp[u]][pc[u].page]
             /\ refs[pc[u].f] = 0 => refs'[pc[u].f] = 0
  <2>1. pc[u] = pc'[u] /\ sp'[u] = sp[u]
    BY <1>1
  <2>2. pc[u].page \in Pages /\ sp[u] \in Spaces /\ sp[u] # s
    BY <1>1, <2>1, InFlight, NextFree
  <2> QED BY <2>1, <2>2
<1> QED BY <1>1, FaultsKept DEF Sound

\* exec builds the replacement.
LEMMA ExecBuildSound ==
    ASSUME Typed, Sound, NEW t \in Threads, ExecBuild(t), Clean'
    PROVE  Sound'
<1>0. forks < MaxForks /\ UNCHANGED <<refs, sp, kst, lost>> /\ sp[t] # 0 /\ pc[t] = Idle
  BY DEF ExecBuild, Call, Step
<1>1. CASE Complete
  <2>0. forks + 2 \in Spaces
    BY <1>0, Bounds DEF Spaces, Typed
  <2>1. PICK s \in Spaces : s = forks + 2
    BY <2>0
  <2>2. NextSpace(s) /\ Built(s) /\ used' = used \cup Image
    BY <1>1, <2>1 DEF ExecBuild, NextSpace
  <2> DEFINE c == Work("exec", 0, 0, 0, s)
  <2>3. pc' = [pc EXCEPT ![t] = c]
    BY <1>1, <2>1 DEF ExecBuild
  <2>4. c.at = "exec" /\ c.space = s /\ pc[t].at = "idle" /\ pc[t].space = 0
    BY <1>0, WorkFields, IdleOK
  <2> HIDE DEF c
  <2>5. \A u \in Threads : pc'[u] = IF u = t THEN c ELSE pc[u]
    BY <2>3 DEF Typed
  <2>6. PICK a, b, d \in Frames \ used : \E x, y, z : ImageAt(s, a, b, d, x, y, z)
    BY <1>0, <1>1, <2>2, ImageEffect
  <2>7. /\ \A r \in Spaces \ {s}, q \in Pages : pt'[r][q] = pt[r][q]
        /\ Unshared' /\ forks' = forks + 1
        /\ \A r \in Spaces : /\ tab'[r][0] = 0 => Empty(r)'
                             /\ r > forks' + 1 => tab'[r][0] = 0
                             /\ tab[r][0] # 0 \/ r = s => tab'[r][0] # 0
        /\ \A r \in Spaces : \A p, q \in Pages : pt'[r][p].f = pt'[r][q].f /\ pt'[r][p].f # 0 => p = q
    BY <2>6 DEF ImageAt
  <2>8. \A u \in Threads : (pc'[u].at = "cow" \/ pc[u].at = "cow") => pc'[u] = pc[u]
    BY <2>4, <2>5
  <2>9. \A f \in Frames : FrameOK(f)'
    <3>1. Stack(0) \subseteq Frames \ (used \cup Image) /\ used' = used \cup Image \cup Stack(0)
      BY <2>2, NoStack
    <3> QED BY <1>0, <1>1, <2>2, <2>8, <3>1, ImageFrames
  <2>10. \A u \in Threads : sp[u] # s /\ pc[u].space # s
    BY <2>2, NextFree
  <2>11. \A u \in Threads : sp'[u] # 0 => tab'[sp'[u]][0] # 0
    BY <1>0, <2>7, SpaceIn DEF Sound, SpacesOK
  <2>12. \A u \in Threads : pc'[u].space # 0 =>
             /\ tab'[pc'[u].space][0] # 0
             /\ \A v \in Threads : sp'[v] # pc'[u].space /\ (v # u => pc'[v].space # pc'[u].space)
    <3> TAKE u \in Threads
    <3>1. CASE u = t
      BY <1>0, <2>4, <2>5, <2>7, <2>10, <3>1
    <3>2. CASE u # t
      BY <1>0, <2>4, <2>5, <2>7, <2>10, <3>2, SpaceIn DEF Sound, SpacesOK
    <3> QED BY <3>1, <3>2
  <2>13. SpacesOK'
    BY <2>7, <2>11, <2>12 DEF SpacesOK
  <2>14. Faults'
    BY <1>0, <2>2, <2>7, <2>8, ImageFaults
  <2> QED BY <2>7, <2>9, <2>13, <2>14 DEF Sound
<1>2. CASE ~Complete
  <2>1. UNCHANGED <<pt, tab, forks, pc>> /\ BuildLeaks = {}
    BY <1>2 DEF ExecBuild, Built, Clean, Contained
  <2>2. used' = used
    BY <1>2, <2>1 DEF ExecBuild
  <2> QED BY <1>0, <2>1, <2>2, Quiet
<1> QED BY <1>1, <1>2

\* spawn puts an image under a new thread.
LEMMA SpawnImageSound ==
    ASSUME Typed, Sound, NEW u \in Threads, SpawnImage(u)
    PROVE  Sound'
<1>0. /\ forks < MaxForks /\ Complete /\ UNCHANGED <<refs, pc, lost>> /\ sp[u] = 0 /\ kst[u] = 0
      /\ SpawnRuns # {}
  BY DEF SpawnImage, CanSpawn
<1>1. forks + 2 \in Spaces
  BY <1>0, Bounds DEF Spaces, Typed
<1>2. PICK s \in Spaces : s = forks + 2
  BY <1>1
<1> DEFINE k == Min(SpawnRuns)
<1>3. /\ NextSpace(s) /\ Built(s) /\ used' = used \cup Image \cup Stack(k)
      /\ kst' = [kst EXCEPT ![u] = k] /\ sp' = [sp EXCEPT ![u] = s]
  BY <1>2 DEF SpawnImage, NextSpace
<1>4. Stack(k) \subseteq Frames \ (used \cup Image) /\ k \in Frames
  BY <1>0, RunFree DEF SpawnRuns
<1> HIDE DEF k
<1>k. PICK l \in Frames : l = k
  BY <1>4
<1>5. PICK a, b, d \in Frames \ used : \E x, y, z : ImageAt(s, a, b, d, x, y, z)
  BY <1>0, <1>3, ImageEffect
<1>6. /\ \A r \in Spaces \ {s}, q \in Pages : pt'[r][q] = pt[r][q]
      /\ Unshared' /\ forks' = forks + 1
      /\ \A r \in Spaces : /\ tab'[r][0] = 0 => Empty(r)'
                           /\ r > forks' + 1 => tab'[r][0] = 0
                           /\ tab[r][0] # 0 \/ r = s => tab'[r][0] # 0
      /\ \A r \in Spaces : \A p, q \in Pages : pt'[r][p].f = pt'[r][q].f /\ pt'[r][p].f # 0 => p = q
  BY <1>5 DEF ImageAt
<1>7. \A f \in Frames : FrameOK(f)'
  <2>1. \A v \in Threads : (pc'[v].at = "cow" \/ pc[v].at = "cow") => pc'[v] = pc[v]
    BY <1>0
  <2>2. /\ Stack(l) \subseteq Frames \ (used \cup Image) /\ used' = used \cup Image \cup Stack(l)
        /\ kst' = [kst EXCEPT ![u] = l]
    BY <1>3, <1>4, <1>k
  <2> QED BY <1>0, <1>3, <2>1, <2>2, ImageFrames
<1>8. \A v \in Threads : sp[v] # s /\ pc[v].space # s
  BY <1>3, NextFree
<1>9. \A v \in Threads : sp'[v] = IF v = u THEN s ELSE sp[v]
  BY <1>3 DEF Typed
<1>10. pc[u] = Idle
  BY <1>0 DEF Typed
<1>11. SpacesOK'
  <2>1. \A v \in Threads : sp'[v] # 0 => tab'[sp'[v]][0] # 0
    BY <1>6, <1>9, SpaceIn DEF Sound, SpacesOK
  <2>2. \A v \in Threads : pc'[v].space # 0 =>
             /\ tab'[pc'[v].space][0] # 0
             /\ \A w \in Threads : sp'[w] # pc'[v].space /\ (w # v => pc'[w].space # pc'[v].space)
    BY <1>0, <1>6, <1>8, <1>9, SpaceIn DEF Sound, SpacesOK
  <2> QED BY <1>6, <2>1, <2>2 DEF SpacesOK
<1>12. Faults'
  <2>1. \A v \in Threads : pc'[v].at = "cow" => pc'[v] = pc[v] /\ sp'[v] = sp[v]
    BY <1>0, <1>9, <1>10, IdleOK
  <2> QED BY <1>0, <1>3, <1>6, <2>1, ImageFaults
<1> QED BY <1>6, <1>7, <1>11, <1>12 DEF Sound

\* A spawn that fails without a trace took nothing.
LEMMA SpawnFailsSound ==
    ASSUME Typed, Sound, SpawnFails, Clean'
    PROVE  Sound'
<1>1. ~Complete /\ BuildLeaks = {}
  BY DEF SpawnFails, Clean, Contained
<1>2. used' = used /\ UNCHANGED <<refs, pt, tab, kst, lost, sp, pc, forks>>
  BY <1>1 DEF SpawnFails, tvars
<1> QED BY <1>2, Quiet

\* A space is given back: its root with it, or left behind and counted as lost.
Destroyed(s) == Set(Teardown(Now, s, {tab[s][0]})) /\ Dropped(s) /\ lost' = lost
RootLeft(s) == Set(Teardown(Now, s, {})) /\ Dropped(s) /\ lost' = lost \cup {tab[s][0]}

\* A space that is dropped owns nothing any more, and the others what they did.
LEMMA DropEffect ==
    ASSUME Typed, NEW s \in Spaces, Dropped(s)
    PROVE  /\ \A r \in Spaces, q \in Pages : pt'[r][q] = IF r = s THEN NoPage ELSE pt[r][q]
           /\ \A r \in Spaces, q \in 0..NPages : tab'[r][q] = IF r = s THEN 0 ELSE tab[r][q]
           /\ \A f \in Frames : Own(f)' = {x \in Own(f) : x[1] # s}
           /\ \A f \in Frames : Tables(f)' = {x \in Tables(f) : x[1] # s}
<1>1. \A r \in Spaces, q \in Pages : pt'[r][q] = IF r = s THEN NoPage ELSE pt[r][q]
  BY DEF Dropped, Typed
<1>2. \A r \in Spaces, q \in 0..NPages : tab'[r][q] = IF r = s THEN 0 ELSE tab[r][q]
  BY DEF Dropped, Typed
<1>3. NoPage.f = 0 /\ 0 \notin Frames
  BY EntryFields, NoStack
<1>4. \A f \in Frames : Own(f)' = {x \in Own(f) : x[1] # s}
  <2> TAKE f \in Frames
  <2>1. \A x : x \in Own(f)' <=> x \in Spaces \X Pages /\ pt'[x[1]][x[2]].f = f
    BY DEF Own, OwnOf
  <2>2. \A x : x \in Own(f) <=> x \in Spaces \X Pages /\ pt[x[1]][x[2]].f = f
    BY DEF Own, OwnOf
  <2> QED BY <1>1, <1>3, <2>1, <2>2
<1>5. \A f \in Frames : Tables(f)' = {x \in Tables(f) : x[1] # s}
  <2> TAKE f \in Frames
  <2>1. \A x : x \in Tables(f)' <=> x \in Spaces \X (0..NPages) /\ tab'[x[1]][x[2]] = f
    BY DEF Tables
  <2>2. \A x : x \in Tables(f) <=> x \in Spaces \X (0..NPages) /\ tab[x[1]][x[2]] = f
    BY DEF Tables
  <2> QED BY <1>2, <1>3, <2>1, <2>2
<1> QED BY <1>1, <1>2, <1>4, <1>5

\* A frame without one of its pages.
LEMMA OneLess ==
    ASSUME NEW f \in Frames, FrameOK(f), NEW x \in Own(f)
    PROVE  /\ refs[f] = 0 => OneUse(Tables(f), Stacks(f), Copies(f), f \in lost, Own(f) \ {x}, FALSE, 0)
           /\ refs[f] # 0 => OneUse(Tables(f), Stacks(f), Copies(f), f \in lost, Own(f) \ {x},
                                    f \in used, refs[f] - 1)
<1>1. IsFiniteSet(Own(f))
  BY OwnFinite DEF Own
<1>2. /\ refs[f] = 0 => OneUse(Tables(f), Stacks(f), Copies(f), f \in lost, Own(f) \ {x}, FALSE, 0)
      /\ refs[f] # 0 => OneUse(Tables(f), Stacks(f), Copies(f), f \in lost, Own(f) \ {x}, f \in used, refs[f] - 1)
  BY <1>1, DropOwner, ZenonT(60) DEF FrameOK
<1> QED BY <1>2

\* What is left of a frame when a space that maps it, or has it for a table, is dropped.
LEMMA DropSpace ==
    ASSUME Typed, Sound, NEW s \in Spaces, tab[s][0] # 0, Destroyed(s) \/ RootLeft(s), kst' = kst,
           \A u \in Threads : (pc'[u].at = "cow" \/ pc[u].at = "cow") => pc'[u] = pc[u]
    PROVE  /\ \A f \in Frames : FrameOK(f)' /\ (refs[f] = 0 => refs'[f] = 0)
           /\ Unshared'
<1>1. /\ \A r \in Spaces, q \in Pages : pt'[r][q] = IF r = s THEN NoPage ELSE pt[r][q]
      /\ \A r \in Spaces, q \in 0..NPages : tab'[r][q] = IF r = s THEN 0 ELSE tab[r][q]
      /\ \A f \in Frames : Own(f)' = {x \in Own(f) : x[1] # s}
      /\ \A f \in Frames : Tables(f)' = {x \in Tables(f) : x[1] # s}
  BY DropEffect DEF Destroyed, RootLeft
<1>2. PICK root \in {{}, {tab[s][0]}} : /\ Set(Teardown(Now, s, root))
                                        /\ root = {} => lost' = lost \cup {tab[s][0]}
                                        /\ root # {} => lost' = lost
  BY DEF Destroyed, RootLeft
<1>3. /\ used' = (used \ {f \in Frames : refs[f] = 0 /\ \E p \in Mapped(s) : pt[s][p].f = f})
                     \ ({tab[s][p] : p \in 1..NPages} \cup root)
      /\ \A f \in Frames : refs'[f] = IF refs[f] # 0 /\ \E p \in Mapped(s) : pt[s][p].f = f
                                      THEN refs[f] - 1 ELSE refs[f]
  BY <1>2, TeardownTypes
<1>a. 0 \notin Frames /\ \A f \in Frames : (\E p \in Mapped(s) : pt[s][p].f = f) <=> (\E p \in Pages : pt[s][p].f = f)
  BY NoStack DEF Mapped
<1>4. ASSUME NEW f \in Frames PROVE FrameOK(f)' /\ (refs[f] = 0 => refs'[f] = 0)
  <2>1. Stacks(f)' = Stacks(f) /\ Copies(f)' = Copies(f) /\ FrameOK(f) /\ refs[f] \in Nat
    BY SameUses DEF Sound, Typed
  <2>2. CASE \E p \in Pages : pt[s][p].f = f
    <3>1. PICK p \in Pages : pt[s][p].f = f
      BY <2>2
    <3>2. <<s, p>> \in Own(f) /\ Own(f)' = Own(f) \ {<<s, p>>}
      <4>1. <<s, p>> \in Own(f)
        BY <3>1, OwnIn
      <4>2. \A x \in Own(f) : x[1] = s <=> x = <<s, p>>
        <5> TAKE x \in Own(f)
        <5>1. x \in Spaces \X Pages /\ pt[x[1]][x[2]].f = f
          BY DEF Own, OwnOf
        <5>2. x[1] = s => x[2] = p
          BY <1>a, <3>1, <5>1 DEF Sound, SpacesOK
        <5> QED BY <5>1, <5>2
      <4> QED BY <1>1, <4>1, <4>2
    <3>3. IsFiniteSet(Own(f))
      BY OwnFinite DEF Own
    <3>4. Tables(f) = {} /\ Stacks(f) = {} /\ Copies(f) = {} /\ f \notin lost
      BY <2>1, <3>2 DEF FrameOK, OneUse
    <3>b. PICK x \in Own(f) : x = <<s, p>>
      BY <3>2
    <3>c. /\ refs[f] = 0 => OneUse(Tables(f), Stacks(f), Copies(f), f \in lost, Own(f) \ {x}, FALSE, 0)
          /\ refs[f] # 0 => OneUse(Tables(f), Stacks(f), Copies(f), f \in lost, Own(f) \ {x},
                                   f \in used, refs[f] - 1)
      BY <2>1, OneLess
    <3>a. /\ refs[f] = 0 => OneUse(Tables(f), Stacks(f), Copies(f), f \in lost, Own(f)', FALSE, 0)
          /\ refs[f] # 0 => OneUse(Tables(f), Stacks(f), Copies(f), f \in lost, Own(f)',
                                   f \in used, refs[f] - 1)
      BY <3>2, <3>b, <3>c
    <3>5. \A q \in 0..NPages : tab[s][q] # f
      <4> SUFFICES ASSUME NEW q \in 0..NPages, tab[s][q] = f PROVE FALSE
        OBVIOUS
      <4>1. <<s, q>> \in Tables(f)
        BY DEF Tables
      <4> QED BY <3>4, <4>1
    <3>6. Tables(f)' = {} /\ f \notin {tab[s][q] : q \in 1..NPages} \cup {tab[s][0]}
      BY <1>1, <3>4, <3>5, Bounds
    <3>7. f \notin lost'
      BY <1>2, <3>4, <3>6
    <3>8. CASE refs[f] = 0
      <4>1. f \notin used' /\ refs'[f] = 0
        BY <1>3, <1>a, <2>2, <3>8
      <4> QED BY <2>1, <3>2, <3>4, <3>a, <3>6, <3>7, <3>8, <4>1, ZenonT(60) DEF FrameOK, OneUse
    <3>9. CASE refs[f] # 0
      <4>1. (f \in used' <=> f \in used) /\ refs'[f] = refs[f] - 1
        BY <1>2, <1>3, <1>a, <2>2, <3>6, <3>9
      <4> QED BY <2>1, <3>2, <3>4, <3>a, <3>6, <3>7, <3>9, <4>1 DEF FrameOK, OneUse
    <3> QED BY <3>8, <3>9
  <2>3. CASE ~(\E p \in Pages : pt[s][p].f = f) /\ \E q \in 0..NPages : tab[s][q] = f
    <3>1. PICK q \in 0..NPages : tab[s][q] = f
      BY <2>3
    <3>2. <<s, q>> \in Tables(f)
      BY <3>1 DEF Tables
    <3>3. \A x \in Tables(f) : x = <<s, q>>
      BY <2>1, <3>2 DEF FrameOK, OneUse
    <3>4. Tables(f)' = {}
      BY <1>1, <3>3
    <3>5. /\ Own(f) = {} /\ Stacks(f) = {} /\ Copies(f) = {} /\ f \notin lost /\ f \in used
          /\ refs[f] = 0
      BY <2>1, <3>2 DEF FrameOK, OneUse
    <3>6. Own(f)' = {} /\ refs'[f] = 0
      BY <1>1, <1>3, <3>5
    <3>7. CASE f = tab[s][0] /\ root = {}
      <4>1. \A i \in 1..NPages : tab[s][i] # f
        <5> SUFFICES ASSUME NEW i \in 1..NPages, tab[s][i] = f PROVE FALSE
          OBVIOUS
        <5>1. PICK z \in 0..NPages, j \in 0..NPages : z = 0 /\ j = i
          BY Bounds
        <5>2. <<s, z>> \in Tables(f) /\ <<s, j>> \in Tables(f)
          BY <3>7, <5>1 DEF Tables
        <5>3. z = j
          BY <3>3, <5>2
        <5> QED BY <5>1, <5>3
      <4>2. f \in lost' /\ f \in used'
        BY <1>2, <1>3, <1>a, <2>3, <3>5, <3>7, <4>1
      <4>3. OneUse({}, {}, {}, TRUE, {}, TRUE, 0)
        BY NewUse
      <4> QED BY <2>1, <3>4, <3>5, <3>6, <4>2, <4>3 DEF FrameOK, OneUse
    <3>8. CASE f # tab[s][0] \/ root # {}
      <4>1. f \notin used'
        <5>1. q = 0 \/ q \in 1..NPages
          BY Bounds
        <5> QED BY <1>2, <1>3, <3>1, <3>8, <5>1
      <4>2. f \notin lost'
        BY <1>2, <3>5, <3>8
      <4>3. OneUse({}, {}, {}, FALSE, {}, FALSE, 0)
        BY NewUse
      <4> QED BY <2>1, <3>4, <3>5, <3>6, <4>1, <4>2, <4>3 DEF FrameOK, OneUse
    <3> QED BY <3>5, <3>6, <3>7, <3>8
  <2>4. CASE ~(\E p \in Pages : pt[s][p].f = f) /\ ~\E q \in 0..NPages : tab[s][q] = f
    <3>1. Own(f)' = Own(f)
      <4>1. \A x \in Own(f) : x[1] # s
        BY <2>4 DEF Own, OwnOf
      <4> QED BY <1>1, <4>1
    <3>2. Tables(f)' = Tables(f)
      <4>1. \A x \in Tables(f) : x[1] # s
        BY <2>4 DEF Tables
      <4> QED BY <1>1, <4>1, ZenonT(60)
    <3>3. f \notin {tab[s][q] : q \in 1..NPages} \cup {tab[s][0]}
      BY <2>4, Bounds
    <3>4. (f \in used' <=> f \in used) /\ (f \in lost' <=> f \in lost) /\ refs'[f] = refs[f]
      BY <1>2, <1>3, <1>a, <2>4, <3>3
    <3> QED BY <2>1, <3>1, <3>2, <3>4, SameFrame
  <2> QED BY <2>2, <2>3, <2>4
<1>5. Unshared'
  <2>1. ~NoPage.w
    BY EntryFields
  <2> QED BY <1>1, <1>4, <2>1, UnsharedKept DEF Sound
<1> QED BY <1>4, <1>5

\* How threads may move between spaces: into one in use, that no call has for its own.
Moved ==
    /\ \A u \in Threads : (pc'[u].at = "cow" \/ pc[u].at = "cow") => pc'[u] = pc[u] /\ sp'[u] = sp[u]
    /\ \A u \in Threads : sp'[u] # 0 => sp'[u] \in Spaces /\ tab[sp'[u]][0] # 0
    /\ \A u \in Threads : pc'[u].space # 0 => pc'[u].space = pc[u].space
    /\ \A u, v \in Threads : pc'[v].space # 0 => sp'[u] # pc'[v].space

\* Faults in flight, in a step that leaves the entries of their spaces alone.
LEMMA MovedFaults ==
    ASSUME Typed, Sound, Moved, \A f \in Frames : refs[f] = 0 => refs'[f] = 0,
           \A u \in Threads, q \in Pages : pc'[u].at = "cow" => pt'[sp[u]][q] = pt[sp[u]][q]
    PROVE  Faults'
<1>1. ASSUME NEW u \in Threads, pc'[u].at = "cow"
      PROVE  /\ pc[u] = pc'[u] /\ sp'[u] = sp[u]
             /\ pt'[sp[u]][pc[u].page] = pt[sp[u]][pc[u].page]
             /\ refs[pc[u].f] = 0 => refs'[pc[u].f] = 0
  <2>1. pc[u] = pc'[u] /\ sp'[u] = sp[u]
    BY <1>1 DEF Moved
  <2>2. pc[u].page \in Pages /\ pc[u].f \in Frames
    BY <1>1, <2>1, InFlight
  <2> QED BY <1>1, <2>1, <2>2
<1>2. \A u, v \in Threads : pc'[u].at = "cow" /\ pc'[v].at = "cow" => (sp'[u] = sp'[v] => sp[u] = sp[v])
  BY DEF Moved
<1> QED BY <1>1, <1>2, FaultsKept DEF Sound

\* A step that moves threads and no frame.
LEMMA MovedSound ==
    ASSUME Typed, Sound, Moved, UNCHANGED <<used, refs, pt, tab, kst, lost, forks>>
    PROVE  Sound'
<1>1. \A u \in Threads : (pc'[u].at = "cow" \/ pc[u].at = "cow") => pc'[u] = pc[u]
  BY DEF Moved
<1>2. SpacesOK'
  BY DEF Sound, SpacesOK, Empty, Moved
<1>3. \A f \in Frames : FrameOK(f)'
  BY <1>1, SameFrame, SameUses DEF Sound
<1>4. Unshared'
  BY DEF Sound, Unshared
<1>5. Faults'
  BY MovedFaults
<1> QED BY <1>2, <1>3, <1>4, <1>5 DEF Sound

\* A step that drops a space nobody is left in.
LEMMA FreedSound ==
    ASSUME Typed, Sound, Moved, NEW s \in Spaces, tab[s][0] # 0, Destroyed(s) \/ RootLeft(s),
           kst' = kst, forks' = forks, \A u \in Threads : sp'[u] # s /\ pc'[u].space # s
    PROVE  Sound'
<1>1. \A u \in Threads : (pc'[u].at = "cow" \/ pc[u].at = "cow") => pc'[u] = pc[u]
  BY DEF Moved
<1>2. (\A f \in Frames : FrameOK(f)' /\ (refs[f] = 0 => refs'[f] = 0)) /\ Unshared'
  BY <1>1, DropSpace
<1>3. /\ \A r \in Spaces, q \in Pages : pt'[r][q] = IF r = s THEN NoPage ELSE pt[r][q]
      /\ \A r \in Spaces, q \in 0..NPages : tab'[r][q] = IF r = s THEN 0 ELSE tab[r][q]
  BY DropEffect DEF Destroyed, RootLeft
<1>4. 0 \in 0..NPages /\ Pages \subseteq 0..NPages /\ NoPage.f = 0
  BY Bounds, EntryFields DEF Pages
<1>5. SpacesOK'
  <2>1. \A r \in Spaces : tab'[r][0] = 0 => Empty(r)'
    <3> TAKE r \in Spaces
    <3>1. CASE r = s
      BY <1>3, <1>4, <3>1 DEF Empty
    <3>2. CASE r # s
      BY <1>3, <1>4, <3>2 DEF Empty, Sound, SpacesOK
    <3> QED BY <3>1, <3>2
  <2>2. \A r \in Spaces : r > forks' + 1 => tab'[r][0] = 0
    BY <1>3, <1>4 DEF Sound, SpacesOK
  <2>3. \A u \in Threads : sp'[u] # 0 => tab'[sp'[u]][0] # 0
    BY <1>3, <1>4 DEF Moved
  <2>4. \A u \in Threads : pc'[u].space # 0 =>
             /\ tab'[pc'[u].space][0] # 0
             /\ \A v \in Threads : sp'[v] # pc'[u].space /\ (v # u => pc'[v].space # pc'[u].space)
    <3> TAKE u \in Threads
    <3> HAVE pc'[u].space # 0
    <3>1. pc'[u].space = pc[u].space /\ pc[u].space \in Spaces /\ pc[u].space # s
      BY SpaceIn DEF Moved
    <3>2. tab[pc[u].space][0] # 0 /\ \A v \in Threads : v # u => pc[v].space # pc[u].space
      BY <3>1 DEF Sound, SpacesOK
    <3>3. \A v \in Threads : v # u => pc'[v].space # pc'[u].space
      BY <3>1, <3>2 DEF Moved
    <3>4. tab'[pc[u].space][0] # 0
      BY <1>3, <1>4, <3>1, <3>2
    <3> QED BY <3>1, <3>3, <3>4 DEF Moved
  <2>5. \A r \in Spaces : \A p, q \in Pages : pt'[r][p].f = pt'[r][q].f /\ pt'[r][p].f # 0 => p = q
    BY <1>3, <1>4 DEF Sound, SpacesOK
  <2> QED BY <2>1, <2>2, <2>3, <2>4, <2>5 DEF SpacesOK
<1>6. Faults'
  <2>1. ASSUME NEW u \in Threads, NEW q \in Pages, pc'[u].at = "cow" PROVE pt'[sp[u]][q] = pt[sp[u]][q]
    <3>1. pc[u].at = "cow" /\ sp[u] # s
      BY <2>1 DEF Moved
    <3>2. sp[u] \in Spaces
      BY <3>1, InFlight
    <3> QED BY <1>3, <3>1, <3>2
  <2> QED BY <1>2, <2>1, MovedFaults
<1> QED BY <1>2, <1>5, <1>6 DEF Sound

\* exec swaps the spaces, or destroys the replacement.
LEMMA ExecReplaceSound ==
    ASSUME Typed, Sound, NEW t \in Threads, NEW refused \in BOOLEAN, ExecReplace(t, refused)
    PROVE  Sound'
<1>0. /\ pc[t].at = "exec" /\ pc' = [pc EXCEPT ![t] = Idle] /\ UNCHANGED <<kst, lost, forks>>
      /\ sp' = IF refused THEN sp ELSE [sp EXCEPT ![t] = pc[t].space]
  BY DEF ExecReplace, hvars
<1>1. pc[t].space # 0 /\ pc[t] # Idle
  BY <1>0, IdleOK DEF Typed, WorkOK
<1>2. sp[t] # 0
  BY <1>1 DEF Typed
<1>3. PICK new \in Spaces, old \in Spaces : new = pc[t].space /\ old = sp[t] /\ new # 0 /\ old # 0
  BY <1>1, <1>2, SpaceIn
<1>4. /\ tab[new][0] # 0 /\ tab[old][0] # 0
      /\ \A u \in Threads : sp[u] # new /\ (u # t => pc[u].space # new) /\ pc[u].space # old
  BY <1>3 DEF Sound, SpacesOK
<1>5. \A u \in Threads : /\ pc'[u] = IF u = t THEN Idle ELSE pc[u]
                         /\ sp'[u] = IF u = t /\ ~refused THEN new ELSE sp[u]
  BY <1>0, <1>3 DEF Typed
<1>6. Moved
  <2>1. \A u \in Threads : sp'[u] # 0 => sp'[u] \in Spaces /\ tab[sp'[u]][0] # 0
    BY <1>4, <1>5, SpaceIn DEF Sound, SpacesOK
  <2>2. \A u, v \in Threads : pc'[v].space # 0 => sp'[u] # pc'[v].space
    BY <1>4, <1>5, IdleOK DEF Sound, SpacesOK
  <2>3. \A u \in Threads : (pc'[u].at = "cow" \/ pc[u].at = "cow") => pc'[u] = pc[u] /\ sp'[u] = sp[u]
    BY <1>0, <1>5, IdleOK
  <2>4. \A u \in Threads : pc'[u].space # 0 => pc'[u].space = pc[u].space
    BY <1>5, IdleOK
  <2> QED BY <2>1, <2>2, <2>3, <2>4 DEF Moved
<1>7. CASE refused
  <2>1. Destroyed(new)
    BY <1>0, <1>3, <1>7 DEF ExecReplace, Destroyed
  <2>2. \A u \in Threads : sp'[u] # new /\ pc'[u].space # new
    BY <1>3, <1>4, <1>5, <1>7, IdleOK
  <2> QED BY <1>0, <1>4, <1>6, <2>1, <2>2, FreedSound
<1>8. CASE ~refused /\ Siblings(t) = {}
  <2>1. Destroyed(old)
    BY <1>0, <1>3, <1>8 DEF ExecReplace, Destroyed
  <2>2. \A u \in Threads : sp'[u] # old /\ pc'[u].space # old
    BY <1>3, <1>4, <1>5, <1>8, IdleOK DEF Siblings
  <2> QED BY <1>0, <1>4, <1>6, <2>1, <2>2, FreedSound
<1>9. CASE ~refused /\ Siblings(t) # {}
  <2>1. UNCHANGED <<used, refs, pt, tab>>
    BY <1>9 DEF ExecReplace
  <2> QED BY <1>0, <1>6, <2>1, MovedSound
<1> QED BY <1>7, <1>8, <1>9

\* The last thread of a process gives its space back and leaks the root.
LEMMA ExitSound ==
    ASSUME Typed, Sound, NEW t \in Threads, Exit(t)
    PROVE  Sound'
<1>0. /\ sp[t] # 0 /\ pc[t] = Idle /\ UNCHANGED <<pc, kst, forks>> /\ sp' = [sp EXCEPT ![t] = 0]
  BY DEF Exit, Leave, Call, Step
<1>1. PICK s \in Spaces : s = sp[t] /\ s # 0
  BY <1>0, SpaceIn
<1>2. tab[s][0] # 0 /\ \A u \in Threads : pc[u].space # s
  BY <1>1 DEF Sound, SpacesOK
<1>3. \A u \in Threads : sp'[u] = IF u = t THEN 0 ELSE sp[u]
  BY <1>0 DEF Typed
<1>4. Moved
  <2>1. \A u \in Threads : sp'[u] # 0 => sp'[u] \in Spaces /\ tab[sp'[u]][0] # 0
    BY <1>3, SpaceIn DEF Sound, SpacesOK
  <2>2. \A u \in Threads : (pc'[u].at = "cow" \/ pc[u].at = "cow") => pc'[u] = pc[u] /\ sp'[u] = sp[u]
    BY <1>0, <1>3, IdleOK
  <2>3. \A u, v \in Threads : pc'[v].space # 0 => sp'[u] # pc'[v].space
    BY <1>0, <1>3 DEF Sound, SpacesOK
  <2> QED BY <1>0, <2>1, <2>2, <2>3 DEF Moved
<1>5. CASE LastOwner(t)
  <2>1. RootLeft(s)
    BY <1>1, <1>5 DEF Exit, Leave, RootLeft
  <2>2. \A u \in Threads : sp'[u] # s /\ pc'[u].space # s
    BY <1>0, <1>1, <1>2, <1>3, <1>5 DEF LastOwner, Siblings
  <2> QED BY <1>0, <1>2, <1>4, <2>1, <2>2, FreedSound
<1>6. CASE ~LastOwner(t)
  <2>1. UNCHANGED <<used, refs, pt, tab, lost>>
    BY <1>6 DEF Exit, Leave
  <2> QED BY <1>0, <1>4, <2>1, MovedSound
<1> QED BY <1>5, <1>6

\* A fork or a clone that finds no stack or no slot takes its space back.
LEMMA ForkFailsSound ==
    ASSUME Typed, Sound, NEW t \in Threads, ForkFails(t)
    PROVE  Sound'
<1>0. pc[t].at = "stack" /\ pc' = [pc EXCEPT ![t] = Idle] /\ UNCHANGED <<kst, lost, forks, sp>>
  BY DEF ForkFails, hvars
<1>1. \A u \in Threads : pc'[u] = IF u = t THEN Idle ELSE pc[u]
  BY <1>0 DEF Typed
<1>2. CASE pc[t].space = 0
  <2>1. UNCHANGED <<used, refs, pt, tab>>
    BY <1>2 DEF ForkFails
  <2> QED BY <1>0, <1>1, <2>1, IdleOK, Quiet
<1>3. CASE pc[t].space # 0
  <2>1. PICK s \in Spaces : s = pc[t].space /\ s # 0
    BY <1>3, SpaceIn
  <2>2. /\ tab[s][0] # 0
        /\ \A u \in Threads : sp[u] # s /\ (u # t => pc[u].space # s)
    BY <2>1 DEF Sound, SpacesOK
  <2>3. Destroyed(s)
    BY <1>0, <1>3, <2>1 DEF ForkFails, Destroyed
  <2>4. Moved
    <3>1. \A u \in Threads : sp'[u] # 0 => sp'[u] \in Spaces /\ tab[sp'[u]][0] # 0
      BY <1>0, SpaceIn DEF Sound, SpacesOK
    <3>2. \A u \in Threads : (pc'[u].at = "cow" \/ pc[u].at = "cow") => pc'[u] = pc[u] /\ sp'[u] = sp[u]
      BY <1>0, <1>1, IdleOK
    <3>3. \A u, v \in Threads : pc'[v].space # 0 => sp'[u] # pc'[v].space
      BY <1>0, <1>1, IdleOK DEF Sound, SpacesOK
    <3>4. \A u \in Threads : pc'[u].space # 0 => pc'[u].space = pc[u].space
      BY <1>1, IdleOK
    <3> QED BY <3>1, <3>2, <3>3, <3>4 DEF Moved
  <2>5. \A u \in Threads : sp'[u] # s /\ pc'[u].space # s
    BY <1>0, <1>1, <2>1, <2>2, IdleOK
  <2> QED BY <1>0, <2>2, <2>3, <2>4, <2>5, FreedSound
<1> QED BY <1>2, <1>3

\* The reaper gives a kernel stack back.
LEMMA ReapSound ==
    ASSUME Typed, Sound, NEW t \in Threads, Reap(t)
    PROVE  Sound'
<1>0. /\ UNCHANGED <<refs, pt, tab, sp, pc, lost, forks>> /\ kst' = [kst EXCEPT ![t] = 0]
      /\ used' = used \ Stack(kst[t])
  BY DEF Reap, hvars
<1>1. ASSUME NEW f \in Frames PROVE FrameOK(f)'
  <2>1. Tables(f)' = Tables(f) /\ Copies(f)' = Copies(f) /\ Own(f)' = Own(f) /\ FrameOK(f)
    BY <1>0, SameUses DEF Sound
  <2>2. Stacks(f)' = Stacks(f) \ {t} /\ (t \in Stacks(f) <=> f \in Stack(kst[t]))
    BY <1>0, StackSet, NoStack
  <2>3. CASE f \in Stack(kst[t])
    <3>1. Stacks(f)' = {} /\ f \notin used'
      BY <1>0, <2>1, <2>2, <2>3 DEF FrameOK, OneUse
    <3>2. Tables(f) = {} /\ Copies(f) = {} /\ Own(f) = {} /\ f \notin lost /\ refs[f] = 0
      BY <2>1, <2>2, <2>3 DEF FrameOK, OneUse
    <3>3. OneUse({}, {}, {}, FALSE, {}, FALSE, 0)
      BY NewUse
    <3> QED BY <1>0, <2>1, <3>1, <3>2, <3>3 DEF FrameOK, OneUse
  <2>4. CASE f \notin Stack(kst[t])
    <3>1. Stacks(f)' = Stacks(f) /\ (f \in used' <=> f \in used)
      BY <1>0, <2>2, <2>4
    <3> QED BY <1>0, <2>1, <3>1, SameFrame
  <2> QED BY <2>3, <2>4
<1>2. SpacesOK'
  BY <1>0, SpacesKept DEF Sound
<1>3. Unshared'
  BY <1>0 DEF Sound, Unshared
<1>4. Faults'
  BY <1>0, FaultsKept DEF Sound
<1> QED BY <1>1, <1>2, <1>3, <1>4 DEF Sound

\* A child starts on a stack of its own, in the space of its fork or in its creator's.
LEMMA MarkRunSound ==
    ASSUME Typed, Sound, NEW t \in Threads, NEW u \in Threads, MarkRun(t, u), Clean'
    PROVE  Sound'
<1>0. /\ pc[t].at = "mark" /\ sp[u] = 0 /\ kst[u] = 0 /\ u # t
      /\ UNCHANGED <<refs, pt, tab, lost, forks>> /\ used' = used \cup Stack(pc[t].f)
      /\ kst' = [kst EXCEPT ![u] = pc[t].f] /\ pc' = [pc EXCEPT ![t] = Idle]
      /\ sp' = [sp EXCEPT ![u] = IF pc[t].space = 0 THEN sp[t] ELSE pc[t].space]
  BY DEF MarkRun
<1>1. Stack(pc[t].f) \cap used = {}
  BY DEF MarkRun, Clean, Contained
<1>2. pc[t] # Idle /\ pc[u] = Idle
  BY <1>0, IdleOK DEF Typed
<1>3. sp[t] # 0
  BY <1>2 DEF Typed
<1> DEFINE s == IF pc[t].space = 0 THEN sp[t] ELSE pc[t].space
<1>4. s # 0 /\ s \in Spaces /\ tab[s][0] # 0
  BY <1>3, SpaceIn DEF Sound, SpacesOK
<1>5. \A v \in Threads : v # t => pc[v].space # s \/ pc[v].space = 0
  BY <1>3 DEF Sound, SpacesOK
<1>6. \A v \in Threads : pc'[v] = IF v = t THEN Idle ELSE pc[v]
  BY <1>0 DEF Typed
<1>7. \A v \in Threads : sp'[v] = IF v = u THEN s ELSE sp[v]
  BY <1>0 DEF Typed
<1> HIDE DEF s
<1>8. Moved
  <2>1. \A v \in Threads : sp'[v] # 0 => sp'[v] \in Spaces /\ tab[sp'[v]][0] # 0
    BY <1>4, <1>7, SpaceIn DEF Sound, SpacesOK
  <2>2. \A v \in Threads : (pc'[v].at = "cow" \/ pc[v].at = "cow") => pc'[v] = pc[v] /\ sp'[v] = sp[v]
    BY <1>0, <1>2, <1>6, <1>7, IdleOK
  <2>3. \A w, v \in Threads : pc'[v].space # 0 => sp'[w] # pc'[v].space
    BY <1>5, <1>6, <1>7, IdleOK DEF Sound, SpacesOK
  <2>4. \A v \in Threads : pc'[v].space # 0 => pc'[v].space = pc[v].space
    BY <1>6, IdleOK
  <2> QED BY <2>1, <2>2, <2>3, <2>4 DEF Moved
<1>9. ASSUME NEW f \in Frames PROVE FrameOK(f)'
  <2>0. \A v \in Threads : (pc'[v].at = "cow" \/ pc[v].at = "cow") => pc'[v] = pc[v]
    BY <1>8 DEF Moved
  <2>1. Tables(f)' = Tables(f) /\ Copies(f)' = Copies(f) /\ Own(f)' = Own(f) /\ FrameOK(f)
    BY <1>0, <2>0, SameUses DEF Sound
  <2>2. PICK k : k = pc[t].f
    OBVIOUS
  <2>3. /\ Stacks(f)' = IF f \in Stack(k) THEN Stacks(f) \cup {u} ELSE Stacks(f) \ {u}
        /\ u \notin Stacks(f)
    BY <1>0, <2>2, StackSet, NoStack
  <2>4. CASE f \in Stack(k)
    <3>1. f \notin used /\ f \in used'
      BY <1>0, <1>1, <2>2, <2>4
    <3>2. /\ Tables(f) = {} /\ Stacks(f) = {} /\ Copies(f) = {} /\ f \notin lost /\ Own(f) = {}
          /\ refs[f] = 0
      BY <3>1, NoUse
    <3>3. Stacks(f)' = {u}
      BY <2>3, <2>4, <3>2
    <3>4. OneUse({}, {u}, {}, FALSE, {}, TRUE, 0)
      BY NewUse
    <3> QED BY <1>0, <2>1, <3>1, <3>2, <3>3, <3>4 DEF FrameOK, OneUse
  <2>5. CASE f \notin Stack(k)
    <3>1. Stacks(f)' = Stacks(f) /\ (f \in used' <=> f \in used)
      BY <1>0, <2>2, <2>3, <2>5
    <3> QED BY <1>0, <2>1, <3>1, SameFrame
  <2> QED BY <2>4, <2>5
<1>10. SpacesOK'
  BY <1>0, <1>8 DEF Sound, SpacesOK, Empty, Moved
<1>11. Unshared'
  BY <1>0 DEF Sound, Unshared
<1>12. Faults'
  BY <1>0, <1>8, MovedFaults
<1> QED BY <1>9, <1>10, <1>11, <1>12 DEF Sound

\* One thread goes on from something that is not a fault to something that is not.
LEMMA QuietWork ==
    ASSUME Typed, Sound, NEW t \in Threads, NEW a \in {"acks", "stack", "mark"}, NEW f, NEW n \in {0, pc[t].space},
           UNCHANGED <<used, refs, pt, tab, kst, lost, sp, forks>>, pc[t].at # "cow",
           pc' = [pc EXCEPT ![t] = Work(a, 0, f, 0, n)]
    PROVE  Sound'
<1>1. \A u \in Threads : pc'[u] = IF u = t THEN Work(a, 0, f, 0, n) ELSE pc[u]
  BY DEF Typed
<1>2. \A u \in Threads : (pc'[u].at = "cow" \/ pc[u].at = "cow") => pc'[u] = pc[u]
  BY <1>1, WorkFields
<1>3. \A u \in Threads : pc'[u].space # 0 => pc'[u].space = pc[u].space
  BY <1>1, WorkFields
<1> QED BY <1>2, <1>3, Quiet

\* The steps of a fork or a clone that wait for CPUs and look for a stack.
LEMMA WaitingSound ==
    ASSUME Typed, Sound, NEW t \in Threads,
           Shootdown(t) \/ ShootdownEnds(t) \/ ScanRun(t) \/ Clone(t)
    PROVE  Sound'
<1>1. CASE Shootdown(t)
  BY <1>1, QuietWork DEF Shootdown, mvars
<1>2. CASE ShootdownEnds(t)
  BY <1>2, QuietWork DEF ShootdownEnds, mvars, hvars
<1>3. CASE ScanRun(t)
  BY <1>3, QuietWork DEF ScanRun, mvars, hvars
<1>4. CASE Clone(t)
  <2>1. pc[t].at # "cow"
    BY <1>4, IdleOK DEF Clone, Call, Step
  <2> QED BY <1>4, <2>1, QuietWork DEF Clone, mvars
<1> QED BY <1>1, <1>2, <1>3, <1>4

\* Stores, writes of the kernel and the flush of a TLB move no frame.
LEMMA ContentsSound ==
    ASSUME Typed, Sound, NEW t \in Threads,
           \/ \E p \in Pages : Store(t, p) \/ KernelWrite(t, p)
           \/ OnIpi(t)
    PROVE  Sound'
<1>1. UNCHANGED <<used, refs, pt, tab, kst, lost, sp, forks, pc>>
  BY DEF Store, KernelWrite, OnIpi, tvars, hvars
<1> QED BY <1>1, Quiet

\* A frame that a page of a space has to itself is in no other page.
LEMMA SoleOwner ==
    ASSUME Typed, Sound, NEW r \in Spaces, NEW q \in Pages, NEW s \in Spaces, NEW p \in Pages,
           NEW f \in Frames, pt[r][q].f = f, pt[s][p].f = f, refs[f] = 0
    PROVE  r = s /\ q = p
<1>1. PICK x, y : x = <<r, q>> /\ y = <<s, p>>
  OBVIOUS
<1>2. x \in Own(f) /\ y \in Own(f)
  BY <1>1, OwnIn
<1>3. 0 = Cardinality(Own(f)) - 1
  BY <1>2 DEF Sound, FrameOK, OneUse
<1>4. IsFiniteSet(Own(f))
  BY OwnFinite DEF Own
<1>5. SUFFICES ASSUME x # y PROVE FALSE
  BY <1>1
<1>6. Cardinality(Own(f)) \in Nat /\ Cardinality(Own(f)) >= 2
  BY <1>2, <1>4, <1>5, TwoOwners
<1> QED BY <1>3, <1>6

\* A fork that found the frames it needs.
Forked(t, s, n, T) ==
    /\ s = sp[t] /\ NextSpace(n) /\ s # n /\ s # 0 /\ pc[t] = Idle
    /\ UNCHANGED <<kst, lost, sp>> /\ forks' = forks + 1
    /\ pc' = [pc EXCEPT ![t] = Work("shoot", 0, 0, 0, n)]
    /\ \A u \in Siblings(t) : pc[u].at # "cow"
    /\ \A r \in Spaces, p \in Pages : r # s /\ r # n => pt'[r][p] = pt[r][p]
    /\ \A p \in Pages : /\ pt'[s][p].f = pt[s][p].f /\ ~pt'[s][p].w
                        /\ pt'[n][p].f = pt[s][p].f /\ ~pt'[n][p].w
                        /\ pt[n][p] = NoPage /\ tab[n][p] = 0
    /\ tab[n][0] = 0 /\ tab[s][0] # 0
    /\ \A f \in Frames : refs'[f] = IF \E p \in Pages : pt[s][p].f = f THEN refs[f] + 1 ELSE refs[f]
    /\ used' = used \cup Got(t) /\ Got(t) \subseteq Frames \ used
    /\ \A r \in Spaces, p \in 0..NPages : tab'[r][p] = IF r = n THEN T[p] ELSE tab[r][p]
    /\ T[0] # 0
    /\ \A p, q \in 0..NPages : T[p] = T[q] /\ T[p] # 0 => p = q
    /\ \A f \in Frames : f \in Got(t) <=> \E p \in 0..NPages : T[p] = f

\* A fork that had the frames it needed leaves the child a full copy of the table.
LEMMA ForkFull ==
    ASSUME Typed, Sound, NEW t \in Threads, ForkCow(t), Clean'
    PROVE  \E s, n \in Spaces : \E T : Forked(t, s, n, T)
<1>1. /\ sp[t] \in Spaces /\ forks + 2 \in Spaces /\ sp[t] # forks + 2
      /\ Got(t) \subseteq Frames \ used /\ Done(t) \subseteq Mapped(sp[t])
      /\ used' = used \cup Got(t)
      /\ \A s \in Spaces, p \in Pages :
             pt'[s][p] = IF s = sp[t]
                         THEN IF p \in Done(t) /\ pt[s][p].w THEN Marked(pt[s][p].f) ELSE pt[s][p]
                         ELSE IF s = forks + 2
                         THEN IF Done(t) # Mapped(sp[t]) \/ p \notin Done(t) THEN NoPage
                              ELSE IF pt[sp[t]][p].w THEN Marked(pt[sp[t]][p].f) ELSE pt[sp[t]][p]
                         ELSE pt[s][p]
      /\ \E T \in [0..NPages -> 0..NFrames] :
             /\ tab' = [tab EXCEPT ![forks + 2] = T]
             /\ Done(t) = Mapped(sp[t]) =>
                  /\ T[0] # 0
                  /\ \A p, q \in 0..NPages : T[p] = T[q] /\ T[p] # 0 => p = q
                  /\ \A f \in Frames : f \in Got(t) <=> \E p \in 0..NPages : T[p] = f
  BY ForkEffect
<1>2. Done(t) = Mapped(sp[t]) /\ \A u \in Siblings(t) : pc[u].at # "cow"
  <2>1. harm' = harm \cup (IF Done(t) = Mapped(sp[t]) THEN {} ELSE {"no frames"})
                     \cup (IF \E u \in Siblings(t) : pc[u].at = "cow" THEN {"siblings"} ELSE {})
                     \cup (IF \E p \in Pages : tlb[t][p].w /\ ~pt[sp[t]][p].w THEN {"acks"} ELSE {})
    BY DEF ForkCow, Done, Got
  <2> QED BY <2>1 DEF Clean, Contained
<1>3. PICK s \in Spaces, n \in Spaces : s = sp[t] /\ n = forks + 2
  BY <1>1
<1>4. PICK T \in [0..NPages -> 0..NFrames] :
             /\ tab' = [tab EXCEPT ![n] = T]
             /\ T[0] # 0
             /\ \A p, q \in 0..NPages : T[p] = T[q] /\ T[p] # 0 => p = q
             /\ \A f \in Frames : f \in Got(t) <=> \E p \in 0..NPages : T[p] = f
  BY <1>1, <1>2, <1>3
<1>5. /\ Call(t) /\ UNCHANGED <<kst, lost, sp>> /\ forks' = forks + 1
      /\ pc' = [pc EXCEPT ![t] = Work("shoot", 0, 0, 0, n)]
  BY <1>2, <1>3 DEF ForkCow, Done, Got
<1>6. s # 0 /\ pc[t] = Idle /\ NextSpace(n) /\ s # n /\ tab[s][0] # 0
  BY <1>1, <1>3, <1>5 DEF Call, Step, NextSpace, Sound, SpacesOK
<1>7. /\ tab[n][0] = 0 /\ \A p \in Pages : pt[n][p] = NoPage /\ tab[n][p] = 0
  <2>1. n > forks + 1
    BY <1>3, Bounds DEF Typed
  <2> QED BY <2>1 DEF Sound, SpacesOK, Empty
<1>8. ASSUME NEW p \in Pages
      PROVE  /\ pt'[s][p].f = pt[s][p].f /\ ~pt'[s][p].w
             /\ pt'[n][p].f = pt[s][p].f /\ ~pt'[n][p].w
  <2>1. pt[s][p] \in Entries
    BY DEF Typed
  <2>2. CASE p \in Mapped(s)
    <3>1. pt'[s][p] = IF pt[s][p].w THEN Marked(pt[s][p].f) ELSE pt[s][p]
      BY <1>1, <1>2, <1>3, <2>2
    <3>2. pt'[n][p] = IF pt[s][p].w THEN Marked(pt[s][p].f) ELSE pt[s][p]
      BY <1>1, <1>2, <1>3, <2>2
    <3> QED BY <2>1, <3>1, <3>2, EntryFields
  <2>3. CASE p \notin Mapped(s)
    <3>1. pt'[s][p] = pt[s][p] /\ pt'[n][p] = NoPage
      BY <1>1, <1>2, <1>3, <2>3
    <3>2. pt[s][p] = NoPage
      BY <2>1, <2>3, EntryFields DEF Mapped
    <3> QED BY <3>1, <3>2, EntryFields
  <2> QED BY <2>2, <2>3
<1>9. ASSUME NEW f \in Frames
      PROVE  refs'[f] = IF \E p \in Pages : pt[s][p].f = f THEN refs[f] + 1 ELSE refs[f]
  <2>1. refs' = [g \in Frames |-> IF \E p \in Done(t) : pt[s][p].f = g THEN refs[g] + 1 ELSE refs[g]]
    BY <1>3 DEF ForkCow, Done, Got
  <2>2. (\E p \in Done(t) : pt[s][p].f = f) <=> \E p \in Pages : pt[s][p].f = f
    BY <1>2, <1>3, NoStack DEF Mapped
  <2> QED BY <2>1, <2>2
<1>10. \A r \in Spaces, p \in 0..NPages : tab'[r][p] = IF r = n THEN T[p] ELSE tab[r][p]
  BY <1>4 DEF Typed
<1>11. \A r \in Spaces, p \in Pages : r # s /\ r # n => pt'[r][p] = pt[r][p]
  BY <1>1, <1>3
<1>12. Forked(t, s, n, T)
  BY <1>1, <1>2, <1>3, <1>4, <1>5, <1>6, <1>7, <1>8, <1>9, <1>10, <1>11 DEF Forked
<1> QED BY <1>12

\* A frame with one page more.
LEMMA OneMore ==
    ASSUME NEW f \in Frames, FrameOK(f), Own(f) # {}, NEW x, x \notin Own(f)
    PROVE  OneUse(Tables(f), Stacks(f), Copies(f), f \in lost, Own(f) \cup {x}, f \in used, refs[f] + 1)
<1>1. IsFiniteSet(Own(f))
  BY OwnFinite DEF Own
<1>2. OneUse(Tables(f), Stacks(f), Copies(f), f \in lost, Own(f) \cup {x}, f \in used, refs[f] + 1)
  BY <1>1, AddOwner DEF FrameOK
<1> QED BY <1>2

\* The frames of a fork: every frame of the parent has a page more, and the tables are fresh.
LEMMA ForkFrames ==
    ASSUME Typed, Sound, NEW t \in Threads, NEW s \in Spaces, NEW n \in Spaces, NEW T, Forked(t, s, n, T),
           NEW f \in Frames
    PROVE  FrameOK(f)'
<1>0. /\ UNCHANGED <<kst, lost>> /\ pc[t] = Idle /\ s # n
      /\ \A r \in Spaces, p \in Pages : r # s /\ r # n => pt'[r][p] = pt[r][p]
      /\ \A p \in Pages : /\ pt'[s][p].f = pt[s][p].f /\ pt'[n][p].f = pt[s][p].f
                          /\ pt[n][p] = NoPage /\ tab[n][p] = 0
      /\ tab[n][0] = 0
      /\ refs'[f] = IF \E p \in Pages : pt[s][p].f = f THEN refs[f] + 1 ELSE refs[f]
      /\ used' = used \cup Got(t) /\ Got(t) \subseteq Frames \ used
      /\ \A r \in Spaces, p \in 0..NPages : tab'[r][p] = IF r = n THEN T[p] ELSE tab[r][p]
      /\ \A p, q \in 0..NPages : T[p] = T[q] /\ T[p] # 0 => p = q
      /\ (f \in Got(t) <=> \E p \in 0..NPages : T[p] = f)
  BY DEF Forked
<1>1. \A u \in Threads : (pc'[u].at = "cow" \/ pc[u].at = "cow") => pc'[u] = pc[u]
  <2>1. \A u \in Threads : pc'[u] = IF u = t THEN Work("shoot", 0, 0, 0, n) ELSE pc[u]
    BY DEF Forked, Typed
  <2> QED BY <1>0, <2>1, WorkFields, IdleOK
<1>2. Stacks(f)' = Stacks(f) /\ Copies(f)' = Copies(f) /\ FrameOK(f)
  BY <1>0, <1>1, SameUses DEF Sound
<1>3. f # 0 /\ NoPage.f = 0
  BY NoStack, EntryFields
<1>4. \A x : x \in Own(f)' <=> x \in Spaces \X Pages /\ pt'[x[1]][x[2]].f = f
  BY DEF Own, OwnOf
<1>5. \A x : x \in Own(f) <=> x \in Spaces \X Pages /\ pt[x[1]][x[2]].f = f
  BY DEF Own, OwnOf
<1>6. \A x \in Spaces \X Pages : pt'[x[1]][x[2]].f = IF x[1] = n THEN pt[s][x[2]].f ELSE pt[x[1]][x[2]].f
  BY <1>0
<1>7. \A x \in Own(f) : x[1] # n
  BY <1>0, <1>3, <1>5
<1>8. \A p \in 0..NPages : tab[n][p] = 0
  <2>1. \A p \in 0..NPages : p = 0 \/ p \in Pages
    BY Bounds DEF Pages
  <2> QED BY <1>0, <2>1
<1>9. CASE f \in Got(t)
  <2>1. PICK p \in 0..NPages : T[p] = f
    BY <1>0, <1>9
  <2>2. f \notin used /\ f \in used'
    BY <1>0, <1>9
  <2>3. /\ Tables(f) = {} /\ Stacks(f) = {} /\ Copies(f) = {} /\ f \notin lost /\ Own(f) = {}
        /\ refs[f] = 0
    BY <2>2, NoUse
  <2>4. Own(f)' = {} /\ refs'[f] = 0
    <3>1. ~\E q \in Pages : pt[s][q].f = f
      BY <2>3, OwnIn
    <3> QED BY <1>0, <1>4, <1>5, <1>6, <2>3, <3>1
  <2>5. PICK y \in Spaces \X (0..NPages) : y = <<n, p>>
    OBVIOUS
  <2>6. Tables(f)' = {y}
    <3>1. \A x : x \in Tables(f)' <=> x \in Spaces \X (0..NPages) /\ tab'[x[1]][x[2]] = f
      BY DEF Tables
    <3>2. \A x \in Spaces \X (0..NPages) : ~(tab[x[1]][x[2]] = f)
      BY <2>3 DEF Tables
    <3>3. \A x \in Spaces \X (0..NPages) : tab'[x[1]][x[2]] = IF x[1] = n THEN T[x[2]] ELSE tab[x[1]][x[2]]
      BY <1>0
    <3>4. \A x \in Spaces \X (0..NPages) : x[1] = n /\ T[x[2]] = f <=> x = y
      BY <1>0, <1>3, <2>1, <2>5
    <3> QED BY <2>5, <3>1, <3>2, <3>3, <3>4
  <2>7. OneUse({y}, {}, {}, FALSE, {}, TRUE, 0)
    BY NewUse
  <2> QED BY <1>0, <1>2, <2>2, <2>3, <2>4, <2>6, <2>7 DEF FrameOK, OneUse
<1>10. CASE f \notin Got(t)
  <2>1. Tables(f)' = Tables(f)
    <3>1. \A x : x \in Tables(f)' <=> x \in Spaces \X (0..NPages) /\ tab'[x[1]][x[2]] = f
      BY DEF Tables
    <3>2. \A x : x \in Tables(f) <=> x \in Spaces \X (0..NPages) /\ tab[x[1]][x[2]] = f
      BY DEF Tables
    <3>3. \A x \in Spaces \X (0..NPages) : tab'[x[1]][x[2]] = IF x[1] = n THEN T[x[2]] ELSE tab[x[1]][x[2]]
      BY <1>0
    <3>4. \A x \in Spaces \X (0..NPages) : x[1] = n => T[x[2]] # f /\ tab[x[1]][x[2]] # f
      BY <1>0, <1>3, <1>8, <1>10
    <3>5. \A x \in Spaces \X (0..NPages) : tab'[x[1]][x[2]] = f <=> tab[x[1]][x[2]] = f
      BY <3>3, <3>4
    <3>6. \A x : x \in Tables(f)' <=> x \in Tables(f)
      BY <3>1, <3>2, <3>5
    <3> QED BY <3>6
  <2>2. f \in used' <=> f \in used
    BY <1>0, <1>10
  <2>3. CASE \E p \in Pages : pt[s][p].f = f
    <3>1. PICK p \in Pages : pt[s][p].f = f
      BY <2>3
    <3>2. PICK y \in Spaces \X Pages : y = <<n, p>>
      OBVIOUS
    <3>3. Own(f)' = Own(f) \cup {y}
      <4>1. \A x \in Spaces \X Pages : x[1] = n => (pt[s][x[2]].f = f <=> x = y)
        <5> TAKE x \in Spaces \X Pages
        <5> HAVE x[1] = n
        <5>1. \A q \in Pages : pt[s][q].f = f => q = p
          BY <1>3, <3>1 DEF Sound, SpacesOK
        <5>2. pt[s][x[2]].f = f <=> x[2] = p
          BY <3>1, <5>1
        <5> QED BY <3>2, <5>2
      <4>2. y[1] = n
        BY <3>2
      <4> QED BY <1>4, <1>5, <1>6, <1>7, <4>1, <4>2
    <3>4. y \notin Own(f) /\ Own(f) # {}
      BY <1>7, <3>1, <3>2, OwnIn
    <3>5. OneUse(Tables(f), Stacks(f), Copies(f), f \in lost, Own(f) \cup {y}, f \in used, refs[f] + 1)
      BY <1>2, <3>4, OneMore
    <3>6. refs'[f] = refs[f] + 1
      BY <1>0, <2>3
    <3> QED BY <1>0, <1>2, <2>1, <2>2, <3>3, <3>5, <3>6 DEF FrameOK, OneUse
  <2>4. CASE ~\E p \in Pages : pt[s][p].f = f
    <3>1. Own(f)' = Own(f)
      BY <1>4, <1>5, <1>6, <1>7, <2>4
    <3>2. refs'[f] = refs[f]
      BY <1>0, <2>4
    <3> QED BY <1>0, <1>2, <2>1, <2>2, <3>1, <3>2, SameFrame
  <2> QED BY <2>3, <2>4
<1> QED BY <1>9, <1>10

\* fork shares every page of the parent with the child.
LEMMA ForkCowSound ==
    ASSUME Typed, Sound, NEW t \in Threads, ForkCow(t), Clean'
    PROVE  Sound'
<1>1. PICK s, n \in Spaces : \E T : Forked(t, s, n, T)
  BY ForkFull
<1>2. PICK T : Forked(t, s, n, T)
  BY <1>1
<1>3. \A f \in Frames : FrameOK(f)'
  BY <1>2, ForkFrames
<1>4. /\ s = sp[t] /\ NextSpace(n) /\ s # n /\ pc[t] = Idle /\ forks' = forks + 1 /\ sp' = sp
      /\ \A u \in Siblings(t) : pc[u].at # "cow"
      /\ \A r \in Spaces, p \in Pages : r # s /\ r # n => pt'[r][p] = pt[r][p]
      /\ \A p \in Pages : /\ pt'[s][p].f = pt[s][p].f /\ ~pt'[s][p].w
                          /\ pt'[n][p].f = pt[s][p].f /\ ~pt'[n][p].w
      /\ tab[s][0] # 0 /\ T[0] # 0
      /\ \A f \in Frames : refs'[f] = IF \E p \in Pages : pt[s][p].f = f THEN refs[f] + 1 ELSE refs[f]
      /\ \A r \in Spaces, p \in 0..NPages : tab'[r][p] = IF r = n THEN T[p] ELSE tab[r][p]
  BY <1>2 DEF Forked
<1>5. \A u \in Threads : pc'[u] = IF u = t THEN Work("shoot", 0, 0, 0, n) ELSE pc[u]
  BY <1>2 DEF Forked, Typed
<1>6. \A u \in Threads : sp[u] # n /\ pc[u].space # n
  BY <1>4, NextFree
<1>7. 0 \in 0..NPages /\ Pages \subseteq 0..NPages
  BY Bounds DEF Pages
<1>8. ASSUME NEW r \in Spaces, NEW q \in Pages, NEW f \in Frames, r # s, pt[r][q].f = f, refs[f] = 0
      PROVE  refs'[f] = 0
  <2>1. ~\E p \in Pages : pt[s][p].f = f
    BY <1>8, SoleOwner
  <2> QED BY <1>4, <1>8, <2>1
<1>9. Unshared'
  <2> SUFFICES ASSUME NEW r \in Spaces, NEW q \in Pages, pt'[r][q].w PROVE refs'[pt'[r][q].f] = 0
    BY DEF Unshared
  <2>1. r # s /\ pt'[r][q] = pt[r][q]
    BY <1>4
  <2>2. pt[r][q].f \in Frames /\ refs[pt[r][q].f] = 0
    BY <2>1, EntryFields DEF Typed, Sound, Unshared
  <2> QED BY <1>8, <2>1, <2>2
<1>10. SpacesOK'
  <2>1. \A r \in Spaces : tab'[r][0] = 0 => Empty(r)'
    <3> SUFFICES ASSUME NEW r \in Spaces, tab'[r][0] = 0 PROVE Empty(r)'
      OBVIOUS
    <3>1. r # n /\ tab[r][0] = 0 /\ r # s
      BY <1>4, <1>7
    <3> QED BY <1>4, <1>7, <3>1 DEF Sound, SpacesOK, Empty
  <2>2. \A r \in Spaces : r > forks' + 1 => tab'[r][0] = 0
    <3> SUFFICES ASSUME NEW r \in Spaces, r > forks' + 1 PROVE tab'[r][0] = 0
      OBVIOUS
    <3>1. r > forks + 1 /\ r # n
      <4>1. forks \in Nat /\ r \in Nat /\ forks' = forks + 1 /\ n = forks + 2
        BY <1>4, Bounds DEF Typed, Spaces, NextSpace
      <4> QED BY <4>1
    <3> QED BY <1>4, <1>7, <3>1 DEF Sound, SpacesOK
  <2>3. \A u \in Threads : sp'[u] # 0 => tab'[sp'[u]][0] # 0
    BY <1>4, <1>6, <1>7, SpaceIn DEF Sound, SpacesOK
  <2>4. \A u \in Threads : pc'[u].space # 0 =>
             /\ tab'[pc'[u].space][0] # 0
             /\ \A v \in Threads : sp'[v] # pc'[u].space /\ (v # u => pc'[v].space # pc'[u].space)
    <3> TAKE u \in Threads
    <3> HAVE pc'[u].space # 0
    <3>1. CASE u = t
      BY <1>4, <1>5, <1>6, <1>7, <3>1, WorkFields
    <3>2. CASE u # t
      <4>1. pc'[u].space = pc[u].space /\ pc[u].space \in Spaces /\ pc[u].space # n
        BY <1>5, <1>6, <3>2, SpaceIn
      <4>2. /\ tab[pc[u].space][0] # 0
            /\ \A v \in Threads : sp[v] # pc[u].space /\ (v # u => pc[v].space # pc[u].space)
        BY <4>1 DEF Sound, SpacesOK
      <4>3. tab'[pc[u].space][0] # 0
        BY <1>4, <1>7, <4>1, <4>2
      <4>4. \A v \in Threads : v # u => pc'[v].space # pc[u].space
        BY <1>5, <4>1, <4>2, WorkFields
      <4> QED BY <1>4, <4>1, <4>2, <4>3, <4>4
    <3> QED BY <3>1, <3>2
  <2>5. \A r \in Spaces : \A p, q \in Pages : pt'[r][p].f = pt'[r][q].f /\ pt'[r][p].f # 0 => p = q
    BY <1>4 DEF Sound, SpacesOK
  <2> QED BY <2>1, <2>2, <2>3, <2>4, <2>5 DEF SpacesOK
<1>11. Faults'
  <2>1. ASSUME NEW u \in Threads, pc'[u].at = "cow"
        PROVE  /\ pc[u] = pc'[u] /\ sp'[u] = sp[u]
               /\ pt'[sp[u]][pc[u].page] = pt[sp[u]][pc[u].page]
               /\ refs[pc[u].f] = 0 => refs'[pc[u].f] = 0
    <3>1. u # t /\ pc[u] = pc'[u] /\ sp'[u] = sp[u]
      BY <1>4, <1>5, <2>1, WorkFields
    <3>2. pc[u].page \in Pages /\ pc[u].f \in Frames /\ sp[u] \in Spaces
      BY <2>1, <3>1, InFlight
    <3>3. sp[u] # s /\ sp[u] # n
      BY <1>4, <1>6, <2>1, <3>1 DEF Siblings
    <3>4. pt[sp[u]][pc[u].page].f = pc[u].f
      BY <2>1, <3>1, EntryFields DEF Sound, Faults
    <3>5. refs[pc[u].f] = 0 => refs'[pc[u].f] = 0
      BY <1>8, <3>2, <3>3, <3>4
    <3> QED BY <1>4, <3>1, <3>2, <3>3, <3>5
  <2>2. \A u, v \in Threads : sp'[u] = sp'[v] => sp[u] = sp[v]
    BY <1>4, SMTT(30)
  <2> QED BY <2>1, <2>2, FaultsKept DEF Sound
<1> QED BY <1>3, <1>9, <1>10, <1>11 DEF Sound

\* harm only grows.
LEMMA HarmGrows == Next => harm \subseteq harm'
<1> SUFFICES ASSUME Next PROVE harm \subseteq harm'
  OBVIOUS
<1> QED
  BY DEF Next, Load, Store, CowFault, CowResolve, KernelWrite, SbrkGrow, SbrkPage, SbrkFails,
         SbrkShrink, SbrkUnmap, Killed, ExecBuild, ExecReplace, SpawnImage, SpawnFails,
         ForkCow, Shootdown, OnIpi, ShootdownEnds, ScanRun, MarkRun, ForkFails,
         Clone, Exit, Leave, Reap, hvars

\* The structure is inductive.
LEMMA StructInd == Typed /\ Struct /\ [Next]_vars => Struct'
<1> SUFFICES ASSUME Typed, Struct, [Next]_vars, Clean' PROVE Sound'
  BY DEF Struct
<1>0. Sound
  <2>1. harm \subseteq harm'
    BY HarmGrows DEF vars, hvars
  <2> QED BY <2>1 DEF Clean, Struct
<1>1. ASSUME NEW t \in Threads, NEW p \in Pages, Store(t, p) PROVE Sound'
  BY <1>0, <1>1, ContentsSound
<1>2. ASSUME NEW t \in Threads, NEW p \in Pages, CowFault(t, p) PROVE Sound'
  BY <1>0, <1>2, CowFaultSound
<1>3. ASSUME NEW t \in Threads, CowResolve(t) PROVE Sound'
  BY <1>0, <1>3, CowResolveSound
<1>4. ASSUME NEW t \in Threads, NEW p \in Pages, KernelWrite(t, p) PROVE Sound'
  BY <1>0, <1>4, ContentsSound
<1>5. ASSUME NEW t \in Threads, NEW last \in BOOLEAN, SbrkPage(t, last) PROVE Sound'
  BY <1>0, <1>5, SbrkPageSound
<1>6. ASSUME NEW t \in Threads, SbrkUnmap(t) PROVE Sound'
  BY <1>0, <1>6, SbrkUnmapSound
<1>19. ASSUME NEW t \in Threads,
              SbrkGrow(t) \/ SbrkFails(t) \/ \E b \in Pages : SbrkShrink(t, b)
       PROVE  Sound'
  <2>1. UNCHANGED <<used, refs, pt, tab>>
    BY <1>19 DEF SbrkGrow, SbrkFails, SbrkShrink, mvars
  <2>2. Calm
    BY <1>19, SbrkCalm
  <2>3. /\ \A u \in Threads : (pc'[u].at = "cow" \/ pc[u].at = "cow") => pc'[u] = pc[u]
        /\ \A u \in Threads : pc'[u].space = pc[u].space
        /\ UNCHANGED <<kst, lost, sp, forks>>
    BY <2>2, CalmKeeps DEF Calm
  <2> QED BY <1>0, <2>1, <2>3, Quiet
<1>20. ASSUME NEW t \in Threads, NEW p \in Pages, Load(t, p) PROVE Sound'
  BY <1>0, <1>20, Quiet DEF Load, tvars, hvars
<1>21. ASSUME NEW t \in Threads, NEW p \in Pages, Killed(t, p) PROVE Sound'
  BY <1>0, <1>21, KilledLeaves, ExitSound
<1>7. ASSUME NEW t \in Threads, ExecBuild(t) PROVE Sound'
  BY <1>0, <1>7, ExecBuildSound
<1>8. ASSUME NEW t \in Threads, NEW refused \in BOOLEAN, ExecReplace(t, refused) PROVE Sound'
  BY <1>0, <1>8, ExecReplaceSound
<1>9. ASSUME NEW u \in Threads, SpawnImage(u) PROVE Sound'
  BY <1>0, <1>9, SpawnImageSound
<1>10. CASE SpawnFails
  BY <1>0, <1>10, SpawnFailsSound
<1>11. ASSUME NEW t \in Threads, ForkCow(t) PROVE Sound'
  BY <1>0, <1>11, ForkCowSound
<1>12. ASSUME NEW t \in Threads, Shootdown(t) \/ ShootdownEnds(t) \/ ScanRun(t) \/ Clone(t) PROVE Sound'
  BY <1>0, <1>12, WaitingSound
<1>13. ASSUME NEW t \in Threads, OnIpi(t) PROVE Sound'
  BY <1>0, <1>13, ContentsSound
<1>14. ASSUME NEW t \in Threads, NEW u \in Threads, MarkRun(t, u) PROVE Sound'
  BY <1>0, <1>14, MarkRunSound
<1>15. ASSUME NEW t \in Threads, ForkFails(t) PROVE Sound'
  BY <1>0, <1>15, ForkFailsSound
<1>16. ASSUME NEW t \in Threads, Exit(t) PROVE Sound'
  BY <1>0, <1>16, ExitSound
<1>17. ASSUME NEW t \in Threads, Reap(t) PROVE Sound'
  BY <1>0, <1>17, ReapSound
<1>18. CASE UNCHANGED vars
  BY <1>0, <1>18, Quiet DEF vars, mvars, tvars, hvars
<1> QED BY <1>1, <1>2, <1>3, <1>4, <1>5, <1>6, <1>7, <1>8, <1>9, <1>10, <1>11, <1>12, <1>13,
           <1>14, <1>15, <1>16, <1>17, <1>18, <1>19, <1>20, <1>21 DEF Next

\* At the start: one thread, its image, its tables and its stack.
LEMMA InitTyped == Init => Typed
<1> SUFFICES ASSUME Init PROVE Typed
  OBVIOUS
<1>1. 1 \in Threads /\ 1 \in Pages /\ 1 \in Spaces /\ 0 \in 0..NPages /\ 1 \in 0..NPages /\ 0 \in 0..NFrames
      /\ 0 \in 0..NThreads /\ 0 \in 0..(MaxForks + 1) /\ 1 \in 0..(MaxForks + 1) /\ 0 \in 0..MaxForks
      /\ 1 \in 0..NFrames /\ 2 \in 0..NFrames /\ 4 \in 0..NFrames /\ 3 \in Frames
  BY Bounds DEF Threads, Pages, Spaces, Frames
<1>2. used \subseteq Frames /\ refs \in [Frames -> Nat] /\ mem \in [Frames -> 0..NThreads]
  BY <1>1, Bounds DEF Init, Frames
<1>3. Writable(3) \in Entries /\ NoPage \in Entries
  BY <1>1, EntryFields
<1>4. pt \in [Spaces -> [Pages -> Entries]]
  BY <1>3 DEF Init, Writable
<1>5. tab \in [Spaces -> [0..NPages -> 0..NFrames]]
  <2>1. \A p \in 0..NPages : p < 2 => p + 1 \in 0..NFrames
    BY Bounds
  <2> QED BY <1>1, <2>1 DEF Init
<1>6. tlb \in [Threads -> [Pages -> Entries]]
  BY <1>3 DEF Init
<1>7. sp \in [Threads -> 0..(MaxForks + 1)] /\ brk \in [Threads -> Pages] /\ kst \in [Threads -> 0..NFrames]
  BY <1>1 DEF Init
<1>8. \A t \in Threads : Stack(kst[t]) \subseteq Frames
  BY Bounds DEF Init, Stack, Frames
<1>9. pc \in [Threads -> Works] /\ \A t \in Threads : WorkOK(pc[t])
  BY IdleOK DEF Init
<1>10. \A t \in Threads : /\ pc[t] # Idle => sp[t] # 0
                         /\ sp[t] <= forks + 1 /\ pc[t].space <= forks + 1
  BY IdleOK DEF Init
<1>11. ipi \subseteq Threads /\ acks \in Nat /\ acks + Cardinality(ipi) <= NThreads
  BY Bounds, FS_EmptySet DEF Init
<1>12. want \in [Spaces -> [Pages -> 0..NThreads]]
  BY <1>1 DEF Init
<1>13. lost \subseteq 0..NFrames /\ ops \in Nat /\ forks \in 0..MaxForks
  BY <1>1 DEF Init
<1> QED BY <1>2, <1>4, <1>5, <1>6, <1>7, <1>8, <1>9, <1>10, <1>11, <1>12, <1>13 DEF Typed

\* The first thread's frames have one use each.
LEMMA InitSound == Init => Sound
<1> SUFFICES ASSUME Init PROVE Sound
  OBVIOUS
<1>1. PICK t \in Threads, s \in Spaces, o \in Pages, i \in 0..NPages :
          t = 1 /\ s = 1 /\ o = 1 /\ i = 0 /\ o \in 0..NPages
  BY Bounds DEF Threads, Pages, Spaces
<1>2. \A r \in Spaces, p \in Pages : pt[r][p] = IF r = s /\ p = o THEN Writable(3) ELSE NoPage
  BY <1>1 DEF Init, Writable
<1>3. \A r \in Spaces, p \in 0..NPages :
          tab[r][p] = IF r = s /\ p = i THEN 1 ELSE IF r = s /\ p = o THEN 2 ELSE 0
  BY <1>1 DEF Init
<1>4. \A u \in Threads : kst[u] = (IF u = t THEN 4 ELSE 0) /\ sp[u] = (IF u = t THEN s ELSE 0) /\ pc[u] = Idle
  BY <1>1 DEF Init
<1>5. /\ used = 1..(3 + KSTACK_PAGES) /\ lost = {} /\ forks = 0 /\ Stack(4) = 4..(3 + KSTACK_PAGES)
      /\ \A f \in Frames : refs[f] = 0
  BY Bounds DEF Init, Stack
<1>6. Writable(3).f = 3 /\ NoPage.f = 0 /\ ~NoPage.w
  BY EntryFields
<1>7. ASSUME NEW f \in Frames PROVE FrameOK(f)
  <2>0. f \in Nat /\ f # 0
    BY Bounds DEF Frames
  <2>1. \A x : x \in Own(f) <=> x \in Spaces \X Pages /\ pt[x[1]][x[2]].f = f
    BY DEF Own, OwnOf
  <2>2. \A x : x \in Tables(f) <=> x \in Spaces \X (0..NPages) /\ tab[x[1]][x[2]] = f
    BY DEF Tables
  <2>3. Stacks(f) = IF f \in Stack(4) THEN {t} ELSE {}
    BY <1>4, NoStack DEF Stacks
  <2>4. Copies(f) = {}
    BY <1>4, IdleOK DEF Copies
  <2>5. PICK x \in Spaces \X Pages, y \in Spaces \X (0..NPages), z \in Spaces \X (0..NPages) :
            x = <<s, o>> /\ y = <<s, i>> /\ z = <<s, o>>
    BY <1>1
  <2>6. Own(f) = IF f = 3 THEN {x} ELSE {}
    <3>1. \A w \in Spaces \X Pages : w = x <=> w[1] = s /\ w[2] = o
      BY <2>5
    <3>2. \A w \in Spaces \X Pages : pt[w[1]][w[2]].f = IF w = x THEN 3 ELSE 0
      BY <1>2, <1>6, <3>1
    <3> QED BY <2>0, <2>1, <2>5, <3>2
  <2>7. Tables(f) = IF f = 1 THEN {y} ELSE IF f = 2 THEN {z} ELSE {}
    <3>1. \A w \in Spaces \X (0..NPages) : /\ w = y <=> w[1] = s /\ w[2] = i
                                           /\ w = z <=> w[1] = s /\ w[2] = o
      BY <2>5
    <3>2. \A w \in Spaces \X (0..NPages) : tab[w[1]][w[2]] = IF w = y THEN 1 ELSE IF w = z THEN 2 ELSE 0
      BY <1>3, <3>1
    <3>3. y # z
      BY <1>1, <2>5
    <3>4. CASE f = 1
      BY <2>2, <2>5, <3>2, <3>4
    <3>5. CASE f = 2
      BY <2>2, <2>5, <3>2, <3>3, <3>5
    <3>6. CASE f # 1 /\ f # 2
      BY <2>0, <2>2, <3>2, <3>6
    <3> QED BY <3>4, <3>5, <3>6
  <2>8. \A w : /\ OneUse({w}, {}, {}, FALSE, {}, TRUE, 0) /\ OneUse({}, {w}, {}, FALSE, {}, TRUE, 0)
               /\ OneUse({}, {}, {}, FALSE, {w}, TRUE, 0) /\ OneUse({}, {}, {}, FALSE, {}, FALSE, 0)
    BY NewUse
  <2>9. CASE f \in {1, 2}
    <3>1. f \in used /\ f \notin Stack(4) /\ f # 3
      BY <1>5, <2>9, Bounds
    <3> QED BY <1>5, <2>3, <2>4, <2>6, <2>7, <2>8, <2>9, <3>1 DEF FrameOK, OneUse
  <2>10. CASE f = 3
    <3>1. f \in used /\ f \notin Stack(4)
      BY <1>5, <2>10, Bounds
    <3>2. Tables(f) = {} /\ Stacks(f) = {} /\ Copies(f) = {} /\ f \notin lost /\ Own(f) = {x} /\ refs[f] = 0
      BY <1>5, <2>3, <2>4, <2>6, <2>7, <2>10, <3>1
    <3>3. OneUse({}, {}, {}, FALSE, {x}, TRUE, 0)
      BY <2>8
    <3> QED BY <3>1, <3>2, <3>3 DEF FrameOK, OneUse
  <2>11. CASE f \in Stack(4)
    <3>1. f \in used /\ f \notin {1, 2, 3}
      BY <1>5, <2>11, Bounds
    <3> QED BY <1>5, <2>3, <2>4, <2>6, <2>7, <2>8, <2>11, <3>1 DEF FrameOK, OneUse
  <2>12. CASE f \notin {1, 2, 3} /\ f \notin Stack(4)
    <3>1. f \notin used
      BY <1>5, <2>0, <2>12, Bounds
    <3> QED BY <1>5, <2>3, <2>4, <2>6, <2>7, <2>8, <2>12, <3>1 DEF FrameOK, OneUse
  <2> QED BY <2>9, <2>10, <2>11, <2>12
<1>8. SpacesOK
  <2>1. \A r \in Spaces : tab[r][0] = 0 => Empty(r)
    <3> SUFFICES ASSUME NEW r \in Spaces, tab[r][0] = 0 PROVE Empty(r)
      OBVIOUS
    <3>1. r # s
      BY <1>1, <1>3
    <3> QED BY <1>1, <1>2, <1>3, <3>1, Bounds DEF Empty, Pages
  <2>2. \A r \in Spaces : r > forks + 1 => tab[r][0] = 0
    BY <1>1, <1>3, <1>5
  <2>3. \A u \in Threads : sp[u] # 0 => tab[sp[u]][0] # 0
    BY <1>1, <1>3, <1>4
  <2>4. \A u \in Threads : pc[u].space = 0
    BY <1>4, IdleOK
  <2>5. \A r \in Spaces : \A p, q \in Pages : pt[r][p].f = pt[r][q].f /\ pt[r][p].f # 0 => p = q
    BY <1>2, <1>6
  <2> QED BY <2>1, <2>2, <2>3, <2>4, <2>5 DEF SpacesOK
<1>9. Unshared
  <2>1. 3 \in Frames
    BY Bounds DEF Frames
  <2> QED BY <1>2, <1>5, <1>6, <2>1 DEF Unshared
<1>10. Faults
  BY <1>4, IdleOK DEF Faults
<1> QED BY <1>7, <1>8, <1>9, <1>10 DEF Sound

\* Every step keeps to the accidents that are named.
LEMMA HarmKnown == harm \subseteq Accidents /\ [Next]_vars => harm' \subseteq Accidents
<1> SUFFICES ASSUME harm \subseteq Accidents, [Next]_vars PROVE harm' \subseteq Accidents
  OBVIOUS
<1>1. CASE UNCHANGED vars
  BY <1>1, SMTT(30) DEF vars, hvars
<1>2. CASE Next
  BY <1>2, ZenonT(60) DEF Next, Load, Store, CowFault, CowResolve, KernelWrite, SbrkGrow, SbrkPage, SbrkFails,
         SbrkShrink, SbrkUnmap, Killed, ExecBuild, ExecReplace, SpawnImage, SpawnFails,
         ForkCow, Shootdown, OnIpi, ShootdownEnds, ScanRun, MarkRun, ForkFails,
         Clone, Exit, Leave, Reap, hvars, Accidents
<1> QED BY <1>1, <1>2

\* Everything that holds of every state: types, and the structure while no race was recorded.
LEMMA Always == Spec => [](Typed /\ Struct /\ harm \subseteq Accidents)
<1>1. Init => Typed /\ Struct /\ harm \subseteq Accidents
  BY InitTyped, InitSound DEF Struct, Init
<1>2. (Typed /\ Struct /\ harm \subseteq Accidents) /\ [Next]_vars
          => (Typed /\ Struct /\ harm \subseteq Accidents)'
  BY TypedInd, StructInd, HarmKnown
<1> QED BY <1>1, <1>2, PTL DEF Spec

-----------------------------------------------------------------------------
(* What follows from the structure.                                         *)

\* A set of at most one.
LEMMA AtMostOne ==
    ASSUME NEW X, \A x, y \in X : x = y
    PROVE  Cardinality(X) = IF X = {} THEN 0 ELSE 1
<1>1. CASE X = {}
  BY <1>1, FS_EmptySet
<1>2. CASE X # {}
  <2>1. PICK x : X = {x}
    BY <1>2
  <2> QED BY <2>1, FS_Singleton
<1> QED BY <1>1, <1>2

\* The owners of a frame are in live spaces.
LEMMA OwnersAre ==
    ASSUME SpacesOK, NEW f \in Frames
    PROVE  Owners(f) = Own(f)
<1>1. 0 \notin Frames /\ NoPage.f = 0
  BY NoStack, EntryFields
<1>2. ASSUME NEW x \in Spaces \X Pages, pt[x[1]][x[2]].f = f PROVE x[1] \in Live
  <2>1. pt[x[1]][x[2]] # NoPage
    BY <1>1, <1>2
  <2> QED BY <2>1 DEF SpacesOK, Empty, Live
<1>3. \A x : x \in Owners(f) <=> x \in Own(f)
  BY <1>2 DEF Owners, Own, OwnOf, Live
<1> QED BY <1>3

\* The share count of a frame is the number of pages that map it, less one, and a mapped frame
\* is in use (frames::share and frames::release), as long as none but the contained accidents has
\* happened: kernel writes into shared pages, waits given up or cut short, and stale reads.
THEOREM SharesExact == Spec => []RefsExact
<1>1. Struct => RefsExact
  <2> SUFFICES ASSUME Sound, NEW f \in Frames, Owners(f) # {}
               PROVE  f \in used /\ refs[f] = Cardinality(Owners(f)) - 1
    BY DEF Struct, Clean, RefsExact
  <2>1. Owners(f) = Own(f)
    BY OwnersAre DEF Sound
  <2> QED BY <2>1 DEF Sound, FrameOK, OneUse
<1> QED BY <1>1, Always, PTL

\* Every frame in use is one page's, one table's, one kernel stack's, one copy's or one lost root's:
\* no frame is leaked, freed early or handed out twice, under the same condition.
THEOREM NoFrameLeaks == Spec => []FramesKept
<1>1. Struct /\ harm \subseteq Accidents => FramesKept
  <2> SUFFICES ASSUME Sound, NEW f \in Frames PROVE UsesOf(f) = IF f \in used THEN 1 ELSE 0
    BY DEF Struct, Clean, Accidents, Contained, FramesKept, FramesAccounted
  <2>1. Owners(f) = Own(f)
    BY OwnersAre DEF Sound
  <2>2. OneUse(Tables(f), Stacks(f), Copies(f), f \in lost, Own(f), f \in used, refs[f])
    BY DEF Sound, FrameOK
  <2>3. Cardinality(Tables(f)) + Cardinality(Stacks(f)) + Cardinality(Copies(f))
            + (IF f \in lost THEN 1 ELSE 0) + (IF Own(f) # {} THEN 1 ELSE 0) = IF f \in used THEN 1 ELSE 0
    BY <2>2, AtMostOne DEF OneUse
  <2> QED BY <2>1, <2>3 DEF UsesOf
<1> QED BY <1>1, Always, PTL

\* No frame has more pages than there are.
MaxRefs == NPages * (MaxForks + 1)
RefsBounded == \A f \in Frames : refs[f] <= MaxRefs

\* Teardown and release lower share counts.
LEMMA RefsFall ==
    ASSUME Typed, RefsBounded,
           \/ refs' = refs
           \/ \E f \in Frames : Set(Release(Now, f))
           \/ \E s \in Spaces, root \in SUBSET (0..NFrames) : Set(Teardown(Now, s, root))
    PROVE  RefsBounded'
<1>0. MaxRefs \in Nat /\ MaxRefs' = MaxRefs
  BY Bounds DEF MaxRefs
<1>1. \A f \in Frames : refs[f] \in Nat /\ refs[f] <= MaxRefs
  BY DEF Typed, RefsBounded
<1>2. CASE refs' = refs
  BY <1>0, <1>2 DEF RefsBounded
<1>3. ASSUME NEW f \in Frames, Set(Release(Now, f)) PROVE RefsBounded'
  <2>1. refs' = IF refs[f] = 0 THEN refs ELSE [refs EXCEPT ![f] = refs[f] - 1]
    BY <1>3, ReleaseTypes
  <2>2. \A g \in Frames : refs'[g] = refs[g] \/ refs'[g] = refs[g] - 1
    BY <2>1 DEF Typed
  <2> QED BY <1>0, <1>1, <2>2 DEF RefsBounded
<1>4. ASSUME NEW s \in Spaces, NEW root \in SUBSET (0..NFrames), Set(Teardown(Now, s, root)) PROVE RefsBounded'
  <2>1. \A g \in Frames : refs'[g] = refs[g] \/ refs'[g] = refs[g] - 1
    BY <1>4, TeardownTypes
  <2> QED BY <1>0, <1>1, <2>1 DEF RefsBounded
<1> QED BY <1>2, <1>3, <1>4

\* The share counts stay within the number of pages: fork, which alone raises them, runs when they are exact.
LEMMA RefsInd == Typed /\ Struct /\ RefsBounded /\ [Next]_vars => RefsBounded'
<1> SUFFICES ASSUME Typed, Struct, RefsBounded, [Next]_vars PROVE RefsBounded'
  OBVIOUS
<1>r. \A s \in Spaces : {} \in SUBSET (0..NFrames) /\ {tab[s][0]} \in SUBSET (0..NFrames)
  BY Bounds DEF Typed
<1>1. ASSUME NEW t \in Threads, CowResolve(t) PROVE RefsBounded'
  <2>1. pc[t].f \in Frames
    BY <1>1, InFlight DEF CowResolve
  <2>2. Set(IF pc[t].new = 0 THEN Now ELSE Release(Now, pc[t].f))
    BY <1>1 DEF CowResolve
  <2>3. CASE pc[t].new = 0
    BY <2>2, <2>3, RefsFall DEF Set, Now
  <2>4. CASE pc[t].new # 0
    BY <2>1, <2>2, <2>4, RefsFall
  <2> QED BY <2>3, <2>4
<1>2. ASSUME NEW t \in Threads, SbrkUnmap(t) PROVE RefsBounded'
  <2>1. sp[t] # 0 /\ pc[t].page \in Pages
    BY <1>2, InSbrk DEF SbrkUnmap
  <2>2. pt[sp[t]][pc[t].page] \in Entries
    BY <2>1, EntryIn
  <2>3. CASE pt[sp[t]][pc[t].page].f = 0
    BY <1>2, <2>3, RefsFall DEF SbrkUnmap
  <2>4. CASE pt[sp[t]][pc[t].page].f # 0
    <3>1. pt[sp[t]][pc[t].page].f \in Frames /\ Set(Release(Now, pt[sp[t]][pc[t].page].f))
      BY <1>2, <2>2, <2>4, EntryFields DEF SbrkUnmap
    <3> QED BY <3>1, RefsFall
  <2> QED BY <2>3, <2>4
<1>3. ASSUME NEW t \in Threads, NEW refused \in BOOLEAN, ExecReplace(t, refused) PROVE RefsBounded'
  <2>1. pc[t].space # 0 /\ pc[t] # Idle
    BY <1>3, IdleOK DEF Typed, WorkOK, ExecReplace
  <2>2. pc[t].space \in Spaces /\ sp[t] \in Spaces
    BY <2>1, SpaceIn DEF Typed
  <2>3. \/ refs' = refs
        \/ Set(Teardown(Now, pc[t].space, {tab[pc[t].space][0]}))
        \/ Set(Teardown(Now, sp[t], {tab[sp[t]][0]}))
    BY <1>3 DEF ExecReplace
  <2> QED BY <1>r, <2>2, <2>3, RefsFall
<1>4. ASSUME NEW t \in Threads, ForkFails(t) PROVE RefsBounded'
  <2>1. CASE pc[t].space = 0
    BY <1>4, <2>1, RefsFall DEF ForkFails
  <2>2. CASE pc[t].space # 0
    <3>1. pc[t].space \in Spaces /\ Set(Teardown(Now, pc[t].space, {tab[pc[t].space][0]}))
      BY <1>4, <2>2, SpaceIn DEF ForkFails
    <3> QED BY <1>r, <3>1, RefsFall
  <2> QED BY <2>1, <2>2
<1>5. ASSUME NEW t \in Threads, Exit(t) PROVE RefsBounded'
  <2>1. sp[t] \in Spaces
    BY <1>5, SpaceIn DEF Exit, Leave, Call, Step
  <2>2. refs' = refs \/ Set(Teardown(Now, sp[t], {}))
    BY <1>5 DEF Exit, Leave
  <2> QED BY <1>r, <2>1, <2>2, RefsFall
<1>6. ASSUME NEW t \in Threads, ForkCow(t) PROVE RefsBounded'
  <2>1. Sound
    BY <1>6 DEF ForkCow, Call, Step, Struct, Clean
  <2>2. sp[t] \in Spaces
    BY <1>6, SpaceIn DEF ForkCow, Call, Step
  <2>3. ASSUME NEW f \in Frames, NEW p \in Pages, pt[sp[t]][p].f = f PROVE refs[f] + 1 <= MaxRefs
    <3>1. Own(f) # {}
      BY <2>2, <2>3, OwnIn
    <3>2. refs[f] = Cardinality(Own(f)) - 1
      BY <2>1, <3>1 DEF Sound, FrameOK, OneUse
    <3>3. Cardinality(Own(f)) \in Nat /\ Cardinality(Own(f)) <= (MaxForks + 1) * NPages
      BY OwnFinite DEF Own
    <3>4. (MaxForks + 1) * NPages = MaxRefs /\ MaxRefs \in Nat
      BY Bounds DEF MaxRefs
    <3> QED BY <3>2, <3>3, <3>4
  <2>4. refs' = [g \in Frames |-> IF \E p \in Done(t) : pt[sp[t]][p].f = g THEN refs[g] + 1 ELSE refs[g]]
    BY <1>6 DEF ForkCow, Done, Got
  <2>5. Done(t) \subseteq Pages
    BY DEF Done, Mapped
  <2>6. MaxRefs' = MaxRefs
    BY DEF MaxRefs
  <2> QED BY <2>3, <2>4, <2>5, <2>6 DEF RefsBounded
<1>7. CASE refs' = refs
  BY <1>7, RefsFall
<1>8. CASE UNCHANGED vars
  BY <1>7, <1>8 DEF vars, mvars
<1>9. ASSUME NEW t \in Threads, NEW p \in Pages, Store(t, p) \/ CowFault(t, p) \/ KernelWrite(t, p) PROVE refs' = refs
  BY <1>9 DEF Store, CowFault, KernelWrite
<1>10. ASSUME NEW t \in Threads,
              SbrkGrow(t) \/ SbrkFails(t) \/ ExecBuild(t) \/ SpawnImage(t) \/ SpawnFails \/ OnIpi(t) \/ Reap(t)
       PROVE  refs' = refs
  BY <1>10 DEF SbrkGrow, SbrkFails, ExecBuild, SpawnImage, SpawnFails, OnIpi, Reap, mvars
<1>13. ASSUME NEW t \in Threads, NEW p \in Pages, Load(t, p) \/ SbrkShrink(t, p) PROVE refs' = refs
  BY <1>13 DEF Load, SbrkShrink, mvars
<1>15. ASSUME NEW t \in Threads, NEW last \in BOOLEAN, SbrkPage(t, last) PROVE refs' = refs
  BY <1>15 DEF SbrkPage
<1>14. ASSUME NEW t \in Threads, NEW p \in Pages, Killed(t, p) PROVE RefsBounded'
  BY <1>5, <1>14, KilledLeaves
<1>11. ASSUME NEW t \in Threads, NEW u \in Threads,
              Shootdown(t) \/ ShootdownEnds(t) \/ ScanRun(t) \/ MarkRun(t, u) \/ Clone(t)
       PROVE  refs' = refs
  BY <1>11 DEF Shootdown, ShootdownEnds, ScanRun, MarkRun, Clone, mvars
<1>12. 1 \in Threads
  BY Bounds DEF Threads
<1> QED BY <1>1, <1>2, <1>3, <1>4, <1>5, <1>6, <1>7, <1>8, <1>9, <1>10, <1>11, <1>12, <1>13, <1>14, <1>15 DEF Next

\* Tables name frames, share counts stay small, and a thread lives in a space: whatever races happen.
THEOREM MemoryTypeCorrect == Spec => []TypeOK
<1>1. Init => RefsBounded
  BY Bounds DEF Init, RefsBounded, MaxRefs
<1>2. Spec => [](Typed /\ Struct /\ RefsBounded)
  <2>1. Init => Typed /\ Struct /\ RefsBounded
    BY <1>1, InitTyped, InitSound DEF Struct
  <2>2. (Typed /\ Struct /\ RefsBounded) /\ [Next]_vars => (Typed /\ Struct /\ RefsBounded)'
    BY TypedInd, StructInd, RefsInd
  <2> QED BY <2>1, <2>2, PTL DEF Spec
<1>3. Typed /\ RefsBounded => TypeOK
  <2> SUFFICES ASSUME Typed, RefsBounded PROVE TypeOK
    OBVIOUS
  <2>1. refs \in [Frames -> 0..(NPages * (MaxForks + 1))]
    BY Bounds DEF Typed, RefsBounded, MaxRefs
  <2>2. \A s \in Spaces : \A p \in Pages :
            pt[s][p].f \in 0..NFrames /\ (pt[s][p].w => ~pt[s][p].cow)
    BY EntryFields DEF Typed
  <2>3. acks \in 0..NThreads
    <3>1. IsFiniteSet(ipi)
      <4>1. IsFiniteSet(Threads)
        BY Bounds, FS_Interval DEF Threads
      <4> QED BY <4>1, FS_Subset DEF Typed
    <3>2. Cardinality(ipi) \in Nat
      BY <3>1, FS_CardinalityType
    <3>3. acks \in Nat /\ acks + Cardinality(ipi) <= NThreads
      BY DEF Typed
    <3> QED BY <3>2, <3>3, Bounds
  <2> QED BY <2>1, <2>2, <2>3 DEF Typed, TypeOK
<1> QED BY <1>2, <1>3, PTL

-----------------------------------------------------------------------------
(* Caches: what a CPU may still have of a page.                              *)

\* This CPU is to be interrupted, or a sibling's fork is about to interrupt it.
Late(t) == t \in ipi \/ \E u \in Siblings(t) : pc[u].at = "shoot"

\* A fork of a sibling is on its way to flush this thread's TLB before space r may run; once a wait
\* has been given up or cut short, space r may run before.
Pending(t, r) ==
    \/ \E u \in Siblings(t) : pc[u].space = r /\ (pc[u].at = "shoot" \/ (pc[u].at = "acks" /\ t \in ipi))
    \/ "acks" \in harm /\ Late(t)

\* A cached writable translation is of a page the thread still has, writable but for a flush on its
\* way, and only a child that waits for such a flush has the frame as well.  A read-only one
\* is of the page's frame until something has gone wrong.
CacheOK(t, p) ==
    /\ tlb[t][p] # NoPage /\ (tlb[t][p].w \/ harm = {}) => pt[sp[t]][p].f = tlb[t][p].f
    /\ tlb[t][p].w =>
           /\ pt[sp[t]][p].w \/ Late(t)
           /\ \A r \in Spaces, q \in Pages :
                  pt[r][q].f = tlb[t][p].f /\ (r # sp[t] \/ q # p) => q = p /\ Pending(t, r)
\* While no wait is cut short one CPU waits at a time, every other CPU has acknowledged or is still
\* to be interrupted, and no interrupt is left over.
Waits ==
    "acks" \notin harm =>
        /\ \A t, u \in Threads : pc[t].at = "acks" /\ pc[u].at = "acks" => t = u
        /\ \A t \in Threads : pc[t].at = "acks" => acks + Cardinality(ipi) = NThreads - 1
        /\ (\A t \in Threads : pc[t].at # "acks") => ipi = {}
CachesOK ==
    /\ \A t \in Threads : sp[t] = 0 => \A p \in Pages : tlb[t][p] = NoPage
    /\ \A t \in Threads, p \in Pages : CacheOK(t, p)
    /\ Waits
Caches == Clean => CachesOK

\* A cached frame is a frame, of a thread that exists; one cached for writing is in use as a page.
LEMMA Cached ==
    ASSUME Typed, CachesOK, NEW t \in Threads, NEW p \in Pages, tlb[t][p] # NoPage
    PROVE  /\ sp[t] \in Spaces /\ tlb[t][p].f \in Frames /\ tlb[t][p].f # 0
           /\ tlb[t][p].w => pt[sp[t]][p].f = tlb[t][p].f /\ Own(tlb[t][p].f) # {}
<1>1. tlb[t][p].w => pt[sp[t]][p].f = tlb[t][p].f
  BY DEF CachesOK, CacheOK
<1>2. tlb[t][p].f \in Frames /\ tlb[t][p].f # 0
  BY EntryFields DEF Typed
<1>3. sp[t] \in Spaces
  BY SpaceIn DEF CachesOK
<1>4. tlb[t][p].w => Own(tlb[t][p].f) # {}
  BY <1>1, <1>2, <1>3, OwnIn
<1> QED BY <1>1, <1>2, <1>3, <1>4

\* So is the frame of an entry the CPU may write through.
LEMMA CachedWritable ==
    ASSUME Typed, CachesOK, NEW t \in Threads, NEW p \in Pages, tlb[t][p].w
    PROVE  /\ tlb[t][p] # NoPage /\ sp[t] \in Spaces /\ tlb[t][p].f \in Frames /\ tlb[t][p].f # 0
           /\ pt[sp[t]][p].f = tlb[t][p].f /\ Own(tlb[t][p].f) # {}
BY Cached, EntryFields

\* What a step must leave of caches, pages and flushes on their way.
LEMMA CachesKept ==
    ASSUME Typed, CachesOK, harm \subseteq harm', Waits',
           \A u \in Threads, p \in Pages : tlb'[u][p] # NoPage => tlb'[u][p] = tlb[u][p] /\ sp'[u] = sp[u],
           \A u \in Threads, p \in Pages : tlb'[u][p] # NoPage /\ (tlb'[u][p].w \/ harm' = {}) =>
               pt'[sp[u]][p].f = pt[sp[u]][p].f,
           \A u \in Threads, p \in Pages : tlb'[u][p].w =>
               (pt[sp[u]][p].w => pt'[sp[u]][p].w \/ Late(u)') /\ (Late(u) => Late(u)'),
           \A u \in Threads, p, q \in Pages, r \in Spaces :
               tlb'[u][p].w /\ pt'[r][q].f = tlb[u][p].f =>
                   pt[r][q].f = tlb[u][p].f \/ (q = p /\ Pending(u, r)'),
           \A u \in Threads, p \in Pages, r \in Spaces : tlb'[u][p].w /\ Pending(u, r) => Pending(u, r)'
    PROVE  CachesOK'
<1>1. \A u \in Threads : sp'[u] = 0 => \A p \in Pages : tlb'[u][p] = NoPage
  BY DEF CachesOK
<1>2. ASSUME NEW u \in Threads, NEW p \in Pages, tlb'[u][p].w
      PROVE  /\ pt'[sp'[u]][p].w \/ Late(u)'
             /\ \A r \in Spaces, q \in Pages :
                    pt'[r][q].f = tlb'[u][p].f /\ (r # sp'[u] \/ q # p) => q = p /\ Pending(u, r)'
  <2>1. tlb'[u][p] # NoPage /\ tlb'[u][p] = tlb[u][p] /\ sp'[u] = sp[u] /\ tlb[u][p].w
    BY <1>2, EntryFields
  <2>2. /\ pt[sp[u]][p].w \/ Late(u)
        /\ \A r \in Spaces, q \in Pages :
               pt[r][q].f = tlb[u][p].f /\ (r # sp[u] \/ q # p) => q = p /\ Pending(u, r)
    BY <2>1 DEF CachesOK, CacheOK
  <2>3. ASSUME NEW r \in Spaces, NEW q \in Pages, pt'[r][q].f = tlb[u][p].f, r # sp[u] \/ q # p
        PROVE  q = p /\ Pending(u, r)'
    <3>1. pt[r][q].f = tlb[u][p].f \/ (q = p /\ Pending(u, r)')
      BY <1>2, <2>3
    <3>2. CASE pt[r][q].f = tlb[u][p].f
      <4>1. q = p /\ Pending(u, r)
        BY <2>2, <2>3, <3>2
      <4> QED BY <1>2, <4>1
    <3> QED BY <3>1, <3>2
  <2>4. pt'[sp[u]][p].w \/ Late(u)'
    BY <1>2, <2>2
  <2> QED BY <2>1, <2>3, <2>4
<1>3. ASSUME NEW u \in Threads, NEW p \in Pages, tlb'[u][p] # NoPage, tlb'[u][p].w \/ harm' = {}
      PROVE  pt'[sp'[u]][p].f = tlb'[u][p].f
  <2>1. tlb'[u][p] = tlb[u][p] /\ sp'[u] = sp[u] /\ pt'[sp[u]][p].f = pt[sp[u]][p].f
    BY <1>3
  <2>2. tlb[u][p] # NoPage /\ (tlb[u][p].w \/ harm = {})
    BY <1>3, <2>1
  <2>3. pt[sp[u]][p].f = tlb[u][p].f
    BY <2>2 DEF CachesOK, CacheOK
  <2> QED BY <2>1, <2>3
<1>4. \A u \in Threads, p \in Pages : CacheOK(u, p)'
  BY <1>2, <1>3 DEF CacheOK
<1> QED BY <1>1, <1>4 DEF CachesOK

\* Waiting CPUs and flushes on their way, in a step that neither begins nor ends a wait.
NoWait ==
    /\ UNCHANGED <<ipi, acks>>
    /\ \A u \in Threads : pc[u].at \in {"shoot", "acks"} => pc'[u] = pc[u] /\ sp'[u] = sp[u]
    /\ \A u \in Threads : pc'[u].at = "acks" => pc[u].at = "acks"

\* A step that leaves the shootdowns alone leaves everybody waiting for what they waited.
LEMMA WaitsKept ==
    ASSUME Typed, CachesOK, harm \subseteq harm', NoWait
    PROVE  /\ Waits'
           /\ \A u \in Threads : sp'[u] = sp[u] /\ Late(u) => Late(u)'
           /\ \A u \in Threads, r \in Spaces : sp'[u] = sp[u] /\ Pending(u, r) => Pending(u, r)'
<1>1. Waits'
  <2>1. SUFFICES ASSUME "acks" \notin harm'
                 PROVE  /\ \A t, u \in Threads : pc'[t].at = "acks" /\ pc'[u].at = "acks" => t = u
                        /\ \A t \in Threads : pc'[t].at = "acks" => acks' + Cardinality(ipi') = NThreads - 1
                        /\ (\A t \in Threads : pc'[t].at # "acks") => ipi' = {}
    BY DEF Waits
  <2>2. /\ \A t, u \in Threads : pc[t].at = "acks" /\ pc[u].at = "acks" => t = u
        /\ \A t \in Threads : pc[t].at = "acks" => acks + Cardinality(ipi) = NThreads - 1
        /\ (\A t \in Threads : pc[t].at # "acks") => ipi = {}
    BY <2>1 DEF CachesOK, Waits
  <2>3. ipi' = ipi /\ acks' = acks /\ \A u \in Threads : pc'[u].at = "acks" <=> pc[u].at = "acks"
    BY DEF NoWait
  <2> QED BY <2>2, <2>3
<1>2. \A u \in Threads : sp'[u] = sp[u] /\ Late(u) => Late(u)'
  BY DEF Late, Siblings, NoWait
<1>3. ASSUME NEW u \in Threads, NEW r \in Spaces, sp'[u] = sp[u], Pending(u, r) PROVE Pending(u, r)'
  <2>1. CASE "acks" \in harm /\ Late(u)
    BY <1>2, <1>3, <2>1 DEF Pending
  <2>2. CASE \E v \in Siblings(u) : pc[v].space = r /\ (pc[v].at = "shoot" \/ (pc[v].at = "acks" /\ u \in ipi))
    BY <1>3, <2>2 DEF Pending, Siblings, NoWait
  <2> QED BY <1>3, <2>1, <2>2 DEF Pending
<1> QED BY <1>1, <1>2, <1>3

\* A step outside the wait that leaves the pages cached somewhere as they are.
LEMMA CachesQuiet ==
    ASSUME Typed, CachesOK, harm \subseteq harm', NoWait,
           \A u \in Threads, p \in Pages : tlb'[u][p] # NoPage =>
               /\ tlb'[u][p] = tlb[u][p] /\ sp'[u] = sp[u]
               /\ tlb'[u][p].w \/ harm' = {} => pt'[sp[u]][p] = pt[sp[u]][p],
           \A u \in Threads, p, q \in Pages, r \in Spaces :
               tlb'[u][p].w /\ pt'[r][q].f = tlb[u][p].f => pt[r][q].f = tlb[u][p].f
    PROVE  CachesOK'
<1>1. \A u \in Threads, p \in Pages : tlb'[u][p].w => tlb'[u][p] # NoPage
  BY EntryFields
<1>2. /\ Waits'
      /\ \A u \in Threads : sp'[u] = sp[u] /\ Late(u) => Late(u)'
      /\ \A u \in Threads, r \in Spaces : sp'[u] = sp[u] /\ Pending(u, r) => Pending(u, r)'
  BY WaitsKept
<1>3. \A u \in Threads, p \in Pages : tlb'[u][p].w =>
          (pt[sp[u]][p].w => pt'[sp[u]][p].w \/ Late(u)') /\ (Late(u) => Late(u)')
  BY <1>1, <1>2
<1>4. \A u \in Threads, p \in Pages, r \in Spaces : tlb'[u][p].w /\ Pending(u, r) => Pending(u, r)'
  BY <1>1, <1>2
<1> QED BY <1>2, <1>3, <1>4, CachesKept

\* A load or a store caches the entry of the table, and one that may be written has its frame to itself.
LEMMA FillCaches ==
    ASSUME Typed, Sound, CachesOK, harm \subseteq harm', UNCHANGED <<pt, sp, pc, ipi, acks>>,
           NEW t \in Threads, NEW p \in Pages, sp[t] # 0,
           tlb' = [tlb EXCEPT ![t][p] = Entry(t, p)]
    PROVE  CachesOK'
<1>1. \A u \in Threads, q \in Pages : tlb'[u][q] = IF u = t /\ q = p THEN Entry(t, p) ELSE tlb[u][q]
  BY DEF Typed
<1>2. /\ \A u \in Threads : Late(u)' <=> Late(u)
      /\ \A u \in Threads : \A r : Pending(u, r) => Pending(u, r)'
  <2>1. \A u \in Threads : Late(u)' <=> Late(u)
    BY DEF Late, Siblings
  <2> QED BY <2>1 DEF Pending, Siblings
<1>3. \A u \in Threads, q \in Pages : CacheOK(u, q) /\ tlb'[u][q] = tlb[u][q] => CacheOK(u, q)'
  BY <1>2 DEF CacheOK
<1>4. ASSUME tlb[t][p] = NoPage PROVE CacheOK(t, p)'
  <2>1. sp[t] \in Spaces /\ tlb'[t][p] = pt[sp[t]][p]
    BY <1>1, <1>4, SpaceIn DEF Entry
  <2>2. PICK s \in Spaces : s = sp[t]
    BY <2>1
  <2>3. ASSUME pt[s][p].w
        PROVE  \A r \in Spaces, q \in Pages : pt[r][q].f = pt[s][p].f => r = s /\ q = p
    <3>1. pt[s][p].f \in Frames /\ refs[pt[s][p].f] = 0
      BY <2>3, EntryFields DEF Typed, Sound, Unshared
    <3> QED BY <3>1, SoleOwner
  <2> QED BY <2>1, <2>2, <2>3 DEF CacheOK
<1>5. \A u \in Threads, q \in Pages : CacheOK(u, q)'
  <2> TAKE u \in Threads, q \in Pages
  <2>1. CASE u = t /\ q = p /\ tlb[t][p] = NoPage
    BY <1>4, <2>1
  <2>2. CASE ~(u = t /\ q = p /\ tlb[t][p] = NoPage)
    <3>1. tlb'[u][q] = tlb[u][q]
      BY <1>1, <2>2 DEF Entry
    <3> QED BY <1>3, <3>1 DEF CachesOK
  <2> QED BY <2>1, <2>2
<1>6. \A u \in Threads : sp'[u] = 0 => \A q \in Pages : tlb'[u][q] = NoPage
  BY <1>1 DEF CachesOK
<1>7. Waits'
  BY DEF CachesOK, Waits
<1> QED BY <1>5, <1>6, <1>7 DEF CachesOK

\* Loads and stores.
LEMMA AccessCaches ==
    ASSUME Typed, Sound, CachesOK, harm \subseteq harm', NEW t \in Threads, NEW p \in Pages,
           Load(t, p) \/ Store(t, p)
    PROVE  CachesOK'
<1>1. UNCHANGED <<pt, sp, pc, ipi, acks>> /\ sp[t] # 0 /\ tlb' = [tlb EXCEPT ![t][p] = Entry(t, p)]
  BY DEF Load, Store, tvars, Call, Step, Entry
<1> QED BY <1>1, FillCaches

\* Steps that change neither pages nor caches, nor wait.
LEMMA StillCaches ==
    ASSUME Typed, Sound, CachesOK, harm \subseteq harm', NEW t \in Threads,
           \/ \E p \in Pages : CowFault(t, p) \/ KernelWrite(t, p)
           \/ ScanRun(t) \/ Clone(t) \/ Reap(t)
    PROVE  CachesOK'
<1>1. UNCHANGED <<pt, tlb, sp, ipi, acks>>
  BY DEF CowFault, KernelWrite, ScanRun, Clone, Reap, mvars, tvars, hvars
<1>2. \E a, p, f, n, s : /\ pc' \in {pc, [pc EXCEPT ![t] = Work(a, p, f, n, s)]}
                         /\ a \notin {"shoot", "acks"} /\ (pc' # pc => pc[t].at \notin {"shoot", "acks"})
  <2>1. ASSUME NEW p \in Pages, CowFault(t, p)
        PROVE  \E n : pc' = [pc EXCEPT ![t] = Work("cow", p, pt[sp[t]][p].f, n, 0)] /\ pc[t] = Idle
    BY <2>1 DEF CowFault, Call, Step
  <2>2. ASSUME NEW p \in Pages, KernelWrite(t, p) PROVE pc' = pc
    BY <2>2 DEF KernelWrite, tvars
  <2>3. Reap(t) => pc' = pc
    BY DEF Reap
  <2>4. Clone(t) => pc' = [pc EXCEPT ![t] = Work("stack", 0, 0, 0, 0)] /\ pc[t] = Idle
    BY DEF Clone, Call, Step
  <2>5. ScanRun(t) => pc' = [pc EXCEPT ![t] = Work("mark", 0, Min(Runs), 0, pc[t].space)] /\ pc[t].at = "stack"
    BY DEF ScanRun
  <2> QED BY <2>1, <2>2, <2>3, <2>4, <2>5, IdleOK
<1>3. \A u \in Threads : pc'[u] = pc[u] \/ (pc'[u].at \notin {"shoot", "acks"} /\ pc[u].at \notin {"shoot", "acks"})
  BY <1>2, WorkFields DEF Typed
<1>4. NoWait
  BY <1>1, <1>3 DEF NoWait
<1> QED BY <1>1, <1>4, CachesQuiet

\* A fault resolved: a copy is nobody's cached frame, and no sibling may write the page it replaces.
LEMMA CowResolveCaches ==
    ASSUME Typed, Sound, CachesOK, harm \subseteq harm', NEW t \in Threads, CowResolve(t), Clean'
    PROVE  CachesOK'
<1>0. pc[t].at = "cow" /\ UNCHANGED <<sp, ipi, acks>> /\ pc' = [pc EXCEPT ![t] = Idle]
  BY DEF CowResolve
<1>1. PICK s \in Spaces, p \in Pages, o \in Frames, k \in 0..NFrames :
          s = sp[t] /\ p = pc[t].page /\ o = pc[t].f /\ k = pc[t].new
  BY <1>0, InFlight
<1>2. /\ pt' = [pt EXCEPT ![s][p] = Writable(IF k = 0 THEN o ELSE k)]
      /\ tlb' = [tlb EXCEPT ![t][p] = NoPage]
  BY <1>1 DEF CowResolve, Writable
<1>3. k # 0 => \A u \in Siblings(t) : ~tlb[u][p].w /\ (harm' = {} => tlb[u][p] = NoPage)
  <2>1. LET stale == {tlb[u][p] : u \in Siblings(t)} \ {NoPage}
        IN  /\ k # 0 /\ (\E e \in stale : e.w) => "siblings" \in harm'
            /\ k # 0 /\ (\E e \in stale : ~e.w) => "stale read" \in harm'
    BY <1>1 DEF CowResolve
  <2>2. "siblings" \notin harm'
    BY DEF Clean, Contained
  <2>3. ~NoPage.w
    BY EntryFields
  <2> QED BY <2>1, <2>2, <2>3
<1>4. \A u \in Threads, q \in Pages : tlb'[u][q] = IF u = t /\ q = p THEN NoPage ELSE tlb[u][q]
  BY <1>2 DEF Typed
<1>5. \A r \in Spaces, q \in Pages :
          /\ pt'[r][q].f = IF r = s /\ q = p THEN IF k = 0 THEN o ELSE k ELSE pt[r][q].f
          /\ pt[r][q].w => pt'[r][q].w
  BY <1>2, EntryFields DEF Typed
<1>6. pt[s][p].f = o
  BY <1>0, <1>1, EntryFields DEF Sound, Faults
<1>7. k # 0 => k \in Frames /\ Own(k) = {}
  <2>1. k # 0 => k \in Frames /\ Copies(k) # {}
    BY <1>0, <1>1, InFlight
  <2> QED BY <2>1 DEF Sound, FrameOK, OneUse
<1>8. NoWait
  <2>1. \A u \in Threads : pc'[u] = IF u = t THEN Idle ELSE pc[u]
    BY <1>0 DEF Typed
  <2> QED BY <1>0, <2>1, IdleOK DEF NoWait
<1>9. \A u \in Threads, q \in Pages : tlb'[u][q] # NoPage => tlb'[u][q] = tlb[u][q] /\ sp'[u] = sp[u]
  BY <1>0, <1>4
<1>10. ASSUME NEW u \in Threads, NEW q \in Pages, tlb'[u][q] # NoPage, tlb'[u][q].w \/ harm' = {}
       PROVE  pt'[sp[u]][q].f = pt[sp[u]][q].f
  <2>1. tlb'[u][q] = tlb[u][q] /\ tlb[u][q] # NoPage /\ ~(u = t /\ q = p)
    BY <1>4, <1>10
  <2>2. sp[u] \in Spaces
    BY <2>1, Cached
  <2>3. k # 0 => ~(sp[u] = s /\ q = p)
    BY <1>1, <1>3, <1>10, <2>1 DEF Siblings
  <2> QED BY <1>5, <1>6, <2>2, <2>3
<1>11. ASSUME NEW u \in Threads, NEW q \in Pages, tlb'[u][q].w
       PROVE  /\ tlb[u][q].w /\ (pt[sp[u]][q].w => pt'[sp[u]][q].w)
              /\ \A v \in Pages, r \in Spaces : pt'[r][v].f = tlb[u][q].f => pt[r][v].f = tlb[u][q].f
  <2>1. tlb[u][q].w
    BY <1>4, <1>11, EntryFields
  <2>2. sp[u] \in Spaces /\ Own(tlb[u][q].f) # {}
    BY <2>1, CachedWritable
  <2>3. k # 0 => tlb[u][q].f # k
    BY <1>7, <2>2
  <2> QED BY <1>5, <1>6, <2>1, <2>2, <2>3
<1>12. /\ Waits'
       /\ \A u \in Threads : Late(u) => Late(u)'
       /\ \A u \in Threads, r \in Spaces : Pending(u, r) => Pending(u, r)'
  BY <1>0, <1>8, WaitsKept
<1> QED BY <1>9, <1>10, <1>11, <1>12, CachesKept

\* sbrk leaves the shootdowns alone.
LEMMA CalmWaits ==
    ASSUME Calm
    PROVE  NoWait /\ sp' = sp
<1>1. \A u \in Threads : pc[u].at \in {"shoot", "acks"} \/ pc'[u].at \in {"shoot", "acks"} => pc'[u] = pc[u]
  BY DEF Calm
<1> QED BY <1>1 DEF Calm, NoWait

\* The steps of sbrk that move no page.
LEMMA SbrkCaches ==
    ASSUME Typed, CachesOK, harm \subseteq harm', NEW t \in Threads,
           SbrkGrow(t) \/ SbrkFails(t) \/ \E b \in Pages : SbrkShrink(t, b)
    PROVE  CachesOK'
<1>1. NoWait /\ sp' = sp
  BY SbrkCalm, CalmWaits
<1>2. UNCHANGED <<pt, tlb>>
  BY DEF SbrkGrow, SbrkFails, SbrkShrink, mvars
<1> QED BY <1>1, <1>2, CachesQuiet

\* A fresh page: its frame was in no page, and the page was not mapped.
LEMMA PageMapped ==
    ASSUME Typed, Sound, NEW t \in Threads, NEW last \in BOOLEAN, SbrkPage(t, last)
    PROVE  \E s \in Spaces, p \in Pages, g \in Frames \ used :
               /\ s = sp[t] /\ p = pc[t].page /\ pt[s][p] = NoPage /\ Own(g) = {}
               /\ pt' = [pt EXCEPT ![s][p] = Writable(g)] /\ mem' = [mem EXCEPT ![g] = 0]
               /\ want' = [want EXCEPT ![s][p] = 0]
<1>0. pc[t].at = "grow"
  BY DEF SbrkPage
<1>1. PICK s \in Spaces, p \in Pages : s = sp[t] /\ p = pc[t].page
  BY <1>0, InSbrk
<1> DEFINE n == IF tab[s][p] = 0 THEN 2 ELSE 1
           leaf == AllocMany(used, n)
<1>2. /\ pt[s][p] = NoPage /\ n \in {1, 2} /\ Cardinality(leaf) = n
      /\ pt' = [pt EXCEPT ![s][p] = Writable(Min(leaf))] /\ mem' = [mem EXCEPT ![Min(leaf)] = 0]
      /\ want' = [want EXCEPT ![s][p] = 0]
  BY <1>1 DEF SbrkPage, CanMap, HeapFrames, Writable
<1> HIDE DEF n
<1>3. Min(leaf) \in Frames \ used
  BY <1>2, LeafFrames
<1> HIDE DEF leaf
<1>4. Own(Min(leaf)) = {}
  BY <1>3, NoUse
<1> QED BY <1>1, <1>2, <1>3, <1>4

\* A fresh page is nobody's cached frame.
LEMMA SbrkPageCaches ==
    ASSUME Typed, Sound, CachesOK, harm \subseteq harm', NEW t \in Threads, NEW last \in BOOLEAN,
           SbrkPage(t, last), Clean'
    PROVE  CachesOK'
<1>0. tlb' = tlb /\ harm' = harm
  BY DEF SbrkPage
<1>1. NoWait /\ sp' = sp
  BY SbrkCalm, CalmWaits
<1>2. PICK s \in Spaces, p \in Pages, g \in Frames \ used :
          /\ s = sp[t] /\ pt[s][p] = NoPage /\ Own(g) = {} /\ pt' = [pt EXCEPT ![s][p] = Writable(g)]
  BY PageMapped
<1>3. \A r \in Spaces, q \in Pages : pt'[r][q] = IF r = s /\ q = p THEN Writable(g) ELSE pt[r][q]
  BY <1>2 DEF Typed
<1>4. ASSUME NEW u \in Threads, NEW q \in Pages, NEW v \in Pages, NEW r \in Spaces, tlb'[u][q].w,
             pt'[r][v].f = tlb[u][q].f
      PROVE  pt[r][v].f = tlb[u][q].f
  <2>1. tlb[u][q].f # g
    BY <1>0, <1>2, <1>4, CachedWritable
  <2> QED BY <1>3, <1>4, <2>1, EntryFields
<1>5. ASSUME NEW u \in Threads, NEW q \in Pages, tlb'[u][q] # NoPage, tlb'[u][q].w \/ harm' = {}
      PROVE  pt'[sp[u]][q] = pt[sp[u]][q]
  <2>1. tlb[u][q] # NoPage /\ (tlb[u][q].w \/ harm = {})
    BY <1>0, <1>5
  <2>2. sp[u] \in Spaces /\ tlb[u][q].f # 0 /\ pt[sp[u]][q].f = tlb[u][q].f
    BY <2>1, Cached DEF CachesOK, CacheOK
  <2>3. ~(sp[u] = s /\ q = p)
    BY <1>2, <2>2, EntryFields
  <2> QED BY <1>3, <2>2, <2>3
<1> QED BY <1>0, <1>1, <1>4, <1>5, CachesQuiet

\* A page that goes is cached by no sibling, or that is recorded.
LEMMA SbrkUnmapCaches ==
    ASSUME Typed, Sound, CachesOK, harm \subseteq harm', NEW t \in Threads, SbrkUnmap(t), Clean'
    PROVE  CachesOK'
<1>0. pc[t].at = "unmap"
  BY DEF SbrkUnmap
<1>1. PICK s \in Spaces, p \in Pages : s = sp[t] /\ p = pc[t].page
  BY <1>0, InSbrk
<1>2. pt' = [pt EXCEPT ![s][p] = NoPage] /\ tlb' = [tlb EXCEPT ![t][p] = NoPage]
  BY <1>1 DEF SbrkUnmap
<1>3. \A u \in Siblings(t) : tlb[u][p] = NoPage
  BY <1>1 DEF SbrkUnmap, Clean, Contained
<1>4. /\ \A r \in Spaces, q \in Pages : pt'[r][q] = IF r = s /\ q = p THEN NoPage ELSE pt[r][q]
      /\ \A u \in Threads, q \in Pages : tlb'[u][q] = IF u = t /\ q = p THEN NoPage ELSE tlb[u][q]
  BY <1>2 DEF Typed
<1>5. NoWait /\ sp' = sp
  BY SbrkCalm, CalmWaits
<1>6. ASSUME NEW u \in Threads, NEW q \in Pages, tlb'[u][q] # NoPage
      PROVE  tlb'[u][q] = tlb[u][q] /\ sp'[u] = sp[u] /\ pt'[sp[u]][q] = pt[sp[u]][q]
  <2>1. tlb'[u][q] = tlb[u][q] /\ tlb[u][q] # NoPage /\ ~(u = t /\ q = p)
    BY <1>4, <1>6
  <2>2. sp[u] \in Spaces /\ ~(sp[u] = s /\ q = p)
    BY <1>1, <1>3, <2>1, Cached DEF Siblings
  <2> QED BY <1>4, <1>5, <2>1, <2>2
<1>7. ASSUME NEW u \in Threads, NEW q \in Pages, NEW v \in Pages, NEW r \in Spaces, tlb'[u][q].w,
             pt'[r][v].f = tlb[u][q].f
      PROVE  pt[r][v].f = tlb[u][q].f
  <2>1. tlb[u][q].w
    BY <1>4, <1>7, EntryFields
  <2>2. tlb[u][q].f # 0 /\ NoPage.f = 0
    BY <2>1, CachedWritable, EntryFields
  <2> QED BY <1>4, <1>7, <2>2
<1> QED BY <1>5, <1>6, <1>7, CachesQuiet

\* A new image is nobody's cached frame.
LEMMA ImageCaches ==
    ASSUME Typed, Sound, CachesOK, harm \subseteq harm', NoWait,
           NEW s \in Spaces, NextSpace(s), Complete, Built(s), refs' = refs,
           \A u \in Threads, p \in Pages : tlb'[u][p] # NoPage => tlb'[u][p] = tlb[u][p] /\ sp'[u] = sp[u]
    PROVE  CachesOK'
<1>1. PICK a, b, c \in Frames \ used : \E x, y, z : ImageAt(s, a, b, c, x, y, z)
  BY ImageEffect
<1>2. /\ \A r \in Spaces \ {s}, q \in Pages : pt'[r][q] = pt[r][q]
      /\ \A q \in Pages : pt'[s][q] \in {NoPage, Writable(b)}
  BY <1>1 DEF ImageAt
<1>3. \A q \in Pages : pt'[s][q].f \in {0, b}
  BY <1>2, EntryFields
<1>4. Own(b) = {}
  BY NoUse
<1>5. ASSUME NEW u \in Threads, NEW p \in Pages, tlb'[u][p] # NoPage
      PROVE  tlb'[u][p] = tlb[u][p] /\ sp'[u] = sp[u] /\ pt'[sp[u]][p] = pt[sp[u]][p]
  <2>1. sp[u] \in Spaces /\ sp[u] # s
    BY <1>5, Cached, NextFree
  <2> QED BY <1>2, <1>5, <2>1
<1>6. ASSUME NEW u \in Threads, NEW p \in Pages, NEW q \in Pages, NEW r \in Spaces,
             tlb'[u][p].w, pt'[r][q].f = tlb[u][p].f
      PROVE  pt[r][q].f = tlb[u][p].f
  <2>1. tlb[u][p].w
    BY <1>5, <1>6, EntryFields
  <2>2. tlb[u][p].f # 0 /\ tlb[u][p].f # b
    BY <1>4, <2>1, CachedWritable
  <2> QED BY <1>2, <1>3, <1>6, <2>2
<1> QED BY <1>5, <1>6, CachesQuiet

\* Steps that build an image, or fail to.
LEMMA BuildCaches ==
    ASSUME Typed, Sound, CachesOK, harm \subseteq harm', NEW t \in Threads,
           ExecBuild(t) \/ SpawnImage(t) \/ SpawnFails
    PROVE  CachesOK'
<1>1. CASE ExecBuild(t)
  <2>0. /\ forks < MaxForks /\ Built(forks + 2) /\ pc[t] = Idle /\ UNCHANGED <<refs, tlb, sp, ipi, acks>>
        /\ pc' = IF Complete THEN [pc EXCEPT ![t] = Work("exec", 0, 0, 0, forks + 2)] ELSE pc
    BY <1>1 DEF ExecBuild, Call, Step
  <2>1. \A u \in Threads : pc'[u] = pc[u] \/ (u = t /\ pc'[u].at = "exec")
    BY <2>0, WorkFields DEF Typed
  <2>2. NoWait
    BY <2>0, <2>1, IdleOK DEF NoWait
  <2>3. CASE Complete
    <3>1. forks + 2 \in Spaces
      BY <2>0, Bounds DEF Spaces, Typed
    <3>2. PICK s \in Spaces : s = forks + 2
      BY <3>1
    <3> QED BY <2>0, <2>2, <2>3, <3>2, ImageCaches DEF NextSpace
  <2>4. CASE ~Complete
    <3>1. pt' = pt
      BY <2>0, <2>4 DEF Built
    <3> QED BY <2>0, <2>2, <3>1, CachesQuiet
  <2> QED BY <2>3, <2>4
<1>2. CASE SpawnImage(t)
  <2>0. /\ forks < MaxForks /\ Complete /\ Built(forks + 2) /\ sp[t] = 0 /\ UNCHANGED <<refs, pc, ipi, acks>>
        /\ sp' = [sp EXCEPT ![t] = forks + 2] /\ tlb' = [tlb EXCEPT ![t] = [p \in Pages |-> NoPage]]
    BY <1>2 DEF SpawnImage, CanSpawn
  <2>1. forks + 2 \in Spaces
    BY <2>0, Bounds DEF Spaces, Typed
  <2>2. PICK s \in Spaces : s = forks + 2
    BY <2>1
  <2>3. \A u \in Threads : /\ sp'[u] = IF u = t THEN s ELSE sp[u]
                           /\ \A p \in Pages : tlb'[u][p] = IF u = t THEN NoPage ELSE tlb[u][p]
    BY <2>0, <2>2 DEF Typed
  <2>4. \A u \in Threads : pc[u] # Idle => u # t
    BY <2>0 DEF Typed
  <2>5. NoWait
    BY <2>0, <2>3, <2>4, IdleOK DEF NoWait
  <2>6. \A u \in Threads, p \in Pages : tlb'[u][p] # NoPage => tlb'[u][p] = tlb[u][p] /\ sp'[u] = sp[u]
    BY <2>3
  <2> QED BY <2>0, <2>2, <2>5, <2>6, ImageCaches DEF NextSpace
<1>3. CASE SpawnFails
  <2>1. UNCHANGED <<pt, tlb, sp, pc, ipi, acks>>
    BY <1>3 DEF SpawnFails, tvars
  <2> QED BY <2>1, CachesQuiet DEF NoWait
<1> QED BY <1>1, <1>2, <1>3

\* Pages that go from a space no running thread is left in.
LEMMA DropCaches ==
    ASSUME Typed, CachesOK, harm \subseteq harm', NoWait, NEW s \in Spaces, Dropped(s),
           \A u \in Threads, p \in Pages : tlb'[u][p] # NoPage => tlb'[u][p] = tlb[u][p] /\ sp'[u] = sp[u],
           \A u \in Threads : sp'[u] # s
    PROVE  CachesOK'
<1>1. \A r \in Spaces, q \in Pages : pt'[r][q] = IF r = s THEN NoPage ELSE pt[r][q]
  BY DEF Dropped, Typed
<1>2. \A u \in Threads, p \in Pages : tlb'[u][p] # NoPage =>
          tlb'[u][p] = tlb[u][p] /\ sp'[u] = sp[u] /\ pt'[sp[u]][p] = pt[sp[u]][p]
  BY <1>1, Cached
<1>3. ASSUME NEW u \in Threads, NEW p \in Pages, NEW q \in Pages, NEW r \in Spaces,
             tlb'[u][p].w, pt'[r][q].f = tlb[u][p].f
      PROVE  pt[r][q].f = tlb[u][p].f
  <2>1. tlb[u][p].w
    BY <1>2, <1>3, EntryFields
  <2>2. tlb[u][p].f # 0 /\ NoPage.f = 0
    BY <2>1, CachedWritable, EntryFields
  <2> QED BY <1>1, <1>3, <2>2
<1> QED BY <1>2, <1>3, CachesQuiet

\* Steps that may drop a space: exec, the failure of a fork, exit.
LEMMA FreedCaches ==
    ASSUME Typed, Sound, CachesOK, harm \subseteq harm', NEW t \in Threads,
           (\E refused \in BOOLEAN : ExecReplace(t, refused)) \/ ForkFails(t) \/ Exit(t)
    PROVE  CachesOK'
<1>1. ASSUME NEW refused \in BOOLEAN, ExecReplace(t, refused) PROVE CachesOK'
  <2>0. /\ pc[t].at = "exec" /\ pc' = [pc EXCEPT ![t] = Idle] /\ UNCHANGED <<ipi, acks>>
        /\ IF refused THEN UNCHANGED <<sp, tlb>>
           ELSE sp' = [sp EXCEPT ![t] = pc[t].space] /\ tlb' = [tlb EXCEPT ![t] = [p \in Pages |-> NoPage]]
    BY <1>1 DEF ExecReplace
  <2>1. pc[t].space # 0 /\ pc[t] # Idle
    BY <2>0, IdleOK DEF Typed, WorkOK
  <2>2. PICK new \in Spaces, old \in Spaces : new = pc[t].space /\ old = sp[t] /\ new # 0
    BY <2>1, SpaceIn DEF Typed
  <2>3. \A u \in Threads : /\ pc'[u] = IF u = t THEN Idle ELSE pc[u]
                           /\ sp'[u] = IF u = t /\ ~refused THEN new ELSE sp[u]
                           /\ \A p \in Pages : tlb'[u][p] = IF u = t /\ ~refused THEN NoPage ELSE tlb[u][p]
    BY <2>0, <2>2 DEF Typed
  <2>4. NoWait
    BY <2>0, <2>3, IdleOK DEF NoWait
  <2>5. \A u \in Threads : sp[u] # new
    BY <2>2 DEF Sound, SpacesOK
  <2>6. \A u \in Threads, p \in Pages : tlb'[u][p] # NoPage => tlb'[u][p] = tlb[u][p] /\ sp'[u] = sp[u]
    BY <2>3
  <2>7. CASE refused
    <3>1. Dropped(new) /\ \A u \in Threads : sp'[u] # new
      BY <1>1, <2>2, <2>3, <2>5, <2>7 DEF ExecReplace
    <3> QED BY <2>4, <2>6, <3>1, DropCaches
  <2>8. CASE ~refused /\ Siblings(t) = {}
    <3>1. Dropped(old) /\ \A u \in Threads : sp'[u] # old
      BY <1>1, <2>2, <2>3, <2>5, <2>8 DEF ExecReplace, Siblings
    <3> QED BY <2>4, <2>6, <3>1, DropCaches
  <2>9. CASE ~refused /\ Siblings(t) # {}
    <3>1. pt' = pt
      BY <1>1, <2>9 DEF ExecReplace
    <3> QED BY <2>4, <2>6, <3>1, CachesQuiet
  <2> QED BY <2>7, <2>8, <2>9
<1>2. CASE ForkFails(t)
  <2>0. pc[t].at = "stack" /\ pc' = [pc EXCEPT ![t] = Idle] /\ UNCHANGED <<ipi, acks, sp, tlb>>
    BY <1>2 DEF ForkFails
  <2>1. NoWait
    <3>1. \A u \in Threads : pc'[u] = IF u = t THEN Idle ELSE pc[u]
      BY <2>0 DEF Typed
    <3> QED BY <2>0, <3>1, IdleOK DEF NoWait
  <2>2. CASE pc[t].space = 0
    <3>1. pt' = pt
      BY <1>2, <2>2 DEF ForkFails
    <3> QED BY <2>0, <2>1, <3>1, CachesQuiet
  <2>3. CASE pc[t].space # 0
    <3>1. PICK s \in Spaces : s = pc[t].space /\ s # 0
      BY <2>3, SpaceIn
    <3>2. Dropped(s) /\ \A u \in Threads : sp'[u] # s
      BY <1>2, <2>0, <2>3, <3>1 DEF ForkFails, Sound, SpacesOK
    <3> QED BY <2>0, <2>1, <3>2, DropCaches
  <2> QED BY <2>2, <2>3
<1>3. CASE Exit(t)
  <2>0. /\ sp[t] # 0 /\ pc[t] = Idle /\ UNCHANGED <<pc, ipi, acks>> /\ sp' = [sp EXCEPT ![t] = 0]
        /\ tlb' = [tlb EXCEPT ![t] = [p \in Pages |-> NoPage]]
    BY <1>3 DEF Exit, Leave, Call, Step
  <2>1. PICK s \in Spaces : s = sp[t]
    BY <2>0, SpaceIn
  <2>2. \A u \in Threads : /\ sp'[u] = IF u = t THEN 0 ELSE sp[u]
                           /\ \A p \in Pages : tlb'[u][p] = IF u = t THEN NoPage ELSE tlb[u][p]
    BY <2>0 DEF Typed
  <2>3. NoWait
    BY <2>0, <2>2, IdleOK DEF NoWait
  <2>4. \A u \in Threads, p \in Pages : tlb'[u][p] # NoPage => tlb'[u][p] = tlb[u][p] /\ sp'[u] = sp[u]
    BY <2>2
  <2>5. CASE Siblings(t) # {}
    <3>1. pt' = pt
      BY <1>3, <2>5 DEF Exit, Leave, LastOwner
    <3> QED BY <2>3, <2>4, <3>1, CachesQuiet
  <2>6. CASE Siblings(t) = {}
    <3>1. Dropped(sp[t])
      BY <1>3, <2>6 DEF Exit, Leave, LastOwner
    <3>2. \A u \in Threads : sp'[u] # s
      BY <2>0, <2>1, <2>2, <2>6, Bounds DEF Siblings, Spaces
    <3> QED BY <2>1, <2>3, <2>4, <3>1, <3>2, DropCaches
  <2> QED BY <2>5, <2>6
<1> QED BY <1>1, <1>2, <1>3

\* fork forgets the translations it downgrades; those of siblings wait for the flush it is about to send.
LEMMA ForkCaches ==
    ASSUME Typed, Sound, CachesOK, harm \subseteq harm', NEW t \in Threads, ForkCow(t), Clean'
    PROVE  CachesOK'
<1>1. PICK s, n \in Spaces : \E T : Forked(t, s, n, T)
  BY ForkFull
<1>2. /\ s = sp[t] /\ NextSpace(n) /\ s # n /\ s # 0 /\ pc[t] = Idle /\ sp' = sp
      /\ pc' = [pc EXCEPT ![t] = Work("shoot", 0, 0, 0, n)]
      /\ \A r \in Spaces, p \in Pages : r # s /\ r # n => pt'[r][p] = pt[r][p]
      /\ \A p \in Pages : pt'[s][p].f = pt[s][p].f /\ pt'[n][p].f = pt[s][p].f
  BY <1>1 DEF Forked
<1>3. /\ UNCHANGED <<ipi, acks>>
      /\ tlb' = [tlb EXCEPT ![t] = [p \in Pages |-> IF p \in Done(t) /\ pt[s][p].w THEN NoPage ELSE tlb[t][p]]]
  BY <1>2 DEF ForkCow, Done, Got
<1>4. Done(t) = Mapped(s) /\ \A p \in Pages : tlb[t][p].w /\ ~pt[s][p].w => "acks" \in harm'
  <2>1. harm' = harm \cup (IF Done(t) = Mapped(sp[t]) THEN {} ELSE {"no frames"})
                     \cup (IF \E u \in Siblings(t) : pc[u].at = "cow" THEN {"siblings"} ELSE {})
                     \cup (IF \E p \in Pages : tlb[t][p].w /\ ~pt[sp[t]][p].w THEN {"acks"} ELSE {})
    BY DEF ForkCow, Done, Got
  <2> QED BY <1>2, <2>1 DEF Clean, Contained
<1>5. \A p \in Pages : pt[s][p].w => p \in Done(t)
  BY <1>4, EntryFields DEF Mapped, Typed
<1>6. \A u \in Threads, p \in Pages :
          tlb'[u][p] = IF u = t /\ pt[s][p].w THEN NoPage ELSE tlb[u][p]
  BY <1>3, <1>5 DEF Typed
<1>7. \A u \in Threads : pc'[u] = IF u = t THEN Work("shoot", 0, 0, 0, n) ELSE pc[u]
  BY <1>2 DEF Typed
<1>8. NoWait
  BY <1>2, <1>3, <1>7, IdleOK, WorkFields DEF NoWait
<1>9. /\ Waits'
      /\ \A u \in Threads : Late(u) => Late(u)'
      /\ \A u \in Threads, r \in Spaces : Pending(u, r) => Pending(u, r)'
  BY <1>2, <1>8, WaitsKept
<1>10. \A u \in Threads : u # t /\ sp[u] = s => Late(u)' /\ Pending(u, n)'
  <2> SUFFICES ASSUME NEW u \in Threads, u # t, sp[u] = s PROVE Late(u)' /\ Pending(u, n)'
    OBVIOUS
  <2>1. t \in Siblings(u)' /\ pc'[t].at = "shoot" /\ pc'[t].space = n
    BY <1>2, <1>7, WorkFields DEF Siblings
  <2> QED BY <2>1 DEF Late, Pending
<1>11. \A u \in Threads : sp[u] # n
  BY <1>2, NextFree
<1>12. \A u \in Threads, p \in Pages : tlb'[u][p] # NoPage => tlb'[u][p] = tlb[u][p] /\ sp'[u] = sp[u]
  BY <1>2, <1>6
<1>13. \A u \in Threads, p \in Pages : tlb'[u][p] # NoPage => pt'[sp[u]][p].f = pt[sp[u]][p].f
  BY <1>2, <1>11, <1>12, Cached
<1>14. ASSUME NEW u \in Threads, NEW p \in Pages, tlb'[u][p].w
       PROVE  tlb[u][p].w /\ sp[u] \in Spaces /\ (u = t => ~pt[s][p].w)
  <2>1. tlb[u][p].w /\ (u = t => ~pt[s][p].w)
    BY <1>6, <1>14, EntryFields
  <2> QED BY <2>1, CachedWritable
<1>15. ASSUME NEW u \in Threads, NEW p \in Pages, tlb'[u][p].w, pt[sp[u]][p].w
       PROVE  pt'[sp[u]][p].w \/ Late(u)'
  <2>1. CASE sp[u] = s
    BY <1>2, <1>10, <1>14, <1>15, <2>1
  <2>2. CASE sp[u] # s
    BY <1>2, <1>11, <1>14, <1>15, <2>2
  <2> QED BY <2>1, <2>2
<1>16. ASSUME NEW u \in Threads, NEW p \in Pages, NEW q \in Pages, NEW r \in Spaces,
              tlb'[u][p].w, pt'[r][q].f = tlb[u][p].f
       PROVE  pt[r][q].f = tlb[u][p].f \/ (q = p /\ Pending(u, r)')
  <2>1. CASE r # n
    BY <1>2, <1>16, <2>1
  <2>2. CASE r = n
    <3>1. pt[s][q].f = tlb[u][p].f /\ tlb[u][p].w
      BY <1>2, <1>14, <1>16, <2>2
    <3>2. CASE sp[u] = s
      <4>1. pt[s][p].f = pt[s][q].f /\ pt[s][p].f # 0
        BY <3>1, <3>2, CachedWritable
      <4>2. q = p
        BY <4>1 DEF Sound, SpacesOK
      <4>3. CASE u = t
        <5>1. "acks" \in harm' /\ Late(u)
          BY <1>2, <1>4, <1>14, <1>16, <3>1, <4>3 DEF CachesOK, CacheOK
        <5> QED BY <1>9, <4>2, <5>1 DEF Pending
      <4>4. CASE u # t
        BY <1>10, <2>2, <3>2, <4>2, <4>4
      <4> QED BY <4>3, <4>4
    <3>3. CASE sp[u] # s
      <4>1. q = p /\ Pending(u, s)
        BY <3>1, <3>3 DEF CachesOK, CacheOK
      <4>2. \A v \in Threads : pc[v].space # s
        BY <1>2 DEF Sound, SpacesOK
      <4>3. "acks" \in harm /\ Late(u)
        BY <4>1, <4>2 DEF Pending, Siblings
      <4> QED BY <1>9, <4>1, <4>3 DEF Pending
    <3> QED BY <3>2, <3>3
  <2> QED BY <2>1, <2>2
<1>17. \A u \in Threads, p \in Pages : tlb'[u][p].w =>
           (pt[sp[u]][p].w => pt'[sp[u]][p].w \/ Late(u)') /\ (Late(u) => Late(u)')
  BY <1>9, <1>15
<1> QED BY <1>9, <1>12, <1>13, <1>16, <1>17, CachesKept

\* Every other CPU is interrupted, or counted as having nothing to flush.
LEMMA ShootdownCaches ==
    ASSUME Typed, Sound, CachesOK, harm \subseteq harm', NEW t \in Threads, Shootdown(t), Clean'
    PROVE  CachesOK'
<1> DEFINE others == Threads \ {t}
           off == {u \in Threads \ {t} : sp[u] = 0}
           on == {u \in Threads \ {t} : sp[u] # 0}
<1>1. /\ pc[t].at = "shoot" /\ UNCHANGED <<pt, tlb, sp>> /\ acks' = Cardinality(off)
      /\ ipi' = (ipi \cap {t}) \cup on
      /\ pc' = [pc EXCEPT ![t] = Work("acks", 0, 0, 0, pc[t].space)]
  BY DEF Shootdown, mvars
<1>2. "acks" \notin harm' => \A u \in Threads : pc[u].at # "acks"
  BY DEF Shootdown
<1>3. \A u \in Threads : pc'[u] = IF u = t THEN Work("acks", 0, 0, 0, pc[t].space) ELSE pc[u]
  BY <1>1 DEF Typed
<1>4. Cardinality(off) + Cardinality(on) = NThreads - 1
  <2>1. IsFiniteSet(Threads) /\ Cardinality(Threads) = NThreads
    <3>1. 1 \in Int /\ NThreads \in Int /\ ~(1 > NThreads) /\ NThreads - 1 + 1 = NThreads
      BY Bounds
    <3> QED BY <3>1, FS_Interval DEF Threads
  <2>2. IsFiniteSet(others) /\ Cardinality(others) = NThreads - 1
    BY <2>1, FS_RemoveElement
  <2>3. off \in SUBSET others /\ on = others \ off /\ others \cap off = off
    OBVIOUS
  <2>4. Cardinality(on) = Cardinality(others) - Cardinality(off) /\ IsFiniteSet(off)
    <3>1. IsFiniteSet(off)
      BY <2>2, <2>3, FS_Subset
    <3> HIDE DEF off, on, others
    <3>2. Cardinality(others \ off) = Cardinality(others) - Cardinality(others \cap off)
      BY <2>2, <3>1, FS_Difference
    <3> QED BY <2>3, <3>1, <3>2
  <2>5. Cardinality(off) \in Nat
    BY <2>4, FS_CardinalityType
  <2> HIDE DEF off, on, others
  <2> QED BY <2>2, <2>4, <2>5, Bounds
<1>5. Waits'
  <2>1. SUFFICES ASSUME "acks" \notin harm'
                 PROVE  /\ \A v, u \in Threads : pc'[v].at = "acks" /\ pc'[u].at = "acks" => v = u
                        /\ acks' + Cardinality(ipi') = NThreads - 1
                        /\ pc'[t].at = "acks"
    BY DEF Waits
  <2>2. ipi = {}
    BY <1>2, <2>1 DEF CachesOK, Waits
  <2>3. ipi' = on
    BY <1>1, <2>2
  <2> HIDE DEF off, on
  <2>4. acks' + Cardinality(ipi') = NThreads - 1
    BY <1>1, <1>4, <2>3
  <2>5. \A v \in Threads : pc'[v].at = "acks" <=> v = t
    BY <1>2, <1>3, <2>1, WorkFields
  <2> QED BY <2>4, <2>5
<1>6. \A u \in Threads, p \in Pages : tlb'[u][p].w => sp[u] # 0
  BY <1>1, EntryFields DEF CachesOK
<1>7. ASSUME NEW u \in Threads, sp[u] # 0
      PROVE  /\ u # t \/ u \in ipi => u \in ipi'
             /\ Late(u) => Late(u)'
  <2>1. u # t \/ u \in ipi => u \in ipi'
    BY <1>1, <1>7
  <2>2. ASSUME NEW v \in Siblings(u), pc[v].at = "shoot" PROVE Late(u)'
    <3>1. CASE v = t
      BY <2>1, <3>1 DEF Siblings, Late
    <3>2. CASE v # t
      BY <1>1, <1>3, <2>2, <3>2 DEF Siblings, Late
    <3> QED BY <3>1, <3>2
  <2> QED BY <2>1, <2>2 DEF Late
<1>8. ASSUME NEW u \in Threads, NEW r \in Spaces, sp[u] # 0, Pending(u, r) PROVE Pending(u, r)'
  <2>1. CASE "acks" \in harm /\ Late(u)
    BY <1>7, <1>8, <2>1 DEF Pending
  <2>2. ASSUME NEW v \in Siblings(u), pc[v].space = r,
               pc[v].at = "shoot" \/ (pc[v].at = "acks" /\ u \in ipi)
        PROVE  Pending(u, r)'
    <3>1. v \in Siblings(u)' /\ v \in Threads /\ v # u
      BY <1>1 DEF Siblings
    <3>2. CASE v = t
      <4>1. u \in ipi' /\ pc'[v].at = "acks" /\ pc'[v].space = r
        BY <1>3, <1>7, <1>8, <2>2, <3>1, <3>2, WorkFields
      <4> QED BY <3>1, <4>1 DEF Pending
    <3>3. CASE v # t
      <4>1. pc'[v] = pc[v] /\ (u \in ipi => u \in ipi')
        BY <1>3, <1>7, <1>8, <3>1, <3>3
      <4> QED BY <2>2, <3>1, <4>1 DEF Pending
    <3> QED BY <3>2, <3>3
  <2> QED BY <1>8, <2>1, <2>2 DEF Pending
<1> QED BY <1>1, <1>5, <1>6, <1>7, <1>8, CachesKept

\* A CPU flushes and acknowledges.
LEMMA OnIpiCaches ==
    ASSUME Typed, Sound, CachesOK, harm \subseteq harm', NEW t \in Threads, OnIpi(t)
    PROVE  CachesOK'
<1>1. /\ t \in ipi /\ ipi' = ipi \ {t} /\ acks' = acks + 1 /\ UNCHANGED <<pt, sp, pc>>
      /\ tlb' = [tlb EXCEPT ![t] = [p \in Pages |-> NoPage]]
  BY DEF OnIpi, tvars
<1>2. \A u \in Threads, p \in Pages : tlb'[u][p] = IF u = t THEN NoPage ELSE tlb[u][p]
  BY <1>1 DEF Typed
<1>3. acks' + Cardinality(ipi') = acks + Cardinality(ipi)
  <2>1. IsFiniteSet(ipi)
    <3>1. IsFiniteSet(Threads)
      BY Bounds, FS_Interval DEF Threads
    <3> QED BY <3>1, FS_Subset DEF Typed
  <2>2. Cardinality(ipi') = Cardinality(ipi) - 1 /\ Cardinality(ipi) \in Nat
    BY <1>1, <2>1, FS_RemoveElement, FS_CardinalityType
  <2>3. acks \in Nat
    BY DEF Typed
  <2> QED BY <1>1, <2>2, <2>3
<1>4. Waits'
  BY <1>1, <1>3 DEF CachesOK, Waits
<1>5. \A u \in Threads, p \in Pages : tlb'[u][p].w => u # t
  BY <1>2, EntryFields
<1>6. \A u \in Threads : u # t => /\ Late(u) => Late(u)'
                                  /\ \A r \in Spaces : Pending(u, r) => Pending(u, r)'
  <2> SUFFICES ASSUME NEW u \in Threads, u # t
               PROVE  /\ Late(u) => Late(u)'
                      /\ \A r \in Spaces : Pending(u, r) => Pending(u, r)'
    OBVIOUS
  <2>1. Late(u) => Late(u)'
    BY <1>1 DEF Late, Siblings
  <2> QED BY <1>1, <2>1 DEF Pending, Siblings
<1> QED BY <1>1, <1>2, <1>4, <1>5, <1>6, CachesKept

\* A wait ends when no CPU has a flush to come, or that is recorded.
LEMMA EndsCaches ==
    ASSUME Typed, Sound, CachesOK, harm \subseteq harm', NEW t \in Threads, ShootdownEnds(t)
    PROVE  CachesOK'
<1>1. /\ pc[t].at = "acks" /\ UNCHANGED <<pt, tlb, sp, ipi, acks>>
      /\ pc' = [pc EXCEPT ![t] = Work("stack", 0, 0, 0, pc[t].space)]
      /\ "acks" \notin harm' => acks >= NThreads - 1
  BY DEF ShootdownEnds, Acked, mvars
<1>2. \A u \in Threads : pc'[u] = IF u = t THEN Work("stack", 0, 0, 0, pc[t].space) ELSE pc[u]
  BY <1>1 DEF Typed
<1>3. ASSUME "acks" \notin harm' PROVE ipi = {} /\ \A u \in Threads : pc'[u].at # "acks"
  <2>1. IsFiniteSet(ipi)
    <3>1. IsFiniteSet(Threads)
      BY Bounds, FS_Interval DEF Threads
    <3> QED BY <3>1, FS_Subset DEF Typed
  <2>2. /\ acks + Cardinality(ipi) = NThreads - 1
        /\ \A u \in Threads : pc[u].at = "acks" => u = t
    BY <1>1, <1>3 DEF CachesOK, Waits
  <2>3. acks \in Nat /\ Cardinality(ipi) \in Nat
    BY <2>1, FS_CardinalityType DEF Typed
  <2>4. Cardinality(ipi) = 0
    BY <1>1, <1>3, <2>2, <2>3, Bounds
  <2>5. ipi = {}
    BY <2>1, <2>4, FS_EmptySet
  <2> QED BY <1>2, <2>2, <2>5, WorkFields
<1>4. Waits'
  BY <1>1, <1>3 DEF Waits
<1>5. \A u \in Threads : Late(u) => Late(u)'
  BY <1>1, <1>2 DEF Late, Siblings
<1>6. ASSUME NEW u \in Threads, NEW r \in Spaces, Pending(u, r) PROVE Pending(u, r)'
  <2>1. CASE "acks" \in harm'
    <3>1. Late(u)
      BY <1>6 DEF Pending, Late
    <3> QED BY <1>5, <2>1, <3>1 DEF Pending
  <2>2. CASE "acks" \notin harm'
    <3>1. PICK v \in Siblings(u) : pc[v].space = r /\ pc[v].at = "shoot"
      BY <1>3, <1>6, <2>2 DEF Pending
    <3>2. pc'[v] = pc[v] /\ v \in Siblings(u)'
      BY <1>1, <1>2, <3>1 DEF Siblings
    <3> QED BY <3>1, <3>2 DEF Pending
  <2> QED BY <2>1, <2>2
<1> QED BY <1>1, <1>4, <1>5, <1>6, CachesKept

\* A child starts with nothing cached.
LEMMA MarkRunCaches ==
    ASSUME Typed, Sound, CachesOK, harm \subseteq harm', NEW t \in Threads, NEW u \in Threads, MarkRun(t, u)
    PROVE  CachesOK'
<1>1. /\ pc[t].at = "mark" /\ sp[u] = 0 /\ UNCHANGED <<pt, ipi, acks>>
      /\ pc' = [pc EXCEPT ![t] = Idle]
      /\ sp' = [sp EXCEPT ![u] = IF pc[t].space = 0 THEN sp[t] ELSE pc[t].space]
      /\ tlb' = [tlb EXCEPT ![u] = [p \in Pages |-> NoPage]]
  BY DEF MarkRun
<1>2. \A v \in Threads : /\ pc'[v] = IF v = t THEN Idle ELSE pc[v]
                         /\ v # u => sp'[v] = sp[v]
                         /\ \A p \in Pages : tlb'[v][p] = IF v = u THEN NoPage ELSE tlb[v][p]
  BY <1>1 DEF Typed
<1>3. \A v \in Threads : pc[v] # Idle => v # u
  BY <1>1 DEF Typed
<1>4. NoWait
  BY <1>1, <1>2, <1>3, IdleOK DEF NoWait
<1>5. \A v \in Threads, p \in Pages : tlb'[v][p] # NoPage => tlb'[v][p] = tlb[v][p] /\ sp'[v] = sp[v]
  BY <1>2
<1> QED BY <1>1, <1>4, <1>5, CachesQuiet

\* The caches are inductive over the structure.
LEMMA CachesInd == Typed /\ Struct /\ Caches /\ [Next]_vars => Caches'
<1> SUFFICES ASSUME Typed, Struct, Caches, [Next]_vars, Clean' PROVE CachesOK'
  BY DEF Caches
<1>g. harm \subseteq harm'
  BY HarmGrows DEF vars, hvars
<1>0. Sound /\ CachesOK
  BY <1>g DEF Clean, Struct, Caches
<1>1. ASSUME NEW t \in Threads, NEW p \in Pages, Load(t, p) \/ Store(t, p) PROVE CachesOK'
  BY <1>g, <1>0, <1>1, AccessCaches
<1>2. ASSUME NEW t \in Threads, NEW p \in Pages, CowFault(t, p) \/ KernelWrite(t, p) PROVE CachesOK'
  BY <1>g, <1>0, <1>2, StillCaches
<1>3. ASSUME NEW t \in Threads, CowResolve(t) PROVE CachesOK'
  BY <1>g, <1>0, <1>3, CowResolveCaches
<1>4. ASSUME NEW t \in Threads, SbrkGrow(t) \/ SbrkFails(t) \/ \E b \in Pages : SbrkShrink(t, b)
      PROVE  CachesOK'
  BY <1>g, <1>0, <1>4, SbrkCaches
<1>5. ASSUME NEW t \in Threads, NEW last \in BOOLEAN, SbrkPage(t, last) PROVE CachesOK'
  BY <1>g, <1>0, <1>5, SbrkPageCaches
<1>6. ASSUME NEW t \in Threads, SbrkUnmap(t) PROVE CachesOK'
  BY <1>g, <1>0, <1>6, SbrkUnmapCaches
<1>7. ASSUME NEW t \in Threads, ExecBuild(t) \/ SpawnImage(t) \/ SpawnFails PROVE CachesOK'
  BY <1>g, <1>0, <1>7, BuildCaches
<1>8. ASSUME NEW t \in Threads, (\E refused \in BOOLEAN : ExecReplace(t, refused)) \/ ForkFails(t) \/ Exit(t)
      PROVE  CachesOK'
  BY <1>g, <1>0, <1>8, FreedCaches
<1>9. ASSUME NEW t \in Threads, NEW p \in Pages, Killed(t, p) PROVE CachesOK'
  BY <1>8, <1>9, KilledLeaves
<1>10. ASSUME NEW t \in Threads, ForkCow(t) PROVE CachesOK'
  BY <1>g, <1>0, <1>10, ForkCaches
<1>11. ASSUME NEW t \in Threads, Shootdown(t) PROVE CachesOK'
  BY <1>g, <1>0, <1>11, ShootdownCaches
<1>12. ASSUME NEW t \in Threads, OnIpi(t) PROVE CachesOK'
  BY <1>g, <1>0, <1>12, OnIpiCaches
<1>13. ASSUME NEW t \in Threads, ShootdownEnds(t) PROVE CachesOK'
  BY <1>g, <1>0, <1>13, EndsCaches
<1>14. ASSUME NEW t \in Threads, ScanRun(t) \/ Clone(t) \/ Reap(t) PROVE CachesOK'
  BY <1>g, <1>0, <1>14, StillCaches
<1>15. ASSUME NEW t \in Threads, NEW u \in Threads, MarkRun(t, u) PROVE CachesOK'
  BY <1>g, <1>0, <1>15, MarkRunCaches
<1>16. CASE UNCHANGED vars
  <2>1. UNCHANGED <<pt, tlb, sp, pc, ipi, acks>>
    BY <1>16 DEF vars, mvars, tvars
  <2> QED BY <1>g, <1>0, <2>1, CachesQuiet DEF NoWait
<1>17. 1 \in Threads
  BY Bounds DEF Threads
<1>18. SpawnFails => CachesOK'
  BY <1>7, <1>17
<1> QED BY <1>1, <1>2, <1>3, <1>4, <1>5, <1>6, <1>7, <1>8, <1>9, <1>10, <1>11, <1>12, <1>13, <1>14,
           <1>15, <1>16, <1>18 DEF Next

\* At the start nothing is cached.
LEMMA InitCaches == Init => CachesOK
<1> SUFFICES ASSUME Init PROVE CachesOK
  OBVIOUS
<1>1. ipi = {} /\ \A t \in Threads : pc[t].at = "idle" /\ \A p \in Pages : tlb[t][p] = NoPage
  BY IdleOK DEF Init
<1> QED BY <1>1, EntryFields DEF CachesOK, CacheOK, Waits

\* A frame with a share count has a second page.
LEMMA SecondOwner ==
    ASSUME Typed, Sound, NEW r \in Spaces, NEW p \in Pages, NEW f \in Frames, pt[r][p].f = f, refs[f] # 0
    PROVE  \E s \in Spaces, q \in Pages : pt[s][q].f = f /\ (s # r \/ q # p)
<1>1. PICK x : x = <<r, p>>
  OBVIOUS
<1>2. x \in Own(f)
  BY <1>1, OwnIn
<1>3. refs[f] = Cardinality(Own(f)) - 1
  BY <1>2 DEF Sound, FrameOK, OneUse
<1>4. PICK y \in Own(f) : y # x
  <2> SUFFICES ASSUME \A y \in Own(f) : y = x PROVE FALSE
    OBVIOUS
  <2>1. Own(f) = {x}
    BY <1>2
  <2>2. Cardinality({x}) = 1
    BY FS_Singleton
  <2>3. Cardinality(Own(f)) = 1
    BY <2>1, <2>2
  <2> QED BY <1>3, <2>3
<1>5. y \in Spaces \X Pages /\ pt[y[1]][y[2]].f = f
  BY <1>4 DEF Own, OwnOf
<1>6. y[1] # r \/ y[2] # p
  BY <1>1, <1>4, <1>5
<1> QED BY <1>5, <1>6

\* A CPU that may still write a page that parent and child share is about to be flushed, whatever waits
\* for acknowledgements are given up or cut short (tlb::shootdown_all_others); unless one was,
\* the fork it is flushed for has not returned.  Until a structural accident has happened.
THEOREM NoStaleTranslation == Spec => []NoStaleWrite
<1>1. Init => Typed /\ Struct /\ Caches
  BY InitTyped, InitSound, InitCaches DEF Struct, Caches
<1>2. (Typed /\ Struct /\ Caches) /\ [Next]_vars => (Typed /\ Struct /\ Caches)'
  BY TypedInd, StructInd, CachesInd
<1>3. Typed /\ Struct /\ Caches => NoStaleWrite
  <2> SUFFICES ASSUME Typed, Sound, CachesOK, NEW t \in Threads, NEW p \in Pages,
                      sp[t] # 0, tlb[t][p].w, Shared(tlb[t][p].f)
               PROVE  /\ t \in ipi \/ \E u \in Siblings(t) : pc[u].at = "shoot"
                      /\ "acks" \in harm \/ \E u \in Siblings(t) : pc[u].at \in {"shoot", "acks"}
    BY DEF Struct, Caches, Clean, NoStaleWrite
  <2>1. sp[t] \in Spaces /\ tlb[t][p].f \in Frames /\ pt[sp[t]][p].f = tlb[t][p].f
    BY CachedWritable
  <2>2. refs[tlb[t][p].f] # 0
    BY <2>1 DEF Shared, Typed
  <2>3. PICK s \in Spaces, q \in Pages : pt[s][q].f = tlb[t][p].f /\ (s # sp[t] \/ q # p)
    BY <2>1, <2>2, SecondOwner
  <2>4. Pending(t, s)
    BY <2>3 DEF CachesOK, CacheOK
  <2> QED BY <2>4 DEF Pending, Late
<1> QED BY <1>1, <1>2, <1>3, PTL DEF Spec

-----------------------------------------------------------------------------
(* Contents: every page holds what its process wrote last.                   *)

ContentsOK ==
    /\ \A s \in Spaces, p \in Pages : pt[s][p].f # 0 => mem[pt[s][p].f] = want[s][p]
    /\ \A t \in Threads : pc[t].at = "cow" /\ pc[t].new # 0 => mem[pc[t].new] = want[sp[t]][pc[t].page]
Contents == harm = {} => ContentsOK

\* A step that writes no page and gives none another frame.
LEMMA ContentsKept ==
    ASSUME ContentsOK, UNCHANGED <<mem, want>>,
           \A s \in Spaces, p \in Pages : pt'[s][p].f \in {0, pt[s][p].f},
           \A u \in Threads : pc'[u].at = "cow" => pc'[u] = pc[u] /\ sp'[u] = sp[u]
    PROVE  ContentsOK'
BY DEF ContentsOK

\* A thread writes the frame of a page of its space; it is a page of the spaces of some forks as well.
Written(t, s, p, f, early) ==
    /\ s = sp[t] /\ pc[t] = Idle /\ pt[s][p].f = f /\ ~Faulting(t, p)
    /\ \A r \in early : pt[r][p].f = f /\ \E u \in Threads : pc[u].space = r /\ pc[u].space # 0
    /\ \A r \in Spaces, q \in Pages : pt[r][q].f = f => q = p /\ (r = s \/ r \in early)
    /\ UNCHANGED <<pt, pc, sp>> /\ mem' = [mem EXCEPT ![f] = t]
    /\ \A r \in Spaces, q \in Pages :
           want'[r][q] = IF (r = s \/ r \in early) /\ q = p THEN t ELSE want[r][q]

\* What a store or the kernel writes to a page goes to its process, and to the children of forks that have
\* still to flush; nobody else has the frame, and no copy of it is being made.
LEMMA WriteContents ==
    ASSUME Typed, Sound, ContentsOK, NEW t \in Threads, NEW s \in Spaces, NEW p \in Pages, NEW f \in Frames,
           NEW early \in SUBSET Spaces, Written(t, s, p, f, early)
    PROVE  ContentsOK'
<1>1. \A g \in Frames : mem'[g] = IF g = f THEN t ELSE mem[g]
  BY DEF Typed, Written
<1>2. ASSUME NEW r \in Spaces, NEW q \in Pages, pt[r][q].f # 0 PROVE mem'[pt[r][q].f] = want'[r][q]
  <2>1. pt[r][q].f \in Frames
    BY <1>2, EntryFields DEF Typed
  <2>2. CASE pt[r][q].f = f
    BY <1>1, <2>1, <2>2 DEF Written
  <2>3. CASE pt[r][q].f # f
    <3>1. ~((r = s \/ r \in early) /\ q = p)
      BY <2>3 DEF Written
    <3> QED BY <1>1, <1>2, <2>1, <2>3, <3>1 DEF ContentsOK, Written
  <2> QED BY <2>2, <2>3
<1>3. ASSUME NEW u \in Threads, pc[u].at = "cow", pc[u].new # 0
      PROVE  mem'[pc[u].new] = want'[sp[u]][pc[u].page]
  <2>1. /\ pc[u].page \in Pages /\ sp[u] \in Spaces /\ sp[u] # 0 /\ pc[u].new \in Frames /\ Copies(pc[u].new) # {}
    BY <1>3, InFlight
  <2>2. pc[u].new # f
    <3>1. Own(f) # {}
      BY OwnIn DEF Written
    <3> QED BY <2>1, <3>1 DEF Sound, FrameOK, OneUse
  <2>3. ~(sp[u] = s /\ pc[u].page = p)
    <3>1. u # t
      BY <1>3, IdleOK DEF Written
    <3> QED BY <1>3, <3>1 DEF Faulting, Siblings, Written
  <2>4. sp[u] \notin early
    BY <2>1 DEF Sound, SpacesOK, Written
  <2> QED BY <1>1, <1>3, <2>1, <2>2, <2>3, <2>4 DEF ContentsOK, Written
<1>4. UNCHANGED <<pt, pc, sp>>
  BY DEF Written
<1> QED BY <1>2, <1>3, <1>4 DEF ContentsOK

\* A store, by way of the cache or of the table.
LEMMA StoreContents ==
    ASSUME Typed, Sound, CachesOK, ContentsOK, harm = {}, NEW t \in Threads, NEW p \in Pages,
           Store(t, p), harm' = {}
    PROVE  ContentsOK'
<1>1. /\ UNCHANGED <<pt, sp, pc>> /\ sp[t] # 0 /\ pc[t] = Idle /\ Entry(t, p).w
      /\ mem' = [mem EXCEPT ![Entry(t, p).f] = t] /\ ~Faulting(t, p)
  BY DEF Store, tvars, Call, Step
<1>2. PICK s \in Spaces, f \in Frames : s = sp[t] /\ f = Entry(t, p).f
  BY <1>1, SpaceIn, EntryIn, EntryFields
<1>3. pt[s][p].f = f
  BY <1>2 DEF Entry, CachesOK, CacheOK
<1> DEFINE waits == {v \in Siblings(t) : pc[v].at \in {"shoot", "acks"} /\ pt[pc[v].space][p].f = f}
           early == {pc[u].space : u \in waits}
<1>4. want' = [r \in Spaces |-> IF r \in early \cup {s} THEN [want[r] EXCEPT ![p] = t] ELSE want[r]]
  BY <1>2 DEF Store
<1>5. \A r \in Spaces, q \in Pages :
          want'[r][q] = IF (r = s \/ r \in early) /\ q = p THEN t ELSE want[r][q]
  <2> HIDE DEF early
  <2> QED BY <1>4 DEF Typed
<1>6. \A u \in waits : pc[u].space \in Spaces /\ pc[u].space # 0
  BY SpaceIn DEF Typed, WorkOK, Siblings
<1>7. /\ early \in SUBSET Spaces
      /\ \A r \in early : pt[r][p].f = f /\ \E u \in Threads : pc[u].space = r /\ pc[u].space # 0
  BY <1>6 DEF Siblings
<1>8. ASSUME NEW r \in Spaces, NEW q \in Pages, pt[r][q].f = f PROVE q = p /\ (r = s \/ r \in early)
  <2>1. CASE tlb[t][p] = NoPage
    <3>1. pt[s][p].w
      BY <1>1, <1>2, <2>1 DEF Entry
    <3>2. refs[f] = 0
      BY <1>3, <3>1 DEF Sound, Unshared
    <3> QED BY <1>3, <1>8, <3>2, SoleOwner
  <2>2. CASE tlb[t][p] # NoPage
    <3>1. tlb[t][p].f = f /\ tlb[t][p].w
      BY <1>1, <1>2, <2>2 DEF Entry
    <3>2. CASE r = s /\ q = p
      BY <3>2
    <3>3. CASE r # s \/ q # p
      <4>1. q = p /\ Pending(t, r)
        BY <1>2, <1>8, <2>2, <3>1, <3>3 DEF CachesOK, CacheOK
      <4>2. PICK u \in Siblings(t) : pc[u].space = r /\ pc[u].at \in {"shoot", "acks"}
        BY <4>1 DEF Pending
      <4>3. u \in waits
        BY <1>8, <4>1, <4>2
      <4> QED BY <4>1, <4>2, <4>3
    <3> QED BY <3>2, <3>3
  <2> QED BY <2>1, <2>2
<1>9. PICK E \in SUBSET Spaces : E = early
  BY <1>7
<1>10. /\ \A r \in E : pt[r][p].f = f /\ \E u \in Threads : pc[u].space = r /\ pc[u].space # 0
       /\ \A r \in Spaces, q \in Pages : pt[r][q].f = f => q = p /\ (r = s \/ r \in E)
       /\ \A r \in Spaces, q \in Pages : want'[r][q] = IF (r = s \/ r \in E) /\ q = p THEN t ELSE want[r][q]
  <2> HIDE DEF early
  <2> QED BY <1>5, <1>7, <1>8, <1>9
<1>11. mem' = [mem EXCEPT ![f] = t] /\ UNCHANGED <<pt, pc, sp>>
  BY <1>1, <1>2
<1> HIDE DEF early, waits
<1>12. Written(t, s, p, f, E)
  BY <1>1, <1>2, <1>3, <1>10, <1>11 DEF Written
<1> QED BY <1>12, WriteContents

\* The kernel writes into a page that is not shared, or that is recorded.
LEMMA KernelContents ==
    ASSUME Typed, Sound, ContentsOK, NEW t \in Threads, NEW p \in Pages, KernelWrite(t, p), harm' = {}
    PROVE  ContentsOK'
<1>1. /\ UNCHANGED <<pt, sp, pc>> /\ sp[t] # 0 /\ pc[t] = Idle /\ pt[sp[t]][p].f # 0
      /\ mem' = [mem EXCEPT ![pt[sp[t]][p].f] = t] /\ want' = [want EXCEPT ![sp[t]][p] = t]
      /\ ~Faulting(t, p) /\ ~(pt[sp[t]][p].cow /\ Shared(pt[sp[t]][p].f))
  BY DEF KernelWrite, tvars, Call, Step
<1>2. PICK s \in Spaces, f \in Frames : s = sp[t] /\ f = pt[s][p].f
  BY <1>1, SpaceIn, EntryIn, EntryFields
<1>3. refs[f] = 0
  <2>1. CASE pt[s][p].w
    BY <1>2, <2>1 DEF Sound, Unshared
  <2>2. CASE ~pt[s][p].w
    <3>1. pt[s][p].cow
      BY <1>1, <1>2, <2>2, EntryFields DEF Typed
    <3> QED BY <1>1, <1>2, <3>1 DEF Shared, Typed
  <2> QED BY <2>1, <2>2
<1>4. \A r \in Spaces, q \in Pages : pt[r][q].f = f => r = s /\ q = p
  BY <1>2, <1>3, SoleOwner
<1>5. \A r \in Spaces, q \in Pages : want'[r][q] = IF r = s /\ q = p THEN t ELSE want[r][q]
  BY <1>1, <1>2 DEF Typed
<1>6. PICK early \in SUBSET Spaces : early = {}
  OBVIOUS
<1>7. /\ \A r \in early : pt[r][p].f = f /\ \E u \in Threads : pc[u].space = r /\ pc[u].space # 0
      /\ \A r \in Spaces, q \in Pages : pt[r][q].f = f => q = p /\ (r = s \/ r \in early)
      /\ \A r \in Spaces, q \in Pages :
             want'[r][q] = IF (r = s \/ r \in early) /\ q = p THEN t ELSE want[r][q]
  BY <1>4, <1>5, <1>6
<1>8. mem' = [mem EXCEPT ![f] = t] /\ UNCHANGED <<pt, pc, sp>> /\ pt[s][p].f = f
  BY <1>1, <1>2
<1>9. Written(t, s, p, f, early)
  BY <1>1, <1>2, <1>7, <1>8 DEF Written
<1> QED BY <1>9, WriteContents

\* A fresh frame is written; only a page of one space, or a copy in the making, gets it.
Fresh(b, w, s) ==
    /\ mem' = [mem EXCEPT ![b] = w]
    /\ \A r \in Spaces, q \in Pages : r # s => want'[r][q] = want[r][q] /\ pt'[r][q].f \in {0, pt[r][q].f}
    /\ \A q \in Pages :
           \/ pt'[s][q].f = b /\ want'[s][q] = w
           \/ pt'[s][q].f = pt[s][q].f /\ want'[s][q] = want[s][q]
           \/ pt'[s][q].f = 0
    /\ \A u \in Threads : pc'[u].at = "cow" /\ pc'[u].new # 0 =>
           /\ sp'[u] = sp[u] /\ sp[u] \in Spaces /\ pc'[u].page \in Pages
           /\ want'[sp[u]][pc'[u].page] = want[sp[u]][pc'[u].page]
           /\ \/ pc'[u].new = b /\ w = want[sp[u]][pc'[u].page]
              \/ pc'[u] = pc[u]

\* Nobody else sees what is written to a fresh frame.
LEMMA FreshContents ==
    ASSUME Typed, Sound, ContentsOK, NEW b \in Frames \ used, NEW w, NEW s \in Spaces, Fresh(b, w, s)
    PROVE  ContentsOK'
<1>0. Fresh(b, w, s)
  OBVIOUS
<1>1. \A g \in Frames : mem'[g] = IF g = b THEN w ELSE mem[g]
  BY DEF Typed, Fresh
<1>2. Own(b) = {} /\ Copies(b) = {}
  BY NoUse
<1>3. ASSUME NEW r \in Spaces, NEW q \in Pages, pt'[r][q].f # 0 PROVE mem'[pt'[r][q].f] = want'[r][q]
  <2>1. CASE r = s /\ pt'[s][q].f = b /\ want'[s][q] = w
    BY <1>1, <2>1
  <2>2. CASE pt'[r][q].f = pt[r][q].f /\ want'[r][q] = want[r][q]
    <3>1. pt[r][q].f \in Frames
      BY <1>3, <2>2, EntryFields DEF Typed
    <3>2. pt[r][q].f # b
      BY <1>2, <3>1, OwnIn
    <3> QED BY <3>2, <1>1, <1>3, <2>2, <3>1 DEF ContentsOK
  <2> QED BY <1>3, <2>1, <2>2 DEF Fresh
<1>4. ASSUME NEW u \in Threads, pc'[u].at = "cow", pc'[u].new # 0
      PROVE  mem'[pc'[u].new] = want'[sp'[u]][pc'[u].page]
  <2>1. CASE pc'[u].new = b /\ w = want[sp[u]][pc'[u].page]
    BY <1>1, <1>4, <2>1 DEF Fresh
  <2>2. CASE pc'[u] = pc[u]
    <3>1. pc[u].new \in Frames /\ u \in Copies(pc[u].new)
      BY <1>4, <2>2, InFlight
    <3>2. pc[u].new # b
      BY <1>2, <3>1
    <3> QED BY <1>1, <1>4, <2>2, <3>1, <3>2 DEF ContentsOK, Fresh
  <2> QED BY <1>4, <2>1, <2>2 DEF Fresh
<1> QED BY <1>3, <1>4 DEF ContentsOK

\* A fault copies its page to a fresh frame, or finds that it has the frame to itself.
LEMMA CowFaultContents ==
    ASSUME Typed, Sound, ContentsOK, NEW t \in Threads, NEW p \in Pages, CowFault(t, p)
    PROVE  ContentsOK'
<1>1. sp[t] # 0 /\ pc[t] = Idle /\ UNCHANGED <<pt, sp, want>>
  BY DEF CowFault, Call, Step
<1>2. PICK s \in Spaces, o \in 0..NFrames : s = sp[t] /\ o = pt[s][p].f
  BY <1>1, SpaceIn, EntryIn, EntryFields, Bounds DEF Frames
<1>3. o \in Frames
  <2>1. pt[s][p].cow
    BY <1>2 DEF CowFault
  <2> QED BY <1>2, <2>1, EntryFields DEF Typed
<1>4. mem[o] = want[s][p]
  BY <1>2, <1>3, EntryFields DEF ContentsOK
<1>5. CASE Shared(o)
  <2>1. /\ Alloc(used) # 0 /\ mem' = [mem EXCEPT ![Alloc(used)] = mem[o]]
        /\ pc' = [pc EXCEPT ![t] = Work("cow", p, o, Alloc(used), 0)]
    BY <1>2, <1>5 DEF CowFault
  <2>2. PICK b \in Frames \ used : b = Alloc(used)
    BY <2>1, AllocFree
  <2>3. \A u \in Threads : pc'[u] = IF u = t THEN Work("cow", p, o, b, 0) ELSE pc[u]
    BY <2>1, <2>2 DEF Typed
  <2>4. ASSUME NEW u \in Threads, pc'[u].at = "cow", pc'[u].new # 0
        PROVE  /\ sp'[u] = sp[u] /\ sp[u] \in Spaces /\ pc'[u].page \in Pages
               /\ want'[sp[u]][pc'[u].page] = want[sp[u]][pc'[u].page]
               /\ \/ pc'[u].new = b /\ mem[o] = want[sp[u]][pc'[u].page]
                  \/ pc'[u] = pc[u]
    <3>1. CASE u = t
      BY <1>1, <1>2, <1>4, <2>3, <3>1, WorkFields
    <3>2. CASE u # t
      BY <1>1, <2>3, <2>4, <3>2, InFlight
    <3> QED BY <3>1, <3>2
  <2>5. mem' = [mem EXCEPT ![b] = mem[o]]
    BY <2>1, <2>2
  <2>6. PICK w : w = mem[o]
    OBVIOUS
  <2>7. Fresh(b, w, s)
    BY <1>1, <2>4, <2>5, <2>6 DEF Fresh
  <2> QED BY <2>7, FreshContents
<1>6. CASE ~Shared(o)
  <2>1. mem' = mem /\ pc' = [pc EXCEPT ![t] = Work("cow", p, o, 0, 0)]
    BY <1>2, <1>6 DEF CowFault
  <2>2. \A u \in Threads : pc'[u] = IF u = t THEN Work("cow", p, o, 0, 0) ELSE pc[u]
    BY <2>1 DEF Typed
  <2>3. Work("cow", p, o, 0, 0).new = 0
    BY WorkFields
  <2> QED BY <1>1, <2>1, <2>2, <2>3 DEF ContentsOK
<1> QED BY <1>5, <1>6

\* The copy that replaces a page holds what the page held.
LEMMA CowResolveContents ==
    ASSUME Typed, Sound, ContentsOK, NEW t \in Threads, CowResolve(t)
    PROVE  ContentsOK'
<1>0. pc[t].at = "cow" /\ UNCHANGED <<sp, mem, want>> /\ pc' = [pc EXCEPT ![t] = Idle]
  BY DEF CowResolve
<1>1. PICK s \in Spaces, p \in Pages, o \in Frames, k \in 0..NFrames :
          s = sp[t] /\ p = pc[t].page /\ o = pc[t].f /\ k = pc[t].new
  BY <1>0, InFlight
<1>2. pt' = [pt EXCEPT ![s][p] = Writable(IF k = 0 THEN o ELSE k)]
  BY <1>1 DEF CowResolve, Writable
<1>3. \A r \in Spaces, q \in Pages :
          pt'[r][q].f = IF r = s /\ q = p THEN IF k = 0 THEN o ELSE k ELSE pt[r][q].f
  BY <1>2, EntryFields DEF Typed
<1>4. pt[s][p].f = o /\ o # 0
  BY <1>0, <1>1, EntryFields DEF Sound, Faults
<1>5. k # 0 => mem[k] = want[s][p]
  BY <1>0, <1>1 DEF ContentsOK
<1>6. mem[o] = want[s][p]
  BY <1>4 DEF ContentsOK
<1>7. \A r \in Spaces, q \in Pages : pt'[r][q].f # 0 => mem[pt'[r][q].f] = want[r][q]
  BY <1>3, <1>5, <1>6 DEF ContentsOK
<1>8. \A u \in Threads : pc'[u].at = "cow" => pc'[u] = pc[u]
  BY <1>0, IdleOK DEF Typed
<1> QED BY <1>0, <1>7, <1>8 DEF ContentsOK

\* A new page of the heap is zero.
LEMMA SbrkPageContents ==
    ASSUME Typed, Sound, ContentsOK, NEW t \in Threads, NEW last \in BOOLEAN, SbrkPage(t, last)
    PROVE  ContentsOK'
<1>1. sp' = sp /\ \A u \in Threads : pc'[u].at = "cow" => pc'[u] = pc[u]
  BY SbrkCalm, CalmKeeps, CalmWaits
<1>2. PICK s \in Spaces, p \in Pages, g \in Frames \ used :
          /\ pt[s][p] = NoPage /\ pt' = [pt EXCEPT ![s][p] = Writable(g)]
          /\ mem' = [mem EXCEPT ![g] = 0] /\ want' = [want EXCEPT ![s][p] = 0]
  BY PageMapped
<1>3. /\ \A r \in Spaces, q \in Pages : pt'[r][q].f = IF r = s /\ q = p THEN g ELSE pt[r][q].f
      /\ \A r \in Spaces, q \in Pages : want'[r][q] = IF r = s /\ q = p THEN 0 ELSE want[r][q]
  BY <1>2, EntryFields DEF Typed
<1>4. ASSUME NEW u \in Threads, pc'[u].at = "cow", pc'[u].new # 0
      PROVE  /\ sp[u] \in Spaces /\ pc[u].page \in Pages /\ pc'[u] = pc[u]
             /\ want'[sp[u]][pc[u].page] = want[sp[u]][pc[u].page]
  <2>1. sp[u] \in Spaces /\ pc[u].page \in Pages /\ pc[u].f \in Frames /\ pc'[u] = pc[u]
    BY <1>1, <1>4, InFlight
  <2>2. pt[sp[u]][pc[u].page].f = pc[u].f
    BY <1>4, <2>1, EntryFields DEF Sound, Faults
  <2>3. ~(sp[u] = s /\ pc[u].page = p)
    BY <1>2, <2>1, <2>2, EntryFields
  <2> QED BY <1>3, <2>1, <2>3
<1>5. Fresh(g, 0, s)
  BY <1>1, <1>2, <1>3, <1>4 DEF Fresh
<1> QED BY <1>5, FreshContents

\* A new image is zero.
LEMMA ImageContents ==
    ASSUME Typed, Sound, ContentsOK, NEW s \in Spaces, NextSpace(s), Complete, Built(s), refs' = refs,
           \A u \in Threads : pc'[u].at = "cow" => pc'[u] = pc[u] /\ sp'[u] = sp[u]
    PROVE  ContentsOK'
<1>1. PICK a, b, c \in Frames \ used : \E x, y, z : ImageAt(s, a, b, c, x, y, z)
  BY ImageEffect
<1>2. /\ \A r \in Spaces \ {s}, q \in Pages : pt'[r][q] = pt[r][q]
      /\ \A q \in Pages : pt'[s][q] \in {NoPage, Writable(b)}
      /\ mem' = [mem EXCEPT ![b] = 0] /\ want' = [want EXCEPT ![s] = [q \in Pages |-> 0]]
  BY <1>1 DEF ImageAt
<1>3. \A q \in Pages : pt'[s][q].f \in {0, b}
  BY <1>2, EntryFields
<1>4. \A r \in Spaces, q \in Pages : want'[r][q] = IF r = s THEN 0 ELSE want[r][q]
  BY <1>2 DEF Typed
<1>5. ASSUME NEW u \in Threads, pc'[u].at = "cow"
      PROVE  /\ sp'[u] = sp[u] /\ sp[u] \in Spaces /\ pc'[u].page \in Pages
             /\ want'[sp[u]][pc'[u].page] = want[sp[u]][pc'[u].page]
             /\ pc'[u] = pc[u]
  <2>1. sp'[u] = sp[u] /\ pc'[u] = pc[u]
    BY <1>5
  <2>2. sp[u] \in Spaces /\ pc[u].page \in Pages /\ sp[u] # s
    BY <1>5, <2>1, InFlight, NextFree
  <2> QED BY <1>4, <2>1, <2>2
<1>6. Fresh(b, 0, s)
  <2>1. \A r \in Spaces, q \in Pages : r # s => want'[r][q] = want[r][q] /\ pt'[r][q].f \in {0, pt[r][q].f}
    BY <1>2, <1>4
  <2>2. \A q \in Pages : (pt'[s][q].f = b /\ want'[s][q] = 0) \/ pt'[s][q].f = 0
    BY <1>3, <1>4
  <2> QED BY <1>2, <1>5, <2>1, <2>2 DEF Fresh
<1> QED BY <1>6, FreshContents

\* Steps that build an image, or fail to.
LEMMA BuildContents ==
    ASSUME Typed, Sound, ContentsOK, NEW t \in Threads, ExecBuild(t) \/ SpawnImage(t) \/ SpawnFails
    PROVE  ContentsOK'
<1>1. CASE ExecBuild(t)
  <2>0. /\ forks < MaxForks /\ Built(forks + 2) /\ pc[t] = Idle /\ UNCHANGED <<refs, sp>>
        /\ pc' = IF Complete THEN [pc EXCEPT ![t] = Work("exec", 0, 0, 0, forks + 2)] ELSE pc
    BY <1>1 DEF ExecBuild, Call, Step
  <2>1. \A u \in Threads : pc'[u].at = "cow" => pc'[u] = pc[u] /\ sp'[u] = sp[u]
    BY <2>0, WorkFields DEF Typed
  <2>3. CASE Complete
    <3>1. forks + 2 \in Spaces
      BY <2>0, Bounds DEF Spaces, Typed
    <3>2. PICK s \in Spaces : s = forks + 2
      BY <3>1
    <3> QED BY <2>0, <2>1, <2>3, <3>2, ImageContents DEF NextSpace
  <2>4. CASE ~Complete
    <3>1. UNCHANGED <<mem, pt, want>>
      BY <2>0, <2>4 DEF Built
    <3> QED BY <2>1, <3>1, ContentsKept
  <2> QED BY <2>3, <2>4
<1>2. CASE SpawnImage(t)
  <2>0. /\ forks < MaxForks /\ Complete /\ Built(forks + 2) /\ sp[t] = 0 /\ UNCHANGED <<refs, pc>>
        /\ sp' = [sp EXCEPT ![t] = forks + 2]
    BY <1>2 DEF SpawnImage, CanSpawn
  <2>1. forks + 2 \in Spaces
    BY <2>0, Bounds DEF Spaces, Typed
  <2>2. PICK s \in Spaces : s = forks + 2
    BY <2>1
  <2>3. pc[t] = Idle
    BY <2>0 DEF Typed
  <2>4. \A u \in Threads : u # t => sp'[u] = sp[u]
    BY <2>0 DEF Typed
  <2>5. \A u \in Threads : pc'[u].at = "cow" => pc'[u] = pc[u] /\ sp'[u] = sp[u]
    BY <2>0, <2>3, <2>4, IdleOK
  <2> QED BY <2>0, <2>2, <2>5, ImageContents DEF NextSpace
<1>3. CASE SpawnFails
  <2>1. UNCHANGED <<mem, pt, want, sp, pc>>
    BY <1>3 DEF SpawnFails, tvars
  <2> QED BY <2>1, ContentsKept
<1> QED BY <1>1, <1>2, <1>3

\* Dropping a space gives no page another frame.
LEMMA Shrinks ==
    ASSUME Typed, NEW s, Dropped(s) \/ pt' = pt
    PROVE  \A r \in Spaces, p \in Pages : pt'[r][p].f \in {0, pt[r][p].f}
<1>1. ASSUME NEW r \in Spaces, NEW p \in Pages, Dropped(s) PROVE pt'[r][p] \in {NoPage, pt[r][p]}
  <2>1. pt' = [pt EXCEPT ![s] = [q \in Pages |-> NoPage]] /\ pt \in [Spaces -> [Pages -> Entries]]
    BY <1>1 DEF Dropped, Typed
  <2>2. pt'[r] = IF r = s THEN [q \in Pages |-> NoPage] ELSE pt[r]
    BY <2>1
  <2> QED BY <2>2
<1>2. \A r \in Spaces, p \in Pages : pt'[r][p] \in {NoPage, pt[r][p]}
  BY <1>1
<1> QED BY <1>2, EntryFields

\* Steps that give pages back, or none: exec, the failure of a fork, exit, a page less of the heap.
LEMMA FreedContents ==
    ASSUME Typed, Sound, ContentsOK, NEW t \in Threads,
           (\E refused \in BOOLEAN : ExecReplace(t, refused)) \/ ForkFails(t) \/ Exit(t) \/ SbrkUnmap(t)
    PROVE  ContentsOK'
<1>1. ASSUME NEW refused \in BOOLEAN, ExecReplace(t, refused) PROVE ContentsOK'
  <2>0. /\ pc[t].at = "exec" /\ pc' = [pc EXCEPT ![t] = Idle] /\ UNCHANGED <<mem, want>>
        /\ IF refused THEN sp' = sp ELSE sp' = [sp EXCEPT ![t] = pc[t].space]
    BY <1>1 DEF ExecReplace, hvars
  <2>1. \A u \in Threads : pc'[u].at = "cow" => pc'[u] = pc[u] /\ sp'[u] = sp[u]
    BY <2>0, IdleOK DEF Typed
  <2>2. Dropped(pc[t].space) \/ Dropped(sp[t]) \/ pt' = pt
    BY <1>1 DEF ExecReplace
  <2>3. \A s \in Spaces, p \in Pages : pt'[s][p].f \in {0, pt[s][p].f}
    BY <2>2, Shrinks
  <2> QED BY <2>0, <2>1, <2>3, ContentsKept
<1>2. CASE ForkFails(t)
  <2>0. pc[t].at = "stack" /\ pc' = [pc EXCEPT ![t] = Idle] /\ UNCHANGED <<sp, mem, want>>
    BY <1>2 DEF ForkFails, hvars
  <2>1. \A u \in Threads : pc'[u].at = "cow" => pc'[u] = pc[u] /\ sp'[u] = sp[u]
    BY <2>0, IdleOK DEF Typed
  <2>2. Dropped(pc[t].space) \/ pt' = pt
    BY <1>2 DEF ForkFails
  <2>3. \A s \in Spaces, p \in Pages : pt'[s][p].f \in {0, pt[s][p].f}
    BY <2>2, Shrinks
  <2> QED BY <2>0, <2>1, <2>3, ContentsKept
<1>3. CASE Exit(t)
  <2>0. pc[t] = Idle /\ UNCHANGED <<pc, mem, want>> /\ sp' = [sp EXCEPT ![t] = 0]
    BY <1>3 DEF Exit, Leave, Call, Step
  <2>1. \A u \in Threads : pc'[u].at = "cow" => pc'[u] = pc[u] /\ sp'[u] = sp[u]
    BY <2>0, IdleOK DEF Typed
  <2>2. Dropped(sp[t]) \/ pt' = pt
    BY <1>3 DEF Exit, Leave
  <2>3. \A s \in Spaces, p \in Pages : pt'[s][p].f \in {0, pt[s][p].f}
    BY <2>2, Shrinks
  <2> QED BY <2>0, <2>1, <2>3, ContentsKept
<1>4. CASE SbrkUnmap(t)
  <2>0. UNCHANGED <<mem, want>> /\ pt' = [pt EXCEPT ![sp[t]][pc[t].page] = NoPage]
    BY <1>4 DEF SbrkUnmap
  <2>1. \A s \in Spaces, p \in Pages : pt'[s][p] \in {NoPage, pt[s][p]}
    BY <2>0 DEF Typed
  <2>2. \A s \in Spaces, p \in Pages : pt'[s][p].f \in {0, pt[s][p].f}
    BY <2>1, EntryFields
  <2>3. sp' = sp /\ \A u \in Threads : pc'[u].at = "cow" => pc'[u] = pc[u]
    BY <1>4, SbrkCalm, CalmKeeps, CalmWaits
  <2> QED BY <2>0, <2>2, <2>3, ContentsKept
<1> QED BY <1>1, <1>2, <1>3, <1>4

\* Steps that touch no page: a load, the shootdown, the search for a stack, the start of a child, the
\* reaper, a call of sbrk that begins or fails.
LEMMA StillContents ==
    ASSUME Typed, ContentsOK, NEW t \in Threads,
           \/ Shootdown(t) \/ OnIpi(t) \/ ShootdownEnds(t) \/ ScanRun(t) \/ Clone(t) \/ Reap(t)
           \/ \E u \in Threads : MarkRun(t, u)
           \/ \E p \in Pages : Load(t, p)
           \/ SbrkGrow(t) \/ SbrkFails(t) \/ \E b \in Pages : SbrkShrink(t, b)
    PROVE  ContentsOK'
<1>1. CASE \E u \in Threads : MarkRun(t, u)
  <2>1. PICK u \in Threads : MarkRun(t, u)
    BY <1>1
  <2>2. /\ sp[u] = 0 /\ pc[t].at = "mark" /\ pc' = [pc EXCEPT ![t] = Idle] /\ UNCHANGED <<mem, pt, want>>
        /\ sp' = [sp EXCEPT ![u] = IF pc[t].space = 0 THEN sp[t] ELSE pc[t].space]
    BY <2>1 DEF MarkRun
  <2>3. pc[u] = Idle
    BY <2>2 DEF Typed
  <2>4. \A v \in Threads : (v # u => sp'[v] = sp[v]) /\ pc'[v] = IF v = t THEN Idle ELSE pc[v]
    BY <2>2 DEF Typed
  <2>5. \A v \in Threads : pc'[v].at = "cow" => pc'[v] = pc[v] /\ sp'[v] = sp[v]
    BY <2>3, <2>4, IdleOK
  <2> QED BY <2>2, <2>5, ContentsKept
<1>2. CASE OnIpi(t) \/ Reap(t) \/ \E p \in Pages : Load(t, p)
  <2>1. UNCHANGED <<mem, pt, want, sp, pc>>
    BY <1>2 DEF OnIpi, Reap, Load, tvars, hvars
  <2> QED BY <2>1, ContentsKept
<1>3. CASE Shootdown(t) \/ ShootdownEnds(t) \/ ScanRun(t) \/ Clone(t)
  <2>1. UNCHANGED <<mem, pt, want, sp>>
    BY <1>3 DEF Shootdown, ShootdownEnds, ScanRun, Clone, mvars, hvars
  <2>2. PICK a, f, n : a \in {"acks", "stack", "mark"} /\ pc' = [pc EXCEPT ![t] = Work(a, 0, f, 0, n)]
    BY <1>3 DEF Shootdown, ShootdownEnds, ScanRun, Clone
  <2>3. \A u \in Threads : pc'[u] = IF u = t THEN Work(a, 0, f, 0, n) ELSE pc[u]
    BY <2>2 DEF Typed
  <2>4. \A u \in Threads : pc'[u].at = "cow" => pc'[u] = pc[u]
    BY <2>2, <2>3, WorkFields
  <2> QED BY <2>1, <2>4, ContentsKept
<1>4. CASE SbrkGrow(t) \/ SbrkFails(t) \/ \E b \in Pages : SbrkShrink(t, b)
  <2>1. UNCHANGED <<mem, pt, want>>
    BY <1>4 DEF SbrkGrow, SbrkFails, SbrkShrink, mvars, hvars
  <2>2. sp' = sp /\ \A u \in Threads : pc'[u].at = "cow" => pc'[u] = pc[u]
    BY <1>4, SbrkCalm, CalmKeeps, CalmWaits
  <2> QED BY <2>1, <2>2, ContentsKept
<1> QED BY <1>1, <1>2, <1>3, <1>4

\* The child has what the parent has: the same frames, and the same claims on them.
LEMMA ForkContents ==
    ASSUME Typed, Sound, ContentsOK, NEW t \in Threads, ForkCow(t), Clean'
    PROVE  ContentsOK'
<1>1. PICK s, n \in Spaces : \E T : Forked(t, s, n, T)
  BY ForkFull
<1>2. /\ s = sp[t] /\ NextSpace(n) /\ s # n /\ pc[t] = Idle /\ sp' = sp
      /\ pc' = [pc EXCEPT ![t] = Work("shoot", 0, 0, 0, n)]
      /\ \A r \in Spaces, p \in Pages : r # s /\ r # n => pt'[r][p] = pt[r][p]
      /\ \A p \in Pages : pt'[s][p].f = pt[s][p].f /\ pt'[n][p].f = pt[s][p].f
  BY <1>1 DEF Forked
<1>3. mem' = mem /\ want' = [want EXCEPT ![n] = want[s]]
  BY <1>2 DEF ForkCow, NextSpace
<1>4. \A r \in Spaces : want'[r] = IF r = n THEN want[s] ELSE want[r]
  BY <1>3 DEF Typed
<1>5. ASSUME NEW r \in Spaces, NEW q \in Pages, pt'[r][q].f # 0 PROVE mem'[pt'[r][q].f] = want'[r][q]
  <2>1. CASE r = n
    BY <1>2, <1>3, <1>4, <1>5, <2>1 DEF ContentsOK
  <2>2. CASE r # n
    <3>1. pt'[r][q].f = pt[r][q].f
      BY <1>2, <2>2
    <3> QED BY <1>3, <1>4, <1>5, <2>2, <3>1 DEF ContentsOK
  <2> QED BY <2>1, <2>2
<1>6. ASSUME NEW u \in Threads, pc'[u].at = "cow", pc'[u].new # 0
      PROVE  mem'[pc'[u].new] = want'[sp'[u]][pc'[u].page]
  <2>1. pc'[u] = pc[u] /\ sp'[u] = sp[u]
    BY <1>2, <1>6, WorkFields DEF Typed
  <2>2. sp[u] \in Spaces /\ sp[u] # n
    BY <1>2, <1>6, <2>1, InFlight, NextFree
  <2> QED BY <1>3, <1>4, <1>6, <2>1, <2>2 DEF ContentsOK
<1> QED BY <1>5, <1>6 DEF ContentsOK

\* What pages hold is inductive over the structure and the caches, as long as nothing is recorded.
LEMMA ContentsInd ==
    Typed /\ Struct /\ Caches /\ Contents /\ [Next]_vars => Contents'
<1> SUFFICES ASSUME Typed, Struct, Caches, Contents, [Next]_vars, harm' = {} PROVE ContentsOK'
  BY DEF Contents
<1>0. Sound /\ CachesOK /\ ContentsOK /\ Clean' /\ harm = {}
  <2>1. harm \subseteq harm'
    BY HarmGrows DEF vars, hvars
  <2> QED BY <2>1 DEF Clean, Struct, Caches, Contents
<1>1. ASSUME NEW t \in Threads, NEW p \in Pages, Store(t, p) PROVE ContentsOK'
  BY <1>0, <1>1, StoreContents
<1>2. ASSUME NEW t \in Threads, NEW p \in Pages, CowFault(t, p) PROVE ContentsOK'
  BY <1>0, <1>2, CowFaultContents
<1>3. ASSUME NEW t \in Threads, NEW p \in Pages, KernelWrite(t, p) PROVE ContentsOK'
  BY <1>0, <1>3, KernelContents
<1>4. ASSUME NEW t \in Threads, CowResolve(t) PROVE ContentsOK'
  BY <1>0, <1>4, CowResolveContents
<1>5. ASSUME NEW t \in Threads, NEW last \in BOOLEAN, SbrkPage(t, last) PROVE ContentsOK'
  BY <1>0, <1>5, SbrkPageContents
<1>6. ASSUME NEW t \in Threads, ExecBuild(t) \/ SpawnImage(t) \/ SpawnFails PROVE ContentsOK'
  BY <1>0, <1>6, BuildContents
<1>7. ASSUME NEW t \in Threads,
             (\E refused \in BOOLEAN : ExecReplace(t, refused)) \/ ForkFails(t) \/ Exit(t) \/ SbrkUnmap(t)
      PROVE  ContentsOK'
  BY <1>0, <1>7, FreedContents
<1>8. ASSUME NEW t \in Threads, ForkCow(t) PROVE ContentsOK'
  BY <1>0, <1>8, ForkContents
<1>9. ASSUME NEW t \in Threads,
             \/ Shootdown(t) \/ OnIpi(t) \/ ShootdownEnds(t) \/ ScanRun(t) \/ Clone(t) \/ Reap(t)
             \/ \E u \in Threads : MarkRun(t, u)
             \/ \E p \in Pages : Load(t, p)
             \/ SbrkGrow(t) \/ SbrkFails(t) \/ \E b \in Pages : SbrkShrink(t, b)
      PROVE  ContentsOK'
  BY <1>0, <1>9, StillContents
<1>10. CASE UNCHANGED vars
  <2>1. UNCHANGED <<mem, pt, want, sp, pc>>
    BY <1>10 DEF vars, mvars, tvars, hvars
  <2> QED BY <1>0, <2>1, ContentsKept
<1>11. 1 \in Threads
  BY Bounds DEF Threads
<1>12. SpawnFails => ContentsOK'
  BY <1>6, <1>11
<1>13. ASSUME NEW t \in Threads, NEW p \in Pages, Killed(t, p) PROVE ContentsOK'
  BY <1>7, <1>13, KilledLeaves
<1> QED BY <1>1, <1>2, <1>3, <1>4, <1>5, <1>6, <1>7, <1>8, <1>9, <1>10, <1>12, <1>13 DEF Next

\* At the start every page is zero.
LEMMA InitContents == Init => ContentsOK
<1> SUFFICES ASSUME Init PROVE ContentsOK
  OBVIOUS
<1>1. /\ \A t \in Threads : pc[t].at # "cow"
      /\ \A s \in Spaces, p \in Pages : want[s][p] = 0
  BY IdleOK DEF Init
<1>2. \A f \in Frames : mem[f] = 0
  BY DEF Init
<1>3. \A s \in Spaces, p \in Pages : pt[s][p].f \in {0} \cup Frames
  BY InitTyped, EntryFields DEF Typed
<1> QED BY <1>1, <1>2, <1>3 DEF ContentsOK

\* Processes are isolated: what a thread finds in a page, in memory or by way of what its CPU has cached,
\* is what its own process wrote there last (vmm::fork_cow, vmm::cow_resolve, tlb::shootdown_all_others),
\* as long as none of the accidents of Memory is recorded.
THEOREM ProcessesIsolated == Spec => []Isolated
<1> DEFINE Inv == Typed /\ Struct /\ Caches /\ Contents /\ harm \subseteq Accidents
<1>1. Init => Inv
  <2>1. Init => harm \subseteq Accidents
    BY DEF Init
  <2> QED BY <2>1, InitTyped, InitSound, InitCaches, InitContents DEF Struct, Caches, Contents
<1>2. Inv /\ [Next]_vars => Inv'
  BY TypedInd, StructInd, CachesInd, ContentsInd, HarmKnown
<1>3. Inv => Isolated
  <2> SUFFICES ASSUME Inv, harm \cap Accidents = {}, NEW t \in Threads, sp[t] # 0, NEW p \in Mapped(sp[t])
               PROVE  mem[Entry(t, p).f] = want[sp[t]][p]
    BY DEF Isolated, Isolation, Accidents
  <2>1. harm = {} /\ CachesOK /\ ContentsOK
    BY DEF Caches, Contents, Clean
  <2>2. p \in Pages /\ sp[t] \in Spaces /\ pt[sp[t]][p].f # 0
    BY SpaceIn DEF Mapped
  <2>3. Entry(t, p).f = pt[sp[t]][p].f
    BY <2>1, <2>2 DEF Entry, CachesOK, CacheOK
  <2> QED BY <2>1, <2>2, <2>3 DEF ContentsOK
<1> HIDE DEF Inv
<1> QED BY <1>1, <1>2, <1>3, PTL DEF Spec
=============================================================================
