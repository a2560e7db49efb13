-------------------------- MODULE FrameAllocProofs --------------------------
(***************************************************************************)
(* Proofs about BootPtAlloc for every page size, free-list capacity and    *)
(* set of well-formed memory maps.  Safety follows from one inductive      *)
(* invariant, every frame in play lies behind the cursor; that no page is  *)
(* forgotten and that the allocator is a pool of frames follow from a      *)
(* second one, every page not in play lies ahead of it.                    *)
(***************************************************************************)
EXTENDS FrameAlloc, WellFoundedInduction, TLAPS

\* Division with remainder of naturals.
LEMMA DivMod ==
  ASSUME NEW a \in Nat, NEW d \in Nat \ {0}
  PROVE  /\ a \div d \in Nat
         /\ a % d \in 0 .. (d - 1)
         /\ a = d * (a \div d) + (a % d)
  OBVIOUS

\* Products of naturals are monotone in the factor.
LEMMA MulMonotone ==
  ASSUME NEW d \in Nat, NEW x \in Nat, NEW y \in Nat, x <= y
  PROVE  d * x <= d * y
  OBVIOUS

\* A number is a multiple of d exactly when its remainder is 0.
LEMMA MultipleMod ==
  ASSUME NEW q \in Nat, NEW d \in Nat \ {0}
  PROVE  (d * q) % d = 0
  <1> DEFINE k == (d * q) \div d
             r == (d * q) % d
  <1>1. d * q \in Nat
    OBVIOUS
  <1>2. k \in Nat /\ r \in 0 .. (d - 1) /\ d * q = d * k + r
    BY <1>1, DivMod, Zenon
  <1> HIDE DEF k, r
  <1>3. CASE q <= k
    <2>1. d * q <= d * k
      BY <1>2, <1>3, MulMonotone
    <2>2. d * k \in Nat
      BY <1>2
    <2>3. r = 0
      BY <1>1, <1>2, <2>1, <2>2
    <2> QED BY <2>3 DEF r
  <1>4. CASE k + 1 <= q
    <2>1. d * (k + 1) <= d * q
      BY <1>2, <1>4, MulMonotone
    <2>2. d * (k + 1) = d * k + d /\ d * k \in Nat
      BY <1>2
    <2> QED BY <1>1, <1>2, <2>1, <2>2
  <1> QED BY <1>2, <1>3, <1>4

\* Two multiples of the page size differ by at least a page.
LEMMA NextMultiple ==
  ASSUME NEW a \in Nat, NEW b \in Nat,
         a % PAGE_SIZE = 0, b % PAGE_SIZE = 0, a < b
  PROVE  a + PAGE_SIZE <= b
  <1> DEFINE k == a \div PAGE_SIZE
             l == b \div PAGE_SIZE
  <1>0. PAGE_SIZE \in Nat \ {0}
    BY SizesAssumption
  <1>1. k \in Nat /\ l \in Nat /\ a = PAGE_SIZE * k /\ b = PAGE_SIZE * l
    <2>1. k \in Nat /\ a = PAGE_SIZE * k + (a % PAGE_SIZE)
      BY <1>0, DivMod
    <2>2. l \in Nat /\ b = PAGE_SIZE * l + (b % PAGE_SIZE)
      BY <1>0, DivMod
    <2> HIDE DEF k, l
    <2>3. PAGE_SIZE * k \in Nat /\ PAGE_SIZE * l \in Nat
      BY <1>0, <2>1, <2>2
    <2> QED BY <2>1, <2>2, <2>3
  <1> HIDE DEF k, l
  <1>2. k + 1 <= l
    <2>1. SUFFICES ASSUME l <= k PROVE FALSE
      BY <1>1
    <2>2. PAGE_SIZE * l <= PAGE_SIZE * k
      BY <1>0, <1>1, <2>1, MulMonotone
    <2> QED BY <1>1, <2>2
  <1>3. PAGE_SIZE * (k + 1) <= PAGE_SIZE * l
    BY <1>0, <1>1, <1>2, MulMonotone
  <1>4. PAGE_SIZE * (k + 1) = PAGE_SIZE * k + PAGE_SIZE
    BY <1>0, <1>1
  <1> QED BY <1>1, <1>3, <1>4

\* The sum of an aligned address and a page is aligned.
LEMMA AddPageAligned ==
  ASSUME NEW a \in Nat, a % PAGE_SIZE = 0
  PROVE  (a + PAGE_SIZE) % PAGE_SIZE = 0
  <1> DEFINE k == a \div PAGE_SIZE
  <1>0. PAGE_SIZE \in Nat \ {0}
    BY SizesAssumption
  <1>1. k \in Nat /\ a = PAGE_SIZE * k + (a % PAGE_SIZE)
    BY <1>0, DivMod
  <1> HIDE DEF k
  <1>2. PAGE_SIZE * k \in Nat /\ PAGE_SIZE * (k + 1) = PAGE_SIZE * k + PAGE_SIZE
    BY <1>0, <1>1
  <1>3. a + PAGE_SIZE = PAGE_SIZE * (k + 1)
    BY <1>0, <1>1, <1>2
  <1>4. k + 1 \in Nat
    BY <1>1
  <1> QED BY <1>0, <1>3, <1>4, MultipleMod

\* align_up (vm.rs:177) rounds up to the next multiple of the page size.
LEMMA AlignUpBounds ==
  ASSUME NEW v \in Nat
  PROVE  /\ align_up(v) \in Nat
         /\ v <= align_up(v)
         /\ align_up(v) <= v + PAGE_SIZE - 1
         /\ align_up(v) % PAGE_SIZE = 0
  <1> DEFINE a == v + PAGE_SIZE - 1
             q == a \div PAGE_SIZE
  <1>1. PAGE_SIZE \in Nat \ {0} /\ a \in Nat
    BY SizesAssumption
  <1>2. /\ q \in Nat /\ a % PAGE_SIZE \in 0 .. (PAGE_SIZE - 1)
        /\ a = PAGE_SIZE * q + (a % PAGE_SIZE)
    BY <1>1, DivMod, Zenon
  <1>3. align_up(v) = q * PAGE_SIZE
    BY DEF align_up
  <1> HIDE DEF q
  <1>4. PAGE_SIZE * q = q * PAGE_SIZE /\ q * PAGE_SIZE \in Nat
    BY <1>1, <1>2
  <1>5. (PAGE_SIZE * q) % PAGE_SIZE = 0
    BY <1>1, <1>2, MultipleMod
  <1> QED BY <1>1, <1>2, <1>3, <1>4, <1>5

-----------------------------------------------------------------------------
\* Frame f is a page of usable entry i that the cursor has gone past.
BehindIn(f, i) ==
  /\ UsableEntry(mem_map, i)
  /\ mem_map.entries[i].base <= f
  /\ f + PAGE_SIZE <= End(mem_map, i)
  /\ i <= cur_entry
  /\ i = cur_entry => f + PAGE_SIZE <= cur_addr

BehindCursor ==
  \A f \in InPlay : f % PAGE_SIZE = 0 /\ \E i \in Entries(mem_map) : BehindIn(f, i)

\* The inductive invariant.
IInv == /\ TypeOK
        /\ FramesApart
        /\ BehindCursor
        /\ cur_addr % PAGE_SIZE = 0

\* What MemMapsAssumption says of the map in use.
LEMMA MapFacts ==
  ASSUME TypeOK
  PROVE  /\ mem_map.entry_count \in Nat \ {0}
         /\ \A i \in Entries(mem_map) :
              /\ i \in Nat
              /\ mem_map.entries[i].base \in Nat
              /\ mem_map.entries[i].len \in Nat
              /\ End(mem_map, i) \in Nat
              /\ mem_map.entries[i].base + PAGE_SIZE - 1 <= U64_MAX
         /\ \A i, j \in Entries(mem_map) :
              UsableEntry(mem_map, i) /\ i # j
                => \/ End(mem_map, i) <= mem_map.entries[j].base
                   \/ End(mem_map, j) <= mem_map.entries[i].base
  <1>1. WellFormed(mem_map)
    BY MemMapsAssumption DEF TypeOK
  <1>2. mem_map.entry_count \in Nat \ {0}
    BY <1>1 DEF WellFormed
  <1>3. ASSUME NEW i \in Entries(mem_map)
        PROVE  /\ i \in Nat
               /\ mem_map.entries[i].base \in Nat
               /\ mem_map.entries[i].len \in Nat
               /\ End(mem_map, i) \in Nat
               /\ mem_map.entries[i].base + PAGE_SIZE - 1 <= U64_MAX
    <2>1. mem_map.entries[i] \in [base : Nat, len : Nat, mem_type : MemType]
      BY <1>1 DEF WellFormed
    <2>2. i \in Nat
      BY <1>2 DEF Entries
    <2> QED BY <1>1, <2>1, <2>2 DEF WellFormed, End
  <1> QED BY <1>1, <1>2, <1>3 DEF WellFormed

\* The frame the scan of an entry yields: aligned, and not before the cursor.
LEMMA CandidateFacts ==
  ASSUME TypeOK, NEW i \in Entries(mem_map)
  PROVE  /\ ScanFrom(i) \in Nat
         /\ Candidate(i) \in Nat
         /\ Candidate(i) % PAGE_SIZE = 0
         /\ mem_map.entries[i].base <= Candidate(i)
         /\ i = cur_entry => cur_addr <= Candidate(i)
  <1>1. mem_map.entries[i].base \in Nat /\ cur_addr \in Nat
    BY MapFacts, SizesAssumption DEF TypeOK
  <1>2. /\ ScanFrom(i) \in Nat
        /\ mem_map.entries[i].base <= ScanFrom(i)
        /\ i = cur_entry => cur_addr <= ScanFrom(i)
    BY <1>1 DEF ScanFrom
  <1>3. /\ Candidate(i) \in Nat /\ ScanFrom(i) <= Candidate(i)
        /\ Candidate(i) % PAGE_SIZE = 0
    BY <1>2, AlignUpBounds DEF Candidate
  <1> QED BY <1>1, <1>2, <1>3

\* BootPtAlloc::new starts with an empty free list and nothing behind the cursor.
LEMMA InitIInv == Init => IInv
  <1> SUFFICES ASSUME Init PROVE IInv
    OBVIOUS
  <1> USE SizesAssumption
  <1>1. WellFormed(mem_map)
    BY MemMapsAssumption DEF Init
  <1>2. TypeOK
    BY <1>1 DEF Init, TypeOK, WellFormed
  <1>3. InPlay = {} /\ Listed = {} /\ held = {} /\ lost = {}
    BY DEF Init, InPlay, Listed
  <1>4. FramesApart
    BY <1>3 DEF Init, FramesApart
  <1>5. BehindCursor
    BY <1>3 DEF BehindCursor
  <1>6. cur_addr % PAGE_SIZE = 0
    BY MultipleMod DEF Init
  <1> QED BY <1>2, <1>4, <1>5, <1>6 DEF IInv

-----------------------------------------------------------------------------
\* A step that only moves the cursor forward keeps every frame behind it.
LEMMA CursorAdvances ==
  ASSUME TypeOK, BehindCursor,
         mem_map' = mem_map, InPlay' = InPlay,
         cur_entry' \in Nat, cur_entry <= cur_entry',
         cur_entry' = cur_entry => cur_addr' = cur_addr
  PROVE  BehindCursor'
  <1> SUFFICES ASSUME NEW f \in InPlay'
               PROVE  (f % PAGE_SIZE = 0 /\ \E i \in Entries(mem_map) : BehindIn(f, i))'
    BY DEF BehindCursor
  <1>1. PICK i \in Entries(mem_map) : BehindIn(f, i)
    BY DEF BehindCursor
  <1>2. i \in Nat /\ cur_entry \in Nat
    BY MapFacts DEF TypeOK
  <1>3. BehindIn(f, i)'
    BY <1>1, <1>2 DEF BehindIn, UsableEntry, End, Entries
  <1> QED BY <1>1, <1>3 DEF BehindCursor, Entries

\* A frame taken from the map lies clear of every frame in play.
LEMMA NewFrameIsClear ==
  ASSUME IInv, NEW i \in Entries(mem_map), StopsAt(i), Fits(i), NEW g \in InPlay
  PROVE  g + PAGE_SIZE <= Candidate(i) \/ Candidate(i) + PAGE_SIZE <= g
  <1> USE SizesAssumption
  <1>1. PICK j \in Entries(mem_map) : BehindIn(g, j)
    BY DEF IInv, BehindCursor
  <1>2. /\ cur_entry <= i /\ j <= cur_entry
        /\ i \in Nat /\ j \in Nat /\ cur_entry \in Nat /\ g \in Nat /\ cur_addr \in Nat
    <2>1. cur_entry \in Nat /\ cur_addr \in Nat /\ mem_map.entry_count \in Nat
      BY MapFacts DEF IInv, TypeOK
    <2>2. g \in Nat
      BY DEF IInv, TypeOK, InPlay, Listed
    <2>3. i \in Nat /\ j \in Nat
      BY MapFacts DEF IInv
    <2> QED BY <1>1, <2>1, <2>2, <2>3 DEF StopsAt, BehindIn
  <1>3. /\ Candidate(i) \in Nat /\ mem_map.entries[i].base <= Candidate(i)
        /\ i = cur_entry => cur_addr <= Candidate(i)
    BY CandidateFacts DEF IInv
  <1>4. CASE j = i
    BY <1>1, <1>2, <1>3, <1>4 DEF BehindIn
  <1>5. CASE j # i
    <2>1. \/ End(mem_map, i) <= mem_map.entries[j].base
          \/ End(mem_map, j) <= mem_map.entries[i].base
      BY <1>5, MapFacts DEF IInv, Fits
    <2>2. /\ End(mem_map, i) \in Nat /\ End(mem_map, j) \in Nat
          /\ mem_map.entries[i].base \in Nat /\ mem_map.entries[j].base \in Nat
      BY MapFacts DEF IInv
    <2>3. /\ mem_map.entries[j].base <= g /\ g + PAGE_SIZE <= End(mem_map, j)
          /\ Candidate(i) + PAGE_SIZE <= End(mem_map, i)
      BY <1>1 DEF BehindIn, Fits
    <2> QED BY <1>2, <1>3, <2>1, <2>2, <2>3
  <1> QED BY <1>4, <1>5

\* A frame of next_from_map is new: it lies past the cursor, which moves behind it.
LEMMA FromMapIInv == IInv /\ AllocFromMap => IInv'
  <1> SUFFICES ASSUME IInv, AllocFromMap PROVE IInv'
    OBVIOUS
  <1> USE SizesAssumption
  <1>1. PICK i \in Entries(mem_map) : StopsAt(i) /\ NextFromMap(i)
    BY DEF AllocFromMap
  <1> DEFINE a == Candidate(i)
  <1>2. Fits(i)
    BY <1>1 DEF NextFromMap
  <1>3. /\ cur_entry' = i /\ cur_addr' = a + PAGE_SIZE /\ held' = held \cup {a}
        /\ mem_map' = mem_map /\ free_list' = free_list /\ free_count' = free_count
        /\ lost' = lost /\ free_count = 0
    BY <1>1 DEF AllocFromMap, NextFromMap
  <1>4. /\ a \in Nat /\ a % PAGE_SIZE = 0 /\ mem_map.entries[i].base <= a
        /\ i = cur_entry => cur_addr <= a
    BY CandidateFacts DEF IInv
  <1>5. a + PAGE_SIZE <= U64_MAX /\ a + PAGE_SIZE <= End(mem_map, i)
    <2>1. UsableEntry(mem_map, i) /\ ~Overflows(i) /\ a + PAGE_SIZE <= End(mem_map, i)
      BY <1>2 DEF Fits
    <2>2. ~(a + PAGE_SIZE > U64_MAX)
      BY <2>1 DEF Overflows
    <2> QED BY <1>4, <2>1, <2>2
  <1>6. i \in Nat /\ mem_map.entry_count \in Nat /\ i < mem_map.entry_count
    BY MapFacts DEF IInv, Entries
  <1>7. /\ Listed = {} /\ Listed' = {} /\ InPlay' = InPlay \cup {a}
    BY <1>3 DEF Listed, InPlay
  <1>8. \A g \in InPlay : g \in Nat /\ (g + PAGE_SIZE <= a \/ a + PAGE_SIZE <= g)
    <2>1. \A g \in InPlay : g \in Nat
      BY DEF IInv, TypeOK, InPlay, Listed
    <2> QED BY <1>1, <1>2, <2>1, NewFrameIsClear
  <1>9. a \notin InPlay
    BY <1>4, <1>8
  <1> HIDE DEF a
  <1>10. TypeOK'
    BY <1>3, <1>4, <1>5, <1>6 DEF IInv, TypeOK
  <1>11. FramesApart'
    <2>1. (held \cap Listed = {} /\ held \cap lost = {} /\ Listed \cap lost = {})'
      BY <1>3, <1>7, <1>9 DEF IInv, FramesApart, InPlay
    <2>2. (\A k, l \in 0 .. (free_count - 1) : free_list[k] = free_list[l] => k = l)'
      BY <1>3
    <2>3. (\A f, g \in InPlay : f # g => f + PAGE_SIZE <= g \/ g + PAGE_SIZE <= f)'
      BY <1>7, <1>8 DEF IInv, FramesApart
    <2> QED BY <2>1, <2>2, <2>3 DEF FramesApart
  <1>12. BehindCursor'
    <2> SUFFICES ASSUME NEW f \in InPlay'
                 PROVE  (f % PAGE_SIZE = 0 /\ \E j \in Entries(mem_map) : BehindIn(f, j))'
      BY DEF BehindCursor
    <2>1. CASE f = a
      <3>1. BehindIn(f, i)'
        BY <1>2, <1>3, <1>4, <1>5, <1>6, <2>1 DEF BehindIn, UsableEntry, Fits, End, Entries
      <3> QED BY <1>3, <1>4, <2>1, <3>1
    <2>2. CASE f \in InPlay
      <3>1. PICK j \in Entries(mem_map) : BehindIn(f, j)
        BY <2>2 DEF IInv, BehindCursor
      <3>2. j \in Nat /\ cur_entry \in Nat /\ cur_addr \in Nat /\ cur_entry <= i
        BY <1>1, MapFacts DEF IInv, TypeOK, StopsAt
      <3>3. f \in Nat
        BY <1>8, <2>2
      <3>4. BehindIn(f, j)'
        BY <1>3, <1>4, <1>6, <3>1, <3>2, <3>3 DEF BehindIn, UsableEntry, End, Entries
      <3> QED BY <1>3, <2>2, <3>1, <3>4 DEF IInv, BehindCursor
    <2> QED BY <1>7, <2>1, <2>2
  <1>13. cur_addr' % PAGE_SIZE = 0
    BY <1>3, <1>4, AddPageAligned
  <1> QED BY <1>10, <1>11, <1>12, <1>13 DEF IInv

\* Popping the free list moves a frame to the client and nothing else.
LEMMA ListPlays ==
  ASSUME IInv, AllocFromList
  PROVE  LET f == free_list[free_count - 1]
         IN  /\ f \in Listed /\ held' = held \cup {f} /\ Listed' = Listed \ {f}
             /\ InPlay' = InPlay
  <1> DEFINE f == free_list[free_count - 1]
  <1>1. /\ free_count \in 1 .. MAX_FREE_FRAMES /\ free_count' = free_count - 1
        /\ held' = held \cup {f} /\ free_list' = free_list /\ lost' = lost
    BY SizesAssumption DEF AllocFromList, IInv, TypeOK
  <1>2. f \in Listed
    BY <1>1, SizesAssumption DEF Listed
  <1>3. Listed' = Listed \ {f}
    <2>1. \A k \in 0 .. (free_count - 2) : free_list[k] # f
      BY <1>1, SizesAssumption DEF IInv, FramesApart
    <2>2. Listed' = {free_list[k] : k \in 0 .. (free_count - 2)}
      BY <1>1, SizesAssumption DEF Listed
    <2>3. 0 .. (free_count - 1) = (0 .. (free_count - 2)) \cup {free_count - 1}
      BY <1>1, SizesAssumption
    <2> QED BY <2>1, <2>2, <2>3, Zenon DEF Listed
  <1>4. InPlay' = InPlay
    BY <1>1, <1>2, <1>3 DEF InPlay
  <1> QED BY <1>1, <1>2, <1>3, <1>4

\* A frame pushed on the free list joins the listed ones.
LEMMA ListGrows ==
  ASSUME TypeOK, NEW f, free_count < MAX_FREE_FRAMES, free_count' = free_count + 1,
         free_list' = [free_list EXCEPT ![free_count] = f]
  PROVE  /\ \A k \in 0 .. (free_count - 1) : free_list'[k] = free_list[k]
         /\ free_list'[free_count] = f
         /\ 0 .. (free_count' - 1) = (0 .. (free_count - 1)) \cup {free_count}
         /\ Listed' = Listed \cup {f}
  <1> USE SizesAssumption
  <1>1. free_count \in 0 .. (MAX_FREE_FRAMES - 1)
    BY DEF TypeOK
  <1>2. /\ \A k \in 0 .. (free_count - 1) : free_list'[k] = free_list[k]
        /\ free_list'[free_count] = f
    BY <1>1 DEF TypeOK
  <1>3. 0 .. (free_count' - 1) = (0 .. (free_count - 1)) \cup {free_count}
    BY <1>1
  <1>4. Listed' = {free_list'[k] : k \in (0 .. (free_count - 1)) \cup {free_count}}
    BY <1>3 DEF Listed
  <1>5. @ = {free_list'[k] : k \in 0 .. (free_count - 1)} \cup {free_list'[free_count]}
    OBVIOUS
  <1>6. {free_list'[k] : k \in 0 .. (free_count - 1)} = Listed
    BY <1>2 DEF Listed
  <1> QED BY <1>2, <1>3, <1>4, <1>5, <1>6

\* A frame given back is listed or lost, and nothing else moves.
LEMMA FreePlays ==
  ASSUME IInv, NEW f \in held, free_frame_4k(f)
  PROVE  /\ InPlay' = InPlay /\ held' = held \ {f}
         /\ Listed' = Listed \cup {f} \/ Listed' = Listed
  <1> USE SizesAssumption
  <1>1. held' = held \ {f} /\ free_count \in 0 .. MAX_FREE_FRAMES
    BY DEF free_frame_4k, IInv, TypeOK
  <1>2. CASE free_count < MAX_FREE_FRAMES
    <2>1. /\ free_list' = [free_list EXCEPT ![free_count] = f]
          /\ free_count' = free_count + 1 /\ lost' = lost
      BY <1>2 DEF free_frame_4k
    <2>2. Listed' = Listed \cup {f}
      BY <1>2, <2>1, ListGrows, Zenon DEF IInv
    <2> QED BY <1>1, <2>1, <2>2 DEF InPlay
  <1>3. CASE ~(free_count < MAX_FREE_FRAMES)
    <2>1. free_list' = free_list /\ free_count' = free_count /\ lost' = lost \cup {f}
      BY <1>3 DEF free_frame_4k
    <2>2. Listed' = Listed
      BY <2>1 DEF Listed
    <2> QED BY <1>1, <2>1, <2>2 DEF InPlay
  <1> QED BY <1>2, <1>3

\* A frame popped from the free list was in nobody's hands.
LEMMA FromListIInv == IInv /\ AllocFromList => IInv'
  <1> SUFFICES ASSUME IInv, AllocFromList PROVE IInv'
    OBVIOUS
  <1> USE SizesAssumption
  <1> DEFINE f == free_list[free_count - 1]
  <1>1. /\ free_count \in 1 .. MAX_FREE_FRAMES /\ free_count' = free_count - 1
        /\ held' = held \cup {f} /\ free_list' = free_list /\ lost' = lost
        /\ mem_map' = mem_map /\ cur_entry' = cur_entry /\ cur_addr' = cur_addr
    BY DEF AllocFromList, IInv, TypeOK
  <1>2. f \in Listed /\ f \in 0 .. U64_MAX
    BY <1>1 DEF Listed, IInv, TypeOK
  <1>3. Listed' = Listed \ {f} /\ InPlay' = InPlay
    BY ListPlays
  <1> HIDE DEF f
  <1>4. TypeOK'
    <2>1. free_count' \in 0 .. MAX_FREE_FRAMES
      BY <1>1
    <2>2. held' \subseteq 0 .. U64_MAX
      BY <1>1, <1>2 DEF IInv, TypeOK
    <2> QED BY <1>1, <2>1, <2>2 DEF IInv, TypeOK
  <1>5. FramesApart'
    <2>1. (held \cap Listed = {} /\ held \cap lost = {} /\ Listed \cap lost = {})'
      BY <1>1, <1>2, <1>3 DEF IInv, FramesApart
    <2>2. (\A k, l \in 0 .. (free_count - 1) : free_list[k] = free_list[l] => k = l)'
      BY <1>1 DEF IInv, FramesApart
    <2> QED BY <1>3, <2>1, <2>2 DEF IInv, FramesApart
  <1>6. BehindCursor'
    BY <1>1, <1>3, CursorAdvances DEF IInv, TypeOK
  <1> QED BY <1>1, <1>4, <1>5, <1>6 DEF IInv

\* free_frame_4k moves a frame from its holder to the free list, or drops it.
LEMMA FreeIInv == ASSUME NEW f \in held PROVE IInv /\ free_frame_4k(f) => IInv'
  <1> SUFFICES ASSUME IInv, free_frame_4k(f) PROVE IInv'
    OBVIOUS
  <1> USE SizesAssumption
  <1>1. /\ held' = held \ {f} /\ f \in 0 .. U64_MAX
        /\ mem_map' = mem_map /\ cur_entry' = cur_entry /\ cur_addr' = cur_addr
        /\ free_count \in 0 .. MAX_FREE_FRAMES
    BY DEF free_frame_4k, IInv, TypeOK
  <1>2. f \notin Listed /\ f \notin lost
    BY DEF IInv, FramesApart
  <1>3. /\ (held \cap Listed = {} /\ held \cap lost = {} /\ Listed \cap lost = {})'
        /\ (\A k, l \in 0 .. (free_count - 1) : free_list[k] = free_list[l] => k = l)'
        /\ InPlay' = InPlay
        /\ TypeOK'
    <2>1. CASE free_count < MAX_FREE_FRAMES
      <3>1. /\ free_list' = [free_list EXCEPT ![free_count] = f]
            /\ free_count' = free_count + 1 /\ lost' = lost
        BY <2>1 DEF free_frame_4k
      <3>2. /\ \A k \in 0 .. (free_count - 1) : free_list'[k] = free_list[k]
            /\ free_list'[free_count] = f
            /\ 0 .. (free_count' - 1) = (0 .. (free_count - 1)) \cup {free_count}
            /\ Listed' = Listed \cup {f}
        BY <2>1, <3>1, ListGrows, Zenon DEF IInv
      <3>3. \A k \in 0 .. (free_count - 1) : free_list[k] # f
        BY <1>2 DEF Listed
      <3>4. (\A k, l \in 0 .. (free_count - 1) : free_list[k] = free_list[l] => k = l)'
        BY <3>2, <3>3 DEF IInv, FramesApart
      <3>5. (held \cap Listed = {} /\ held \cap lost = {} /\ Listed \cap lost = {})'
        BY <1>1, <1>2, <3>1, <3>2 DEF IInv, FramesApart
      <3>6. InPlay' = InPlay
        BY <1>1, <3>1, <3>2 DEF InPlay
      <3>7. TypeOK'
        BY <1>1, <2>1, <3>1 DEF IInv, TypeOK
      <3> QED BY <3>4, <3>5, <3>6, <3>7
    <2>2. CASE ~(free_count < MAX_FREE_FRAMES)
      <3>1. free_list' = free_list /\ free_count' = free_count /\ lost' = lost \cup {f}
        BY <2>2 DEF free_frame_4k
      <3>2. Listed' = Listed
        BY <3>1 DEF Listed
      <3>3. (held \cap Listed = {} /\ held \cap lost = {} /\ Listed \cap lost = {})'
        BY <1>1, <1>2, <3>1, <3>2 DEF IInv, FramesApart
      <3>4. InPlay' = InPlay
        BY <1>1, <3>1, <3>2 DEF InPlay
      <3>5. TypeOK'
        BY <1>1, <3>1 DEF IInv, TypeOK
      <3> QED BY <3>1, <3>3, <3>4, <3>5 DEF IInv, FramesApart
    <2> QED BY <2>1, <2>2
  <1>4. FramesApart'
    BY <1>3 DEF IInv, FramesApart
  <1>5. BehindCursor'
    BY <1>1, <1>3, CursorAdvances DEF IInv, TypeOK
  <1> QED BY <1>1, <1>3, <1>4, <1>5 DEF IInv

\* The two ways in which alloc_frame_4k answers None move only the cursor.
LEMMA FailIInv == IInv /\ (AllocOverflow \/ AllocExhausted) => IInv'
  <1> SUFFICES ASSUME IInv, AllocOverflow \/ AllocExhausted PROVE IInv'
    OBVIOUS
  <1> USE SizesAssumption
  <1>1. /\ mem_map' = mem_map /\ free_list' = free_list /\ free_count' = free_count
        /\ held' = held /\ lost' = lost
    BY DEF AllocOverflow, AllocExhausted
  <1>2. cur_entry \in Nat /\ mem_map.entry_count \in Nat /\ cur_addr \in 0 .. U64_MAX
    BY MapFacts DEF IInv, TypeOK
  <1>3. /\ cur_entry' \in 0 .. mem_map.entry_count /\ cur_entry <= cur_entry'
        /\ cur_addr' \in {cur_addr, 0}
        /\ cur_entry' = cur_entry => cur_addr' = cur_addr
    <2>1. CASE AllocOverflow
      <3>1. PICK i \in Entries(mem_map) : StopsAt(i) /\ OverflowAt(i)
        BY <2>1 DEF AllocOverflow
      <3> QED BY <1>2, <3>1 DEF OverflowAt, StopsAt
    <2>2. CASE AllocExhausted
      BY <1>2, <2>2 DEF AllocExhausted
    <2> QED BY <2>1, <2>2
  <1>4. InPlay' = InPlay /\ Listed' = Listed
    BY <1>1 DEF InPlay, Listed
  <1>5. TypeOK'
    BY <1>1, <1>2, <1>3 DEF IInv, TypeOK
  <1>6. FramesApart'
    BY <1>1, <1>4 DEF IInv, FramesApart
  <1>7. BehindCursor'
    BY <1>1, <1>3, <1>4, CursorAdvances DEF IInv
  <1>8. cur_addr' % PAGE_SIZE = 0
    <2>1. 0 % PAGE_SIZE = 0
      BY MultipleMod
    <2> QED BY <1>3, <2>1 DEF IInv
  <1> QED BY <1>5, <1>6, <1>7, <1>8 DEF IInv

\* Every operation of the allocator keeps the invariant.
LEMMA NextIInv == IInv /\ [Next]_vars => IInv'
  <1> SUFFICES ASSUME IInv, [Next]_vars PROVE IInv'
    OBVIOUS
  <1>1. CASE AllocFromList
    BY <1>1, FromListIInv
  <1>2. CASE AllocFromMap
    BY <1>2, FromMapIInv
  <1>3. CASE AllocOverflow \/ AllocExhausted
    BY <1>3, FailIInv
  <1>4. CASE \E f \in held : free_frame_4k(f)
    BY <1>4, FreeIInv
  <1>5. CASE UNCHANGED vars
    BY <1>5 DEF vars, IInv, TypeOK, FramesApart, BehindCursor, BehindIn,
                InPlay, Listed, UsableEntry, Entries, End
  <1> QED BY <1>1, <1>2, <1>3, <1>4, <1>5 DEF Next

\* The inductive invariant holds in every reachable state.
LEMMA Invariance == Spec => []IInv
  <1> QED BY InitIInv, NextIInv, PTL DEF Spec

\* The free list is never indexed out of bounds and addresses stay u64s.
THEOREM TypeCorrect == Spec => []TypeOK
  <1>1. IInv => TypeOK
    BY DEF IInv
  <1> QED BY <1>1, Invariance, PTL

\* alloc_frame_4k never hands out memory that is in use: for every page size,
\* free-list capacity and well-formed memory map, frames held by clients, waiting
\* in the free list or dropped never overlap, nor does the next frame of the map.
THEOREM FramesNeverShared == Spec => []NoDoubleAllocation
  <1>1. IInv => NoDoubleAllocation
    BY NewFrameIsClear DEF IInv, NoDoubleAllocation
  <1> QED BY <1>1, Invariance, PTL

\* next_from_map yields only whole aligned pages of usable entries.
THEOREM FramesComeFromUsableMemory == Spec => []FramesUsable
  <1>1. IInv => FramesUsable
    BY DEF IInv, BehindCursor, BehindIn, FramesUsable
  <1> QED BY <1>1, Invariance, PTL

\* The addition in align_up (vm.rs:179) never overflows a u64.
THEOREM AlignUpNeverOverflows == Spec => []AlignUpFits
  <1>1. IInv => AlignUpFits
    <2> SUFFICES ASSUME IInv, NEW i \in cur_entry .. (mem_map.entry_count - 1),
                        UsableEntry(mem_map, i)
                 PROVE  ScanFrom(i) + PAGE_SIZE - 1 <= U64_MAX
      BY DEF AlignUpFits
    <2>1. i \in Entries(mem_map)
      BY DEF UsableEntry
    <2>2. mem_map.entries[i].base \in Nat /\ mem_map.entries[i].base + PAGE_SIZE - 1 <= U64_MAX
      BY <2>1, MapFacts DEF IInv
    <2>3. cur_addr \in Nat /\ cur_addr + PAGE_SIZE <= U64_MAX + 1
      <3>1. cur_addr \in 0 .. U64_MAX /\ cur_addr % PAGE_SIZE = 0 /\ U64_MAX \in Nat
        BY SizesAssumption DEF IInv, TypeOK
      <3>2. U64_MAX + 1 \in Nat /\ cur_addr < U64_MAX + 1 /\ cur_addr \in Nat
        BY <3>1
      <3> QED BY <3>1, <3>2, NextMultiple, SizesAssumption, Zenon
    <2> QED BY <2>2, <2>3, SizesAssumption DEF ScanFrom
  <1> QED BY <1>1, Invariance, PTL


-----------------------------------------------------------------------------
\* No number is lost by rounding down, and less than a page is cut off.
LEMMA DownBounds ==
  ASSUME NEW v \in Nat
  PROVE  /\ (v \div PAGE_SIZE) * PAGE_SIZE \in Nat
         /\ (v \div PAGE_SIZE) * PAGE_SIZE <= v
         /\ v < (v \div PAGE_SIZE) * PAGE_SIZE + PAGE_SIZE
         /\ ((v \div PAGE_SIZE) * PAGE_SIZE) % PAGE_SIZE = 0
  <1> DEFINE q == v \div PAGE_SIZE
  <1>1. PAGE_SIZE \in Nat \ {0}
    BY SizesAssumption
  <1>2. q \in Nat /\ v % PAGE_SIZE \in 0 .. (PAGE_SIZE - 1) /\ v = PAGE_SIZE * q + (v % PAGE_SIZE)
    BY <1>1, DivMod, Zenon
  <1> HIDE DEF q
  <1>3. PAGE_SIZE * q = q * PAGE_SIZE /\ q * PAGE_SIZE \in Nat
    BY <1>1, <1>2
  <1>4. (PAGE_SIZE * q) % PAGE_SIZE = 0
    BY <1>1, <1>2, MultipleMod
  <1>5. /\ q * PAGE_SIZE \in Nat /\ q * PAGE_SIZE <= v /\ v < q * PAGE_SIZE + PAGE_SIZE
        /\ (q * PAGE_SIZE) % PAGE_SIZE = 0
    BY <1>1, <1>2, <1>3, <1>4
  <1> QED BY <1>5 DEF q

\* align_up yields the least multiple of the page size that is not below its argument.
LEMMA AlignUpLeast ==
  ASSUME NEW v \in Nat, NEW b \in Nat, b % PAGE_SIZE = 0, v <= b
  PROVE  align_up(v) <= b
  <1>1. align_up(v) \in Nat /\ align_up(v) <= v + PAGE_SIZE - 1 /\ align_up(v) % PAGE_SIZE = 0
    BY AlignUpBounds
  <1>2. CASE b < align_up(v)
    <2>1. b + PAGE_SIZE <= align_up(v)
      BY <1>1, <1>2, NextMultiple
    <2> QED BY <1>1, <2>1, SizesAssumption
  <1> QED BY <1>1, <1>2

\* A set of numbers has a least one.
LEMMA LeastExists ==
  ASSUME NEW T, T \subseteq Nat, T # {} PROVE \E x \in T : \A y \in T : x <= y
  <1> DEFINE R == OpToRel(<, Nat)
  <1>1. IsWellFoundedOn(R, Nat)
    BY NatLessThanWellFounded
  <1>2. \A x, y \in Nat : <<y, x>> \in R <=> y < x
    BY DEF OpToRel
  <1> HIDE DEF R
  <1>3. PICK x \in T : \A y \in T : ~ (<<y, x>> \in R)
    BY <1>1, WFMin, Zenon
  <1>4. \A y \in T : ~(y < x)
    BY <1>2, <1>3, Zenon
  <1> QED BY <1>4

\* The scan of next_from_map stops at the first entry that fits or overflows, so when it
\* stops nowhere no entry does.
LEMMA ScanEnds ==
  ASSUME TypeOK, ~\E i \in Entries(mem_map) : StopsAt(i)
  PROVE  \A k \in cur_entry .. (mem_map.entry_count - 1) : ~Fits(k) /\ ~Overflows(k)
  <1> DEFINE T == {k \in cur_entry .. (mem_map.entry_count - 1) : Fits(k) \/ Overflows(k)}
  <1>1. cur_entry \in Nat /\ mem_map.entry_count \in Nat
    BY MapFacts DEF TypeOK
  <1>2. SUFFICES ASSUME T # {} PROVE FALSE
    OBVIOUS
  <1>3. T \subseteq Nat
    BY <1>1
  <1>4. PICK i \in T : \A k \in T : i <= k
    BY <1>2, <1>3, LeastExists, Zenon
  <1>5. \A j \in cur_entry .. (i - 1) : j \notin T /\ j \in cur_entry .. (mem_map.entry_count - 1)
    BY <1>1, <1>3, <1>4
  <1>6. StopsAt(i) /\ i \in Entries(mem_map)
    BY <1>1, <1>4, <1>5 DEF StopsAt, Entries
  <1> QED BY <1>6


-----------------------------------------------------------------------------
\* The pages of entry i that the cursor has not gone past.
AheadIn(i) == {a \in PagesOf(i) : i = cur_entry => cur_addr <= a}

\* The scan of entry j cannot end in an overflow, wherever in the entry it begins.
LeavesRoom(j) ==
  /\ align_up(mem_map.entries[j].base) + PAGE_SIZE <= U64_MAX
  /\ (End(mem_map, j) \div PAGE_SIZE) * PAGE_SIZE + PAGE_SIZE <= U64_MAX

\* The cursor went past no entry that overflows, and stands inside its entry.
Passed ==
  /\ \A j \in 0 .. (cur_entry - 1) : UsableEntry(mem_map, j) => LeavesRoom(j)
  /\ cur_addr # 0 => UsableEntry(mem_map, cur_entry) /\ cur_addr <= End(mem_map, cur_entry)

\* No page is forgotten: each is in play or still ahead of the cursor.
Accounted ==
  \A i \in Entries(mem_map) : Served(i) => PagesOf(i) \subseteq InPlay \cup Ahead

\* The entries whose pages are ahead.
LEMMA AheadMember ==
  ASSUME NEW a
  PROVE  a \in Ahead <=> \E i \in cur_entry .. (mem_map.entry_count - 1) :
                           Served(i) /\ a \in AheadIn(i)
  BY Zenon DEF Ahead, AheadIn

\* A page ahead is a page of its entry, and the scan of the entry begins no later.
LEMMA PageAhead ==
  ASSUME TypeOK, NEW i \in Entries(mem_map), NEW a \in AheadIn(i)
  PROVE  /\ a \in 0 .. U64_MAX
         /\ a % PAGE_SIZE = 0
         /\ mem_map.entries[i].base <= a
         /\ a + PAGE_SIZE <= End(mem_map, i)
         /\ i = cur_entry => cur_addr <= a
         /\ Candidate(i) <= a
  <1>1. mem_map.entries[i].base \in Nat /\ cur_addr \in Nat /\ U64_MAX \in Nat
    BY MapFacts, SizesAssumption DEF TypeOK
  <1>2. /\ a \in mem_map.entries[i].base .. U64_MAX /\ a % PAGE_SIZE = 0
        /\ a + PAGE_SIZE <= End(mem_map, i)
        /\ i = cur_entry => cur_addr <= a
    BY DEF AheadIn, PagesOf
  <1>3. a \in 0 .. U64_MAX /\ mem_map.entries[i].base <= a /\ a \in Nat
    BY <1>1, <1>2
  <1>4. ScanFrom(i) \in Nat /\ ScanFrom(i) <= a
    BY <1>1, <1>2, <1>3 DEF ScanFrom
  <1>5. Candidate(i) <= a
    BY <1>2, <1>3, <1>4, AlignUpLeast DEF Candidate
  <1> QED BY <1>2, <1>3, <1>5

\* An entry that yields no frame and does not overflow has no page left ahead.
LEMMA NoneAhead ==
  ASSUME TypeOK, NEW i \in Entries(mem_map), ~Fits(i), ~Overflows(i), UsableEntry(mem_map, i)
  PROVE  AheadIn(i) = {} /\ LeavesRoom(i)
  <1>1. /\ Candidate(i) \in Nat /\ End(mem_map, i) \in Nat /\ Candidate(i) % PAGE_SIZE = 0
        /\ mem_map.entries[i].base <= Candidate(i) /\ mem_map.entries[i].base \in Nat
    BY MapFacts, CandidateFacts
  <1>2. /\ ~(Candidate(i) + PAGE_SIZE > U64_MAX)
        /\ ~(Candidate(i) + PAGE_SIZE <= End(mem_map, i))
    BY DEF Fits, Overflows
  <1>3. ASSUME NEW a \in AheadIn(i) PROVE FALSE
    <2>1. a \in Nat /\ Candidate(i) <= a /\ a + PAGE_SIZE <= End(mem_map, i)
      BY PageAhead, SizesAssumption
    <2> QED BY <1>1, <1>2, <2>1, SizesAssumption
  <1>4. LeavesRoom(i)
    <2> DEFINE e == (End(mem_map, i) \div PAGE_SIZE) * PAGE_SIZE
               u == align_up(mem_map.entries[i].base)
    <2>1. e \in Nat /\ e <= End(mem_map, i) /\ e % PAGE_SIZE = 0
      BY <1>1, DownBounds
    <2>2. u \in Nat /\ u <= Candidate(i)
      BY <1>1, AlignUpBounds, AlignUpLeast
    <2> HIDE DEF e, u
    <2>3. e <= Candidate(i)
      <3>1. SUFFICES ASSUME Candidate(i) < e PROVE FALSE
        BY <1>1, <2>1
      <3>2. Candidate(i) + PAGE_SIZE <= e
        BY <1>1, <2>1, <3>1, NextMultiple
      <3> QED BY <1>1, <1>2, <2>1, <3>2, SizesAssumption
    <2>4. e + PAGE_SIZE <= U64_MAX /\ u + PAGE_SIZE <= U64_MAX
      BY <1>1, <1>2, <2>1, <2>2, <2>3, SizesAssumption
    <2> QED BY <2>4 DEF LeavesRoom, e, u
  <1> QED BY <1>3, <1>4

\* A frame in play is not ahead.
LEMMA PlayedNotAhead ==
  ASSUME IInv, NEW g \in InPlay, NEW i \in cur_entry .. (mem_map.entry_count - 1),
         UsableEntry(mem_map, i), NEW a \in AheadIn(i)
  PROVE  g # a
  <1> USE SizesAssumption
  <1>1. PICK j \in Entries(mem_map) : BehindIn(g, j)
    BY DEF IInv, BehindCursor
  <1>2. i \in Entries(mem_map) /\ TypeOK
    BY DEF UsableEntry, IInv
  <1>3. /\ a \in Nat /\ mem_map.entries[i].base <= a /\ a + PAGE_SIZE <= End(mem_map, i)
        /\ i = cur_entry => cur_addr <= a
    BY <1>2, PageAhead
  <1>4. /\ End(mem_map, i) \in Nat /\ End(mem_map, j) \in Nat /\ i \in Nat /\ j \in Nat
        /\ mem_map.entries[i].base \in Nat /\ mem_map.entries[j].base \in Nat
        /\ cur_entry \in Nat /\ cur_addr \in Nat
    <2>1. cur_entry \in Nat /\ cur_addr \in Nat
      BY <1>2, MapFacts DEF TypeOK
    <2> QED BY <1>2, <2>1, MapFacts, Zenon
  <1>5. CASE j = i
    BY <1>1, <1>3, <1>4, <1>5 DEF BehindIn
  <1>6. CASE j # i
    <2>1. \/ End(mem_map, i) <= mem_map.entries[j].base
          \/ End(mem_map, j) <= mem_map.entries[i].base
      BY <1>2, <1>6, MapFacts, Zenon
    <2> QED BY <1>1, <1>3, <1>4, <2>1 DEF BehindIn
  <1> QED BY <1>5, <1>6


-----------------------------------------------------------------------------
\* What depends on the memory map alone does not change with the cursor.
LEMMA SameMap ==
  ASSUME mem_map' = mem_map, NEW i
  PROVE  /\ UsableEntry(mem_map, i)' = UsableEntry(mem_map, i)
         /\ LeavesRoom(i)' = LeavesRoom(i)
         /\ Served(i)' = Served(i)
         /\ PagesOf(i)' = PagesOf(i)
         /\ Entries(mem_map)' = Entries(mem_map)
         /\ End(mem_map, i)' = End(mem_map, i)
  BY DEF UsableEntry, LeavesRoom, Served, PagesOf, Entries, End, align_up

\* An interval of numbers is cut in two.
LEMMA SplitRange ==
  ASSUME NEW a \in Nat, NEW b \in Nat, NEW n \in Nat
  PROVE  /\ \A j \in 0 .. (b - 1) : j \in 0 .. (a - 1) \/ j \in a .. (b - 1)
         /\ \A j \in a .. (n - 1) : j \in a .. (b - 1) \/ j \in b .. (n - 1)
  OBVIOUS

\* Every entry the cursor goes past leaves room.
LEMMA PassedKept ==
  ASSUME TypeOK, Passed, mem_map' = mem_map,
         cur_entry' \in cur_entry .. mem_map.entry_count,
         \A k \in cur_entry .. (cur_entry' - 1) : ~Fits(k) /\ ~Overflows(k)
  PROVE  \A j \in 0 .. (cur_entry' - 1) : UsableEntry(mem_map, j)' => LeavesRoom(j)'
  <1> SUFFICES ASSUME NEW j \in 0 .. (cur_entry' - 1), UsableEntry(mem_map, j)
               PROVE  LeavesRoom(j)
    BY SameMap, Zenon
  <1>1. cur_entry \in Nat /\ cur_entry' \in Nat /\ mem_map.entry_count \in Nat
    BY MapFacts DEF TypeOK
  <1>2. CASE j \in 0 .. (cur_entry - 1)
    BY <1>2 DEF Passed
  <1>3. CASE j \in cur_entry .. (cur_entry' - 1)
    <2>1. j \in Entries(mem_map) /\ ~Fits(j) /\ ~Overflows(j)
      BY <1>3 DEF UsableEntry
    <2> QED BY <2>1, NoneAhead
  <1>4. j \in 0 .. (cur_entry - 1) \/ j \in cur_entry .. (cur_entry' - 1)
    BY <1>1, SplitRange, Zenon
  <1> QED BY <1>2, <1>3, <1>4, Zenon

\* An entry that the scan goes past has no page ahead.
LEMMA SkippedEmpty ==
  ASSUME TypeOK, NEW i \in cur_entry .. (mem_map.entry_count - 1), Served(i),
         ~Fits(i), ~Overflows(i)
  PROVE  AheadIn(i) = {}
  <1>1. UsableEntry(mem_map, i) /\ i \in Entries(mem_map)
    BY DEF Served, UsableEntry
  <1> QED BY <1>1, NoneAhead

\* A scan that yields no frame leaves the pages ahead as they are.
LEMMA AheadKept ==
  ASSUME TypeOK, mem_map' = mem_map,
         cur_entry' \in cur_entry .. mem_map.entry_count,
         cur_addr' = IF cur_entry' = cur_entry THEN cur_addr ELSE 0,
         \A k \in cur_entry .. (cur_entry' - 1) : ~Fits(k) /\ ~Overflows(k)
  PROVE  Ahead' = Ahead
  <1>1. cur_entry \in Nat /\ cur_entry' \in Nat /\ mem_map.entry_count \in Nat
    BY MapFacts DEF TypeOK
  <1>2. \A a : a \in Ahead' <=> \E i \in cur_entry' .. (mem_map.entry_count - 1) :
                                  Served(i) /\ a \in AheadIn(i)'
    <2>1. \A a : a \in Ahead' <=> \E i \in cur_entry' .. (mem_map'.entry_count - 1) :
                                    Served(i)' /\ a \in AheadIn(i)'
      BY Zenon DEF Ahead, AheadIn
    <2> QED BY <2>1, SameMap
  <1>3. ASSUME NEW i \in cur_entry' .. (mem_map.entry_count - 1), Served(i)
        PROVE  AheadIn(i)' = AheadIn(i)
    <2>1. i \in Entries(mem_map) /\ TypeOK
      BY <1>3 DEF Served, UsableEntry
    <2>2. \A a \in PagesOf(i) : 0 <= a
      BY <2>1, MapFacts DEF PagesOf
    <2>3. CASE cur_entry' = cur_entry
      BY <2>3, SameMap DEF AheadIn
    <2>4. CASE cur_entry' # cur_entry
      <3>1. i # cur_entry /\ cur_addr' = 0
        BY <1>1, <2>4
      <3> QED BY <2>2, <3>1, SameMap DEF AheadIn
    <2> QED BY <2>3, <2>4
  <1>4. ASSUME NEW i \in cur_entry .. (mem_map.entry_count - 1), Served(i), AheadIn(i) # {}
        PROVE  i \in cur_entry' .. (mem_map.entry_count - 1)
    <2>1. ~(i \in cur_entry .. (cur_entry' - 1))
      BY <1>4, SkippedEmpty, Zenon
    <2> QED BY <1>1, <2>1, SplitRange, Zenon
  <1>5. cur_entry' .. (mem_map.entry_count - 1) \subseteq cur_entry .. (mem_map.entry_count - 1)
    BY <1>1
  <1>6. \A a : a \in Ahead' <=> a \in Ahead
    BY <1>2, <1>3, <1>4, <1>5, AheadMember
  <1> QED BY <1>6, Zenon


\* The entry a scan yields a frame of is served.
LEMMA StopServed ==
  ASSUME TypeOK, Passed, NEW i \in Entries(mem_map), StopsAt(i), Fits(i) PROVE Served(i)
  <1>1. cur_entry \in Nat /\ mem_map.entry_count \in Nat /\ i \in Nat
    BY MapFacts DEF TypeOK
  <1>2. End(mem_map, i) <= U64_MAX /\ UsableEntry(mem_map, i)
    <2>1. ~(End(mem_map, i) > U64_MAX) /\ UsableEntry(mem_map, i)
      BY DEF Fits, Overflows
    <2> QED BY <2>1, MapFacts, SizesAssumption
  <1>3. ASSUME NEW j \in 0 .. (i - 1), UsableEntry(mem_map, j) PROVE LeavesRoom(j)
    <2>1. CASE j \in 0 .. (cur_entry - 1)
      BY <1>3, <2>1 DEF Passed
    <2>2. CASE j \in cur_entry .. (i - 1)
      <3>1. j \in Entries(mem_map) /\ ~Fits(j) /\ ~Overflows(j)
        BY <1>3, <2>2 DEF UsableEntry, StopsAt
      <3> QED BY <1>3, <3>1, NoneAhead
    <2>3. j \in 0 .. (cur_entry - 1) \/ j \in cur_entry .. (i - 1)
      BY <1>1, SplitRange, Zenon
    <2> QED BY <2>1, <2>2, <2>3, Zenon
  <1> QED BY <1>2, <1>3 DEF Served, LeavesRoom

\* next_from_map takes exactly the frame it returns from the pages ahead.
LEMMA TakenAhead ==
  ASSUME TypeOK, Passed, NEW i \in Entries(mem_map), StopsAt(i), NextFromMap(i),
         mem_map' = mem_map
  PROVE  Candidate(i) \in Ahead /\ Ahead' = Ahead \ {Candidate(i)}
  <1> USE SizesAssumption
  <1> DEFINE c == Candidate(i)
             n == mem_map.entry_count
  <1>1. /\ cur_entry \in Nat /\ n \in Nat /\ i \in Nat /\ i \in cur_entry .. (n - 1)
        /\ cur_addr \in Nat
    BY MapFacts DEF TypeOK, StopsAt
  <1>2. Fits(i) /\ cur_entry' = i /\ cur_addr' = c + PAGE_SIZE
    BY DEF NextFromMap
  <1>3. /\ c \in Nat /\ c % PAGE_SIZE = 0 /\ mem_map.entries[i].base <= c
        /\ i = cur_entry => cur_addr <= c
    BY CandidateFacts
  <1>4. c + PAGE_SIZE <= U64_MAX /\ c + PAGE_SIZE <= End(mem_map, i) /\ UsableEntry(mem_map, i)
    <2>1. ~(c + PAGE_SIZE > U64_MAX) /\ c + PAGE_SIZE <= End(mem_map, i) /\ UsableEntry(mem_map, i)
      BY <1>2 DEF Fits, Overflows
    <2> QED BY <1>3, <2>1
  <1> HIDE DEF c, n
  <1>5. Served(i)
    BY <1>2, StopServed
  <1>6. c \in AheadIn(i)
    <2>1. mem_map.entries[i].base \in Nat
      BY MapFacts
    <2>2. c \in mem_map.entries[i].base .. U64_MAX
      BY <1>3, <1>4, <2>1
    <2> QED BY <1>3, <1>4, <2>2 DEF AheadIn, PagesOf
  <1>7. c \in Ahead
    BY <1>1, <1>5, <1>6, AheadMember DEF n
  <1>8. \A a : a \in Ahead' <=> \E k \in i .. (n - 1) : Served(k) /\ a \in AheadIn(k)'
    <2>1. \A a : a \in Ahead' <=> \E k \in cur_entry' .. (mem_map'.entry_count - 1) :
                                    Served(k)' /\ a \in AheadIn(k)'
      BY Zenon DEF Ahead, AheadIn
    <2> QED BY <1>2, <2>1, SameMap DEF n
  <1>9. AheadIn(i)' = AheadIn(i) \ {c}
    <2>1. ASSUME NEW a PROVE a \in AheadIn(i)' <=> a \in PagesOf(i) /\ c + PAGE_SIZE <= a
      BY <1>2, SameMap DEF AheadIn
    <2>2. ASSUME NEW a \in AheadIn(i), a # c PROVE c + PAGE_SIZE <= a
      <3>1. a \in Nat /\ a % PAGE_SIZE = 0 /\ c <= a
        BY PageAhead DEF c
      <3> QED BY <1>3, <2>2, <3>1, NextMultiple
    <2>3. ASSUME NEW a \in PagesOf(i), c + PAGE_SIZE <= a PROVE a \in AheadIn(i) /\ a # c
      <3>1. a \in Nat
        BY MapFacts DEF PagesOf
      <3>2. c <= a /\ a # c
        BY <1>3, <2>3, <3>1
      <3>3. i = cur_entry => cur_addr <= a
        BY <1>1, <1>3, <3>1, <3>2
      <3> QED BY <3>2, <3>3 DEF AheadIn
    <2>4. \A a \in AheadIn(i) : a \in PagesOf(i)
      BY DEF AheadIn
    <2> QED BY <2>1, <2>2, <2>3, <2>4, Zenon
  <1>10. ASSUME NEW k \in (i + 1) .. (n - 1), Served(k)
         PROVE  AheadIn(k)' = AheadIn(k) /\ c \notin AheadIn(k) /\ k \in cur_entry .. (n - 1)
    <2>1. k # i /\ k # cur_entry /\ k \in cur_entry .. (n - 1)
      BY <1>1
    <2>2. AheadIn(k)' = AheadIn(k)
      BY <1>2, <2>1, SameMap DEF AheadIn
    <2>3. k \in Entries(mem_map)
      BY <1>10 DEF Served, UsableEntry
    <2>4. ASSUME c \in AheadIn(k) PROVE FALSE
      <3>1. mem_map.entries[k].base <= c /\ c + PAGE_SIZE <= End(mem_map, k)
        BY <2>3, <2>4, PageAhead
      <3>2. \/ End(mem_map, i) <= mem_map.entries[k].base
            \/ End(mem_map, k) <= mem_map.entries[i].base
        BY <1>4, <2>1, <2>3, MapFacts, Zenon
      <3>3. /\ mem_map.entries[i].base \in Nat /\ mem_map.entries[k].base \in Nat
            /\ End(mem_map, i) \in Nat /\ End(mem_map, k) \in Nat
        BY <2>3, MapFacts
      <3> QED BY <1>3, <1>4, <3>1, <3>2, <3>3
    <2> QED BY <2>1, <2>2, <2>4
  <1>11. ASSUME NEW k \in cur_entry .. (i - 1), Served(k) PROVE AheadIn(k) = {}
    <2>1. k \in cur_entry .. (n - 1) /\ ~Fits(k) /\ ~Overflows(k)
      BY <1>1 DEF StopsAt
    <2> QED BY <1>11, <2>1, SkippedEmpty DEF n
  <1>12. /\ \A k \in cur_entry .. (n - 1) :
              k \in cur_entry .. (i - 1) \/ k = i \/ k \in (i + 1) .. (n - 1)
         /\ \A k \in i .. (n - 1) : k = i \/ k \in (i + 1) .. (n - 1)
         /\ i \in i .. (n - 1) /\ \A k \in (i + 1) .. (n - 1) : k \in i .. (n - 1)
    BY <1>1
  <1>13. \A a : a \in Ahead <=> \E k \in cur_entry .. (n - 1) : Served(k) /\ a \in AheadIn(k)
    BY AheadMember DEF n
  <1>14. \A a : a \in Ahead' <=> a \in Ahead /\ a # c
    <2>1. ASSUME NEW a, a \in Ahead' PROVE a \in Ahead /\ a # c
      <3>1. PICK k \in i .. (n - 1) : Served(k) /\ a \in AheadIn(k)'
        BY <1>8, <2>1
      <3>2. a \in AheadIn(k) /\ a # c /\ k \in cur_entry .. (n - 1)
        BY <1>1, <1>9, <1>10, <1>12, <3>1, Zenon
      <3> QED BY <1>13, <3>1, <3>2
    <2>2. ASSUME NEW a, a \in Ahead, a # c PROVE a \in Ahead'
      <3>1. PICK k \in cur_entry .. (n - 1) : Served(k) /\ a \in AheadIn(k)
        BY <1>13, <2>2
      <3>2. a \in AheadIn(k)' /\ k \in i .. (n - 1)
        BY <1>9, <1>10, <1>11, <1>12, <2>2, <3>1, Zenon
      <3> QED BY <1>8, <3>1, <3>2
    <2> QED BY <2>1, <2>2
  <1>15. Ahead' = Ahead \ {c}
    BY <1>14, Zenon
  <1> QED BY <1>7, <1>15 DEF c


-----------------------------------------------------------------------------
\* The scan of a call that answers None goes past entries that yield nothing.
LEMMA FailScan ==
  ASSUME TypeOK, AllocOverflow \/ AllocExhausted
  PROVE  /\ mem_map' = mem_map
         /\ cur_entry' \in cur_entry .. mem_map.entry_count
         /\ cur_addr' = IF cur_entry' = cur_entry THEN cur_addr ELSE 0
         /\ \A k \in cur_entry .. (cur_entry' - 1) : ~Fits(k) /\ ~Overflows(k)
  <1>0. cur_entry \in Nat /\ mem_map.entry_count \in Nat /\ cur_entry <= mem_map.entry_count
    BY MapFacts DEF TypeOK
  <1>1. mem_map' = mem_map
    BY DEF AllocOverflow, AllocExhausted
  <1>2. /\ cur_entry' \in cur_entry .. mem_map.entry_count
        /\ cur_addr' = IF cur_entry' = cur_entry THEN cur_addr ELSE 0
        /\ \A k \in cur_entry .. (cur_entry' - 1) : ~Fits(k) /\ ~Overflows(k)
    <2>1. CASE AllocOverflow
      <3>1. PICK i \in Entries(mem_map) : StopsAt(i) /\ OverflowAt(i)
        BY <2>1 DEF AllocOverflow
      <3>2. cur_entry' = i /\ cur_addr' = IF i = cur_entry THEN cur_addr ELSE 0
        BY <3>1 DEF OverflowAt
      <3>3. /\ i \in cur_entry .. mem_map.entry_count
            /\ \A k \in cur_entry .. (i - 1) : ~Fits(k) /\ ~Overflows(k)
        BY <1>0, <3>1 DEF StopsAt
      <3> QED BY <3>2, <3>3
    <2>2. CASE AllocExhausted
      <3>1. /\ cur_entry < mem_map.entry_count /\ cur_entry' = mem_map.entry_count
            /\ cur_addr' = 0 /\ ~\E i \in Entries(mem_map) : StopsAt(i)
        BY <2>2 DEF AllocExhausted
      <3>2. \A k \in cur_entry .. (mem_map.entry_count - 1) : ~Fits(k) /\ ~Overflows(k)
        BY <1>0, <3>1, ScanEnds
      <3> QED BY <1>0, <3>1, <3>2
    <2> QED BY <2>1, <2>2
  <1> QED BY <1>1, <1>2, Zenon

\* Such a call leaves the pages ahead as they are.
LEMMA FailAhead ==
  ASSUME IInv, AllocOverflow \/ AllocExhausted PROVE Ahead' = Ahead
  BY FailScan, AheadKept DEF IInv

\* A step of the allocator as its clients see it: the pages ahead are left alone, or the
\* one that is handed out leaves them; and the cursor passes no entry that overflows.
LEMMA AheadSteps ==
  ASSUME IInv, Passed, Next
  PROVE  /\ Passed'
         /\ \/ /\ Ahead' = Ahead
               /\ InPlay' = InPlay
            \/ \E c \in Ahead : /\ Ahead' = Ahead \ {c} /\ InPlay' = InPlay \cup {c}
                                /\ held' = held \cup {c} /\ Listed = {} /\ Listed' = {}
  <1> USE SizesAssumption
  <1>0. /\ TypeOK /\ cur_entry \in Nat /\ mem_map.entry_count \in Nat /\ cur_addr \in Nat
        /\ cur_entry <= mem_map.entry_count
    BY MapFacts DEF IInv, TypeOK
  <1>1. ASSUME UNCHANGED <<mem_map, cur_entry, cur_addr>> PROVE Passed' /\ Ahead' = Ahead
    <2>1. Passed'
      BY <1>1, SameMap DEF Passed
    <2>2. Ahead' = Ahead
      BY <1>1, SameMap DEF Ahead
    <2> QED BY <2>1, <2>2
  <1>2. CASE AllocFromList
    <2>1. UNCHANGED <<mem_map, cur_entry, cur_addr>>
      BY <1>2 DEF AllocFromList
    <2>2. InPlay' = InPlay
      BY <1>2, ListPlays
    <2> QED BY <1>1, <2>1, <2>2
  <1>3. CASE \E f \in held : free_frame_4k(f)
    <2>1. UNCHANGED <<mem_map, cur_entry, cur_addr>>
      BY <1>3 DEF free_frame_4k
    <2>2. InPlay' = InPlay
      BY <1>3, FreePlays
    <2> QED BY <1>1, <2>1, <2>2
  <1>4. CASE AllocOverflow \/ AllocExhausted
    <2>1. InPlay' = InPlay
      BY <1>4 DEF AllocOverflow, AllocExhausted, InPlay, Listed
    <2>2. /\ mem_map' = mem_map /\ cur_entry' \in cur_entry .. mem_map.entry_count
          /\ cur_addr' = IF cur_entry' = cur_entry THEN cur_addr ELSE 0
          /\ \A k \in cur_entry .. (cur_entry' - 1) : ~Fits(k) /\ ~Overflows(k)
      BY <1>0, <1>4, FailScan
    <2>3. Ahead' = Ahead
      BY <1>4, FailAhead
    <2>4. \A j \in 0 .. (cur_entry' - 1) : UsableEntry(mem_map, j)' => LeavesRoom(j)'
      BY <1>0, <2>2, PassedKept, Zenon
    <2>5. cur_addr' # 0 => cur_entry' = cur_entry /\ cur_addr' = cur_addr
      BY <2>2
    <2>6. Passed'
      BY <2>2, <2>4, <2>5, SameMap, Zenon DEF Passed
    <2> QED BY <2>1, <2>3, <2>6
  <1>5. CASE AllocFromMap
    <2>1. PICK i \in Entries(mem_map) : StopsAt(i) /\ NextFromMap(i)
      BY <1>5 DEF AllocFromMap
    <2>2. /\ mem_map' = mem_map /\ held' = held \cup {Candidate(i)} /\ lost' = lost
          /\ free_list' = free_list /\ free_count' = 0 /\ free_count = 0
          /\ cur_entry' = i /\ cur_addr' = Candidate(i) + PAGE_SIZE /\ Fits(i)
      BY <1>5, <2>1 DEF AllocFromMap, NextFromMap
    <2>3. Listed = {} /\ Listed' = {}
      BY <2>2 DEF Listed
    <2>4. InPlay' = InPlay \cup {Candidate(i)}
      BY <2>2, <2>3 DEF InPlay
    <2>5. Candidate(i) \in Ahead /\ Ahead' = Ahead \ {Candidate(i)}
      BY <1>0, <2>1, <2>2, TakenAhead
    <2>6. Passed'
      <3>1. /\ i \in cur_entry .. mem_map.entry_count
            /\ \A k \in cur_entry .. (i - 1) : ~Fits(k) /\ ~Overflows(k)
        BY <1>0, <2>1 DEF StopsAt
      <3>2. \A j \in 0 .. (cur_entry' - 1) : UsableEntry(mem_map, j)' => LeavesRoom(j)'
        BY <1>0, <2>2, <3>1, PassedKept
      <3>3. UsableEntry(mem_map, i) /\ Candidate(i) + PAGE_SIZE <= End(mem_map, i)
        BY <2>2 DEF Fits
      <3>4. (UsableEntry(mem_map, cur_entry) /\ cur_addr <= End(mem_map, cur_entry))'
        BY <2>2, <3>3 DEF UsableEntry, Entries, End
      <3> QED BY <3>2, <3>4 DEF Passed
    <2> QED BY <2>2, <2>3, <2>4, <2>5, <2>6
  <1> QED BY <1>2, <1>3, <1>4, <1>5 DEF Next


\* At first every page is ahead, and the cursor has gone past no entry.
LEMMA InitAhead == Init => Passed /\ Accounted
  <1> SUFFICES ASSUME Init PROVE Passed /\ Accounted
    OBVIOUS
  <1>1. TypeOK
    BY InitIInv DEF IInv
  <1>2. cur_entry = 0 /\ cur_addr = 0
    BY DEF Init
  <1>3. Passed
    BY <1>2 DEF Passed
  <1>4. ASSUME NEW i \in Entries(mem_map), Served(i), NEW a \in PagesOf(i) PROVE a \in Ahead
    <2>1. i \in cur_entry .. (mem_map.entry_count - 1)
      BY <1>2 DEF Entries
    <2>2. 0 <= a
      BY <1>1, MapFacts DEF PagesOf
    <2>3. a \in AheadIn(i)
      BY <1>2, <2>2 DEF AheadIn
    <2> QED BY <1>4, <2>1, <2>3, AheadMember
  <1>5. Accounted
    BY <1>4 DEF Accounted
  <1> QED BY <1>3, <1>5

\* No step forgets a page.
LEMMA NextAhead ==
  IInv /\ Passed /\ Accounted /\ [Next]_vars => Passed' /\ Accounted'
  <1> SUFFICES ASSUME IInv, Passed, Accounted, [Next]_vars PROVE Passed' /\ Accounted'
    OBVIOUS
  <1>1. CASE Next
    <2>1. mem_map' = mem_map
      BY <1>1 DEF Next, AllocFromList, AllocFromMap, AllocOverflow, AllocExhausted, free_frame_4k
    <2>2. Passed' /\ InPlay \cup Ahead \subseteq (InPlay \cup Ahead)'
      BY <1>1, AheadSteps
    <2>3. Accounted'
      BY <2>1, <2>2, SameMap DEF Accounted
    <2> QED BY <2>2, <2>3
  <1>2. CASE UNCHANGED vars
    <2>1. mem_map' = mem_map /\ cur_entry' = cur_entry /\ cur_addr' = cur_addr
      BY <1>2 DEF vars
    <2>2. InPlay' = InPlay /\ Ahead' = Ahead
      BY <1>2, SameMap DEF vars, InPlay, Listed, Ahead
    <2> QED BY <2>1, <2>2, SameMap DEF Passed, Accounted
  <1> QED BY <1>1, <1>2

\* An entry at which the scan overflows has no page ahead, and no entry behind it is served.
LEMMA OverflowEnds ==
  ASSUME IInv, Passed, NEW i \in Entries(mem_map), StopsAt(i), Overflows(i),
         NEW k \in cur_entry .. (mem_map.entry_count - 1), Served(k)
  PROVE  AheadIn(k) = {}
  <1> USE SizesAssumption
  <1> DEFINE e == (End(mem_map, i) \div PAGE_SIZE) * PAGE_SIZE
             u == align_up(mem_map.entries[i].base)
             c == Candidate(i)
  <1>0. TypeOK
    BY DEF IInv
  <1>1. /\ cur_entry \in Nat /\ mem_map.entry_count \in Nat /\ i \in Nat /\ cur_addr \in Nat
        /\ i \in cur_entry .. (mem_map.entry_count - 1)
    BY <1>0, MapFacts, SMTT(30) DEF TypeOK, StopsAt
  <1>2. /\ UsableEntry(mem_map, i) /\ End(mem_map, i) \in Nat
        /\ mem_map.entries[i].base \in Nat
        /\ End(mem_map, i) > U64_MAX \/ c + PAGE_SIZE > U64_MAX
    BY <1>0, MapFacts DEF Overflows
  <1>3. c \in Nat /\ c % PAGE_SIZE = 0
    BY <1>0, CandidateFacts
  <1>4. /\ e \in Nat /\ e <= End(mem_map, i) /\ End(mem_map, i) < e + PAGE_SIZE
        /\ e % PAGE_SIZE = 0 /\ u \in Nat
    BY <1>2, DownBounds, AlignUpBounds, Zenon
  <1>5. c = u \/ c <= e
    <2>1. CASE ScanFrom(i) = mem_map.entries[i].base
      BY <2>1 DEF Candidate
    <2>2. CASE ScanFrom(i) # mem_map.entries[i].base
      <3>1. i = cur_entry /\ ScanFrom(i) = cur_addr /\ ~(cur_addr < mem_map.entries[i].base)
        BY <2>2 DEF ScanFrom
      <3>2. cur_addr # 0
        BY <1>1, <1>2, <2>2, <3>1
      <3>3. cur_addr <= End(mem_map, i)
        BY <3>1, <3>2 DEF Passed
      <3>4. cur_addr <= e
        <4>1. SUFFICES ASSUME e < cur_addr PROVE FALSE
          BY <1>1, <1>4
        <4>2. e + PAGE_SIZE <= cur_addr
          BY <1>1, <1>4, <4>1, NextMultiple DEF IInv
        <4> HIDE DEF e
        <4> QED BY <1>1, <1>2, <1>4, <3>3, <4>2
      <3>5. align_up(cur_addr) <= e
        BY <1>1, <1>4, <3>4, AlignUpLeast
      <3> QED BY <3>1, <3>5 DEF Candidate
    <2> QED BY <2>1, <2>2
  <1> HIDE DEF e, u, c
  <1>6. ~(u + PAGE_SIZE <= U64_MAX /\ e + PAGE_SIZE <= U64_MAX)
    BY <1>2, <1>3, <1>4, <1>5
  <1>7. CASE k \in cur_entry .. (i - 1)
    <2>1. ~Fits(k) /\ ~Overflows(k)
      BY <1>7 DEF StopsAt
    <2> QED BY <1>0, <2>1, SkippedEmpty
  <1>8. CASE k = i
    <2>1. SUFFICES ASSUME NEW a \in AheadIn(i) PROVE FALSE
      BY <1>8
    <2>2. a \in Nat /\ c <= a /\ a + PAGE_SIZE <= End(mem_map, i)
      BY <1>0, PageAhead DEF c
    <2>3. End(mem_map, i) <= U64_MAX
      BY <1>8 DEF Served
    <2> QED BY <1>2, <1>3, <2>2, <2>3
  <1>9. CASE i \in 0 .. (k - 1)
    <2>1. u + PAGE_SIZE <= U64_MAX /\ e + PAGE_SIZE <= U64_MAX
      BY <1>2, <1>9 DEF Served, u, e
    <2> QED BY <1>6, <2>1
  <1>10. k \in cur_entry .. (i - 1) \/ k = i \/ i \in 0 .. (k - 1)
    BY <1>1
  <1> QED BY <1>7, <1>8, <1>9, <1>10

\* alloc_frame_4k gives up only when every whole usable page in front of an overflowing
\* entry is held or was dropped, whatever the order, the sizes and the types of the entries.
THEOREM GivesUpOnlyWhenExhausted == Spec => []NoneOnlyWhenExhausted
  <1>1. IInv /\ Passed /\ Accounted => NoneOnlyWhenExhausted
    <2> SUFFICES ASSUME IInv, Passed, Accounted, AllocFails,
                        NEW i \in Entries(mem_map), Served(i), NEW a \in PagesOf(i)
                 PROVE  a \in held \cup lost
      BY DEF NoneOnlyWhenExhausted
    <2>1. Listed = {}
      BY DEF AllocFails, Listed
    <2>2. a \in InPlay \cup Ahead
      BY DEF Accounted
    <2>3. ASSUME a \in Ahead PROVE FALSE
      <3>1. PICK k \in cur_entry .. (mem_map.entry_count - 1) : Served(k) /\ a \in AheadIn(k)
        BY <2>3, AheadMember
      <3>2. CASE \E j \in Entries(mem_map) : StopsAt(j)
        <4>1. PICK j \in Entries(mem_map) : StopsAt(j) /\ ~Fits(j)
          BY <3>2 DEF AllocFails
        <4>2. Overflows(j)
          BY <4>1 DEF StopsAt
        <4> QED BY <3>1, <4>1, <4>2, OverflowEnds
      <3>3. CASE ~\E j \in Entries(mem_map) : StopsAt(j)
        <4>1. ~Fits(k) /\ ~Overflows(k) /\ TypeOK
          BY <3>3, ScanEnds DEF IInv
        <4> QED BY <3>1, <4>1, SkippedEmpty
      <3> QED BY <3>2, <3>3
    <2> QED BY <2>1, <2>2, <2>3 DEF InPlay
  <1> QED BY <1>1, InitAhead, NextAhead, Invariance, PTL DEF Spec


\* The frames listed are not ahead.
LEMMA ListedNotAhead == IInv => Listed \cap Ahead = {}
  <1> SUFFICES ASSUME IInv, NEW g \in Listed, g \in Ahead PROVE FALSE
    OBVIOUS
  <1>1. PICK i \in cur_entry .. (mem_map.entry_count - 1) : Served(i) /\ g \in AheadIn(i)
    BY AheadMember
  <1>2. g \in InPlay /\ UsableEntry(mem_map, i)
    BY <1>1 DEF InPlay, Served
  <1> QED BY <1>1, <1>2, PlayedNotAhead

\* Every step of the allocator is a step of the pool, or none.
LEMMA PoolStep == IInv /\ Passed /\ [Next]_vars => [Pool!Next]_(Pool!vars)
  <1> SUFFICES ASSUME IInv, Passed, [Next]_vars
               PROVE  Pool!Next \/ UNCHANGED <<Listed \cup Ahead, held>>
    BY DEF Pool!vars
  <1>1. CASE AllocFromList
    <2> DEFINE f == free_list[free_count - 1]
    <2>1. f \in Listed /\ held' = held \cup {f} /\ Listed' = Listed \ {f}
      BY <1>1, ListPlays
    <2>2. mem_map' = mem_map /\ cur_entry' = cur_entry /\ cur_addr' = cur_addr
      BY <1>1 DEF AllocFromList
    <2>3. Ahead' = Ahead
      BY <2>2, SameMap DEF Ahead
    <2> HIDE DEF f
    <2>4. (Listed \cup Ahead)' = (Listed \cup Ahead) \ {f}
      BY <2>1, <2>3, ListedNotAhead
    <2> QED BY <2>1, <2>4 DEF Pool!Next, Pool!alloc_frame_4k
  <1>2. CASE \E f \in held : free_frame_4k(f)
    <2>1. PICK f \in held : free_frame_4k(f)
      BY <1>2
    <2>2. held' = held \ {f} /\ (Listed' = Listed \cup {f} \/ Listed' = Listed)
      BY <2>1, FreePlays
    <2>3. mem_map' = mem_map /\ cur_entry' = cur_entry /\ cur_addr' = cur_addr
      BY <2>1 DEF free_frame_4k
    <2>4. Ahead' = Ahead
      BY <2>3, SameMap DEF Ahead
    <2> QED BY <2>2, <2>4 DEF Pool!Next, Pool!free_frames_4k
  <1>3. CASE AllocFromMap
    <2>1. PICK i \in Entries(mem_map) : StopsAt(i) /\ NextFromMap(i)
      BY <1>3 DEF AllocFromMap
    <2>2. mem_map' = mem_map /\ free_count = 0 /\ free_count' = 0 /\ held' = held \cup {Candidate(i)}
      BY <1>3, <2>1 DEF AllocFromMap, NextFromMap
    <2>3. Candidate(i) \in Ahead /\ Ahead' = Ahead \ {Candidate(i)}
      BY <2>1, <2>2, TakenAhead DEF IInv
    <2>4. Listed = {} /\ Listed' = {}
      BY <2>2 DEF Listed
    <2> QED BY <2>2, <2>3, <2>4 DEF Pool!Next, Pool!alloc_frame_4k
  <1>4. CASE AllocOverflow \/ AllocExhausted
    <2>1. held' = held /\ Listed' = Listed
      BY <1>4 DEF AllocOverflow, AllocExhausted, Listed
    <2>2. Ahead' = Ahead
      BY <1>4, FailAhead
    <2> QED BY <2>1, <2>2
  <1>5. CASE UNCHANGED vars
    BY <1>5, SameMap DEF vars, Listed, Ahead
  <1> QED BY <1>1, <1>2, <1>3, <1>4, <1>5 DEF Next

\* BootPtAlloc implements what the page tables ask of an allocator (the trait
\* PageTableFrameAlloc): its free list and the memory ahead of its cursor are a pool
\* from which each frame is taken once until it is given back.
THEOREM AllocatorImplementsPool == Spec => ImplementsPool
  <1>1. Init => Pool!Init
    <2> SUFFICES ASSUME Init PROVE Pool!Init
      OBVIOUS
    <2>1. TypeOK /\ Listed = {} /\ held = {}
      BY InitIInv DEF IInv, Init, Listed
    <2>2. ASSUME NEW a \in Ahead PROVE a \in 0 .. U64_MAX
      <3>1. PICK i \in cur_entry .. (mem_map.entry_count - 1) : Served(i) /\ a \in AheadIn(i)
        BY AheadMember
      <3>2. i \in Entries(mem_map)
        BY <3>1 DEF Served, UsableEntry
      <3> QED BY <2>1, <3>1, <3>2, PageAhead
    <2> QED BY <2>1, <2>2 DEF Pool!Init
  <1> QED BY <1>1, PoolStep, InitAhead, NextAhead, Invariance, PTL
          DEF Spec, ImplementsPool, Pool!Spec
=============================================================================
