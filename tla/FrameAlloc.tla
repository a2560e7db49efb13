------------------------------ MODULE FrameAlloc ------------------------------
(***************************************************************************)
(* BootPtAlloc (kernel/src/svc/vm.rs): the allocator of page-table frames. *)
(* It hands out the frames of a bounded LIFO free list first and otherwise *)
(* walks the boot memory map with a cursor (cur_entry, cur_addr).  Every   *)
(* operation runs under the PT_ALLOC lock, so each one is a single action. *)
(***************************************************************************)
EXTENDS Integers

CONSTANTS
  PAGE_SIZE,         \* bytes of a frame
  MAX_FREE_FRAMES,   \* capacity of the free list
  U64_MAX,           \* the largest value of a u64
  MemMaps            \* the boot memory maps considered

VARIABLES
  mem_map,           \* entries_ptr / entry_count: the memory map, never changed
  cur_entry, cur_addr,
  free_list, free_count,
  held,              \* history: frames handed out and not given back
  lost               \* history: frames given back while the free list was full

vars == <<mem_map, cur_entry, cur_addr, free_list, free_count, held, lost>>

MemType == {"Usable", "Reserved", "BootloaderReclaimable", "BadMemory"}

is_usable(mem_type) == mem_type \in {"Usable", "BootloaderReclaimable"}

\* The entries of a map m, and the end of one before it is known to fit a u64.
Entries(m) == 0 .. (m.entry_count - 1)
End(m, i) == m.entries[i].base + m.entries[i].len
UsableEntry(m, i) == i \in Entries(m) /\ is_usable(m.entries[i].mem_type)

\* What the boot loader guarantees of the map: usable and reclaimable entries
\* overlap nothing, and no base lies in the last, partial page of the u64 range.
WellFormed(m) ==
  /\ m.entry_count \in Nat \ {0}
  /\ m.entries \in [Entries(m) -> [base : Nat, len : Nat, mem_type : MemType]]
  /\ \A i \in Entries(m) : m.entries[i].base + PAGE_SIZE - 1 <= U64_MAX
  /\ \A i, j \in Entries(m) :
       UsableEntry(m, i) /\ i # j => \/ End(m, i) <= m.entries[j].base
                                     \/ End(m, j) <= m.entries[i].base

ASSUME SizesAssumption == /\ PAGE_SIZE \in Nat \ {0}
                          /\ MAX_FREE_FRAMES \in Nat
                          /\ U64_MAX \in Nat
                          /\ (U64_MAX + 1) % PAGE_SIZE = 0

ASSUME MemMapsAssumption == \A m \in MemMaps : WellFormed(m)

-----------------------------------------------------------------------------
align_up(value) == ((value + PAGE_SIZE - 1) \div PAGE_SIZE) * PAGE_SIZE

\* A forgotten cur_addr = 0 when the scan moves to the next entry.
ScanFrom_NoReset(i) ==
  IF cur_addr < mem_map.entries[i].base THEN mem_map.entries[i].base ELSE cur_addr

\* Where the scan of entry i begins; cur_addr is 0 once the scan has moved on.
ScanFrom(i) ==
  IF i # cur_entry \/ cur_addr < mem_map.entries[i].base
  THEN mem_map.entries[i].base ELSE cur_addr

\* The frame entry i would yield.
Candidate(i) == align_up(ScanFrom(i))

\* checked_add fails on the end of the entry or on the end of the frame.
Overflows(i) == /\ UsableEntry(mem_map, i)
                /\ \/ End(mem_map, i) > U64_MAX
                   \/ Candidate(i) + PAGE_SIZE > U64_MAX

\* The frame's start, not its end, is compared with the end of the entry.
Fits_StartOnly(i) == /\ UsableEntry(mem_map, i)
                     /\ ~Overflows(i)
                     /\ Candidate(i) <= End(mem_map, i)

\* The end of the frame is computed with wrapping_add.
Fits_Wraps(i) == /\ UsableEntry(mem_map, i)
                 /\ End(mem_map, i) <= U64_MAX
                 /\ (Candidate(i) + PAGE_SIZE) % (U64_MAX + 1) <= End(mem_map, i)

Fits(i) == /\ UsableEntry(mem_map, i)
           /\ ~Overflows(i)
           /\ Candidate(i) + PAGE_SIZE <= End(mem_map, i)

\* The loop of next_from_map skips entries until one yields a frame or a
\* checked_add fails; i is where it stops.
StopsAt(i) == /\ i \in cur_entry .. (mem_map.entry_count - 1)
              /\ Fits(i) \/ Overflows(i)
              /\ \A j \in cur_entry .. (i - 1) : ~Fits(j) /\ ~Overflows(j)

-----------------------------------------------------------------------------
\* BootPtAlloc::new, on a boot info with an HHDM offset and a memory map.
Init ==
  /\ mem_map \in MemMaps
  /\ cur_entry = 0
  /\ cur_addr = 0
  /\ free_list = [k \in 0 .. (MAX_FREE_FRAMES - 1) |-> 0]
  /\ free_count = 0
  /\ held = {}
  /\ lost = {}

\* Reads the slot above the top of the list.
AllocFromList_OffByOne ==
  /\ free_count > 0
  /\ free_count' = free_count - 1
  /\ held' = held \cup {free_list[IF free_count = MAX_FREE_FRAMES THEN 0 ELSE free_count]}
  /\ UNCHANGED <<mem_map, cur_entry, cur_addr, free_list, lost>>

\* alloc_frame_4k with a non-empty free list.
AllocFromList ==
  /\ free_count > 0
  /\ free_count' = free_count - 1
  /\ held' = held \cup {free_list[free_count - 1]}
  /\ UNCHANGED <<mem_map, cur_entry, cur_addr, free_list, lost>>

\* The cursor stays on the frame just handed out.
NextFromMap_NoAdvance(i) ==
  /\ Fits(i)
  /\ cur_entry' = i
  /\ cur_addr' = Candidate(i)
  /\ held' = held \cup {Candidate(i)}

\* next_from_map returns the frame of entry i.
NextFromMap(i) ==
  /\ Fits(i)
  /\ cur_entry' = i
  /\ cur_addr' = Candidate(i) + PAGE_SIZE
  /\ held' = held \cup {Candidate(i)}

AllocFromMap ==
  /\ free_count = 0
  /\ \E i \in Entries(mem_map) : StopsAt(i) /\ NextFromMap(i)
  /\ UNCHANGED <<mem_map, free_list, free_count, lost>>

\* next_from_map returns None at an entry i whose bounds overflow; the cursor
\* stays there, so every later call fails at the same entry.
OverflowAt(i) ==
  /\ Overflows(i)
  /\ cur_entry' = i
  /\ cur_addr' = IF i = cur_entry THEN cur_addr ELSE 0

AllocOverflow ==
  /\ free_count = 0
  /\ \E i \in Entries(mem_map) : StopsAt(i) /\ OverflowAt(i)
  /\ UNCHANGED <<mem_map, free_list, free_count, held, lost>>

\* next_from_map runs off the end of the map and returns None.
AllocExhausted ==
  /\ free_count = 0
  /\ cur_entry < mem_map.entry_count
  /\ ~\E i \in Entries(mem_map) : StopsAt(i)
  /\ cur_entry' = mem_map.entry_count
  /\ cur_addr' = 0
  /\ UNCHANGED <<mem_map, free_list, free_count, held, lost>>

\* The bound check of the free list is off by one.
free_frame_4k_Unbounded(f) ==
  /\ f \in held
  /\ held' = held \ {f}
  /\ IF free_count <= MAX_FREE_FRAMES
     THEN /\ free_list' = [free_list EXCEPT ![free_count] = f]
          /\ free_count' = free_count + 1
          /\ lost' = lost
     ELSE /\ lost' = lost \cup {f}
          /\ UNCHANGED <<free_list, free_count>>
  /\ UNCHANGED <<mem_map, cur_entry, cur_addr>>

\* A client frees only frames it was given ("previously allocated", as the
\* trait says); a frame that finds the list full is silently dropped.
free_frame_4k(f) ==
  /\ f \in held
  /\ held' = held \ {f}
  /\ IF free_count < MAX_FREE_FRAMES
     THEN /\ free_list' = [free_list EXCEPT ![free_count] = f]
          /\ free_count' = free_count + 1
          /\ lost' = lost
     ELSE /\ lost' = lost \cup {f}
          /\ UNCHANGED <<free_list, free_count>>
  /\ UNCHANGED <<mem_map, cur_entry, cur_addr>>

Next == \/ AllocFromList
        \/ AllocFromMap
        \/ AllocOverflow
        \/ AllocExhausted
        \/ \E f \in held : free_frame_4k(f)

Spec == Init /\ [][Next]_vars

-----------------------------------------------------------------------------
Listed == {free_list[k] : k \in 0 .. (free_count - 1)}

\* Every frame the cursor has gone past.
InPlay == held \cup Listed \cup lost

\* The cursor, the free list and the frames keep their types: free_count never
\* indexes past the free list (the array accesses of vm.rs:98 and vm.rs:109).
TypeOK ==
  /\ mem_map \in MemMaps
  /\ cur_entry \in 0 .. mem_map.entry_count
  /\ cur_addr \in 0 .. U64_MAX
  /\ free_list \in [0 .. (MAX_FREE_FRAMES - 1) -> 0 .. U64_MAX]
  /\ free_count \in 0 .. MAX_FREE_FRAMES
  /\ held \subseteq 0 .. U64_MAX
  /\ lost \subseteq 0 .. U64_MAX

\* The frames held, listed and lost are pairwise disjoint byte ranges, and a frame
\* is in one of the three places only, once.
FramesApart ==
  /\ held \cap Listed = {} /\ held \cap lost = {} /\ Listed \cap lost = {}
  /\ \A k, l \in 0 .. (free_count - 1) : free_list[k] = free_list[l] => k = l
  /\ \A f, g \in InPlay : f # g => f + PAGE_SIZE <= g \/ g + PAGE_SIZE <= f

\* No byte of memory is in two places, and the frame next_from_map would return now
\* overlaps none of those in play.  So alloc_frame_4k (vm.rs:95) never hands out
\* memory that is still in use.
NoDoubleAllocation ==
  /\ FramesApart
  /\ \A i \in Entries(mem_map), f \in InPlay :
       StopsAt(i) /\ Fits(i) => \/ f + PAGE_SIZE <= Candidate(i)
                               \/ Candidate(i) + PAGE_SIZE <= f

\* Every frame handed out is a whole, page-aligned page of a usable entry, so a
\* page table never overlays reserved or unlisted memory.
FramesUsable ==
  \A f \in InPlay :
    /\ f % PAGE_SIZE = 0
    /\ \E i \in Entries(mem_map) : /\ UsableEntry(mem_map, i)
                                   /\ mem_map.entries[i].base <= f
                                   /\ f + PAGE_SIZE <= End(mem_map, i)

\* The u64 addition inside align_up never overflows (it would panic in a debug
\* build and wrap to frame 0 in a release build), wherever the cursor stands.
AlignUpFits ==
  \A i \in cur_entry .. (mem_map.entry_count - 1) :
    UsableEntry(mem_map, i) /\ End(mem_map, i) <= U64_MAX
      => ScanFrom(i) + PAGE_SIZE - 1 <= U64_MAX

\* The whole, page-aligned pages of entry i.
PagesOf(i) ==
  {a \in mem_map.entries[i].base .. U64_MAX :
     a % PAGE_SIZE = 0 /\ a + PAGE_SIZE <= End(mem_map, i)}

\* Usable entry i is reached by the scan: no usable entry in front of it reaches
\* into the last page of the u64 range, where checked_add fails for ever.
Served(i) ==
  /\ UsableEntry(mem_map, i)
  /\ End(mem_map, i) <= U64_MAX
  /\ \A j \in 0 .. (i - 1) :
       UsableEntry(mem_map, j)
         => /\ align_up(mem_map.entries[j].base) + PAGE_SIZE <= U64_MAX
            /\ (End(mem_map, j) \div PAGE_SIZE) * PAGE_SIZE + PAGE_SIZE <= U64_MAX

\* The usable pages the cursor has not gone past.
Ahead ==
  UNION {{a \in PagesOf(i) : i = cur_entry => cur_addr <= a} :
           i \in {j \in cur_entry .. (mem_map.entry_count - 1) : Served(j)}}

\* alloc_frame_4k answers None.
AllocFails == /\ free_count = 0
              /\ ~\E i \in Entries(mem_map) : StopsAt(i) /\ Fits(i)

\* The allocator gives up only when it must: None means that every whole usable
\* page in front of an overflowing entry is held by a client or was dropped by a
\* full free list.  The scan skips no page, whatever the order of the entries.
NoneOnlyWhenExhausted ==
  AllocFails => \A i \in Entries(mem_map) : Served(i) => PagesOf(i) \subseteq held \cup lost

\* The allocator implements the pool of frames its clients rely on: what it can
\* still hand out is the free list and the memory ahead of the cursor.
Pool == INSTANCE FramePool WITH Frame <- 0 .. U64_MAX,
                                free <- Listed \cup Ahead, held <- held
ImplementsPool == Pool!Spec
=============================================================================
