---------------------------- MODULE X86MmuRefines ----------------------------
(***************************************************************************)
(* X86Mmu implements what the traits of crates/hal/src/mmu.rs promise: it  *)
(* uses the frame allocator as module FramePool allows, and its user       *)
(* halves are the independent functions of module AddressSpaces.           *)
(***************************************************************************)
EXTENDS X86MmuProofs

USE DEF Table

\* Over a step that leaves the directories alone every walk leads where it led.
LEMMA WalkSame ==
  ASSUME IInv, NEW h \in Handle, Live(h), NEW v \in Pages, Root(h)' = Root(h),
         \A x \in Directories : mem'[x] = mem[x]
  PROVE  Walk(Root(h), v)' = Walk(Root(h), v)
  <1> DEFINE r == Root(h)
             t2 == Descend(r, v[1])
             t3 == Descend(t2, v[2])
             t4 == Descend(t3, v[3])
  <1>1. ASSUME NEW t \in Table, NEW i, level[t] \in 2 .. 4
        PROVE  Descend(t, i)' = Descend(t, i)
    BY <1>1 DEF Descend, Directories
  <1>2. /\ r \in Table /\ level[r] \in 2 .. 4
        /\ t2 # NullAddr => t2 \in Table /\ level[t2] \in 2 .. 4
        /\ t3 # NullAddr => t3 \in Table /\ level[t3] \in 2 .. 4
    <2>1. /\ r \in Table /\ level[r] = 4
          /\ t2 # NullAddr => t2 \in Table /\ level[t2] = 3
          /\ t3 # NullAddr => t3 \in Table /\ level[t3] = 2
      BY WalkLevels
    <2> HIDE DEF r, t2, t3
    <2> QED BY <2>1
  <1>3. t2' = t2
    BY <1>1, <1>2
  <1>4. t3' = t3
    <2>1. CASE t2 = NullAddr
      BY <1>3, <2>1, Zenon DEF Descend
    <2>2. CASE t2 # NullAddr
      <3>1. PICK x \in Table : x = t2 /\ x = t2' /\ level[x] \in 2 .. 4
        BY <1>2, <1>3, <2>2, Zenon
      <3>2. Descend(x, v[2])' = Descend(x, v[2])
        BY <1>1, <3>1, Zenon
      <3> HIDE DEF t2
      <3> QED BY <3>1, <3>2, Zenon DEF Descend
    <2> QED BY <2>1, <2>2
  <1>5. t4' = t4
    <2>1. CASE t3 = NullAddr
      BY <1>4, <2>1, Zenon DEF Descend
    <2>2. CASE t3 # NullAddr
      <3>1. PICK x \in Table : x = t3 /\ x = t3' /\ level[x] \in 2 .. 4
        BY <1>2, <1>4, <2>2, Zenon
      <3>2. Descend(x, v[3])' = Descend(x, v[3])
        BY <1>1, <3>1, Zenon
      <3> HIDE DEF t3
      <3> QED BY <3>1, <3>2, Zenon DEF Descend
    <2> QED BY <2>1, <2>2
  <1>6. Walk(r, v) = t4 /\ Walk(r, v)' = t4'
    BY Zenon DEF Walk
  <1> QED BY <1>5, <1>6

\* The page table a walk ends at.
LEMMA WalkEnd ==
  ASSUME IInv, NEW h \in Handle, Live(h), NEW v \in Pages, Walk(Root(h), v) # NullAddr
  PROVE  Walk(Root(h), v) \in Table /\ level[Walk(Root(h), v)] = 1
  <1>1. PathTo(Root(h), v, 4) = Walk(Root(h), v)
    BY DEF PathTo
  <1> QED BY <1>1, PathLevel

\* Two walks that end at one page table, one of them in a user half, are of one space
\* and agree in the first three indices.
LEMMA WalkUnique ==
  ASSUME IInv, NEW g \in Handle, NEW h \in Handle, Live(g), Live(h),
         NEW v \in UserPages, NEW w \in Pages,
         Walk(Root(g), v) # NullAddr, Walk(Root(h), w) = Walk(Root(g), v)
  PROVE  g = h /\ v[1] = w[1] /\ v[2] = w[2] /\ v[3] = w[3]
  <1> DEFINE t1 == Root(g)
             t2 == Descend(t1, v[1])
             t3 == Descend(t2, v[2])
             t4 == Descend(t3, v[3])
             u1 == Root(h)
             u2 == Descend(u1, w[1])
             u3 == Descend(u2, w[2])
             u4 == Descend(u3, w[3])
  <1>1. v \in Pages /\ v[1] \notin KernelIdx
    BY DEF UserPages
  <1>2. /\ v[1] \in Idx /\ v[2] \in Idx /\ v[3] \in Idx
        /\ w[1] \in Idx /\ w[2] \in Idx /\ w[3] \in Idx
    BY <1>1, ConstantsAssumption
  <1>3. t4 # NullAddr /\ t4 = u4
    BY Zenon DEF Walk
  <1>4. /\ t1 \in Table /\ level[t1] = 4
        /\ t2 # NullAddr => t2 \in Table /\ level[t2] = 3
        /\ t3 # NullAddr => t2 # NullAddr /\ t3 \in Table /\ level[t3] = 2
        /\ t4 # NullAddr => t3 # NullAddr
        /\ mem[t1][v[1]].p => IsLink(mem[t1][v[1]])
        /\ t2 # NullAddr /\ mem[t2][v[2]].p => IsLink(mem[t2][v[2]])
        /\ t3 # NullAddr /\ mem[t3][v[3]].p => IsLink(mem[t3][v[3]])
    BY <1>1, WalkLevels
  <1>5. /\ u1 \in Table /\ level[u1] = 4
        /\ u2 # NullAddr => u2 \in Table /\ level[u2] = 3
        /\ u3 # NullAddr => u2 # NullAddr /\ u3 \in Table /\ level[u3] = 2
        /\ u4 # NullAddr => u3 # NullAddr
        /\ mem[u1][w[1]].p => IsLink(mem[u1][w[1]])
        /\ u2 # NullAddr /\ mem[u2][w[2]].p => IsLink(mem[u2][w[2]])
        /\ u3 # NullAddr /\ mem[u3][w[3]].p => IsLink(mem[u3][w[3]])
    BY WalkLevels
  \* One level up: two directories with one child are one, with the same entry.
  <1>6. ASSUME NEW x \in Table, NEW y \in Table, NEW i \in Idx, NEW j \in Idx,
               level[x] \in 2 .. 4, level[y] \in 2 .. 4,
               level[x] # 4 \/ i \notin KernelIdx,
               Descend(x, i) # NullAddr, Descend(x, i) = Descend(y, j),
               mem[x][i].p => IsLink(mem[x][i]), mem[y][j].p => IsLink(mem[y][j])
        PROVE  x = y /\ i = j
    <2>1. /\ mem[x][i].p /\ mem[y][j].p /\ mem[x][i].to = mem[y][j].to
      BY <1>6, Zenon DEF Descend
    <2>2. x \in Directories /\ y \in Directories
      BY <1>6, Zenon DEF Directories
    <2> QED BY <1>6, <2>1, <2>2, Zenon DEF IInv, TableForest, OneParent
  <1>7. t3 = u3 /\ v[3] = w[3]
    <2>1. /\ t3 \in Table /\ level[t3] \in 2 .. 4 /\ (level[t3] # 4 \/ v[3] \notin KernelIdx)
          /\ u3 \in Table /\ level[u3] \in 2 .. 4
          /\ mem[t3][v[3]].p => IsLink(mem[t3][v[3]])
          /\ mem[u3][w[3]].p => IsLink(mem[u3][w[3]])
      <3> HIDE DEF t1, t2, t3, t4, u1, u2, u3, u4
      <3> QED BY <1>1, <1>3, <1>4, <1>5
    <2>2. Descend(t3, v[3]) # NullAddr /\ Descend(t3, v[3]) = Descend(u3, w[3])
      BY <1>3, <1>4, <1>5, Zenon
    <2> HIDE DEF t3, u3
    <2> QED BY <1>2, <1>6, <2>1, <2>2
  <1>8. t2 = u2 /\ v[2] = w[2]
    <2>1. /\ t2 \in Table /\ level[t2] \in 2 .. 4 /\ (level[t2] # 4 \/ v[2] \notin KernelIdx)
          /\ u2 \in Table /\ level[u2] \in 2 .. 4
          /\ mem[t2][v[2]].p => IsLink(mem[t2][v[2]])
          /\ mem[u2][w[2]].p => IsLink(mem[u2][w[2]])
      <3> HIDE DEF t1, t2, t3, t4, u1, u2, u3, u4
      <3> QED BY <1>1, <1>3, <1>4, <1>5
    <2>2. Descend(t2, v[2]) # NullAddr /\ Descend(t2, v[2]) = Descend(u2, w[2])
      BY <1>3, <1>7, <1>4, <1>5, Zenon
    <2> HIDE DEF t2, u2
    <2> QED BY <1>2, <1>6, <2>1, <2>2
  <1>9. t1 = u1 /\ v[1] = w[1]
    <2>1. /\ t1 \in Table /\ level[t1] \in 2 .. 4 /\ (level[t1] # 4 \/ v[1] \notin KernelIdx)
          /\ u1 \in Table /\ level[u1] \in 2 .. 4
          /\ mem[t1][v[1]].p => IsLink(mem[t1][v[1]])
          /\ mem[u1][w[1]].p => IsLink(mem[u1][w[1]])
      <3> HIDE DEF t1, t2, t3, t4, u1, u2, u3, u4
      <3> QED BY <1>1, <1>3, <1>4, <1>5
    <2>2. Descend(t1, v[1]) # NullAddr /\ Descend(t1, v[1]) = Descend(u1, w[1])
      BY <1>3, <1>8, <1>4, <1>5, Zenon
    <2> HIDE DEF t1, u1
    <2> QED BY <1>2, <1>6, <2>1, <2>2
  <1>10. g = h
    <2>1. \A s \in Slot : slots[s].used => slots[s].pml4_phys # BootRoot
      BY BootAssumption DEF IInv, TypeOK, TableForest, RootsAreOwn, Premises, BootTablesOutsidePool
    <2> QED BY <1>9, <2>1, ConstantsAssumption
            DEF Root, Live, Handle, IInv, TableForest, RootsAreOwn
  <1> QED BY <1>7, <1>8, <1>9, <1>10

-----------------------------------------------------------------------------
\* address_space_destroy gives back frames that the MMU holds.
LEMMA DestroyFrees ==
  ASSUME IInv, NEW c \in Cpus, NEW s \in Slot, address_space_destroy(c, s)
  PROVE  Allocator!free_frames_4k
  <1>1. slots[s].used
    BY ConstantsAssumption DEF address_space_destroy, CanStart, Live
  <1>2. PICK r \in Table : r = slots[s].pml4_phys /\ r = Root(s)
    BY <1>1, RootLevel, ConstantsAssumption DEF Live, Root, Handle
  <1>3. /\ \E kept \in SUBSET FreedBy(r) : pool' = pool \cup kept
        /\ held' = held \ FreedBy(r)
    BY <1>2, Zenon DEF address_space_destroy
  <1>4. FreedBy(r) \subseteq held
    <2>1. /\ r \in held
          /\ \A x \in UserPdpts(r) : x \in held
          /\ \A x \in UserPds(r) : x \in held
          /\ \A x \in UserPts(r) : x \in held
      BY <1>1, <1>2, FreedLevels, Zenon
    <2> QED BY <2>1, Zenon DEF FreedBy
  <1> QED BY <1>3, <1>4 DEF Allocator!free_frames_4k

\* Every step of the MMU is one the allocator's clients may take, or leaves it alone.
LEMMA AllocatorStep == IInv /\ [Next]_vars => [Allocator!Next]_(Allocator!vars)
  <1> SUFFICES ASSUME IInv, [Next]_vars PROVE Allocator!Next \/ UNCHANGED <<pool, held>>
    BY DEF Allocator!vars
  <1>1. ASSUME NEW c \in Cpus, Continue(c) PROVE Allocator!Next \/ UNCHANGED <<pool, held>>
    BY <1>1, Zenon DEF Continue, ensure_table, MapLeaf, UnmapWrite, ProtectWrite,
                Allocator!Next, Allocator!alloc_frame_4k
  <1>2. ASSUME NEW c \in Cpus, address_space_new(c) PROVE Allocator!Next
    BY <1>2, Zenon DEF address_space_new, Allocator!Next, Allocator!alloc_frame_4k
  <1>3. ASSUME NEW c \in Cpus, NEW s \in Slot, address_space_destroy(c, s) PROVE Allocator!Next
    BY <1>3, DestroyFrees DEF Allocator!Next
  <1>4. ASSUME NEW c \in Cpus, NEW h \in Handle, NEW v \in Pages,
               \/ \E to \in PhysPages, flags \in FlagSets : MapBegin(c, h, v, to, flags)
               \/ WalkBegin(c, "unmap", h, v, {})
               \/ \E flags \in FlagSets : WalkBegin(c, "protect", h, v, flags)
        PROVE  UNCHANGED <<pool, held>>
    BY <1>4, Zenon DEF MapBegin, WalkBegin
  <1>5. CASE UNCHANGED vars
    BY <1>5 DEF vars
  <1> QED BY <1>1, <1>2, <1>3, <1>4, <1>5, Zenon DEF Next

\* The MMU is a proper client of the frame allocator, for any number of CPUs, frames and
\* spaces: it takes frames one at a time and gives back only frames that it holds, each
\* once (mmu.rs:257-283, 353-429).
THEOREM MmuUsesAllocator ==
  ASSUME BootTablesOutsidePool, NoPageInLarge PROVE Spec => UsesAllocator
  <1>1. Init => Allocator!Init
    BY DEF Init, Allocator!Init
  <1>2. IInv /\ [Next]_vars => [Allocator!Next]_(Allocator!vars)
    BY AllocatorStep
  <1> QED BY <1>1, <1>2, Invariance, PTL DEF Spec, UsesAllocator, Allocator!Spec

-----------------------------------------------------------------------------
\* Linking an empty table changes no translation.
LEMMA LinkViews ==
  ASSUME IInv, NEW t \in Table, NEW i \in Idx, NEW d \in 1 .. 3,
         NEW e \in Entry, NEW f \in pool, LinkStep(t, i, d, e, f),
         NEW g \in Handle, Live(g), NEW w \in Pages
  PROVE  translate(g, w)' = translate(g, w)
  <1>1. /\ level[t] = 5 - d /\ ~mem[t][i].p /\ e.p /\ e.to = f
        /\ mem' = [mem EXCEPT ![f] = ZeroFrame, ![t][i] = e]
        /\ slots' = slots
    BY DEF LinkStep, IsLink
  <1>2. f \in Table /\ f # t /\ level[f] = 0 /\ level[t] \in 2 .. 4
    BY <1>1, FreshFrame DEF Directories
  <1>3. /\ mem'[f] = ZeroFrame /\ mem'[t][i] = e
        /\ \A j \in Idx \ {i} : mem'[t][j] = mem[t][j]
        /\ \A x \in Table \ {f, t} : mem'[x] = mem[x]
    BY <1>1, <1>2 DEF IInv, TypeOK
  <1>4. w[1] \in Idx /\ w[2] \in Idx /\ w[3] \in Idx /\ w[4] \in Idx
    BY ConstantsAssumption
  <1>5. f # NullAddr /\ \A j \in Idx : ~mem'[f][j].p
    BY <1>2, <1>3, ConstantsAssumption DEF ZeroFrame, Zero
  \* One level down, the new walk is where the old one was, or in the new table.
  <1>6. ASSUME NEW x, NEW y, x = NullAddr \/ (x \in Table /\ level[x] > 0),
               y = x \/ (x = NullAddr /\ y = f), NEW j \in Idx,
               NEW X, X = IF x # NullAddr /\ mem[x][j].p THEN mem[x][j].to ELSE NullAddr,
               NEW Y, Y = IF y # NullAddr /\ mem'[y][j].p THEN mem'[y][j].to ELSE NullAddr
        PROVE  Y = X \/ (X = NullAddr /\ Y = f)
    <2>1. CASE x = NullAddr
      BY <1>5, <1>6, <2>1, Zenon
    <2>2. CASE x # NullAddr
      <3>1. y = x /\ x \in Table /\ x # f
        BY <1>2, <1>6, <2>2
      <3>2. CASE x = t /\ j = i
        BY <1>1, <1>3, <1>6, <3>1, <3>2, Zenon
      <3>3. CASE ~(x = t /\ j = i)
        <4>1. mem'[x][j] = mem[x][j]
          BY <1>3, <3>1, <3>3
        <4> QED BY <1>6, <3>1, <4>1, Zenon
      <3> QED BY <3>2, <3>3
    <2> QED BY <2>1, <2>2
  <1> DEFINE r == Root(g)
             t2 == Descend(r, w[1])
             t3 == Descend(t2, w[2])
             t4 == Descend(t3, w[3])
  <1>7. /\ r \in Table /\ level[r] > 0
        /\ t2 = NullAddr \/ (t2 \in Table /\ level[t2] > 0)
        /\ t3 = NullAddr \/ (t3 \in Table /\ level[t3] > 0)
        /\ t4 = NullAddr \/ (t4 \in Table /\ level[t4] = 1)
    <2>1. /\ r \in Table /\ level[r] = 4
          /\ t2 # NullAddr => t2 \in Table /\ level[t2] = 3
          /\ t3 # NullAddr => t3 \in Table /\ level[t3] = 2
          /\ t4 # NullAddr => t4 \in Table /\ level[t4] = 1
      BY WalkLevels
    <2> HIDE DEF r, t2, t3, t4
    <2> QED BY <2>1
  <1>8. r' = r
    BY <1>1 DEF Root
  <1> HIDE DEF r
  <1>9. t2' = t2 \/ (t2 = NullAddr /\ t2' = f)
    <2>1. PICK x, y, X, Y : x = r /\ y = r' /\ X = t2 /\ Y = t2'
      OBVIOUS
    <2>2. /\ X = IF x # NullAddr /\ mem[x][w[1]].p THEN mem[x][w[1]].to ELSE NullAddr
          /\ Y = IF y # NullAddr /\ mem'[y][w[1]].p THEN mem'[y][w[1]].to ELSE NullAddr
      BY <2>1, Zenon DEF Descend
    <2>3. (x = NullAddr \/ (x \in Table /\ level[x] > 0)) /\ (y = x \/ (x = NullAddr /\ y = f))
      BY <1>7, <1>8, <2>1, Zenon
    <2>4. Y = X \/ (X = NullAddr /\ Y = f)
      BY <1>4, <1>6, <2>2, <2>3
    <2> QED BY <2>1, <2>4, Zenon
  <1> HIDE DEF t2
  <1>10. t3' = t3 \/ (t3 = NullAddr /\ t3' = f)
    <2>1. PICK x, y, X, Y : x = t2 /\ y = t2' /\ X = t3 /\ Y = t3'
      OBVIOUS
    <2>2. /\ X = IF x # NullAddr /\ mem[x][w[2]].p THEN mem[x][w[2]].to ELSE NullAddr
          /\ Y = IF y # NullAddr /\ mem'[y][w[2]].p THEN mem'[y][w[2]].to ELSE NullAddr
      BY <2>1, Zenon DEF Descend
    <2>3. (x = NullAddr \/ (x \in Table /\ level[x] > 0)) /\ (y = x \/ (x = NullAddr /\ y = f))
      BY <1>7, <1>9, <2>1, Zenon
    <2>4. Y = X \/ (X = NullAddr /\ Y = f)
      BY <1>4, <1>6, <2>2, <2>3
    <2> QED BY <2>1, <2>4, Zenon
  <1> HIDE DEF t3
  <1>11. t4' = t4 \/ (t4 = NullAddr /\ t4' = f)
    <2>1. PICK x, y, X, Y : x = t3 /\ y = t3' /\ X = t4 /\ Y = t4'
      OBVIOUS
    <2>2. /\ X = IF x # NullAddr /\ mem[x][w[3]].p THEN mem[x][w[3]].to ELSE NullAddr
          /\ Y = IF y # NullAddr /\ mem'[y][w[3]].p THEN mem'[y][w[3]].to ELSE NullAddr
      BY <2>1, Zenon DEF Descend
    <2>3. (x = NullAddr \/ (x \in Table /\ level[x] > 0)) /\ (y = x \/ (x = NullAddr /\ y = f))
      BY <1>7, <1>10, <2>1, Zenon
    <2>4. Y = X \/ (X = NullAddr /\ Y = f)
      BY <1>4, <1>6, <2>2, <2>3, SMTT(60)
    <2> QED BY <2>1, <2>4, Zenon
  <1> HIDE DEF t4
  <1>12. t4 # NullAddr => t4 \in Table \ {f, t}
    BY <1>1, <1>2, <1>7
  <1>13. /\ translate(g, w) = IF t4 # NullAddr /\ mem[t4][w[4]].p THEN mem[t4][w[4]] ELSE Zero
         /\ translate(g, w)' =
              IF t4' # NullAddr /\ mem'[t4'][w[4]].p THEN mem'[t4'][w[4]] ELSE Zero
    BY Zenon DEF translate, Walk, r, t2, t3, t4
  <1>14. t4 # NullAddr => mem'[t4] = mem[t4]
    BY <1>3, <1>12, Zenon
  <1> QED BY <1>4, <1>5, <1>11, <1>13, <1>14, Zenon

\* Entry e is written for page v to the page table t.
LeafWrite(t, v, e) == mem' = [mem EXCEPT ![t][v[4]] = e] /\ slots' = slots

\* A leaf write changes the translation of its own page, in its own space, and that of
\* no other user page.
LEMMA LeafViews ==
  ASSUME IInv, NEW h \in Handle, Live(h), NEW v \in Pages, NEW t \in Table,
         Walk(Root(h), v) = t, NEW e \in Entry, LeafWrite(t, v, e),
         NEW g \in Handle, Live(g), NEW w \in UserPages
  PROVE  /\ g = h /\ w = v => translate(g, w)' = IF e.p THEN e ELSE Zero
         /\ ~(g = h /\ w = v) => translate(g, w)' = translate(g, w)
  <1>1. w \in Pages /\ v[4] \in Idx /\ w[4] \in Idx /\ t # NullAddr
    BY ConstantsAssumption DEF UserPages
  <1>2. level[t] = 1
    BY <1>1, WalkEnd, Zenon
  <1>3. /\ mem'[t][v[4]] = e
        /\ \A j \in Idx \ {v[4]} : mem'[t][j] = mem[t][j]
        /\ \A x \in Table \ {t} : mem'[x] = mem[x]
    BY <1>1 DEF LeafWrite, IInv, TypeOK
  <1>4. \A x \in Directories : mem'[x] = mem[x]
    BY <1>2, <1>3 DEF Directories
  <1>5. Root(g)' = Root(g)
    BY DEF LeafWrite, Root
  <1>6. PICK p : p = Walk(Root(g), w) /\ p = Walk(Root(g), w)'
    BY <1>1, <1>4, <1>5, WalkSame, Zenon
  <1>7. /\ translate(g, w) = IF p # NullAddr /\ mem[p][w[4]].p THEN mem[p][w[4]] ELSE Zero
        /\ translate(g, w)' = IF p # NullAddr /\ mem'[p][w[4]].p THEN mem'[p][w[4]] ELSE Zero
    BY <1>6 DEF translate
  <1>8. CASE p = NullAddr
    BY <1>1, <1>6, <1>7, <1>8, Zenon
  <1>9. CASE p = t /\ w[4] = v[4]
    <2>1. Walk(Root(g), w) # NullAddr /\ Walk(Root(h), v) = Walk(Root(g), w)
      BY <1>1, <1>6, <1>9, Zenon
    <2>2. g = h /\ w[1] = v[1] /\ w[2] = v[2] /\ w[3] = v[3]
      BY <2>1, WalkUnique
    <2>3. w = v
      BY <1>1, <1>9, <2>2, ConstantsAssumption
    <2> QED BY <1>1, <1>3, <1>7, <1>9, <2>2, <2>3, Zenon
  <1>10. CASE p # NullAddr /\ ~(p = t /\ w[4] = v[4])
    <2>1. p \in Table
      BY <1>1, <1>6, <1>10, WalkEnd, Zenon
    <2>2. mem'[p][w[4]] = mem[p][w[4]]
      BY <1>1, <1>3, <1>10, <2>1
    <2>3. ~(g = h /\ w = v)
      BY <1>6, <1>10, Zenon
    <2> QED BY <1>7, <2>2, <2>3, Zenon
  <1> QED BY <1>8, <1>9, <1>10

\* Making a root changes no translation of the spaces that exist.
LEMMA NewViews ==
  ASSUME IInv, NEW f \in pool, NEW l \in {0, 4}, NEW s, NewStep(f, l, s),
         NEW g \in Handle, Live(g), NEW w \in Pages
  PROVE  Live(g)' /\ translate(g, w)' = translate(g, w)
  <1>1. /\ \A x \in Table \ {f} : mem'[x] = mem[x]
        /\ \A r \in Slot : \/ slots'[r] = slots[r]
                           \/ /\ r = s /\ l = 4 /\ ~slots[r].used
                              /\ slots'[r].used /\ slots'[r].pml4_phys = f
    BY NewEffects
  <1>2. level[f] = 0 /\ f \notin Directories
    BY FreshFrame, Zenon
  <1>3. \A x \in Directories : mem'[x] = mem[x]
    BY <1>1, <1>2 DEF Directories
  <1>4. Live(g)' /\ Root(g)' = Root(g)
    BY <1>1, ConstantsAssumption DEF Live, Root, Handle
  <1>5. PICK p : p = Walk(Root(g), w) /\ p = Walk(Root(g), w)'
    BY <1>3, <1>4, WalkSame, Zenon
  <1>6. p # NullAddr => p \in Table /\ level[p] = 1
    BY <1>5, WalkEnd, Zenon
  <1>7. p # NullAddr => mem'[p] = mem[p]
    BY <1>1, <1>2, <1>6
  <1>8. /\ translate(g, w) = IF p # NullAddr /\ mem[p][w[4]].p THEN mem[p][w[4]] ELSE Zero
        /\ translate(g, w)' = IF p # NullAddr /\ mem'[p][w[4]].p THEN mem'[p][w[4]] ELSE Zero
    BY <1>5, Zenon DEF translate
  <1> QED BY <1>4, <1>7, <1>8, Zenon

\* The new space maps no user page, and kernel pages as the kernel space does.
LEMMA NewSpaceViews ==
  ASSUME IInv, NEW f \in pool, NEW s \in Slot, NewStep(f, 4, s), NEW w \in Pages
  PROVE  /\ w \in UserPages => translate(s, w)' = Zero
         /\ w \notin UserPages => translate(s, w)' = translate(KAS, w)
  <1> USE ConstantsAssumption
  <1>1. /\ \A x \in Table \ {f} : mem'[x] = mem[x]
        /\ \A j \in Idx : mem'[f][j] = IF j \in KernelIdx THEN mem[BootRoot][j] ELSE Zero
    BY NewEffects
  <1>2. f \in Table /\ f # BootRoot
    BY FreshFrame, Zenon
  <1>3. w[1] \in Idx
    OBVIOUS
  <1>4. s # KAS /\ Root(s)' = f
    <2>1. slots'[s].pml4_phys = f
      BY <1>2 DEF NewStep, IInv, TypeOK
    <2> QED BY <2>1 DEF Root
  <1>5. ASSUME w \in UserPages PROVE translate(s, w)' = Zero
    <2>1. ~mem'[f][w[1]].p
      BY <1>1, <1>3, <1>5 DEF UserPages, Zero
    <2>2. Walk(Root(s), w)' = NullAddr
      BY <1>4, <2>1, Zenon DEF Walk, Descend
    <2> QED BY <2>2, Zenon DEF translate
  <1>6. ASSUME w \notin UserPages PROVE translate(s, w)' = translate(KAS, w)
    <2>1. mem'[f][w[1]] = mem[BootRoot][w[1]] /\ mem'[BootRoot][w[1]] = mem[BootRoot][w[1]]
      BY <1>1, <1>2, <1>3, <1>6, BootAssumption DEF UserPages
    <2>2. f # NullAddr /\ BootRoot # NullAddr /\ Root(KAS) = BootRoot /\ Root(KAS)' = BootRoot
      BY <1>2, BootAssumption DEF Root
    <2>3. Walk(Root(s), w)' = Walk(Root(KAS), w)'
      BY <1>4, <2>1, <2>2, Zenon DEF Walk, Descend
    <2>4. translate(s, w)' = translate(KAS, w)'
      BY <2>3, Zenon DEF translate
    <2>5. KAS \in Handle /\ Live(KAS)
      BY DEF Handle, Live
    <2>6. translate(KAS, w)' = translate(KAS, w)
      BY <2>5, NewViews
    <2> QED BY <2>4, <2>6
  <1> QED BY <1>5, <1>6

-----------------------------------------------------------------------------
\* A step seen through translate: it changes nothing; it gives page v of space h the
\* entry e; it makes space s; it removes space s.
Same(g) == Live(g)' = Live(g) /\ \A w \in UserPages : Live(g) => translate(g, w)' = translate(g, w)
Quiet == \A g \in Handle : Same(g)
Written(h, v, e) ==
  \A g \in Handle :
    /\ Live(g)' = Live(g)
    /\ \A w \in UserPages :
         Live(g) => translate(g, w)' = IF g = h /\ w = v THEN e ELSE translate(g, w)
Made(s) == /\ ~Live(s) /\ Live(s)' /\ \A w \in UserPages : translate(s, w)' = Zero
           /\ \A g \in Handle \ {s} : Same(g)
Gone(s) == Live(s) /\ ~Live(s)' /\ \A g \in Handle \ {s} : Same(g)

\* The write of the operation that c is in.
WroteLeaf(c, h, v, e) ==
  /\ op[c].kind # "idle" /\ op[c].h = h /\ op[c].v = v /\ Live(h) /\ Written(h, v, e)
  /\ \/ op[c].kind = "map" /\ ~translate(h, v).p /\ e.p
     \/ op[c].kind = "unmap" /\ e = Zero
     \/ op[c].kind = "protect" /\ e.p /\ e.to = op[c].to

\* What an operation without the lock saw when it walked is still there when it writes.
StillMapped(c) == /\ translate(op[c].h, op[c].v).p
                  /\ translate(op[c].h, op[c].v).to = op[c].to
OpsStillMapped ==
  \A c \in Cpus :
    op[c].kind \in {"unmap", "protect"} /\ op[c].v \in UserPages => StillMapped(c)

\* A step that touches neither tables nor slots is quiet.
LEMMA IdleQuiet ==
  ASSUME UNCHANGED <<mem, slots>> PROVE Quiet
  <1>1. ASSUME NEW g \in Handle PROVE Live(g)' = Live(g) /\ Root(g)' = Root(g)
    BY DEF Live, Root
  <1>2. ASSUME NEW g \in Handle, NEW w \in UserPages PROVE translate(g, w)' = translate(g, w)
    BY <1>1, Zenon DEF translate, Walk, Descend
  <1> QED BY <1>1, <1>2, Zenon DEF Quiet, Same

\* ensure_table is quiet.
LEMMA EnsureQuiet ==
  ASSUME IInv, NEW c \in Cpus, ensure_table(c)
  PROVE  Quiet
  <1>1. CASE mem' = mem
    <2>1. slots' = slots
      BY Zenon DEF ensure_table
    <2> QED BY <1>1, <2>1, IdleQuiet
  <1>2. CASE mem' # mem
    <2>1. op[c].kind = "map" /\ op[c].depth \in 1 .. 3
      BY Zenon DEF ensure_table
    <2>2. PICK h \in Handle, v \in Pages, d \in 1 .. 3, t \in Table :
             /\ StandsOn(c, h, v, d, t) /\ level[t] = 5 - d /\ v[d] \in Idx
             /\ op[c].h = h /\ op[c].v = v /\ op[c].depth = d /\ op[c].table = t
             /\ Live(h) /\ PathTo(Root(h), v, d) = t
             /\ \A b \in Cpus \ {c} : op[b].kind # "idle" => op[b].h # h
      BY <2>1, EnsurePlace, Zenon
    <2>3. PICK i \in Idx : i = v[d]
      BY <2>2
    <2>4. PICK f \in pool : /\ ~mem[t][i].p
                            /\ pool' = pool \ {f} /\ held' = held \cup {f}
                            /\ mem' = NewTable(t, i, f, "USER" \in op[c].flags)
                            /\ level' = [level EXCEPT ![f] = 4 - d]
                            /\ slots' = slots
      BY <1>2, <2>2, <2>3, Zenon DEF ensure_table
    <2>5. PICK e \in Entry : LinkStep(t, i, d, e, f)
      <3> DEFINE e == [p |-> TRUE, to |-> f,
                       bits |-> IF "USER" \in op[c].flags THEN {"W", "U"} ELSE {"W"}]
      <3>1. e \in Entry /\ IsLink(e) /\ e.to = f
        BY FreshFrame DEF Entry, PteBits, IsLink
      <3>2. mem' = [mem EXCEPT ![f] = ZeroFrame, ![t][i] = e]
        BY <2>4 DEF NewTable
      <3> HIDE DEF e
      <3>3. LinkStep(t, i, d, e, f)
        BY <2>2, <2>4, <3>1, <3>2, Zenon DEF LinkStep
      <3> QED BY <3>1, <3>3
    <2>6. \A g \in Handle, w \in UserPages : Live(g) => translate(g, w)' = translate(g, w)
      BY <2>5, LinkViews DEF UserPages
    <2>7. \A g \in Handle : Live(g)' = Live(g)
      BY <2>4 DEF Live
    <2> QED BY <2>6, <2>7, Zenon DEF Quiet, Same
  <1> QED BY <1>1, <1>2

\* The write of an entry, seen through translate.
LEMMA LeafWritten ==
  ASSUME IInv, NEW c \in Cpus, MapLeaf(c) \/ UnmapWrite(c) \/ ProtectWrite(c)
  PROVE  Quiet \/ \E h \in Handle, v \in Pages, e \in Entry : WroteLeaf(c, h, v, e)
  <1> USE ConstantsAssumption
  <1>1. op[c].kind # "idle" /\ (op[c].kind = "map" => op[c].depth = 4) /\ slots' = slots
    BY Zenon DEF MapLeaf, UnmapWrite, ProtectWrite
  <1>2. PICK h \in Handle, v \in Pages, d \in 1 .. 4, t \in Table : StandsOn(c, h, v, d, t)
    BY <1>1, OpTableLevel, Zenon
  <1>3. /\ op[c].h = h /\ op[c].v = v /\ op[c].table = t /\ Live(h)
        /\ Walk(Root(h), v) = t /\ t # NullAddr
    BY <1>1, <1>2 DEF StandsOn, PathTo
  <1>4. \A g \in Handle : Live(g)' = Live(g)
    BY <1>1 DEF Live
  <1>5. ASSUME NEW e \in Entry, mem' = [mem EXCEPT ![t][v[4]] = e]
        PROVE  Written(h, v, IF e.p THEN e ELSE Zero)
    <2>0. LeafWrite(t, v, e)
      BY <1>1, <1>5, Zenon DEF LeafWrite
    <2>1. ASSUME NEW g \in Handle, NEW w \in UserPages, Live(g)
          PROVE  /\ g = h /\ w = v => translate(g, w)' = IF e.p THEN e ELSE Zero
                 /\ ~(g = h /\ w = v) => translate(g, w)' = translate(g, w)
      BY <1>3, <2>0, <2>1, LeafViews
    <2> QED BY <1>4, <2>1, Zenon DEF Written
  <1>6. Zero \in Entry /\ ~Zero.p
    BY DEF Zero, Entry
  <1>7. PICK n : n = [p |-> TRUE, to |-> op[c].to, bits |-> flags_to_pte(op[c].flags)]
    BY Zenon
  <1>8. n \in Entry /\ n.p /\ n.to = op[c].to
    <2>1. op[c].to \in Table \cup PhysPages \cup {NullAddr}
      BY DEF IInv, TypeOK, Operation
    <2> QED BY <1>7, <2>1 DEF Entry, flags_to_pte
  <1>9. CASE MapLeaf(c)
    <2>1. CASE mem' = mem
      BY <1>1, <2>1, IdleQuiet
    <2>2. CASE mem' # mem
      <3>1. ~mem[t][v[4]].p /\ mem' = [mem EXCEPT ![t][v[4]] = n] /\ op[c].kind = "map"
        BY <1>3, <1>7, <1>9, <2>2, Zenon DEF MapLeaf
      <3>2. ~translate(h, v).p
        BY <1>3, <1>6, <3>1, Zenon DEF translate
      <3>3. Written(h, v, n)
        BY <1>5, <1>8, <3>1, Zenon
      <3>4. WroteLeaf(c, h, v, n)
        BY <1>3, <1>8, <3>1, <3>2, <3>3 DEF WroteLeaf
      <3> QED BY <1>8, <3>4
    <2> QED BY <2>1, <2>2
  <1>10. CASE UnmapWrite(c)
    <2>1. mem' = [mem EXCEPT ![t][v[4]] = Zero] /\ op[c].kind = "unmap"
      BY <1>3, <1>10, Zenon DEF UnmapWrite
    <2>2. Written(h, v, Zero)
      BY <1>5, <1>6, <2>1, Zenon
    <2>3. WroteLeaf(c, h, v, Zero)
      BY <1>3, <2>1, <2>2 DEF WroteLeaf
    <2> QED BY <1>6, <2>3
  <1>11. CASE ProtectWrite(c)
    <2>1. mem' = [mem EXCEPT ![t][v[4]] = n] /\ op[c].kind = "protect"
      BY <1>3, <1>7, <1>11, Zenon DEF ProtectWrite
    <2>2. Written(h, v, n)
      BY <1>5, <1>8, <2>1, Zenon
    <2>3. WroteLeaf(c, h, v, n)
      BY <1>3, <1>8, <2>1, <2>2 DEF WroteLeaf
    <2> QED BY <1>8, <2>3
  <1> QED BY <1>9, <1>10, <1>11

\* address_space_new, seen through translate.
LEMMA NewMade ==
  ASSUME IInv, NEW c \in Cpus, address_space_new(c)
  PROVE  Quiet \/ \E s \in Slot : Made(s)
  <1> USE ConstantsAssumption
  <1>1. PICK f \in pool :
          /\ pool' = pool \ {f} /\ held' = held \cup {f}
          /\ mem' = [mem EXCEPT ![f] = NewPml4]
          /\ \/ \E s \in Slot :
                  /\ FirstUnused(s)
                  /\ slots' = [slots EXCEPT ![s] = [used |-> TRUE, pml4_phys |-> f]]
                  /\ level' = [level EXCEPT ![f] = 4]
             \/ UNCHANGED <<slots, level>>
          /\ UNCHANGED <<lock, op>>
    BY Zenon DEF address_space_new
  <1>2. CASE UNCHANGED <<slots, level>>
    <2>1. level' = [level EXCEPT ![f] = 0]
      <3>1. f \in Table /\ level[f] = 0
        BY FreshFrame, Zenon
      <3> QED BY <1>2, <3>1 DEF IInv, TypeOK
    <2>2. NewStep(f, 0, 0)
      BY <1>1, <1>2, <2>1, Zenon DEF NewStep
    <2>3. \A g \in Handle, w \in UserPages : Live(g) => translate(g, w)' = translate(g, w)
      BY <2>2, NewViews DEF UserPages
    <2>4. \A g \in Handle : Live(g)' = Live(g)
      BY <1>2 DEF Live
    <2> QED BY <2>3, <2>4, Zenon DEF Quiet, Same
  <1>3. ASSUME NEW s \in Slot, FirstUnused(s),
               slots' = [slots EXCEPT ![s] = [used |-> TRUE, pml4_phys |-> f]],
               level' = [level EXCEPT ![f] = 4]
        PROVE  Made(s)
    <2>1. ~slots[s].used /\ NewStep(f, 4, s)
      BY <1>1, <1>3, Zenon DEF NewStep, FirstUnused
    <2>2. \A w \in UserPages : translate(s, w)' = Zero
      BY <2>1, NewSpaceViews DEF UserPages
    <2>3. \A g \in Handle, w \in UserPages : Live(g) => translate(g, w)' = translate(g, w)
      BY <2>1, NewViews DEF UserPages
    <2>4. /\ ~Live(s) /\ Live(s)' /\ \A g \in Handle \ {s} : Live(g)' = Live(g)
      BY <1>3, <2>1 DEF Live, IInv, TypeOK
    <2> QED BY <2>2, <2>3, <2>4, Zenon DEF Made, Same
  <1> QED BY <1>1, <1>2, <1>3, Zenon

\* address_space_destroy, seen through translate.
LEMMA DestroyGone ==
  ASSUME IInv, NEW c \in Cpus, NEW s \in Slot, address_space_destroy(c, s)
  PROVE  Gone(s)
  <1> USE ConstantsAssumption
  <1>1. /\ Live(s) /\ mem' = mem
        /\ slots' = [slots EXCEPT ![s] = [used |-> FALSE, pml4_phys |-> NullAddr]]
    BY DEF address_space_destroy, CanStart
  <1>2. ~Live(s)' /\ \A g \in Handle \ {s} : Live(g)' = Live(g) /\ Root(g)' = Root(g)
    BY <1>1 DEF Live, Root, IInv, TypeOK
  <1>3. ASSUME NEW g \in Handle \ {s}, NEW w \in UserPages
        PROVE  translate(g, w)' = translate(g, w)
    BY <1>1, <1>2, ZenonT(60) DEF translate, Walk, Descend
  <1> QED BY <1>1, <1>2, <1>3, Zenon DEF Gone, Same

-----------------------------------------------------------------------------
\* An operation that a step leaves alone keeps seeing its page mapped.
LEMMA KeepsMapped ==
  ASSUME IInv, OpsStillMapped, NEW d \in Cpus, op'[d] = op[d],
         op[d].kind \in {"unmap", "protect"}, op[d].v \in UserPages,
         NEW g \in Handle, g = op[d].h, Same(g)
  PROVE  StillMapped(d)'
  <1>1. PICK w \in UserPages : w = op[d].v /\ Live(g)
    BY DEF IInv, OpsOnPath, OnPath, StandsOn
  <1>2. translate(g, w).p /\ translate(g, w).to = op[d].to
    BY <1>1, Zenon DEF OpsStillMapped, StillMapped
  <1>3. translate(g, w)' = translate(g, w)
    BY <1>1 DEF Same
  <1>4. op'[d].h = g /\ op'[d].v = w
    BY <1>1, Zenon
  <1> QED BY <1>2, <1>3, <1>4 DEF StillMapped

\* The same over a quiet step, for every operation but that of c.
LEMMA QuietKeeps ==
  ASSUME IInv, OpsStillMapped, Quiet, NEW c \in Cpus,
         \A d \in Cpus \ {c} : op'[d] = op[d],
         op'[c].kind \in {"unmap", "protect"} /\ op'[c].v \in UserPages => StillMapped(c)'
  PROVE  OpsStillMapped'
  <1> SUFFICES ASSUME NEW d \in Cpus, op'[d].kind \in {"unmap", "protect"},
                      op'[d].v \in UserPages
               PROVE  StillMapped(d)'
    BY Zenon DEF OpsStillMapped
  <1>1. CASE d # c
    <2>1. op'[d] = op[d] /\ op[d].kind # "idle"
      BY <1>1
    <2>2. PICK g \in Handle : g = op[d].h
      BY <2>1 DEF IInv, OpsOnPath, OnPath, StandsOn
    <2>3. Same(g)
      BY Zenon DEF Quiet
    <2> QED BY <2>1, <2>2, <2>3, KeepsMapped, Zenon
  <1> QED BY <1>1

\* Every step keeps what the operations without the lock saw.
LEMMA NextStillMapped == IInv /\ OpsStillMapped /\ [Next]_vars => OpsStillMapped'
  <1> SUFFICES ASSUME IInv, OpsStillMapped, [Next]_vars PROVE OpsStillMapped'
    OBVIOUS
  <1> USE ConstantsAssumption
  <1>1. ASSUME NEW c \in Cpus, ensure_table(c) PROVE OpsStillMapped'
    <2>1. Quiet
      BY <1>1, EnsureQuiet, Zenon
    <2>2. /\ \A d \in Cpus \ {c} : op'[d] = op[d]
          /\ op'[c].kind \in {"map", "idle"}
      <3>1. op[c].kind = "map" /\ ((\E x : MapTo(c, x)) \/ Return(c))
        BY <1>1, Zenon DEF ensure_table
      <3>2. op \in [Cpus -> Operation]
        BY DEF IInv, TypeOK
      <3>3. CASE Return(c)
        BY <3>2, <3>3 DEF Return, Idle
      <3>4. ASSUME NEW x, MapTo(c, x)
            PROVE  (\A d \in Cpus \ {c} : op'[d] = op[d]) /\ op'[c].kind = op[c].kind
        BY <3>2, <3>4 DEF MapTo, Operation
      <3> QED BY <3>1, <3>3, <3>4
    <2> QED BY <2>1, <2>2, QuietKeeps
  <1>2. ASSUME NEW c \in Cpus, MapLeaf(c) \/ UnmapWrite(c) \/ ProtectWrite(c)
        PROVE  OpsStillMapped'
    <2>1. (\A d \in Cpus \ {c} : op'[d] = op[d]) /\ op'[c].kind = "idle"
      <3>1. Return(c)
        BY <1>2, Zenon DEF MapLeaf, UnmapWrite, ProtectWrite
      <3>2. op \in [Cpus -> Operation]
        BY DEF IInv, TypeOK
      <3> QED BY <3>1, <3>2 DEF Return, Idle
    <2>2. CASE Quiet
      BY <2>1, <2>2, QuietKeeps
    <2>3. ASSUME NEW h \in Handle, NEW v \in Pages, NEW e \in Entry, WroteLeaf(c, h, v, e)
          PROVE  OpsStillMapped'
      <3> SUFFICES ASSUME NEW d \in Cpus, op'[d].kind \in {"unmap", "protect"},
                          op'[d].v \in UserPages
                   PROVE  StillMapped(d)'
        BY Zenon DEF OpsStillMapped
      <3>1. d # c /\ op'[d] = op[d] /\ op[d].kind # "idle"
        BY <2>1, SMTT(60)
      <3>2. PICK g \in Handle : g = op[d].h
        BY <3>1 DEF IInv, OpsOnPath, OnPath, StandsOn
      <3>3. op[c].kind # "idle" /\ op[c].h = h /\ Written(h, v, e)
        BY <2>3, Zenon DEF WroteLeaf
      <3>4. g # h
        BY <3>1, <3>2, <3>3, ZenonT(60) DEF IInv, Exclusive
      <3>5. Same(g)
        BY <3>3, <3>4 DEF Written, Same
      <3> QED BY <3>1, <3>2, <3>5, KeepsMapped, Zenon
    <2> QED BY <1>2, <2>2, <2>3, LeafWritten, ZenonT(60)
  <1>3. ASSUME op' = op,
               \A d \in Cpus, g \in Handle : op[d].kind # "idle" /\ op[d].h = g /\ Live(g) => Same(g)
        PROVE  OpsStillMapped'
    <2> SUFFICES ASSUME NEW d \in Cpus, op[d].kind \in {"unmap", "protect"},
                        op[d].v \in UserPages
                 PROVE  StillMapped(d)'
      BY <1>3, Zenon DEF OpsStillMapped
    <2>1. op[d].kind # "idle"
      OBVIOUS
    <2>2. PICK g \in Handle : g = op[d].h /\ Live(g)
      BY <2>1 DEF IInv, OpsOnPath, OnPath, StandsOn
    <2>3. Same(g) /\ op'[d] = op[d]
      BY <1>3, <2>1, <2>2, Zenon
    <2> QED BY <2>2, <2>3, KeepsMapped, Zenon
  <1>4. ASSUME NEW c \in Cpus, address_space_new(c) PROVE OpsStillMapped'
    <2>1. op' = op
      BY <1>4, Zenon DEF address_space_new
    <2>2. \A g \in Handle : Live(g) => Same(g)
      BY <1>4, NewMade, Zenon DEF Quiet, Made
    <2> QED BY <1>3, <2>1, <2>2, Zenon
  <1>5. ASSUME NEW c \in Cpus, NEW s \in Slot, address_space_destroy(c, s) PROVE OpsStillMapped'
    <2>1. op' = op /\ \A d \in Cpus : op[d].kind # "idle" => op[d].h # s
      BY <1>5, Zenon DEF address_space_destroy, CanStart, Borrowed
    <2>2. \A g \in Handle \ {s} : Same(g)
      BY <1>5, DestroyGone, Zenon DEF Gone
    <2>3. \A d \in Cpus, g \in Handle : op[d].kind # "idle" /\ op[d].h = g => g \in Handle \ {s}
      BY <2>1
    <2> QED BY <1>3, <2>1, <2>2, <2>3, Zenon
  <1>6. ASSUME NEW c \in Cpus, NEW h \in Handle, NEW v \in Pages, NEW to, NEW flags,
               MapBegin(c, h, v, to, flags)
        PROVE  OpsStillMapped'
    <2>1. Quiet
      BY <1>6, IdleQuiet DEF MapBegin
    <2>2. (\A d \in Cpus \ {c} : op'[d] = op[d]) /\ op'[c].kind = "map"
      BY <1>6 DEF MapBegin, IInv, TypeOK
    <2> QED BY <2>1, <2>2, QuietKeeps
  <1>7. ASSUME NEW c \in Cpus, NEW h \in Handle, NEW v \in Pages, NEW flags, NEW kind,
               WalkBegin(c, kind, h, v, flags)
        PROVE  OpsStillMapped'
    <2>1. Quiet
      BY <1>7, IdleQuiet, SMTT(60) DEF WalkBegin
    <2>2. /\ \A d \in Cpus \ {c} : op'[d] = op[d]
          /\ op'[c].h = h /\ op'[c].v = v /\ op'[c].to = mem[Walk(Root(h), v)][v[4]].to
      BY <1>7 DEF WalkBegin, IInv, TypeOK
    <2>3. Live(h) /\ translate(h, v) = mem[Walk(Root(h), v)][v[4]] /\ translate(h, v).p
      BY <1>7, Zenon DEF WalkBegin, CanStart, translate
    <2>4. v \in UserPages => translate(h, v)' = translate(h, v)
      BY <2>1, <2>3, ZenonT(60) DEF Quiet, Same
    <2>5. v \in UserPages => StillMapped(c)'
      BY <2>2, <2>3, <2>4 DEF StillMapped
    <2> QED BY <2>1, <2>2, <2>5, QuietKeeps, Zenon
  <1>8. CASE UNCHANGED vars
    <2>1. op' = op /\ Quiet
      BY <1>8, IdleQuiet DEF vars
    <2> QED BY <1>3, <2>1, Zenon DEF Quiet
  <1> QED BY <1>1, <1>2, <1>4, <1>5, <1>6, <1>7, <1>8, Zenon DEF Next, Continue

-----------------------------------------------------------------------------
\* What the live spaces map their user pages to: the value of Views!view.
UserView == [h \in Handle |-> [v \in UserPages |-> IF Live(h) THEN translate(h, v) ELSE Zero]]
LiveSpaces == {h \in Handle : Live(h)}

\* A space that a step leaves alone keeps its part of the view.
LEMMA SameView ==
  ASSUME NEW g \in Handle, Same(g)
  PROVE  UserView'[g] = UserView[g] /\ (g \in LiveSpaces' <=> g \in LiveSpaces)
  <1>1. Live(g)' = Live(g) /\ \A w \in UserPages : Live(g) => translate(g, w)' = translate(g, w)
    BY DEF Same
  <1>2. UserView[g] = [w \in UserPages |-> IF Live(g) THEN translate(g, w) ELSE Zero]
    BY DEF UserView
  <1>3. UserView'[g] = [w \in UserPages |-> IF Live(g)' THEN translate(g, w)' ELSE Zero]
    BY DEF UserView
  <1>4. UserView'[g] = UserView[g]
    BY <1>1, <1>2, <1>3
  <1> QED BY <1>1, <1>4 DEF LiveSpaces

\* A quiet step changes nothing of what AddressSpaces speaks of.
LEMMA QuietView ==
  ASSUME Quiet PROVE UserView' = UserView /\ LiveSpaces' = LiveSpaces
  <1>1. \A g \in Handle : UserView'[g] = UserView[g] /\ (g \in LiveSpaces' <=> g \in LiveSpaces)
    BY SameView DEF Quiet
  <1>2. /\ UserView = [g \in Handle |-> UserView[g]]
        /\ UserView' = [g \in Handle |-> UserView'[g]]
    BY DEF UserView
  <1>3. LiveSpaces \subseteq Handle /\ LiveSpaces' \subseteq Handle
    BY DEF LiveSpaces
  <1>4. UserView' = UserView
    BY <1>1, <1>2
  <1> QED BY <1>1, <1>3, <1>4

\* Making a space is address_space_new of AddressSpaces.
LEMMA MadeView ==
  ASSUME IInv, NEW s \in Slot, Made(s)
  PROVE  Views!address_space_new(s)
  <1>1. s \in Handle /\ ~Live(s) /\ Live(s)'
    BY DEF Made, Handle
  <1>2. \A g \in Handle \ {s} : UserView'[g] = UserView[g] /\ (g \in LiveSpaces' <=> g \in LiveSpaces)
    BY SameView DEF Made
  <1>3. UserView'[s] = UserView[s]
    <2>1. UserView[s] = [w \in UserPages |-> IF Live(s) THEN translate(s, w) ELSE Zero]
      BY <1>1 DEF UserView
    <2>2. UserView'[s] = [w \in UserPages |-> IF Live(s)' THEN translate(s, w)' ELSE Zero]
      BY <1>1 DEF UserView
    <2>3. \A w \in UserPages : translate(s, w)' = Zero
      BY DEF Made
    <2> QED BY <1>1, <2>1, <2>2, <2>3
  <1>4. UserView' = UserView
    <2>1. /\ UserView = [g \in Handle |-> UserView[g]]
          /\ UserView' = [g \in Handle |-> UserView'[g]]
      BY DEF UserView
    <2> QED BY <1>2, <1>3, <2>1
  <1>5. s \notin LiveSpaces /\ LiveSpaces' = LiveSpaces \cup {s}
    <2>1. s \notin LiveSpaces /\ s \in LiveSpaces' /\ LiveSpaces \subseteq Handle
          /\ LiveSpaces' \subseteq Handle
      BY <1>1 DEF LiveSpaces
    <2> QED BY <1>2, <2>1
  <1> QED BY <1>4, <1>5, Zenon DEF Views!address_space_new, UserView, LiveSpaces

\* Removing a space is address_space_destroy of AddressSpaces.
LEMMA GoneView ==
  ASSUME IInv, NEW s \in Slot, Gone(s)
  PROVE  Views!address_space_destroy(s)
  <1>1. s \in Handle /\ Live(s) /\ ~Live(s)'
    BY DEF Gone, Handle
  <1>2. \A g \in Handle \ {s} : UserView'[g] = UserView[g] /\ (g \in LiveSpaces' <=> g \in LiveSpaces)
    BY SameView DEF Gone
  <1>3. UserView'[s] = [w \in UserPages |-> Zero]
    <2>1. UserView'[s] = [w \in UserPages |-> IF Live(s)' THEN translate(s, w)' ELSE Zero]
      BY <1>1 DEF UserView
    <2> QED BY <1>1, <2>1
  <1>4. UserView' = [UserView EXCEPT ![s] = [w \in UserPages |-> Zero]]
    <2>1. /\ UserView = [g \in Handle |-> UserView[g]]
          /\ UserView' = [g \in Handle |-> UserView'[g]]
      BY DEF UserView
    <2> HIDE DEF UserView
    <2> QED BY <1>1, <1>2, <1>3, <2>1
  <1>5. s \in LiveSpaces /\ LiveSpaces' = LiveSpaces \ {s}
    <2>1. s \in LiveSpaces /\ s \notin LiveSpaces' /\ LiveSpaces \subseteq Handle
          /\ LiveSpaces' \subseteq Handle
      BY <1>1 DEF LiveSpaces
    <2> QED BY <1>2, <2>1
  <1> QED BY <1>4, <1>5, Zenon DEF Views!address_space_destroy, UserView, LiveSpaces

\* The write of an entry is an update of AddressSpaces, or, on a kernel page, changes
\* nothing of what it speaks of.
LEMMA WroteView ==
  ASSUME IInv, OpsStillMapped, NEW c \in Cpus, NEW h \in Handle, NEW v \in Pages,
         NEW e \in Entry, WroteLeaf(c, h, v, e)
  PROVE  Quiet \/ (v \in UserPages /\ Views!Update(h, v))
  <1>1. op[c].h = h /\ op[c].v = v /\ Live(h) /\ Written(h, v, e)
    BY Zenon DEF WroteLeaf
  <1>2. CASE v \notin UserPages
    <2>1. \A w \in UserPages : w # v
      BY <1>2
    <2> QED BY <1>1, <2>1, Zenon DEF Written, Quiet, Same
  <1>3. CASE v \in UserPages
    <2>1. Live(h)' /\ translate(h, v)' = e
      BY <1>1, <1>3 DEF Written
    <2>2. UserView[h][v] = translate(h, v) /\ UserView'[h][v] = e
      <3>1. UserView[h][v] = IF Live(h) THEN translate(h, v) ELSE Zero
        BY <1>3 DEF UserView
      <3>2. UserView'[h][v] = IF Live(h)' THEN translate(h, v)' ELSE Zero
        BY <1>3 DEF UserView
      <3> QED BY <1>1, <2>1, <3>1, <3>2, Zenon
    <2>3. \A g \in Handle \ {h} : UserView'[g] = UserView[g]
      <3>1. \A g \in Handle \ {h} : Same(g)
        BY <1>1 DEF Written, Same
      <3> QED BY <3>1, SameView
    <2>4. \A w \in UserPages \ {v} : UserView'[h][w] = UserView[h][w]
      <3> SUFFICES ASSUME NEW w \in UserPages \ {v} PROVE UserView'[h][w] = UserView[h][w]
        OBVIOUS
      <3>1. translate(h, w)' = translate(h, w)
        BY <1>1 DEF Written
      <3>2. UserView[h][w] = IF Live(h) THEN translate(h, w) ELSE Zero
        BY DEF UserView
      <3>3. UserView'[h][w] = IF Live(h)' THEN translate(h, w)' ELSE Zero
        BY DEF UserView
      <3> QED BY <1>1, <2>1, <3>1, <3>2, <3>3, Zenon
    <2>5. UserView' = [UserView EXCEPT ![h][v] = UserView'[h][v]]
      <3>1. /\ UserView = [g \in Handle |-> UserView[g]]
            /\ UserView' = [g \in Handle |-> UserView'[g]]
            /\ UserView[h] = [w \in UserPages |-> UserView[h][w]]
            /\ UserView'[h] = [w \in UserPages |-> UserView'[h][w]]
        BY DEF UserView
      <3>2. UserView'[h] = [UserView[h] EXCEPT ![v] = UserView'[h][v]]
        BY <2>4, <3>1, Zenon
      <3> QED BY <2>3, <3>1, <3>2
    <2>6. h \in LiveSpaces /\ LiveSpaces' = LiveSpaces
      BY <1>1 DEF Written, LiveSpaces
    <2>7. \/ ~UserView[h][v].p /\ e.p
          \/ UserView[h][v].p /\ e = Zero
          \/ UserView[h][v].p /\ e.p /\ e.to = UserView[h][v].to
      <3>1. op[c].kind \in {"unmap", "protect"}
              => translate(h, v).p /\ translate(h, v).to = op[c].to
        BY <1>1, <1>3, Zenon DEF OpsStillMapped, StillMapped
      <3>2. \/ op[c].kind = "map" /\ ~translate(h, v).p /\ e.p
            \/ op[c].kind = "unmap" /\ e = Zero
            \/ op[c].kind = "protect" /\ e.p /\ e.to = op[c].to
        BY Zenon DEF WroteLeaf
      <3> QED BY <2>2, <3>1, <3>2
    <2>8. \/ ~UserView[h][v].p /\ UserView'[h][v].p
          \/ UserView[h][v].p /\ UserView'[h][v] = Zero
          \/ UserView[h][v].p /\ UserView'[h][v].p /\ UserView'[h][v].to = UserView[h][v].to
      BY <2>2, <2>7, Zenon
    <2>9. Views!Update(h, v)
      BY <2>5, <2>6, <2>8, Zenon
         DEF Views!Update, Views!map_4k, Views!unmap_4k, Views!protect_4k, UserView, LiveSpaces
    <2> QED BY <1>3, <2>9
  <1> QED BY <1>2, <1>3

\* Every step of the MMU is a step of AddressSpaces, or none.
LEMMA ViewStep == IInv /\ OpsStillMapped /\ [Next]_vars => [Views!Next]_(Views!vars)
  <1> SUFFICES ASSUME IInv, OpsStillMapped, [Next]_vars
               PROVE  Views!Next \/ Quiet
    BY QuietView, Zenon DEF Views!vars, UserView, LiveSpaces
  <1>1. ASSUME NEW c \in Cpus, ensure_table(c) PROVE Quiet
    BY <1>1, EnsureQuiet, Zenon
  <1>2. ASSUME NEW c \in Cpus, MapLeaf(c) \/ UnmapWrite(c) \/ ProtectWrite(c)
        PROVE  Views!Next \/ Quiet
    BY <1>2, LeafWritten, WroteView, Zenon DEF Views!Next
  <1>3. ASSUME NEW c \in Cpus, address_space_new(c) PROVE Views!Next \/ Quiet
    <2>1. \A s \in Slot : s \in Handle
      BY DEF Handle
    <2> QED BY <1>3, <2>1, NewMade, MadeView, Zenon DEF Views!Next
  <1>4. ASSUME NEW c \in Cpus, NEW s \in Slot, address_space_destroy(c, s) PROVE Views!Next
    <2>1. s \in Handle
      BY DEF Handle
    <2> QED BY <1>4, <2>1, DestroyGone, GoneView, Zenon DEF Views!Next
  <1>5. ASSUME NEW c \in Cpus, NEW h \in Handle, NEW v \in Pages,
               \/ \E to \in PhysPages, flags \in FlagSets : MapBegin(c, h, v, to, flags)
               \/ WalkBegin(c, "unmap", h, v, {})
               \/ \E flags \in FlagSets : WalkBegin(c, "protect", h, v, flags)
        PROVE  Quiet
    BY <1>5, IdleQuiet, Zenon DEF MapBegin, WalkBegin
  <1>6. CASE UNCHANGED vars
    BY <1>6, IdleQuiet DEF vars
  <1> QED BY <1>1, <1>2, <1>3, <1>4, <1>5, <1>6, Zenon DEF Next, Continue

\* The user halves of the address spaces behave as independent functions from pages to
\* entries, for any number of CPUs, frames, spaces and table entries and although
\* unmap_4k and protect_4k hold no lock: a space is born empty, and every operation
\* changes one page of one space (crates/hal/src/mmu.rs, trait Mmu).
THEOREM MmuImplementsAddressSpaces ==
  ASSUME BootTablesOutsidePool, NoPageInLarge PROVE Spec => ImplementsAddressSpaces
  <1>1. Init => Views!Init
    BY SMTT(60) DEF Views!Init
  <1>2. Init => OpsStillMapped
    BY DEF Init, OpsStillMapped, Idle
  <1>3. IInv /\ OpsStillMapped /\ [Next]_vars => OpsStillMapped'
    BY NextStillMapped
  <1>4. IInv /\ OpsStillMapped /\ [Next]_vars => [Views!Next]_(Views!vars)
    BY ViewStep
  <1> QED BY <1>1, <1>2, <1>3, <1>4, Invariance, PTL
          DEF Spec, ImplementsAddressSpaces, Views!Spec

-----------------------------------------------------------------------------
\* A slot comes into use only in address_space_new, with the kernel half in place.
LEMMA SlotTaken ==
  ASSUME IInv, [Next]_vars, NEW s \in Slot, ~slots[s].used, slots'[s].used, NEW w \in Pages
  PROVE  w \notin UserPages => translate(s, w)' = translate(KAS, w)
  <1>1. CASE slots' = slots
    BY <1>1, SMTT(60)
  <1>2. ASSUME NEW c \in Cpus, address_space_new(c)
        PROVE  w \notin UserPages => translate(s, w)' = translate(KAS, w)
    <2>1. PICK f \in pool :
            /\ pool' = pool \ {f} /\ held' = held \cup {f}
            /\ mem' = [mem EXCEPT ![f] = NewPml4]
            /\ \/ \E q \in Slot :
                    /\ FirstUnused(q)
                    /\ slots' = [slots EXCEPT ![q] = [used |-> TRUE, pml4_phys |-> f]]
                    /\ level' = [level EXCEPT ![f] = 4]
               \/ slots' = slots
            /\ UNCHANGED <<lock, op>>
      BY <1>2, Zenon DEF address_space_new
    <2>2. PICK q \in Slot :
            /\ FirstUnused(q)
            /\ slots' = [slots EXCEPT ![q] = [used |-> TRUE, pml4_phys |-> f]]
            /\ level' = [level EXCEPT ![f] = 4]
      BY <1>1, <2>1, Zenon
    <2>3. q = s
      BY <2>2 DEF IInv, TypeOK
    <2>4. NewStep(f, 4, s)
      BY <2>1, <2>2, <2>3, Zenon DEF NewStep, FirstUnused
    <2> QED BY <2>4, NewSpaceViews
  <1>3. ASSUME NEW c \in Cpus, NEW q \in Slot, address_space_destroy(c, q) PROVE FALSE
    <2>1. slots' = [slots EXCEPT ![q] = [used |-> FALSE, pml4_phys |-> NullAddr]]
      BY <1>3, Zenon DEF address_space_destroy
    <2>2. s # q => slots'[s] = slots[s]
      BY <2>1 DEF IInv, TypeOK
    <2>3. ~slots'[q].used
      BY <2>1 DEF IInv, TypeOK
    <2> QED BY <2>2, <2>3
  <1>4. \/ slots' = slots
        \/ \E c \in Cpus : address_space_new(c)
        \/ \E c \in Cpus, q \in Slot : address_space_destroy(c, q)
    <2>1. ASSUME NEW c \in Cpus, Continue(c) PROVE slots' = slots
      BY <2>1, Zenon DEF Continue, ensure_table, MapLeaf, UnmapWrite, ProtectWrite
    <2>2. ASSUME NEW c \in Cpus, NEW h \in Handle, NEW v \in Pages,
                 \/ \E to \in PhysPages, flags \in FlagSets : MapBegin(c, h, v, to, flags)
                 \/ WalkBegin(c, "unmap", h, v, {})
                 \/ \E flags \in FlagSets : WalkBegin(c, "protect", h, v, flags)
          PROVE  slots' = slots
      BY <2>2, Zenon DEF MapBegin, WalkBegin
    <2>3. CASE UNCHANGED vars
      BY <2>3 DEF vars
    <2> QED BY <2>1, <2>2, <2>3, Zenon DEF Next
  <1> QED BY <1>1, <1>2, <1>3, <1>4, Zenon

\* A new address space maps every kernel page as the kernel space does when the call is
\* made, whatever the kernel root holds by then (address_space_new, mmu.rs:353-377).
THEOREM NewSpacesInheritKernel ==
  ASSUME BootTablesOutsidePool, NoPageInLarge PROVE Spec => NewSpaceInheritsKernel
  <1> DEFINE A == \A s \in Slot :
                    ~slots[s].used /\ slots'[s].used
                      => \A v \in Pages \ UserPages : translate(s, v)' = translate(KAS, v)
  <1>1. IInv /\ [Next]_vars => A
    BY SlotTaken
  <1> QED BY <1>1, Invariance, PTL DEF Spec, NewSpaceInheritsKernel

\* What ensure_table returns to map_4k is a table of the next level (mmu.rs:257), as long
\* as no client names a page that the boot loader mapped by a large page.
THEOREM EnsureReturnsTables ==
  ASSUME BootTablesOutsidePool, NoPageInLarge PROVE Spec => []EnsureReturnsTable
  <1>1. IInv => EnsureReturnsTable
    <2> SUFFICES ASSUME IInv, NEW c \in Cpus, op[c].kind = "map"
                 PROVE  level[op[c].table] = 5 - op[c].depth
      BY DEF EnsureReturnsTable
    <2> QED BY OpTableLevel, SMTT(60) DEF StandsOn
  <1> QED BY <1>1, Invariance, PTL
=============================================================================
