---------------------------- MODULE X86MmuProofs ----------------------------
(***************************************************************************)
(* Theorems about the page tables for any number of CPUs, frames, slots    *)
(* and table entries, when the boot loader's tables lie outside the memory *)
(* the allocator hands out (BootTablesOutsidePool) and clients name no     *)
(* page that it mapped by a large page (NoPageInLarge).  That no frame is  *)
(* lost takes one premise more: that they name no kernel page whose root   *)
(* entry it left empty (NoPageInEmptyEntry).                               *)
(***************************************************************************)
EXTENDS X86MmuOps

USE DEF Table

\* First the steps that make a table: ensure_table, which links one, and
\* address_space_new, which makes a root.

\* Frame f becomes a zeroed table, linked by entry e at the empty index i of the
\* table t, which is at depth d.
LinkStep(t, i, d, e, f) ==
  /\ level[t] = 5 - d /\ ~mem[t][i].p /\ IsLink(e) /\ e.to = f
  /\ pool' = pool \ {f} /\ held' = held \cup {f}
  /\ mem' = [mem EXCEPT ![f] = ZeroFrame, ![t][i] = e]
  /\ level' = [level EXCEPT ![f] = 4 - d]
  /\ slots' = slots

\* The tables after such a step.
LEMMA LinkTables ==
  ASSUME IInv, NEW t \in Table, NEW i \in Idx, NEW d \in 1 .. 3,
         NEW e \in Entry, NEW f \in pool, LinkStep(t, i, d, e, f)
  PROVE  /\ TablesInv' /\ DirectoriesKept
         /\ mem' \in [Table -> [Idx -> Entry]] /\ level' \in [Table -> 0 .. 4]
         /\ mem'[t][i].p /\ mem'[t][i].to = f
  <1>0. /\ level[t] = 5 - d /\ IsLink(e) /\ e.p /\ e.to = f
        /\ pool' = pool \ {f} /\ held' = held \cup {f}
        /\ level' = [level EXCEPT ![f] = 4 - d] /\ slots' = slots
    BY DEF LinkStep, IsLink
  <1>1. /\ f \in Frames /\ f \in Table /\ f \notin held /\ f \notin BootTables /\ level[f] = 0
        /\ f \notin Directories /\ f # BootRoot
        /\ \A x \in Directories, j \in Idx : IsLink(mem[x][j]) => mem[x][j].to # f
        /\ \A s \in Slot : slots[s].used => slots[s].pml4_phys # f
    BY FreshFrame
  <1>2. e \in Entry /\ e.p /\ e.to = f
    BY <1>0
  <1>3. ZeroFrame \in [Idx -> Entry] /\ \A j \in Idx : ~ZeroFrame[j].p
    BY DEF ZeroFrame, Zero, Entry
  <1>4. t # f /\ t \in Directories /\ ~mem[t][i].p
    BY <1>0, <1>1 DEF Directories, LinkStep
  <1>5. mem' = [mem EXCEPT ![f] = ZeroFrame, ![t][i] = e]
    BY DEF LinkStep
  <1>6. mem \in [Table -> [Idx -> Entry]] /\ level \in [Table -> 0 .. 4]
    BY DEF IInv, TypeOK
  <1>7. /\ mem' \in [Table -> [Idx -> Entry]]
        /\ mem'[f] = ZeroFrame
        /\ mem'[t][i] = e
        /\ \A j \in Idx \ {i} : mem'[t][j] = mem[t][j]
        /\ \A x \in Table \ {f, t} : mem'[x] = mem[x]
    BY <1>1, <1>2, <1>3, <1>4, <1>5, <1>6, Zenon
  <1>8. /\ level' \in [Table -> 0 .. 4] /\ level'[f] = 4 - d
        /\ \A x \in Table \ {f} : level'[x] = level[x]
    BY <1>0, <1>1, <1>6
  <1>9. \A x \in Directories' : x = f \/ x \in Directories
    BY <1>8 DEF Directories
  \* A present entry of a directory is an old one or the new link.
  <1>10. \A x \in Directories', j \in Idx :
           mem'[x][j].p => \/ x = t /\ j = i /\ mem'[x][j] = e
                           \/ x \in Directories /\ x # f /\ mem[x][j].p /\ mem'[x][j] = mem[x][j]
    BY <1>1, <1>3, <1>7, <1>9 DEF Directories
  <1>11. DirectoriesKept
    BY <1>1, <1>4, <1>7 DEF DirectoriesKept, Directories
  <1>12. EntriesLeadDown'
    <2> SUFFICES ASSUME NEW x \in Directories', NEW j \in Idx, IsLink(mem'[x][j])
                 PROVE  mem'[x][j].to \in Table /\ level'[mem'[x][j].to] = level'[x] - 1
      BY DEF EntriesLeadDown, IsLink
    <2>1. CASE x = t /\ j = i /\ mem'[x][j] = e
      BY <1>0, <1>1, <1>2, <1>4, <1>8, <2>1
    <2>2. CASE x \in Directories /\ x # f /\ mem[x][j].p /\ mem'[x][j] = mem[x][j]
      <3>1. mem[x][j].to \in Table /\ level[mem[x][j].to] = level[x] - 1 /\ mem[x][j].to # f
        BY <1>1, <2>2 DEF IInv, TableForest, EntriesLeadDown
      <3> QED BY <1>8, <2>2, <3>1 DEF Directories
    <2> QED BY <1>10, <2>1, <2>2 DEF IsLink
  <1>13. OneParent'
    <2> SUFFICES ASSUME NEW x \in Directories', NEW y \in Directories', NEW j \in Idx, NEW k \in Idx,
                        IsLink(mem'[x][j]), IsLink(mem'[y][k]), mem'[x][j].to = mem'[y][k].to
                 PROVE  \/ x = y /\ j = k
                        \/ level'[x] = 4 /\ j = k /\ j \in KernelIdx
      BY DEF OneParent, IsLink
    <2>0. mem'[x][j].p /\ mem'[y][k].p
      BY DEF IsLink
    <2>1. CASE x = t /\ j = i /\ mem'[x][j] = e
      BY <1>1, <1>2, <1>10, <2>0, <2>1
    <2>2. CASE y = t /\ k = i /\ mem'[y][k] = e
      BY <1>1, <1>2, <1>10, <2>0, <2>2
    <2>3. CASE /\ x \in Directories /\ x # f /\ mem[x][j].p /\ mem'[x][j] = mem[x][j]
               /\ y \in Directories /\ y # f /\ mem[y][k].p /\ mem'[y][k] = mem[y][k]
      <3>1. \/ x = y /\ j = k
            \/ level[x] = 4 /\ j = k /\ j \in KernelIdx
        BY <2>3 DEF IInv, TableForest, OneParent
      <3> QED BY <1>8, <2>3, <3>1 DEF Directories
    <2> QED BY <1>10, <2>0, <2>1, <2>2, <2>3
  <1>14. TablesAreHeld'
    BY <1>0, <1>8 DEF IInv, TableForest, TablesAreHeld
  <1>15. RootsAreOwn'
    BY <1>0, <1>1, <1>8 DEF IInv, TypeOK, TableForest, RootsAreOwn
  <1>16. HeldBelow'
    <2> SUFFICES ASSUME NEW x \in Directories', NEW j \in Idx, mem'[x][j].p, ~FromBoot(x, j)'
                 PROVE  IsLink(mem'[x][j]) /\ mem'[x][j].to \in held'
      BY DEF HeldBelow, IsLink
    <2>1. CASE x = t /\ j = i /\ mem'[x][j] = e
      BY <1>0, <1>2, <2>1
    <2>2. CASE x \in Directories /\ x # f /\ mem[x][j].p /\ mem'[x][j] = mem[x][j]
      <3>1. level'[x] = level[x]
        BY <1>8, <2>2 DEF Directories
      <3>2. ~FromBoot(x, j)
        BY <2>2, <3>1 DEF FromBoot
      <3> QED BY <1>0, <2>2, <3>2 DEF IInv, HeldBelow
    <2> QED BY <1>10, <2>1, <2>2
  <1>17. KernelLinks'
    <2>1. \A k \in KernelIdx : k \in Idx
      BY ConstantsAssumption DEF KernelIdx, Idx
    <2>2. BootRoot \in Directories
      BY BootAssumption DEF IInv, BootKept, Directories
    <2>3. \A s \in Slot : slots[s].used => slots[s].pml4_phys \in Directories
      BY DEF IInv, TypeOK, TableForest, RootsAreOwn, Directories
    <2>4. \A k \in KernelIdx : BootMem[BootRoot][k].p => mem'[BootRoot][k] = mem[BootRoot][k]
      BY <1>11, <2>1, <2>2 DEF IInv, KernelLinks, DirectoriesKept
    <2>5. \A k \in KernelIdx, s \in Slot :
            BootMem[BootRoot][k].p /\ slots[s].used
              => mem'[slots[s].pml4_phys][k] = mem[slots[s].pml4_phys][k]
      BY <1>11, <2>1, <2>3 DEF IInv, KernelLinks, DirectoriesKept
    <2> QED BY <1>0, <2>4, <2>5 DEF IInv, KernelLinks
  <1>18. BootKept'
    <2>1. \A x \in BootTables : BootLevel[x] > 1 => x \in Directories
      BY BootAssumption DEF IInv, BootKept, Directories
    <2>2. \A x \in BootTables : level'[x] = BootLevel[x]
      BY <1>1, <1>8 DEF IInv, BootKept
    <2> QED BY <1>11, <2>1, <2>2 DEF IInv, BootKept, DirectoriesKept
  <1>19. Premises'
    BY DEF IInv, Premises, BootTablesOutsidePool, NoPageInLarge, InLargePage
  <1> QED BY <1>2, <1>7, <1>8, <1>11, <1>12, <1>13, <1>14, <1>15, <1>16, <1>17, <1>18, <1>19
          DEF TablesInv, TableForest

\* ensure_table, which stands on table t at depth d, links frame f there.
EnsureStep(c, h, v, d, t, f) ==
  /\ op[c].kind = "map" /\ op[c].h = h /\ op[c].v = v /\ op[c].depth = d /\ op[c].table = t
  /\ Live(h) /\ PathTo(Root(h), v, d) = t
  /\ level[t] = 5 - d /\ v[d] \in Idx /\ ~mem[t][v[d]].p
  /\ \A b \in Cpus \ {c} : op[b].kind # "idle" => op[b].h # h
  /\ pool' = pool \ {f} /\ held' = held \cup {f}
  /\ mem' = NewTable(t, v[d], f, "USER" \in op[c].flags)
  /\ level' = [level EXCEPT ![f] = 4 - d]
  /\ MapTo(c, f) /\ lock' = lock /\ slots' = slots

\* Such a step keeps the invariant.
LEMMA EnsureLinks ==
  ASSUME IInv, NEW c \in Cpus, NEW h \in Handle, NEW v \in Pages,
         NEW d \in 1 .. 3, NEW t \in Table, NEW f \in pool, EnsureStep(c, h, v, d, t, f)
  PROVE  IInv'
  <1>1. /\ op[c].kind = "map" /\ op[c].h = h /\ op[c].depth = d
        /\ Live(h) /\ PathTo(Root(h), v, d) = t /\ t # NullAddr
        /\ \A b \in Cpus \ {c} : op[b].kind # "idle" => op[b].h # h
        /\ pool' = pool \ {f} /\ held' = held \cup {f} /\ lock' = lock /\ slots' = slots
    BY ConstantsAssumption DEF EnsureStep
  <1>2. /\ TablesInv' /\ DirectoriesKept
        /\ mem' \in [Table -> [Idx -> Entry]] /\ level' \in [Table -> 0 .. 4]
        /\ mem'[t][v[d]].p /\ mem'[t][v[d]].to = f
    <2>1. PICK i \in Idx : i = v[d]
      BY DEF EnsureStep
    <2>2. PICK e \in Entry : LinkStep(t, i, d, e, f)
      <3> DEFINE e == [p |-> TRUE, to |-> f,
                       bits |-> IF "USER" \in op[c].flags THEN {"W", "U"} ELSE {"W"}]
      <3>1. e \in Entry /\ IsLink(e) /\ e.to = f
        BY FreshFrame DEF Entry, PteBits, IsLink
      <3>2. mem' = [mem EXCEPT ![f] = ZeroFrame, ![t][i] = e]
        BY <2>1 DEF EnsureStep, NewTable
      <3> HIDE DEF e
      <3>3. LinkStep(t, i, d, e, f)
        BY <2>1, <3>1, <3>2, Zenon DEF LinkStep, EnsureStep
      <3> QED BY <3>1, <3>3
    <2>3. /\ TablesInv' /\ DirectoriesKept
          /\ mem' \in [Table -> [Idx -> Entry]] /\ level' \in [Table -> 0 .. 4]
          /\ mem'[t][i].p /\ mem'[t][i].to = f
      BY <2>2, LinkTables, Zenon
    <2> QED BY <2>1, <2>3
  <1>3. f \in Frames /\ f \in Table
    BY FreshFrame
  <1>4. /\ op'[c].kind = "map" /\ op'[c].h = h /\ op'[c].v = v
        /\ op'[c].table = f /\ op'[c].depth = d + 1
        /\ \A b \in Cpus \ {c} : op'[b] = op[b]
        /\ op' \in [Cpus -> Operation]
    BY <1>3, MapToTyped DEF EnsureStep
  <1>5. TypeOK'
    <2>1. pool' \subseteq Frames /\ held' \subseteq Frames
      BY <1>1, <1>3 DEF IInv, TypeOK
    <2> QED BY <1>1, <1>2, <1>4, <2>1, Zenon DEF IInv, TypeOK
  <1>6. \A g \in Handle : Live(g)' = Live(g) /\ Root(g)' = Root(g)
    BY <1>1 DEF Live, Root
  <1>7. StandsOn(c, h, v, d + 1, f)'
    <2>1. Live(h)' /\ Root(h)' = Root(h)
      BY <1>1, <1>6, ZenonT(60)
    <2>2. PathTo(Root(h), v, d)' = t
      BY <1>1, <1>2, <2>1, PathKept
    <2>3. Descend(t, v[d])' = f
      BY <1>1, <1>2, Zenon DEF Descend
    <2>4. PathTo(Root(h), v, d + 1)' = Descend(PathTo(Root(h), v, d), v[d])'
      BY PathStepPrimed
    <2>5. PathTo(Root(h), v, d + 1)' = f
      BY <2>2, <2>3, <2>4
    <2> QED BY <1>4, <2>1, <2>5 DEF StandsOn
  <1>8. OpsOnPath'
    <2> SUFFICES ASSUME NEW b \in Cpus, op'[b].kind # "idle" PROVE OnPath(b)'
      BY DEF OpsOnPath
    <2>1. CASE b = c
      <3>1. d + 1 \in 1 .. 4
        OBVIOUS
      <3> QED BY <1>3, <1>7, <2>1, <3>1 DEF OnPath
    <2>2. CASE b # c
      <3>1. op'[b] = op[b] /\ op[b].kind # "idle"
        BY <1>4, <2>2
      <3>2. PICK g \in Handle : op[b].h = g /\ Live(g)
        BY <3>1 DEF IInv, OpsOnPath, OnPath, StandsOn
      <3>3. Live(g)' /\ Root(g)' = Root(g)
        BY <1>6, <3>2
      <3> QED BY <1>2, <3>1, <3>2, <3>3, OnPathKept, Zenon
    <2> QED BY <2>1, <2>2
  <1>9. Exclusive' /\ LockHeld'
    BY <1>1, <1>4, SMTT(60) DEF IInv, Exclusive, LockHeld
  <1> QED BY <1>2, <1>5, <1>8, <1>9, ZenonT(60) DEF IInv, TablesInv

\* ensure_table links a new table.
LEMMA EnsureIsStep ==
  ASSUME IInv, NEW c \in Cpus, ensure_table(c),
         ~mem[op[c].table][op[c].v[op[c].depth]].p, lock' = lock
  PROVE  \E h \in Handle, v \in Pages, d \in 1 .. 3, t \in Table, f \in pool :
           EnsureStep(c, h, v, d, t, f)
  <1>1. PICK h \in Handle, v \in Pages, d \in 1 .. 3, t \in Table :
           /\ StandsOn(c, h, v, d, t) /\ level[t] = 5 - d /\ v[d] \in Idx
           /\ op[c].h = h /\ op[c].v = v /\ op[c].depth = d /\ op[c].table = t
           /\ Live(h) /\ PathTo(Root(h), v, d) = t
           /\ \A b \in Cpus \ {c} : op[b].kind # "idle" => op[b].h # h
    BY EnsurePlace, Zenon DEF ensure_table
  <1>2. op[c].kind = "map" /\ lock = c /\ NoCpu # c
    BY ConstantsAssumption, Zenon DEF ensure_table, IInv, LockHeld
  <1>3. ~Return(c) BY <1>2, Zenon DEF Return
  <1>4. PICK f \in pool : /\ pool' = pool \ {f} /\ held' = held \cup {f}
                          /\ mem' = NewTable(t, v[d], f, "USER" \in op[c].flags)
                          /\ level' = [level EXCEPT ![f] = 4 - d] /\ MapTo(c, f)
    BY <1>1, <1>3, ZenonT(60) DEF ensure_table
  <1>5. slots' = slots BY ZenonT(60) DEF ensure_table
  <1>6. EnsureStep(c, h, v, d, t, f) BY <1>1, <1>2, <1>4, <1>5, Zenon DEF EnsureStep
  <1> QED BY <1>6

\* ensure_table keeps the invariant.
LEMMA EnsureIInv ==
  ASSUME IInv, NEW c \in Cpus, ensure_table(c)
  PROVE  IInv'
  <1>1. CASE /\ mem[op[c].table][op[c].v[op[c].depth]].p
             /\ MapTo(c, mem[op[c].table][op[c].v[op[c].depth]].to)
             /\ UNCHANGED <<mem, pool, held, level, lock>>
    BY <1>1, EnsurePresent, Zenon DEF ensure_table
  <1>2. CASE ~mem[op[c].table][op[c].v[op[c].depth]].p /\ lock' = lock
    BY <1>2, EnsureIsStep, EnsureLinks, Zenon
  <1>3. CASE Return(c) /\ UNCHANGED <<mem, pool, held, level>>
    BY <1>3, EnsureFails, Zenon DEF ensure_table
  <1> QED BY <1>1, <1>2, <1>3, Zenon DEF ensure_table

-----------------------------------------------------------------------------
\* Frame f becomes a root with the kernel entries, of level l; it is given to slot
\* s if l is 4, and to none if l is 0 (no slot was left).
NewStep(f, l, s) ==
  /\ pool' = pool \ {f} /\ held' = held \cup {f}
  /\ mem' = [mem EXCEPT ![f] = NewPml4]
  /\ level' = [level EXCEPT ![f] = l]
  /\ \/ l = 0 /\ slots' = slots
     \/ /\ l = 4 /\ s \in Slot /\ ~slots[s].used
        /\ slots' = [slots EXCEPT ![s] = [used |-> TRUE, pml4_phys |-> f]]
  /\ UNCHANGED <<lock, op>>

\* What such a step does to tables, levels and slots.
LEMMA NewEffects ==
  ASSUME IInv, NEW f \in pool, NEW l \in {0, 4}, NEW s, NewStep(f, l, s)
  PROVE  /\ mem' \in [Table -> [Idx -> Entry]]
         /\ \A x \in Table \ {f} : mem'[x] = mem[x]
         /\ \A j \in Idx : mem'[f][j] = IF j \in KernelIdx THEN mem[BootRoot][j] ELSE Zero
         /\ level' \in [Table -> 0 .. 4] /\ level'[f] = l
         /\ \A x \in Table \ {f} : level'[x] = level[x]
         /\ slots' \in [Slot -> [used : BOOLEAN, pml4_phys : Table \cup {NullAddr}]]
         /\ \A r \in Slot : \/ slots'[r] = slots[r]
                            \/ /\ r = s /\ l = 4 /\ ~slots[r].used
                               /\ slots'[r].used /\ slots'[r].pml4_phys = f
         /\ pool' = pool \ {f} /\ held' = held \cup {f} /\ lock' = lock /\ op' = op
  <1> USE ConstantsAssumption, BootAssumption
  <1>1. f \in Table /\ f \in Frames
    BY FreshFrame
  <1>2. NewPml4 \in [Idx -> Entry]
    <2>1. mem[BootRoot] \in [Idx -> Entry]
      BY Zenon DEF IInv, TypeOK
    <2>2. Zero \in Entry
      BY Zenon DEF Zero, Entry
    <2> QED BY <2>1, <2>2 DEF NewPml4
  <1>3. /\ mem' \in [Table -> [Idx -> Entry]] /\ mem'[f] = NewPml4
        /\ \A x \in Table \ {f} : mem'[x] = mem[x]
    BY <1>1, <1>2, Zenon DEF NewStep, IInv, TypeOK
  <1>4. \A j \in Idx : mem'[f][j] = IF j \in KernelIdx THEN mem[BootRoot][j] ELSE Zero
    BY <1>3, ZenonT(60) DEF NewPml4
  <1>5. /\ level' \in [Table -> 0 .. 4] /\ level'[f] = l
        /\ \A x \in Table \ {f} : level'[x] = level[x]
    BY <1>1, SMTT(60) DEF NewStep, IInv, TypeOK
  <1>6. /\ slots' \in [Slot -> [used : BOOLEAN, pml4_phys : Table \cup {NullAddr}]]
        /\ \A r \in Slot : \/ slots'[r] = slots[r]
                           \/ /\ r = s /\ l = 4 /\ ~slots[r].used
                              /\ slots'[r].used /\ slots'[r].pml4_phys = f
    <2>1. slots \in [Slot -> [used : BOOLEAN, pml4_phys : Table \cup {NullAddr}]]
      BY ZenonT(60) DEF IInv, TypeOK
    <2>2. CASE slots' = slots
      BY <2>1, <2>2
    <2>3. CASE /\ l = 4 /\ s \in Slot /\ ~slots[s].used
               /\ slots' = [slots EXCEPT ![s] = [used |-> TRUE, pml4_phys |-> f]]
      BY <1>1, <2>1, <2>3, Zenon
    <2> QED BY <2>2, <2>3, Zenon DEF NewStep
  <1> QED BY <1>3, <1>4, <1>5, <1>6, Zenon DEF NewStep

\* The tables after such a step.
LEMMA NewTables ==
  ASSUME IInv, NEW f \in pool, NEW l \in {0, 4}, NEW s, NewStep(f, l, s)
  PROVE  TablesInv' /\ DirectoriesKept
  <1> USE BootAssumption
  <1>1. /\ f \in Frames /\ f \in Table /\ f \notin held /\ f \notin BootTables /\ level[f] = 0
        /\ f \notin Directories /\ f # BootRoot
        /\ \A x \in Directories, j \in Idx : IsLink(mem[x][j]) => mem[x][j].to # f
        /\ \A r \in Slot : slots[r].used => slots[r].pml4_phys # f
    BY FreshFrame, ZenonT(60)
  <1>2. /\ \A x \in Table \ {f} : mem'[x] = mem[x] /\ level'[x] = level[x]
        /\ \A j \in Idx : mem'[f][j] = IF j \in KernelIdx THEN mem[BootRoot][j] ELSE Zero
        /\ level'[f] = l
        /\ \A r \in Slot : \/ slots'[r] = slots[r]
                           \/ /\ r = s /\ l = 4 /\ ~slots[r].used
                              /\ slots'[r].used /\ slots'[r].pml4_phys = f
        /\ pool' = pool \ {f} /\ held' = held \cup {f}
    BY NewEffects, SMTT(60)
  <1>3. BootRoot \in Directories /\ level[BootRoot] = 4 /\ BootRoot \in Table
    BY DEF IInv, BootKept, Directories
  <1>4. DirectoriesKept
    BY <1>1, <1>2, ZenonT(60) DEF DirectoriesKept, Directories
  \* A present entry of a directory is an old one or a copied kernel entry.
  <1>5. \A x \in Directories', j \in Idx :
          mem'[x][j].p =>
            \/ x \in Directories /\ x # f /\ mem'[x][j] = mem[x][j] /\ level'[x] = level[x]
            \/ x = f /\ level'[f] = 4 /\ j \in KernelIdx /\ mem'[x][j] = mem[BootRoot][j]
    BY <1>1, <1>2, SMTT(60) DEF Directories, Zero
  <1>6. EntriesLeadDown'
    <2> SUFFICES ASSUME NEW x \in Directories', NEW j \in Idx, IsLink(mem'[x][j])
                 PROVE  mem'[x][j].to \in Table /\ level'[mem'[x][j].to] = level'[x] - 1
      BY Zenon DEF EntriesLeadDown, IsLink
    <2>1. CASE x \in Directories /\ x # f /\ mem'[x][j] = mem[x][j] /\ level'[x] = level[x]
      <3>1. mem[x][j].to \in Table /\ level[mem[x][j].to] = level[x] - 1 /\ mem[x][j].to # f
        BY <1>1, <2>1, ZenonT(60) DEF IInv, TableForest, EntriesLeadDown
      <3> QED BY <1>2, <2>1, <3>1, SMTT(60)
    <2>2. CASE x = f /\ level'[f] = 4 /\ j \in KernelIdx /\ mem'[x][j] = mem[BootRoot][j]
      <3>1. /\ mem[BootRoot][j].to \in Table /\ level[mem[BootRoot][j].to] = 3
            /\ mem[BootRoot][j].to # f
        BY <1>1, <1>3, <2>2, SMTT(60) DEF IInv, TableForest, EntriesLeadDown
      <3> QED BY <1>2, <2>2, <3>1, SMTT(60)
    <2> QED BY <1>5, <2>1, <2>2, ZenonT(60) DEF IsLink
  <1>7. OneParent'
    <2> SUFFICES ASSUME NEW x \in Directories', NEW y \in Directories', NEW j \in Idx, NEW k \in Idx,
                        IsLink(mem'[x][j]), IsLink(mem'[y][k]), mem'[x][j].to = mem'[y][k].to
                 PROVE  \/ x = y /\ j = k
                        \/ level'[x] = 4 /\ j = k /\ j \in KernelIdx
      BY DEF OneParent, IsLink
    <2>1. PICK a \in Directories :
            /\ mem'[x][j] = mem[a][j] /\ level'[x] = level[a]
            /\ x = f => level'[x] = 4 /\ j \in KernelIdx
            /\ x # f => x = a
      BY <1>3, <1>5, Zenon DEF IsLink
    <2>2. PICK b \in Directories :
            /\ mem'[y][k] = mem[b][k] /\ level'[y] = level[b]
            /\ y = f => level'[y] = 4 /\ k \in KernelIdx
            /\ y # f => y = b
      BY <1>3, <1>5, ZenonT(60) DEF IsLink
    <2>3. \/ a = b /\ j = k
          \/ level[a] = 4 /\ j = k /\ j \in KernelIdx
      BY <2>1, <2>2, SMTT(60) DEF IInv, TableForest, OneParent
    <2> QED BY <2>1, <2>2, <2>3, ZenonT(60)
  <1>8. TablesAreHeld'
    BY <1>1, <1>2 DEF IInv, TableForest, TablesAreHeld
  <1>9. RootsAreOwn'
    <2>1. \A r \in Slot : slots'[r].used =>
            \/ slots'[r] = slots[r] /\ slots[r].used /\ slots[r].pml4_phys # f
            \/ r = s /\ l = 4 /\ slots'[r].pml4_phys = f
      BY <1>1, <1>2, ZenonT(60)
    <2>2. ASSUME NEW r \in Slot, slots'[r].used
          PROVE  slots'[r].pml4_phys \in held' /\ level'[slots'[r].pml4_phys] = 4
      <3>1. CASE slots'[r] = slots[r] /\ slots[r].used /\ slots[r].pml4_phys # f
        <4>1. /\ slots[r].pml4_phys \in held /\ level[slots[r].pml4_phys] = 4
              /\ slots[r].pml4_phys \in Table
          BY <3>1, Zenon DEF IInv, TypeOK, TableForest, RootsAreOwn
        <4>2. PICK x \in Table \ {f} : x = slots'[r].pml4_phys /\ x \in held /\ level[x] = 4
          BY <3>1, <4>1, Zenon
        <4>3. x \in held' /\ level'[x] = 4
          BY <1>2, <4>2, ZenonT(60)
        <4> QED BY <4>2, <4>3, Zenon
      <3>2. CASE r = s /\ l = 4 /\ slots'[r].pml4_phys = f
        BY <1>2, <3>2, Zenon
      <3> QED BY <2>1, <2>2, <3>1, <3>2
    <2>3. \A r, q \in Slot :
            slots'[r].used /\ slots'[q].used /\ slots'[r].pml4_phys = slots'[q].pml4_phys => r = q
      BY <2>1, ZenonT(60) DEF IInv, TableForest, RootsAreOwn
    <2> QED BY <2>2, <2>3, Zenon DEF RootsAreOwn
  <1>10. HeldBelow'
    <2> SUFFICES ASSUME NEW x \in Directories', NEW j \in Idx, mem'[x][j].p, ~FromBoot(x, j)'
                 PROVE  IsLink(mem'[x][j]) /\ mem'[x][j].to \in held'
      BY DEF HeldBelow, IsLink
    \* The entry is an old one, or the copy of one of the kernel root.
    <2>1. PICK a \in Directories :
            /\ mem'[x][j] = mem[a][j] /\ level'[x] = level[a]
            /\ x = a \/ (a = BootRoot /\ level'[x] = 4 /\ j \in KernelIdx)
      BY <1>3, <1>5, Zenon
    <2>2. ~FromBoot(a, j)
      <3>1. CASE x = a
        BY <2>1, <3>1 DEF FromBoot
      <3>2. CASE a = BootRoot /\ level'[x] = 4 /\ j \in KernelIdx
        <4>1. BootMem[BootRoot][j].p => mem[BootRoot][j] = BootMem[BootRoot][j]
          BY DEF IInv, BootKept
        <4> QED BY <2>1, <3>2, <4>1, ZenonT(60) DEF FromBoot
      <3> QED BY <2>1, <3>1, <3>2, ZenonT(60)
    <2> QED BY <1>2, <2>1, <2>2, Zenon DEF IInv, HeldBelow
  <1>11. KernelLinks'
    <2> SUFFICES ASSUME NEW k \in KernelIdx, BootMem[BootRoot][k].p
                 PROVE  /\ mem'[BootRoot][k] = BootMem[BootRoot][k]
                        /\ \A r \in Slot : slots'[r].used =>
                             mem'[slots'[r].pml4_phys][k] = BootMem[BootRoot][k]
      BY DEF KernelLinks
    <2>1. k \in Idx
      BY ConstantsAssumption, SMTT(60) DEF KernelIdx, Idx
    <2>2. mem[BootRoot][k] = BootMem[BootRoot][k] /\ mem'[BootRoot][k] = BootMem[BootRoot][k]
      BY <1>1, <1>2, <1>3, ZenonT(60) DEF IInv, KernelLinks
    <2>3. ASSUME NEW r \in Slot, slots'[r].used
          PROVE  mem'[slots'[r].pml4_phys][k] = BootMem[BootRoot][k]
      <3>1. CASE slots'[r] = slots[r]
        <4>1. slots[r].pml4_phys \in Table \ {f}
          BY <1>1, <2>3, <3>1, Zenon DEF IInv, TypeOK, TableForest, RootsAreOwn
        <4>2. slots[r].used /\ mem[slots[r].pml4_phys][k] = BootMem[BootRoot][k]
          BY <2>3, <3>1, Zenon DEF IInv, KernelLinks
        <4>3. mem'[slots[r].pml4_phys] = mem[slots[r].pml4_phys]
          BY <1>2, <4>1, Zenon
        <4> QED BY <3>1, <4>2, <4>3, Zenon
      <3>2. CASE slots'[r].pml4_phys = f
        BY <1>2, <2>1, <2>2, <3>2, ZenonT(60)
      <3> QED BY <1>2, <3>1, <3>2, Zenon
    <2> QED BY <2>2, <2>3, ZenonT(60)
  <1>12. BootKept'
    <2>1. \A x \in BootTables : mem'[x] = mem[x] /\ level'[x] = level[x]
      BY <1>1, <1>2, ZenonT(60)
    <2> QED BY <2>1, SMTT(60) DEF IInv, BootKept
  <1>13. Premises'
    BY DEF IInv, Premises, BootTablesOutsidePool, NoPageInLarge, InLargePage
  <1> QED BY <1>4, <1>6, <1>7, <1>8, <1>9, <1>10, <1>11, <1>12, <1>13, ZenonT(60)
          DEF TablesInv, TableForest

\* The operations in progress over a step of another kind that leaves their spaces.
LEMMA OpsUntouched ==
  ASSUME IInv, DirectoriesKept, UNCHANGED <<lock, op>>,
         \A b \in Cpus, h \in Handle :
           op[b].kind # "idle" /\ op[b].h = h /\ Live(h) => Live(h)' /\ Root(h)' = Root(h)
  PROVE  OpsInv'
  <1>1. OpsOnPath'
    <2> SUFFICES ASSUME NEW b \in Cpus, op'[b].kind # "idle" PROVE OnPath(b)'
      BY DEF OpsOnPath
    <2>1. op'[b] = op[b] /\ op[b].kind # "idle"
      BY Zenon
    <2>2. PICK h \in Handle : op[b].h = h /\ Live(h)
      BY <2>1, Zenon DEF IInv, OpsOnPath, OnPath, StandsOn
    <2>3. Live(h)' /\ Root(h)' = Root(h)
      BY <2>1, <2>2
    <2> QED BY <2>1, <2>2, <2>3, OnPathKept, ZenonT(60)
  <1>2. Exclusive' /\ LockHeld'
    BY DEF IInv, Exclusive, LockHeld
  <1> QED BY <1>1, <1>2, Zenon DEF OpsInv

\* address_space_new is such a step.
LEMMA NewIsStep ==
  ASSUME IInv, NEW c \in Cpus, address_space_new(c)
  PROVE  \E f \in pool, l \in {0, 4}, s \in Slot \cup {KAS} : NewStep(f, l, s)
  <1>1. PICK f \in pool :
          /\ pool' = pool \ {f} /\ held' = held \cup {f}
          /\ mem' = [mem EXCEPT ![f] = NewPml4]
          /\ \/ \E s \in Slot :
                  /\ FirstUnused(s)
                  /\ slots' = [slots EXCEPT ![s] = [used |-> TRUE, pml4_phys |-> f]]
                  /\ level' = [level EXCEPT ![f] = 4]
             \/ UNCHANGED <<slots, level>>
          /\ UNCHANGED <<lock, op>>
    BY Zenon DEF address_space_new
  <1>2. CASE UNCHANGED <<slots, level>>
    <2>1. level' = [level EXCEPT ![f] = 0]
      BY <1>2, FreshFrame DEF IInv, TypeOK
    <2>2. NewStep(f, 0, KAS)
      BY <1>1, <1>2, <2>1, Zenon DEF NewStep
    <2> QED BY <2>2
  <1>3. CASE \E s \in Slot :
               /\ FirstUnused(s)
               /\ slots' = [slots EXCEPT ![s] = [used |-> TRUE, pml4_phys |-> f]]
               /\ level' = [level EXCEPT ![f] = 4]
    <2>1. PICK s \in Slot :
               /\ FirstUnused(s)
               /\ slots' = [slots EXCEPT ![s] = [used |-> TRUE, pml4_phys |-> f]]
               /\ level' = [level EXCEPT ![f] = 4]
      BY <1>3, Zenon
    <2>2. NewStep(f, 4, s)
      BY <1>1, <2>1 DEF NewStep, FirstUnused
    <2> QED BY <2>2
  <1> QED BY <1>1, <1>2, <1>3

\* address_space_new keeps the invariant.
LEMMA NewIInv ==
  ASSUME IInv, NEW c \in Cpus, address_space_new(c)
  PROVE  IInv'
  <1> USE ConstantsAssumption
  <1>1. PICK f \in pool, l \in {0, 4}, s \in Slot \cup {KAS} : NewStep(f, l, s)
    BY NewIsStep
  <1>2. TablesInv' /\ DirectoriesKept
    BY <1>1, NewTables, Zenon
  <1>3. /\ mem' \in [Table -> [Idx -> Entry]]
        /\ level' \in [Table -> 0 .. 4]
        /\ slots' \in [Slot -> [used : BOOLEAN, pml4_phys : Table \cup {NullAddr}]]
        /\ \A r \in Slot : slots'[r] = slots[r] \/ ~slots[r].used
        /\ pool' = pool \ {f} /\ held' = held \cup {f} /\ lock' = lock /\ op' = op
    <2>1. mem' \in [Table -> [Idx -> Entry]] /\ level' \in [Table -> 0 .. 4]
      BY <1>1, NewEffects, ZenonT(60)
    <2>2. slots' \in [Slot -> [used : BOOLEAN, pml4_phys : Table \cup {NullAddr}]]
      BY <1>1, NewEffects, ZenonT(60)
    <2>3. \A r \in Slot : \/ slots'[r] = slots[r]
                         \/ /\ r = s /\ l = 4 /\ ~slots[r].used
                            /\ slots'[r].used /\ slots'[r].pml4_phys = f
      BY <1>1, NewEffects
    <2>4. pool' = pool \ {f} /\ held' = held \cup {f} /\ lock' = lock /\ op' = op
      BY <1>1, Zenon DEF NewStep
    <2> QED BY <2>1, <2>2, <2>3, <2>4
  <1>4. TypeOK'
    BY <1>1, <1>3 DEF IInv, TypeOK
  <1>5. OpsInv'
    <2>1. ASSUME NEW h \in Handle, Live(h) PROVE Live(h)' /\ Root(h)' = Root(h)
      BY <1>3, <2>1, Zenon DEF Live, Root, Handle
    <2> QED BY <1>2, <1>3, <2>1, OpsUntouched, Zenon
  <1> QED BY <1>2, <1>4, <1>5 DEF IInv, TablesInv, OpsInv

-----------------------------------------------------------------------------
\* What address_space_destroy frees: tables of each level below the root, all
\* handed out by the allocator.
LEMMA FreedLevels ==
  ASSUME IInv, NEW s \in Slot, slots[s].used,
         NEW r \in Table, r = slots[s].pml4_phys
  PROVE  /\ r \in held /\ level[r] = 4
         /\ \A x \in UserPdpts(r) : x \in held /\ level[x] = 3
         /\ \A x \in UserPds(r) : x \in held /\ level[x] = 2
         /\ \A x \in UserPts(r) : x \in held /\ level[x] = 1
  <1>1. r \in held /\ level[r] = 4
    BY DEF IInv, TableForest, RootsAreOwn
  <1>2. held \cap BootTables = {}
    BY Zenon DEF IInv, TypeOK, Premises, BootTablesOutsidePool
  <1>3. ASSUME NEW T \in SUBSET held, NEW n \in 2 .. 4, NEW I \in SUBSET Idx,
               \A t \in T : level[t] = n, n = 4 => I \cap KernelIdx = {},
               NEW x \in ChildrenOf(T, I)
        PROVE  x \in held /\ level[x] = n - 1
    <2>1. PICK u \in T, i \in I : IsLink(mem[u][i]) /\ mem[u][i].p /\ mem[u][i].to = x
      BY <1>3 DEF ChildrenOf, IsLink
    <2>2. u \in Directories /\ u \notin BootTables
      BY <1>2, <1>3, <2>1, Zenon DEF Directories, IInv, TypeOK
    <2>3. ~FromBoot(u, i)
      BY <1>3, <2>1, <2>2, Zenon DEF FromBoot
    <2> QED BY <1>3, <2>1, <2>2, <2>3, ZenonT(60) DEF IInv, TableForest, EntriesLeadDown, HeldBelow
  <1>4. \A x \in UserPdpts(r) : x \in held /\ level[x] = 3
    BY <1>1, <1>3 DEF UserPdpts
  <1>5. \A x \in UserPds(r) : x \in held /\ level[x] = 2
    BY <1>3, <1>4 DEF UserPds
  <1>6. \A x \in UserPts(r) : x \in held /\ level[x] = 1
    BY <1>3, <1>5, SMTT(60) DEF UserPts
  <1> QED BY <1>1, <1>4, <1>5, <1>6

\* No surviving directory leads to a freed table.
LEMMA FreedApart ==
  ASSUME IInv, NEW s \in Slot, slots[s].used,
         NEW r \in Table, r = slots[s].pml4_phys,
         NEW x \in Directories, x \notin FreedBy(r), NEW j \in Idx, IsLink(mem[x][j])
  PROVE  mem[x][j].to \notin FreedBy(r)
  <1>1. /\ r \in held /\ level[r] = 4
        /\ \A y \in UserPdpts(r) : y \in held /\ level[y] = 3
        /\ \A y \in UserPds(r) : y \in held /\ level[y] = 2
        /\ \A y \in UserPts(r) : y \in held /\ level[y] = 1
    BY FreedLevels
  <1>2. PICK u \in Table : u = mem[x][j].to /\ level[u] = level[x] - 1 /\ level[x] \in 2 .. 4
    BY DEF IInv, TableForest, EntriesLeadDown, Directories
  \* A parent of u among the freed tables would be x.
  <1>3. ASSUME NEW t \in Directories, NEW i \in Idx, IsLink(mem[t][i]), mem[t][i].to = u,
               level[t] = 4 => i \notin KernelIdx
        PROVE  t = x
    <2>1. \/ t = x /\ i = j
          \/ level[t] = 4 /\ i = j /\ i \in KernelIdx
      BY <1>2, <1>3, Zenon DEF IInv, TableForest, OneParent
    <2> QED BY <1>3, <2>1, Zenon
  <1>4. u # r
    BY <1>1, <1>2, SMTT(60)
  <1>5. u \notin UserPdpts(r)
    BY <1>1, <1>3, SMTT(60) DEF UserPdpts, ChildrenOf, Directories, FreedBy
  <1>6. u \notin UserPds(r)
    <2> SUFFICES ASSUME u \in UserPds(r) PROVE FALSE
      BY Zenon
    <2>1. PICK t \in UserPdpts(r), i \in Idx : IsLink(mem[t][i]) /\ mem[t][i].to = u
      BY ZenonT(60) DEF UserPds, ChildrenOf
    <2>2. t \in Directories /\ level[t] = 3
      BY <1>1, <2>1 DEF Directories, UserPdpts, ChildrenOf
    <2>3. t = x
      BY <1>3, <2>1, <2>2
    <2> QED BY <2>1, <2>3 DEF FreedBy
  <1>7. u \notin UserPts(r)
    <2> SUFFICES ASSUME u \in UserPts(r) PROVE FALSE
      OBVIOUS
    <2>1. PICK t \in UserPds(r), i \in Idx : IsLink(mem[t][i]) /\ mem[t][i].to = u
      BY DEF UserPts, ChildrenOf
    <2>2. t \in Directories /\ level[t] = 2
      BY <1>1, <2>1, SMTT(60) DEF Directories, UserPds, ChildrenOf
    <2>3. t = x
      BY <1>3, <2>1, <2>2
    <2> QED BY <2>1, <2>3, Zenon DEF FreedBy
  <1> QED BY <1>2, <1>4, <1>5, <1>6, <1>7, ZenonT(60) DEF FreedBy

\* address_space_destroy keeps the invariant.
LEMMA DestroyIInv ==
  ASSUME IInv, NEW c \in Cpus, NEW s \in Slot, address_space_destroy(c, s)
  PROVE  IInv'
  <1> USE ConstantsAssumption
  <1>1. /\ slots[s].used /\ ~Borrowed(s)
        /\ slots' = [slots EXCEPT ![s] = [used |-> FALSE, pml4_phys |-> NullAddr]]
        /\ UNCHANGED <<mem, lock, op>>
    BY Zenon DEF address_space_destroy, CanStart, Live
  <1>2. PICK r \in Table : r = slots[s].pml4_phys /\ r = Root(s)
    BY <1>1, RootLevel DEF Live, Root, Handle
  <1>3. PICK F : F = FreedBy(r)
    OBVIOUS
  <1>4. /\ \E kept \in SUBSET F : pool' = pool \cup kept
        /\ held' = held \ F
        /\ level' = [t \in Table |-> IF t \in F THEN 0 ELSE level[t]]
    BY <1>2, <1>3, Zenon DEF address_space_destroy
  <1>5. /\ r \in held /\ level[r] = 4
        /\ \A x \in UserPdpts(r) : x \in held /\ level[x] = 3
        /\ \A x \in UserPds(r) : x \in held /\ level[x] = 2
        /\ \A x \in UserPts(r) : x \in held /\ level[x] = 1
    BY <1>1, <1>2, FreedLevels, ZenonT(60)
  <1>6. F \subseteq held /\ \A x \in F : level[x] = 4 => x = r
    BY <1>3, <1>5 DEF FreedBy
  <1>7. \A x \in Directories, j \in Idx :
          x \notin F /\ IsLink(mem[x][j]) => mem[x][j].to \notin F
    BY <1>1, <1>2, <1>3, FreedApart, Zenon
  <1>8. held \subseteq Frames /\ pool \subseteq Frames
    BY DEF IInv, TypeOK
  <1>9. /\ level' \in [Table -> 0 .. 4]
        /\ \A x \in Table : level'[x] = IF x \in F THEN 0 ELSE level[x]
    BY <1>4 DEF IInv, TypeOK
  <1>10. /\ slots' \in [Slot -> [used : BOOLEAN, pml4_phys : Table \cup {NullAddr}]]
         /\ ~slots'[s].used
         /\ \A q \in Slot \ {s} : slots'[q] = slots[q]
    BY <1>1, Zenon DEF IInv, TypeOK
  <1>11. TypeOK'
    BY <1>1, <1>4, <1>6, <1>8, <1>9, <1>10, Zenon DEF IInv, TypeOK
  <1>12. \A x \in Directories' : x \in Directories /\ x \notin F /\ level'[x] = level[x]
    BY <1>9 DEF Directories
  <1>13. TableForest'
    <2>1. EntriesLeadDown'
      <3> SUFFICES ASSUME NEW x \in Directories', NEW j \in Idx, IsLink(mem'[x][j])
                   PROVE  mem'[x][j].to \in Table /\ level'[mem'[x][j].to] = level'[x] - 1
        BY Zenon DEF EntriesLeadDown, IsLink
      <3>1. mem'[x][j] = mem[x][j] /\ x \in Directories /\ x \notin F /\ level'[x] = level[x]
        BY <1>1, <1>12, Zenon
      <3>2. /\ mem[x][j].to \in Table /\ level[mem[x][j].to] = level[x] - 1
            /\ mem[x][j].to \notin F
        BY <1>7, <3>1, ZenonT(60) DEF IInv, TableForest, EntriesLeadDown
      <3> QED BY <1>9, <3>1, <3>2, Zenon
    <2>2. OneParent'
      BY <1>1, <1>12 DEF IInv, TableForest, OneParent, IsLink
    <2>3. TablesAreHeld'
      <3>1. \A t \in Table : level'[t] > 0 => t \in BootTables \cup held'
        BY <1>4, <1>9 DEF IInv, TableForest, TablesAreHeld
      <3>2. pool' \cap held' = {}
        BY <1>4, Zenon DEF IInv, TableForest, TablesAreHeld
      <3> QED BY <3>1, <3>2, ZenonT(60) DEF TablesAreHeld
    <2>4. RootsAreOwn'
      <3>1. \A q \in Slot : slots'[q].used =>
              /\ q # s /\ slots'[q] = slots[q] /\ slots[q].used
              /\ slots[q].pml4_phys \in held /\ level[slots[q].pml4_phys] = 4
        BY <1>10 DEF IInv, TableForest, RootsAreOwn
      <3>2. \A q \in Slot : slots'[q].used => slots[q].pml4_phys \notin F
        BY <1>1, <1>2, <1>6, <3>1, Zenon DEF IInv, TableForest, RootsAreOwn
      <3>3. \A q \in Slot : slots'[q].used =>
              slots'[q].pml4_phys \in held' /\ level'[slots'[q].pml4_phys] = 4
        BY <1>4, <1>8, <1>9, <3>1, <3>2, Zenon
      <3> QED BY <3>1, <3>3, ZenonT(60) DEF IInv, TableForest, RootsAreOwn
    <2> QED BY <2>1, <2>2, <2>3, <2>4, Zenon DEF TableForest
  <1>14. BootKept' /\ Premises'
    <2>1. Premises'
      BY DEF IInv, Premises, BootTablesOutsidePool, NoPageInLarge, InLargePage
    <2>2. \A x \in BootTables : level'[x] = level[x]
      BY <1>6, <1>8, <1>9, Zenon DEF IInv, Premises, BootTablesOutsidePool
    <2> QED BY <1>1, <2>1, <2>2, Zenon DEF IInv, BootKept
  <1>15. HeldBelow'
    <2> SUFFICES ASSUME NEW x \in Directories', NEW j \in Idx, mem'[x][j].p, ~FromBoot(x, j)'
                 PROVE  IsLink(mem'[x][j]) /\ mem'[x][j].to \in held'
      BY Zenon DEF HeldBelow, IsLink
    <2>1. mem'[x][j] = mem[x][j] /\ x \in Directories /\ x \notin F /\ level'[x] = level[x]
      BY <1>1, <1>12, Zenon
    <2>2. ~FromBoot(x, j)
      BY <2>1, Zenon DEF FromBoot
    <2>3. IsLink(mem[x][j]) /\ mem[x][j].to \in held /\ mem[x][j].to \notin F
      BY <1>7, <2>1, <2>2, ZenonT(60) DEF IInv, HeldBelow
    <2> QED BY <1>4, <2>1, <2>3, Zenon
  <1>16. KernelLinks'
    <2>1. \A q \in Slot : slots'[q].used => slots'[q] = slots[q] /\ slots[q].used
      BY <1>10, Zenon
    <2> QED BY <1>1, <2>1 DEF IInv, KernelLinks
  <1>17. OpsInv'
    <2>1. DirectoriesKept
      BY <1>1, Zenon DEF DirectoriesKept
    <2>2. ASSUME NEW b \in Cpus, NEW h \in Handle, op[b].kind # "idle", op[b].h = h, Live(h)
          PROVE  Live(h)' /\ Root(h)' = Root(h)
      <3>1. h # s
        BY <1>1, <2>2, Zenon DEF Borrowed
      <3> QED BY <1>10, <2>2, <3>1, Zenon DEF Live, Root, Handle
    <2> QED BY <1>1, <2>1, <2>2, OpsUntouched, Zenon
  <1> QED BY <1>11, <1>13, <1>14, <1>15, <1>16, <1>17, Zenon DEF IInv, OpsInv

-----------------------------------------------------------------------------
\* Every step keeps the invariant.
LEMMA NextIInv == IInv /\ [Next]_vars => IInv'
  <1> SUFFICES ASSUME IInv, [Next]_vars PROVE IInv'
    OBVIOUS
  <1>1. ASSUME NEW c \in Cpus, Continue(c) PROVE IInv'
    BY <1>1, EnsureIInv, LeafActions DEF Continue
  <1>2. ASSUME NEW c \in Cpus, address_space_new(c) PROVE IInv'
    BY <1>2, NewIInv
  <1>3. ASSUME NEW c \in Cpus, NEW s \in Slot, address_space_destroy(c, s) PROVE IInv'
    BY <1>3, DestroyIInv
  <1>4. ASSUME NEW c \in Cpus, NEW h \in Handle, NEW v \in Pages, NEW to \in PhysPages,
               NEW flags \in FlagSets, MapBegin(c, h, v, to, flags)
        PROVE  IInv'
    BY <1>4, MapBeginIInv
  <1>5. ASSUME NEW c \in Cpus, NEW h \in Handle, NEW v \in Pages, WalkBegin(c, "unmap", h, v, {})
        PROVE  IInv'
    BY <1>5, WalkBeginIInv
  <1>6. ASSUME NEW c \in Cpus, NEW h \in Handle, NEW v \in Pages, NEW flags \in FlagSets,
               WalkBegin(c, "protect", h, v, flags)
        PROVE  IInv'
    BY <1>6, WalkBeginIInv, ConstantsAssumption
  <1>7. CASE UNCHANGED vars
    <2>1. UNCHANGED <<mem, pool, held, level, slots, lock, op>>
      BY <1>7 DEF vars
    <2>2. TablesInv' /\ DirectoriesKept
      BY <2>1, DirectoriesUnchanged, Zenon
    <2>3. OpsInv'
      BY <2>1, <2>2, OpsUntouched, Zenon DEF Live, Root
    <2>4. TypeOK'
      BY <2>1 DEF IInv, TypeOK
    <2> QED BY <2>2, <2>3, <2>4 DEF IInv, TablesInv, OpsInv
  <1> QED BY <1>1, <1>2, <1>3, <1>4, <1>5, <1>6, <1>7 DEF Next

\* The inductive invariant holds in every reachable state.
LEMMA Invariance ==
  ASSUME BootTablesOutsidePool, NoPageInLarge PROVE Spec => []IInv
  <1>1. Init => IInv
    BY InitIInv DEF Premises
  <1>2. IInv /\ [Next]_vars => IInv'
    BY NextIInv
  <1> QED BY <1>1, <1>2, PTL DEF Spec

\* Types: whatever the CPUs do, tables hold entries, slots hold roots, and every
\* operation in progress stands on a table (mmu.rs, vm.rs).
THEOREM TypeCorrect ==
  ASSUME BootTablesOutsidePool, NoPageInLarge PROVE Spec => []TypeOK
  <1>1. IInv => TypeOK
    BY DEF IInv
  <1> QED BY <1>1, Invariance, PTL

\* The page tables of all spaces form a forest, for any number of CPUs, frames,
\* slots and table entries: no map_4k, unmap_4k, protect_4k, address_space_new or
\* address_space_destroy, however interleaved, gives a table a second parent or
\* leaves an entry that leads to a freed frame.
THEOREM TablesFormForest ==
  ASSUME BootTablesOutsidePool, NoPageInLarge PROVE Spec => []TableForest
  <1>1. IInv => TableForest
    BY Zenon DEF IInv
  <1> QED BY <1>1, Invariance, PTL

\* No operation ever reads or writes a freed table, although unmap_4k and
\* protect_4k walk without PT_ALLOC; PT_ALLOC is held exactly during map_4k.
THEOREM WalksNeverStale ==
  ASSUME BootTablesOutsidePool, NoPageInLarge PROVE Spec => []NoStaleWalk
  <1>1. IInv => NoStaleWalk
    <2> SUFFICES ASSUME IInv, NEW c \in Cpus, op[c].kind # "idle"
                 PROVE  /\ op[c].table \in Table
                        /\ level[op[c].table] = 5 - op[c].depth
                        /\ (op[c].kind = "map") <=> (lock = c)
      BY Zenon DEF NoStaleWalk
    <2>1. op[c].table \in Table /\ level[op[c].table] = 5 - op[c].depth
      BY OpTableLevel, Zenon DEF StandsOn
    <2>2. (op[c].kind = "map") <=> (lock = c)
      BY Zenon DEF IInv, LockHeld
    <2> QED BY <2>1, <2>2, Zenon
  <1> QED BY <1>1, Invariance, PTL

\* All live spaces agree on every kernel page below a PML4 entry that the boot
\* loader had made (address_space_new copies the entries, map_4k never replaces
\* one).
THEOREM KernelHalfIsShared ==
  ASSUME BootTablesOutsidePool, NoPageInLarge PROVE Spec => []KernelHalfShared
  <1>1. IInv => KernelHalfShared
    <2> SUFFICES ASSUME IInv, NEW h \in Handle, NEW v \in Pages, Live(h), v[1] \in KernelIdx,
                        BootMem[BootRoot][v[1]].p
                 PROVE  translate(h, v) = translate(KAS, v)
      BY Zenon DEF KernelHalfShared
    <2>1. mem[Root(h)][v[1]] = mem[BootRoot][v[1]]
      BY SMTT(60) DEF IInv, KernelLinks, Root, Live
    <2>2. Root(h) # NullAddr /\ BootRoot # NullAddr /\ Root(KAS) = BootRoot
      BY RootLevel, ConstantsAssumption, BootAssumption, ZenonT(60) DEF Root
    <2>3. Descend(Root(h), v[1]) = Descend(BootRoot, v[1])
      BY <2>1, <2>2, Zenon DEF Descend
    <2>4. Walk(Root(h), v) = Walk(Root(KAS), v)
      BY <2>2, <2>3, Zenon DEF Walk
    <2> QED BY <2>4, Zenon DEF translate
  <1> QED BY <1>1, Invariance, PTL

-----------------------------------------------------------------------------
\* That no frame is lost.  The tables one level below the tables T in memory m, and all the
\* tables of the spaces with the roots R.
Kids(m, T) == {t \in Table : \E u \in T, i \in Idx : IsLink(m[u][i]) /\ m[u][i].to = t}
Kids2(m, T) == Kids(m, Kids(m, T))
Kids3(m, T) == Kids(m, Kids2(m, T))
Tree(m, R) == R \cup Kids(m, R) \cup Kids2(m, R) \cup Kids3(m, R)
Roots == {BootRoot} \cup {slots[s].pml4_phys : s \in {t \in Slot : slots[t].used}}

\* The kernel entries that the boot loader left empty stay so.
KernelFixed == \A r \in Roots, k \in KernelIdx : mem[r][k].p => BootMem[BootRoot][k].p

\* Below and Kids are the same.
LEMMA BelowIsKids ==
  ASSUME NEW m, NEW T
  PROVE  {m[x[1]][x[2]].to : x \in {y \in T \X Idx : IsLink(m[y[1]][y[2]])}} \cap Table
           = Kids(m, T)
  <1> DEFINE B == {m[x[1]][x[2]].to : x \in {y \in T \X Idx : IsLink(m[y[1]][y[2]])}}
  <1>1. ASSUME NEW t \in B PROVE \E u \in T, i \in Idx : IsLink(m[u][i]) /\ m[u][i].to = t
    BY ZenonT(60)
  <1>2. ASSUME NEW u \in T, NEW i \in Idx, IsLink(m[u][i]) PROVE m[u][i].to \in B
    <2>1. <<u, i>> \in T \X Idx /\ <<u, i>>[1] = u /\ <<u, i>>[2] = i OBVIOUS
    <2>2. <<u, i>> \in {y \in T \X Idx : IsLink(m[y[1]][y[2]])} BY <1>2, <2>1
    <2> QED BY <2>1, <2>2
  <1> HIDE DEF B
  <1>3. B \cap Table = Kids(m, T) BY <1>1, <1>2, Zenon DEF Kids
  <1> QED BY <1>3, Zenon DEF B

\* Reachable, before and after a step.
LEMMA ReachableIsTree ==
  Reachable = Tree(mem, Roots) /\ Reachable' = Tree(mem', Roots')
  <1>1. \A T : Below(T) = Kids(mem, T) BY BelowIsKids, Zenon DEF Below
  <1>2. Reachable = Tree(mem, Roots) BY <1>1, Zenon DEF Reachable, Tree, Kids2, Kids3, Roots
  <1>3. /\ Below(Roots)' = Kids(mem', Roots')
        /\ Below(Below(Roots))' = Kids(mem', Below(Roots)')
        /\ Below(Below(Below(Roots)))' = Kids(mem', Below(Below(Roots))')
    BY BelowIsKids, Zenon DEF Below
  <1>4. Reachable' = Roots' \cup Below(Roots)' \cup Below(Below(Roots))'
                     \cup Below(Below(Below(Roots)))'
    BY Zenon DEF Reachable, Roots
  <1>5. Reachable' = Tree(mem', Roots') BY <1>3, <1>4, Zenon DEF Tree, Kids2, Kids3
  <1> QED BY <1>2, <1>5

\* Tables are found again as long as the links to them stay.
LEMMA KidsKept ==
  ASSUME NEW m, NEW n, NEW T, NEW U, T \subseteq U,
         \A t \in T, i \in Idx : IsLink(m[t][i]) => n[t][i] = m[t][i]
  PROVE  Kids(m, T) \subseteq Kids(n, U)
  BY Zenon DEF Kids

\* The links of the tables above the last level, which are in D, are those of m in n too.
LinksStay(m, n, R, D) ==
  /\ R \cup Kids(m, R) \cup Kids2(m, R) \subseteq D
  /\ \A t \in D, i \in Idx : IsLink(m[t][i]) => n[t][i] = m[t][i]

\* The same three levels down.
LEMMA TreeKept ==
  ASSUME NEW m, NEW n, NEW R, NEW Q, NEW D, LinksStay(m, n, R, D), R \subseteq Q
  PROVE  /\ Kids(m, R) \subseteq Kids(n, Q) /\ Kids2(m, R) \subseteq Kids2(n, Q)
         /\ Tree(m, R) \subseteq Tree(n, Q)
  <1> USE DEF LinksStay
  <1>1. Kids(m, R) \subseteq Kids(n, Q) BY KidsKept, Zenon
  <1>2. Kids2(m, R) \subseteq Kids2(n, Q) BY <1>1, KidsKept, Zenon DEF Kids2
  <1>3. Kids3(m, R) \subseteq Kids3(n, Q) BY <1>2, KidsKept, Zenon DEF Kids3
  <1> QED BY <1>1, <1>2, <1>3, Zenon DEF Tree

\* The tables of all spaces, level by level.
LEMMA TreeLevels ==
  ASSUME IInv
  PROVE  /\ \A t \in Roots : t \in Table /\ level[t] = 4
         /\ \A t \in Kids(mem, Roots) : t \in Table /\ level[t] = 3
         /\ \A t \in Kids2(mem, Roots) : t \in Table /\ level[t] = 2
         /\ Roots \cup Kids(mem, Roots) \cup Kids2(mem, Roots) \subseteq Directories
  <1>1. \A t \in Roots : t \in Table /\ level[t] = 4
    BY BootAssumption DEF Roots, IInv, TypeOK, BootKept, TableForest, RootsAreOwn
  <1>2. ASSUME NEW T, NEW n \in 2 .. 4, \A t \in T : t \in Table /\ level[t] = n
        PROVE  \A t \in Kids(mem, T) : t \in Table /\ level[t] = n - 1
    BY <1>2 DEF Kids, IInv, TableForest, EntriesLeadDown, Directories
  <1>3. \A t \in Kids(mem, Roots) : t \in Table /\ level[t] = 3
    <2>1. \A t \in Kids(mem, Roots) : t \in Table /\ level[t] = 4 - 1 BY <1>1, <1>2
    <2> QED BY <2>1
  <1>4. \A t \in Kids2(mem, Roots) : t \in Table /\ level[t] = 2
    <2>1. \A t \in Kids2(mem, Roots) : t \in Table /\ level[t] = 3 - 1 BY <1>2, <1>3 DEF Kids2
    <2> QED BY <2>1
  <1>5. \A t \in Table : level[t] \in {2, 3, 4} => t \in Directories BY DEF Directories
  <1> QED BY <1>1, <1>3, <1>4, <1>5, ZenonT(60)

\* The table that a walk reaches belongs to a space.
LEMMA PathInTree ==
  ASSUME IInv, NEW h \in Handle, Live(h), NEW v \in Pages, NEW d \in 1 .. 3, NEW t \in Table,
         PathTo(Root(h), v, d) = t
  PROVE  /\ d = 1 => t \in Roots
         /\ d = 2 => t \in Kids(mem, Roots)
         /\ d = 3 => t \in Kids2(mem, Roots)
  <1>1. PICK r : r = Root(h) BY Zenon
  <1>2. PICK t2, t3 : t2 = Descend(r, v[1]) /\ t3 = Descend(t2, v[2]) BY ZenonT(60)
  <1>3. /\ r \in Table
        /\ t2 # NullAddr => t2 \in Table
        /\ t3 # NullAddr => t2 # NullAddr /\ t3 \in Table
        /\ mem[r][v[1]].p => IsLink(mem[r][v[1]])
        /\ t2 # NullAddr /\ mem[t2][v[2]].p => IsLink(mem[t2][v[2]])
    BY <1>1, <1>2, WalkLevels
  <1>4. v[1] \in Idx /\ v[2] \in Idx /\ NullAddr \notin Table BY ConstantsAssumption, SMTT(60)
  <1>5. r \in Roots BY <1>1 DEF Roots, Root, Live, Handle
  <1>6. t2 # NullAddr => t2 \in Kids(mem, Roots)
    BY <1>2, <1>3, <1>4, <1>5, Zenon DEF Descend, Kids
  <1>7. t3 # NullAddr => t3 \in Kids2(mem, Roots)
    BY <1>2, <1>3, <1>4, <1>6, Zenon DEF Descend, Kids, Kids2
  <1>8. CASE d = 1 BY <1>1, <1>5, <1>8 DEF PathTo
  <1>9. CASE d = 2 BY <1>1, <1>2, <1>4, <1>6, <1>9, SMTT(60) DEF PathTo
  <1>10. CASE d = 3 BY <1>1, <1>2, <1>4, <1>7, <1>10 DEF PathTo
  <1> QED BY <1>8, <1>9, <1>10

\* What a step must not do, and what it must keep.
Kept == Leaked' \subseteq Leaked /\ KernelFixed'

\* A step that leaves the links of the directories and keeps the roots.
LEMMA LinksKept ==
  ASSUME IInv, \A t \in Directories, i \in Idx : IsLink(mem[t][i]) => mem'[t][i] = mem[t][i],
         Roots \subseteq Roots'
  PROVE  /\ Roots \subseteq Tree(mem', Roots') /\ Reachable \subseteq Reachable'
         /\ Kids(mem, Roots) \subseteq Kids(mem', Roots')
         /\ Kids2(mem, Roots) \subseteq Kids2(mem', Roots')
  <1>1. Roots \cup Kids(mem, Roots) \cup Kids2(mem, Roots) \subseteq Directories BY TreeLevels
  <1>2. PICK D : D = Directories BY Zenon
  <1>3. LinksStay(mem, mem', Roots, D) BY <1>1, <1>2, Zenon DEF LinksStay
  <1>4. /\ Kids(mem, Roots) \subseteq Kids(mem', Roots')
        /\ Kids2(mem, Roots) \subseteq Kids2(mem', Roots')
        /\ Tree(mem, Roots) \subseteq Tree(mem', Roots')
    BY <1>3, TreeKept, Zenon
  <1> QED BY <1>4, ReachableIsTree, ZenonT(60) DEF Tree

\* Writing an entry of a page table loses nothing.
LEMMA LeafKept ==
  ASSUME IInv, KernelFixed, UNCHANGED <<held, slots>>,
         \A t \in Directories : mem'[t] = mem[t]
  PROVE  Kept
  <1>1. Roots' = Roots BY DEF Roots
  <1>2. Reachable \subseteq Reachable' BY <1>1, LinksKept, Zenon
  <1>3. \A r \in Roots : mem'[r] = mem[r] BY TreeLevels, Zenon
  <1>4. KernelFixed' BY <1>1, <1>3 DEF KernelFixed
  <1> QED BY <1>2, <1>4, ZenonT(60) DEF Kept, Leaked

\* The operations that do so.
LEMMA LeafActionsKept ==
  ASSUME IInv, KernelFixed, NEW c \in Cpus, MapLeaf(c) \/ UnmapWrite(c) \/ ProtectWrite(c)
  PROVE  Kept
  <1>1. op[c].kind # "idle" /\ (op[c].kind = "map" => op[c].depth = 4)
    BY ZenonT(60) DEF MapLeaf, UnmapWrite, ProtectWrite
  <1>2. PICK v \in Pages, t \in Table : op[c].v = v /\ op[c].table = t /\ level[t] = 1
    BY <1>1, OpTableLevel DEF StandsOn
  <1>3. UNCHANGED <<held, slots>> /\ \E e : mem' = mem \/ mem' = [mem EXCEPT ![t][v[4]] = e]
    BY <1>2, Zenon DEF MapLeaf, UnmapWrite, ProtectWrite
  <1>4. \A u \in Directories : u \in Table /\ u # t BY <1>2 DEF Directories
  <1>5. \A u \in Directories : mem'[u] = mem[u] BY <1>3, <1>4 DEF IInv, TypeOK
  <1> QED BY <1>3, <1>5, LeafKept, Zenon

\* The kernel half is a part of a root.
LEMMA KernelIsIdx == \A k \in KernelIdx : k \in Idx
  BY ConstantsAssumption DEF KernelIdx, Idx

\* A memory in which one frame and one entry of another were written.
LEMMA TwoWrites ==
  ASSUME NEW m \in [Table -> [Idx -> Entry]], NEW t \in Table, NEW f \in Table, t # f,
         NEW i \in Idx, NEW z, NEW e, NEW n, n = [m EXCEPT ![f] = z, ![t][i] = e]
  PROVE  /\ n[t][i] = e
         /\ \A u \in Table \ {f}, j \in Idx : (u = t /\ j = i) \/ n[u][j] = m[u][j]
  OBVIOUS

\* A new table is linked below one that belongs to a space.
LEMMA EnsureKept ==
  ASSUME IInv, KernelFixed, NoPageInEmptyEntry, NEW c \in Cpus, NEW h \in Handle, NEW v \in Pages,
         NEW d \in 1 .. 3, NEW t \in Table, NEW f \in pool, EnsureStep(c, h, v, d, t, f)
  PROVE  Kept
  <1>1. /\ Live(h) /\ PathTo(Root(h), v, d) = t /\ level[t] = 5 - d /\ v[d] \in Idx
        /\ ~mem[t][v[d]].p /\ held' = held \cup {f} /\ slots' = slots
        /\ mem' = NewTable(t, v[d], f, "USER" \in op[c].flags)
    BY Zenon DEF EnsureStep
  <1>2. f \in Table /\ f \notin Directories BY FreshFrame, ZenonT(60)
  <1>3. t \in Directories /\ t # f BY <1>1, <1>2 DEF Directories
  <1>4. PICK e : /\ mem' = [mem EXCEPT ![f] = ZeroFrame, ![t][v[d]] = e]
                 /\ IsLink(e) /\ e.to = f
    <2> DEFINE e == [p |-> TRUE, to |-> f,
                     bits |-> IF "USER" \in op[c].flags THEN {"W", "U"} ELSE {"W"}]
    <2>1. IsLink(e) /\ e.to = f BY DEF IsLink
    <2>2. mem' = [mem EXCEPT ![f] = ZeroFrame, ![t][v[d]] = e] BY <1>1 DEF NewTable
    <2> HIDE DEF e
    <2> QED BY <2>1, <2>2, ZenonT(60)
  <1>5. /\ mem'[t][v[d]] = e
        /\ \A u \in Directories, i \in Idx : (u = t /\ i = v[d]) \/ mem'[u][i] = mem[u][i]
    <2>1. mem \in [Table -> [Idx -> Entry]] /\ Directories \subseteq Table \ {f}
      BY <1>2 DEF IInv, TypeOK, Directories
    <2>2. t \in Table /\ v[d] \in Idx BY <1>1, <1>3, <2>1, ZenonT(60)
    <2>3. /\ mem'[t][v[d]] = e
          /\ \A u \in Table \ {f}, i \in Idx : (u = t /\ i = v[d]) \/ mem'[u][i] = mem[u][i]
      BY <1>2, <1>3, <1>4, <2>1, <2>2, TwoWrites, SMTT(60)
    <2> QED BY <2>1, <2>3, Zenon
  <1>6. Roots' = Roots BY <1>1, ZenonT(60) DEF Roots
  <1>7. \A u \in Directories, i \in Idx : IsLink(mem[u][i]) => mem'[u][i] = mem[u][i]
    BY <1>1, <1>5, ZenonT(60) DEF IsLink
  <1>8. /\ Roots \subseteq Roots' /\ Reachable \subseteq Reachable'
        /\ Kids(mem, Roots) \subseteq Kids(mem', Roots')
        /\ Kids2(mem, Roots) \subseteq Kids2(mem', Roots')
    BY <1>6, <1>7, LinksKept, Zenon
  <1>9. f \in Reachable'
    <2>1. \A T : t \in T => f \in Kids(mem', T) BY <1>1, <1>2, <1>4, <1>5, Zenon DEF Kids
    <2>2. /\ d = 1 => t \in Roots /\ f \in Kids(mem', Roots')
          /\ d = 2 => t \in Kids(mem', Roots') /\ f \in Kids2(mem', Roots')
          /\ d = 3 => t \in Kids2(mem', Roots') /\ f \in Kids3(mem', Roots')
      BY <1>1, <1>6, <1>8, <2>1, PathInTree, Zenon DEF Kids2, Kids3
    <2>3. d = 1 \/ d = 2 \/ d = 3 BY SMTT(60)
    <2> QED BY <2>2, <2>3, ReachableIsTree, Zenon DEF Tree
  <1>10. KernelFixed'
    <2> SUFFICES ASSUME NEW r \in Roots, NEW k \in KernelIdx, mem'[r][k].p
                 PROVE  BootMem[BootRoot][k].p
      BY <1>6, Zenon DEF KernelFixed
    <2>1. r \in Directories /\ level[r] = 4 BY TreeLevels, Zenon
    <2>2. k \in Idx BY KernelIsIdx, Zenon
    <2>3. CASE mem'[r][k] = mem[r][k] BY <2>3, Zenon DEF KernelFixed
    <2>4. CASE r = t /\ k = v[d]
      <3>1. level[t] = 5 - d /\ level[t] = 4 BY <1>1, <2>1, <2>4, Zenon
      <3>2. d = 1 BY <3>1
      <3> QED BY <2>4, <3>2, Zenon DEF NoPageInEmptyEntry, UserPages
    <2> QED BY <1>5, <2>1, <2>2, <2>3, <2>4, Zenon
  <1> QED BY <1>1, <1>8, <1>9, <1>10, ZenonT(60) DEF Kept, Leaked

\* A new root comes with a slot.
LEMMA NewKept ==
  ASSUME IInv, KernelFixed, NEW c \in Cpus, address_space_new(c)
  PROVE  KernelFixed' /\ (slots' = slots \/ Leaked' \subseteq Leaked)
  <1>1. PICK f \in pool, l \in {0, 4}, s \in Slot \cup {KAS} : NewStep(f, l, s)
    BY NewIsStep, ZenonT(60)
  <1>2. /\ \A x \in Table \ {f} : mem'[x] = mem[x]
        /\ \A j \in Idx : mem'[f][j] = IF j \in KernelIdx THEN mem[BootRoot][j] ELSE Zero
        /\ \A r \in Slot : \/ slots'[r] = slots[r]
                           \/ /\ r = s /\ l = 4 /\ ~slots[r].used
                              /\ slots'[r].used /\ slots'[r].pml4_phys = f
        /\ held' = held \cup {f}
    BY <1>1, NewEffects, SMTT(60)
  <1>3. f \notin Directories BY FreshFrame
  <1>4. Roots \subseteq Roots' /\ Roots' \subseteq Roots \cup {f}
    <2>1. \A x : x \in Roots <=>
               x = BootRoot \/ \E r \in Slot : slots[r].used /\ slots[r].pml4_phys = x
      BY Zenon DEF Roots
    <2>2. \A x : x \in Roots' <=>
               x = BootRoot \/ \E r \in Slot : slots'[r].used /\ slots'[r].pml4_phys = x
      BY Zenon DEF Roots
    <2>3. ASSUME NEW q \in Slot, slots[q].used
          PROVE  slots'[q].used /\ slots'[q].pml4_phys = slots[q].pml4_phys
      BY <1>2, <2>3, ZenonT(60)
    <2>4. ASSUME NEW q \in Slot, slots'[q].used, slots'[q].pml4_phys # f
          PROVE  slots[q].used /\ slots'[q].pml4_phys = slots[q].pml4_phys
      BY <1>2, <2>4
    <2>5. ASSUME NEW x \in Roots, x # BootRoot PROVE x \in Roots'
      <3>1. PICK q \in Slot : slots[q].used /\ slots[q].pml4_phys = x BY <2>1, <2>5, Zenon
      <3>2. slots'[q].used /\ slots'[q].pml4_phys = x BY <2>3, <3>1, Zenon
      <3> QED BY <2>2, <3>2, Zenon
    <2>6. ASSUME NEW x \in Roots', x # BootRoot, x # f PROVE x \in Roots
      <3>1. PICK q \in Slot : slots'[q].used /\ slots'[q].pml4_phys = x BY <2>2, <2>6, Zenon
      <3>2. slots[q].used /\ slots[q].pml4_phys = x BY <2>4, <2>6, <3>1, Zenon
      <3> QED BY <2>1, <3>2, Zenon
    <2>7. BootRoot \in Roots /\ BootRoot \in Roots' BY <2>1, <2>2, Zenon
    <2> QED BY <2>5, <2>6, <2>7, Zenon
  <1>5. \A t \in Directories : t \in Table \ {f} BY <1>3 DEF Directories
  <1>6. \A t \in Directories, i \in Idx : IsLink(mem[t][i]) => mem'[t][i] = mem[t][i]
    BY <1>2, <1>5, Zenon
  <1>7. Reachable \subseteq Reachable' BY <1>4, <1>6, LinksKept, Zenon
  <1>8. KernelFixed'
    <2> SUFFICES ASSUME NEW r \in Roots', NEW k \in KernelIdx, mem'[r][k].p
                 PROVE  BootMem[BootRoot][k].p
      BY Zenon DEF KernelFixed
    <2>1. k \in Idx BY KernelIsIdx, Zenon
    <2>2. BootRoot \in Roots BY DEF Roots
    <2>3. CASE r \in Roots
      <3>1. r \in Directories BY <2>3, TreeLevels, Zenon
      <3>2. mem'[r] = mem[r] BY <1>2, <1>5, <3>1, Zenon
      <3> QED BY <2>3, <3>2, Zenon DEF KernelFixed
    <2>4. CASE r = f BY <1>2, <2>1, <2>2, <2>4, Zenon DEF KernelFixed
    <2> QED BY <1>4, <2>3, <2>4, ZenonT(60)
  <1>9. CASE slots' = slots BY <1>8, <1>9
  <1>10. CASE slots' # slots
    <2>1. l = 4 /\ s \in Slot /\ slots' = [slots EXCEPT ![s] = [used |-> TRUE, pml4_phys |-> f]]
      BY <1>1, <1>10, Zenon DEF NewStep
    <2>2. slots'[s].used /\ slots'[s].pml4_phys = f BY <2>1, ZenonT(60) DEF IInv, TypeOK
    <2>3. f \in Roots' BY <2>1, <2>2 DEF Roots
    <2>4. f \in Reachable' BY <2>3, ReachableIsTree, Zenon DEF Tree
    <2> QED BY <1>2, <1>7, <1>8, <2>4, Zenon DEF Leaked
  <1> QED BY <1>9, <1>10

\* The tables below two sets of tables.
LEMMA KidsSplit ==
  ASSUME NEW m, NEW T, NEW U, NEW V, T \subseteq U \cup V
  PROVE  Kids(m, T) \subseteq Kids(m, U) \cup Kids(m, V)
  BY Zenon DEF Kids

\* address_space_destroy frees every table of the space that no other space shares.
LEMMA DestroyKept ==
  ASSUME IInv, KernelFixed, NEW c \in Cpus, NEW s \in Slot, address_space_destroy(c, s)
  PROVE  Kept
  <1>1. /\ slots[s].used /\ mem' = mem
        /\ slots' = [slots EXCEPT ![s] = [used |-> FALSE, pml4_phys |-> NullAddr]]
    BY ConstantsAssumption, ZenonT(60) DEF address_space_destroy, CanStart, Live
  <1>2. PICK r : r = slots[s].pml4_phys /\ r = Root(s) BY ConstantsAssumption DEF Root
  <1>3. held' = held \ FreedBy(r) BY <1>2, Zenon DEF address_space_destroy
  <1>4. /\ \A q \in Slot \ {s} : slots'[q] = slots[q]
        /\ ~slots'[s].used
    BY <1>1 DEF IInv, TypeOK
  <1>5. Roots' \subseteq Roots /\ Roots \subseteq Roots' \cup {r} /\ BootRoot \in Roots'
    <2>1. \A x : x \in Roots <=>
               x = BootRoot \/ \E q \in Slot : slots[q].used /\ slots[q].pml4_phys = x
      BY Zenon DEF Roots
    <2>2. \A x : x \in Roots' <=>
               x = BootRoot \/ \E q \in Slot : slots'[q].used /\ slots'[q].pml4_phys = x
      BY Zenon DEF Roots
    <2>3. ASSUME NEW q \in Slot, slots'[q].used
          PROVE  slots[q].used /\ slots'[q].pml4_phys = slots[q].pml4_phys
      BY <1>4, <2>3, ZenonT(60)
    <2>4. ASSUME NEW q \in Slot, slots[q].used, slots[q].pml4_phys # r
          PROVE  slots'[q].used /\ slots'[q].pml4_phys = slots[q].pml4_phys
      BY <1>2, <1>4, <2>4, ZenonT(60)
    <2>5. BootRoot \in Roots' BY <2>2
    <2>6. ASSUME NEW x \in Roots', x # BootRoot PROVE x \in Roots
      <3>1. PICK q \in Slot : slots'[q].used /\ slots'[q].pml4_phys = x BY <2>2, <2>6, Zenon
      <3>2. slots[q].used /\ slots[q].pml4_phys = x BY <2>3, <3>1, Zenon
      <3> QED BY <2>1, <3>2, Zenon
    <2>7. ASSUME NEW x \in Roots, x # BootRoot, x # r PROVE x \in Roots'
      <3>1. PICK q \in Slot : slots[q].used /\ slots[q].pml4_phys = x BY <2>1, <2>7, Zenon
      <3>2. slots'[q].used /\ slots'[q].pml4_phys = x BY <2>4, <2>7, <3>1, Zenon
      <3> QED BY <2>2, <3>2, Zenon
    <2>8. BootRoot \in Roots BY <2>1, Zenon
    <2> QED BY <2>5, <2>6, <2>7, <2>8, Zenon
  <1>6. r \in Roots BY <1>1, <1>2, ZenonT(60) DEF Roots
  <1>7. Kids(mem, {r}) \subseteq Kids(mem, Roots') \cup UserPdpts(r)
    <2> SUFFICES ASSUME NEW x \in Kids(mem, {r}), x \notin UserPdpts(r) PROVE x \in Kids(mem, Roots')
      OBVIOUS
    <2>1. PICK i \in Idx : IsLink(mem[r][i]) /\ mem[r][i].to = x /\ x \in Table
      BY Zenon DEF Kids
    <2>2. i \in KernelIdx BY <2>1, Zenon DEF UserPdpts, ChildrenOf
    <2>3. BootMem[BootRoot][i].p BY <1>6, <2>1, <2>2, ZenonT(60) DEF KernelFixed, IsLink
    <2>4. mem[BootRoot][i] = mem[r][i] BY <1>1, <1>2, <2>2, <2>3, ZenonT(60) DEF IInv, KernelLinks
    <2> QED BY <1>5, <2>1, <2>4, Zenon DEF Kids
  <1>8. Kids(mem, UserPdpts(r)) = UserPds(r) /\ Kids(mem, UserPds(r)) = UserPts(r)
    BY Zenon DEF Kids, UserPds, UserPts, ChildrenOf
  <1>9. Kids(mem, Roots) \subseteq Kids(mem, Roots') \cup UserPdpts(r)
    <2>1. Kids(mem, Roots) \subseteq Kids(mem, Roots') \cup Kids(mem, {r}) BY <1>5, KidsSplit, Zenon
    <2> QED BY <1>7, <2>1, Zenon
  <1>10. Kids2(mem, Roots) \subseteq Kids2(mem, Roots') \cup UserPds(r)
    BY <1>8, <1>9, KidsSplit, Zenon DEF Kids2
  <1>11. Kids3(mem, Roots) \subseteq Kids3(mem, Roots') \cup UserPts(r)
    BY <1>8, <1>10, KidsSplit, Zenon DEF Kids3
  <1>12. Reachable \subseteq Reachable' \cup FreedBy(r)
    BY <1>1, <1>5, <1>9, <1>10, <1>11, ReachableIsTree, Zenon DEF Tree, FreedBy
  <1>13. Leaked' \subseteq Leaked BY <1>3, <1>12, Zenon DEF Leaked
  <1>14. KernelFixed' BY <1>1, <1>5, ZenonT(60) DEF KernelFixed
  <1> QED BY <1>13, <1>14, Zenon DEF Kept

\* For any number of CPUs, frames, slots and table entries: as long as clients name no kernel
\* page below a root entry that the boot loader left empty, no operation loses sight of a
\* frame (mmu.rs:107), but for address_space_new with no slot left.
THEOREM NoFrameLost ==
  ASSUME BootTablesOutsidePool, NoPageInLarge, NoPageInEmptyEntry PROVE Spec => NoLeak
  <1>1. Init => KernelFixed
    <2> SUFFICES ASSUME Init PROVE KernelFixed BY ZenonT(60)
    <2>1. Roots = {BootRoot} BY Zenon DEF Init, Roots
    <2>2. mem[BootRoot] = BootMem[BootRoot] BY BootAssumption DEF Init
    <2> QED BY <2>1, <2>2 DEF KernelFixed
  <1>2. ASSUME IInv, KernelFixed, [Next]_vars
        PROVE  /\ KernelFixed'
               /\ \/ UNCHANGED <<mem, held, slots>>
                  \/ slots' = slots /\ op' = op
                  \/ Leaked' \subseteq Leaked
    <2>1. CASE UNCHANGED <<mem, held, slots>>
      <3>1. Roots' = Roots BY <2>1 DEF Roots
      <3> QED BY <1>2, <2>1, <3>1, ZenonT(60) DEF KernelFixed
    <2>2. ASSUME NEW c \in Cpus, ensure_table(c) PROVE UNCHANGED <<mem, held, slots>> \/ Kept
      <3>1. CASE UNCHANGED <<mem, held>> BY <2>2, <3>1, Zenon DEF ensure_table
      <3>2. CASE ~mem[op[c].table][op[c].v[op[c].depth]].p /\ lock' = lock
        <4>1. PICK h \in Handle, v \in Pages, d \in 1 .. 3, t \in Table, f \in pool :
                EnsureStep(c, h, v, d, t, f)
          BY <1>2, <2>2, <3>2, EnsureIsStep, Zenon
        <4> QED BY <1>2, <4>1, EnsureKept
      <3> QED BY <2>2, <3>1, <3>2, Zenon DEF ensure_table
    <2>3. ASSUME NEW c \in Cpus, Continue(c) PROVE UNCHANGED <<mem, held, slots>> \/ Kept
      BY <1>2, <2>2, <2>3, LeafActionsKept, Zenon DEF Continue
    <2>4. ASSUME NEW c \in Cpus, address_space_new(c)
          PROVE  KernelFixed' /\ op' = op /\ (slots' = slots \/ Leaked' \subseteq Leaked)
      BY <1>2, <2>4, NewKept, Zenon DEF address_space_new
    <2>5. ASSUME NEW c \in Cpus, NEW s \in Slot, address_space_destroy(c, s) PROVE Kept
      BY <1>2, <2>5, DestroyKept
    <2>6. ASSUME NEW c \in Cpus, NEW h \in Handle, NEW v \in Pages, NEW kind, NEW to, NEW flags,
                 MapBegin(c, h, v, to, flags) \/ WalkBegin(c, kind, h, v, flags)
          PROVE  UNCHANGED <<mem, held, slots>>
      BY <2>6, Zenon DEF MapBegin, WalkBegin
    <2> QED BY <1>2, <2>1, <2>3, <2>4, <2>5, <2>6, Zenon DEF Next, vars, Kept
  <1>3. Spec => []IInv BY Invariance
  <1> QED BY <1>1, <1>2, <1>3, PTL DEF Spec, NoLeak
=============================================================================
