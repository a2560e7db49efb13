----------------------------- MODULE X86MmuOps ------------------------------
(***************************************************************************)
(* The inductive invariant of the page tables, and the steps that keep it  *)
(* without making or freeing a table: map_4k, unmap_4k and protect_4k over *)
(* tables that exist.                                                      *)
(***************************************************************************)
EXTENDS X86Mmu, TLAPS

\* The table at depth d of the walk for page v from root r.
PathTo(r, v, d) == IF d = 1 THEN r
                   ELSE IF d = 2 THEN Descend(r, v[1])
                   ELSE IF d = 3 THEN Descend(Descend(r, v[1]), v[2])
                   ELSE Walk(r, v)

\* What is assumed of the machine, besides the named assumptions.
Premises == BootTablesOutsidePool /\ NoPageInLarge

\* The boot loader's directories keep their levels and entries.
BootKept ==
  \A t \in BootTables :
    /\ level[t] = BootLevel[t]
    /\ \A i \in Idx : BootLevel[t] > 1 /\ BootMem[t][i].p => mem[t][i] = BootMem[t][i]

\* An entry the boot loader made, or a root's copy of one.
FromBoot(t, i) ==
  \/ t \in BootTables /\ BootMem[t][i].p
  \/ /\ level[t] = 4 /\ i \in KernelIdx
     /\ BootMem[BootRoot][i].p /\ mem[t][i] = BootMem[BootRoot][i]

\* All other entries are made by ensure_table: they lead to tables in frames that the
\* allocator handed out.
HeldBelow ==
  \A t \in Directories, i \in Idx :
    mem[t][i].p /\ ~FromBoot(t, i) => IsLink(mem[t][i]) /\ mem[t][i].to \in held

\* Every live root carries the kernel entries the boot loader left.
KernelLinks ==
  \A k \in KernelIdx :
    BootMem[BootRoot][k].p
      => /\ mem[BootRoot][k] = BootMem[BootRoot][k]
         /\ \A s \in Slot : slots[s].used => mem[slots[s].pml4_phys][k] = BootMem[BootRoot][k]

\* The operation in progress on c stands on table t, where the walk for its page
\* leads at its depth.
StandsOn(c, h, v, d, t) ==
  /\ op[c].h = h /\ op[c].v = v /\ op[c].depth = d /\ op[c].table = t
  /\ op[c].kind # "map" => d = 4
  /\ Live(h)
  /\ PathTo(Root(h), v, d) = t

OnPath(c) ==
  \E h \in Handle, v \in Pages, d \in 1 .. 4, t \in Table : StandsOn(c, h, v, d, t)

OpsOnPath == \A c \in Cpus : op[c].kind # "idle" => OnPath(c)

\* No two operations in progress use one handle.
Exclusive ==
  \A c, d \in Cpus :
    op[c].kind # "idle" /\ op[d].kind # "idle" /\ op[c].h = op[d].h => c = d

LockHeld == \A c \in Cpus : (op[c].kind = "map") <=> (lock = c)

IInv == /\ Premises
        /\ TypeOK
        /\ TableForest
        /\ BootKept
        /\ HeldBelow
        /\ KernelLinks
        /\ OpsOnPath
        /\ Exclusive
        /\ LockHeld

USE DEF Table

\* The root of a live space is a PML4.
LEMMA RootLevel ==
  ASSUME IInv, NEW h \in Handle, Live(h)
  PROVE  /\ Root(h) \in Table /\ level[Root(h)] = 4 /\ Root(h) # NullAddr
         /\ Root(h) \in BootTables => Root(h) = BootRoot
  <1>1. Root(h) \in Table /\ level[Root(h)] = 4 /\ Root(h) # NullAddr
    BY ConstantsAssumption, BootAssumption
       DEF IInv, TypeOK, TableForest, RootsAreOwn, BootKept, Live, Root, Handle
  <1> QED BY <1>1, BootAssumption DEF IInv, BootKept

\* One level of a walk, where b is the boot table at the same place, if there is one.
LEMMA LinkBelow ==
  ASSUME IInv, NEW t \in Table, level[t] \in 2 .. 4, NEW i \in Idx, mem[t][i].p,
         NEW b \in BootTables \cup {NullAddr},
         t \in BootTables => t = b, level[t] = 4 => b = BootRoot,
         b # NullAddr => ~IsLarge(BootMem[b][i])
  PROVE  /\ IsLink(mem[t][i]) /\ mem[t][i].to \in Table
         /\ level[mem[t][i].to] = level[t] - 1
         /\ mem[t][i].to \in BootTables => mem[t][i].to = BootChild(b, i)
  <1> USE ConstantsAssumption, BootAssumption
  <1>1. IsLink(mem[t][i]) /\ (mem[t][i].to \in BootTables => mem[t][i].to = BootChild(b, i))
    <2>1. CASE ~FromBoot(t, i)
      <3>1. IsLink(mem[t][i]) /\ mem[t][i].to \in held
        BY <2>1 DEF IInv, HeldBelow, Directories
      <3>2. held \cap BootTables = {}
        BY DEF IInv, TypeOK, Premises, BootTablesOutsidePool
      <3> QED BY <3>1, <3>2
    <2>2. CASE FromBoot(t, i)
      <3>1. b \in BootTables /\ BootMem[b][i].p /\ mem[t][i] = BootMem[b][i]
        <4>1. CASE t \in BootTables /\ BootMem[t][i].p
          <5>1. BootLevel[t] > 1
            BY <4>1 DEF IInv, BootKept
          <5> QED BY <4>1, <5>1 DEF IInv, BootKept
        <4>2. CASE level[t] = 4 /\ BootMem[BootRoot][i].p /\ mem[t][i] = BootMem[BootRoot][i]
          BY <4>2, SMTT(60)
        <4> QED BY <2>2, <4>1, <4>2 DEF FromBoot
      <3> QED BY <3>1 DEF IsLink, IsLarge, BootChild
    <2> QED BY <2>1, <2>2
  <1> QED BY <1>1 DEF IInv, TableForest, EntriesLeadDown, Directories

\* The tables at depth 1, 2, 3 and 4 of a walk have level 4, 3, 2 and 1, and the walk
\* meets no large page.
LEMMA WalkLevels ==
  ASSUME IInv, NEW h \in Handle, Live(h), NEW v \in Pages,
         NEW t2, t2 = Descend(Root(h), v[1]), NEW t3, t3 = Descend(t2, v[2]),
         NEW t4, t4 = Descend(t3, v[3])
  PROVE  /\ Root(h) \in Table /\ level[Root(h)] = 4
         /\ t2 # NullAddr => t2 \in Table /\ level[t2] = 3
         /\ t3 # NullAddr => t2 # NullAddr /\ t3 \in Table /\ level[t3] = 2
         /\ t4 # NullAddr => t3 # NullAddr /\ t4 \in Table /\ level[t4] = 1
         /\ mem[Root(h)][v[1]].p => IsLink(mem[Root(h)][v[1]])
         /\ t2 # NullAddr /\ mem[t2][v[2]].p => IsLink(mem[t2][v[2]])
         /\ t3 # NullAddr /\ mem[t3][v[3]].p => IsLink(mem[t3][v[3]])
  <1> DEFINE b2 == BootChild(BootRoot, v[1])
             b3 == BootChild(b2, v[2])
  <1>1. v[1] \in Idx /\ v[2] \in Idx /\ v[3] \in Idx
    BY ConstantsAssumption
  <1>2. /\ b2 \in BootTables \cup {NullAddr} /\ (b2 # NullAddr => BootLevel[b2] = 3)
        /\ b3 \in BootTables \cup {NullAddr}
    <2>1. BootRoot \in BootTables /\ BootLevel[BootRoot] = 4
      BY BootAssumption
    <2>2. b2 \in BootTables \cup {NullAddr} /\ (b2 # NullAddr => BootLevel[b2] = 3)
      BY <1>1, <2>1, BootAssumption DEF BootChild
    <2> HIDE DEF b2
    <2>3. b3 \in BootTables \cup {NullAddr}
      BY <1>1, <2>2, BootAssumption DEF BootChild
    <2> QED BY <2>2, <2>3
  <1>3. /\ ~IsLarge(BootMem[BootRoot][v[1]])
        /\ b2 # NullAddr => ~IsLarge(BootMem[b2][v[2]])
        /\ b3 # NullAddr => ~IsLarge(BootMem[b3][v[3]])
    BY <1>1, BootAssumption DEF IInv, Premises, NoPageInLarge, InLargePage
  <1> HIDE DEF b2, b3
  <1>4. /\ Root(h) \in Table /\ level[Root(h)] = 4 /\ Root(h) # NullAddr
        /\ Root(h) \in BootTables => Root(h) = BootRoot
    BY RootLevel
  <1>5. mem[Root(h)][v[1]].p =>
          LET e == mem[Root(h)][v[1]] IN
          IsLink(e) /\ e.to \in Table /\ level[e.to] = 3 /\ (e.to \in BootTables => e.to = b2)
    <2> SUFFICES ASSUME NEW e, e = mem[Root(h)][v[1]], e.p
                 PROVE  IsLink(e) /\ e.to \in Table /\ level[e.to] = 3 /\ (e.to \in BootTables => e.to = b2)
      BY Zenon
    <2>1. BootRoot \in BootTables \cup {NullAddr} /\ level[Root(h)] \in 2 .. 4
      BY <1>4, BootAssumption
    <2>2. /\ IsLink(e) /\ e.to \in Table /\ level[e.to] = level[Root(h)] - 1
          /\ e.to \in BootTables => e.to = BootChild(BootRoot, v[1])
      BY <1>1, <1>3, <1>4, <2>1, LinkBelow, ZenonT(60)
    <2> QED BY <1>4, <2>2 DEF b2
  <1>6. t2 # NullAddr => t2 \in Table /\ level[t2] = 3 /\ (t2 \in BootTables => t2 = b2)
    BY <1>4, <1>5, Zenon DEF Descend
  <1>7. t2 # NullAddr /\ mem[t2][v[2]].p =>
          LET e == mem[t2][v[2]] IN
          IsLink(e) /\ e.to \in Table /\ level[e.to] = 2 /\ (e.to \in BootTables => e.to = b3)
    <2> SUFFICES ASSUME t2 # NullAddr, NEW e, e = mem[t2][v[2]], e.p
                 PROVE  IsLink(e) /\ e.to \in Table /\ level[e.to] = 2 /\ (e.to \in BootTables => e.to = b3)
      BY Zenon
    <2>1. level[t2] \in 2 .. 4 /\ level[t2] # 4
      BY <1>6
    <2>2. /\ IsLink(e) /\ e.to \in Table /\ level[e.to] = level[t2] - 1
          /\ e.to \in BootTables => e.to = BootChild(b2, v[2])
      BY <1>1, <1>2, <1>3, <1>6, <2>1, LinkBelow, Zenon
    <2> QED BY <1>6, <2>2 DEF b3
  <1>8. t3 # NullAddr =>
          t2 # NullAddr /\ t3 \in Table /\ level[t3] = 2 /\ (t3 \in BootTables => t3 = b3)
    BY <1>7, Zenon DEF Descend
  <1>9. t3 # NullAddr /\ mem[t3][v[3]].p =>
          LET e == mem[t3][v[3]] IN IsLink(e) /\ e.to \in Table /\ level[e.to] = 1
    <2> SUFFICES ASSUME t3 # NullAddr, NEW e, e = mem[t3][v[3]], e.p
                 PROVE  IsLink(e) /\ e.to \in Table /\ level[e.to] = 1
      BY Zenon
    <2>1. level[t3] \in 2 .. 4 /\ level[t3] # 4
      BY <1>8
    <2>2. IsLink(e) /\ e.to \in Table /\ level[e.to] = level[t3] - 1
      BY <1>1, <1>2, <1>3, <1>8, <2>1, LinkBelow, Zenon
    <2> QED BY <1>8, <2>2
  <1>10. t4 # NullAddr => t3 # NullAddr /\ t4 \in Table /\ level[t4] = 1
    BY <1>9, Zenon DEF Descend
  <1> QED BY <1>4, <1>5, <1>6, <1>7, <1>8, <1>9, <1>10

\* The table at depth d of a walk has level 5 - d, and a present entry there that the
\* walk follows leads to a table.
LEMMA PathLevel ==
  ASSUME IInv, NEW h \in Handle, Live(h), NEW v \in Pages, NEW d \in 1 .. 4,
         PathTo(Root(h), v, d) # NullAddr
  PROVE  /\ PathTo(Root(h), v, d) \in Table /\ level[PathTo(Root(h), v, d)] = 5 - d
         /\ d < 4 /\ mem[PathTo(Root(h), v, d)][v[d]].p
              => IsLink(mem[PathTo(Root(h), v, d)][v[d]])
  <1> DEFINE r == Root(h)
             t2 == Descend(r, v[1])
             t3 == Descend(t2, v[2])
             t4 == Descend(t3, v[3])
  <1>1. /\ r \in Table /\ level[r] = 4
        /\ t2 # NullAddr => t2 \in Table /\ level[t2] = 3
        /\ t3 # NullAddr => t3 \in Table /\ level[t3] = 2
        /\ t4 # NullAddr => t4 \in Table /\ level[t4] = 1
        /\ mem[r][v[1]].p => IsLink(mem[r][v[1]])
        /\ t2 # NullAddr /\ mem[t2][v[2]].p => IsLink(mem[t2][v[2]])
        /\ t3 # NullAddr /\ mem[t3][v[3]].p => IsLink(mem[t3][v[3]])
    BY WalkLevels
  <1>2. PathTo(r, v, d) = IF d = 1 THEN r ELSE IF d = 2 THEN t2 ELSE IF d = 3 THEN t3 ELSE t4
    BY DEF PathTo, Walk
  <1> HIDE DEF r, t2, t3, t4
  <1> QED BY <1>1, <1>2 DEF r

\* Entries of directories are never changed once present (they only disappear
\* together with their table).
DirectoriesKept ==
  \A t \in Directories, i \in Idx : mem[t][i].p => mem'[t][i] = mem[t][i]

\* Then a walk that reached a table keeps reaching it.
LEMMA PathKept ==
  ASSUME IInv, NEW h \in Handle, Live(h), NEW v \in Pages, NEW d \in 1 .. 4,
         DirectoriesKept, Root(h)' = Root(h), PathTo(Root(h), v, d) # NullAddr
  PROVE  PathTo(Root(h), v, d)' = PathTo(Root(h), v, d)
  <1> DEFINE r == Root(h)
             t2 == Descend(r, v[1])
             t3 == Descend(t2, v[2])
             t4 == Descend(t3, v[3])
  <1>0. /\ v[1] \in Idx /\ v[2] \in Idx /\ v[3] \in Idx
    BY ConstantsAssumption
  <1>1. ASSUME NEW t \in Table, NEW i \in Idx, level[t] \in 2 .. 4, Descend(t, i) # NullAddr
        PROVE  Descend(t, i)' = Descend(t, i)
    BY <1>1 DEF DirectoriesKept, Descend, Directories
  <1>2. /\ r \in Table /\ level[r] = 4
        /\ t2 # NullAddr => t2 \in Table /\ level[t2] = 3
        /\ t3 # NullAddr => t2 # NullAddr /\ t3 \in Table /\ level[t3] = 2
        /\ t4 # NullAddr => t3 # NullAddr
    BY WalkLevels
  <1>3. t2 # NullAddr => t2' = t2
    BY <1>0, <1>1, <1>2
  <1>4. t3 # NullAddr => t3' = t3
    <2>1. t3 # NullAddr => Descend(t2, v[2])' = t3
      BY <1>0, <1>1, <1>2
    <2> QED BY <1>2, <1>3, <2>1
  <1>5. t4 # NullAddr => t4' = t4
    <2>1. t4 # NullAddr => Descend(t3, v[3])' = t4
      BY <1>0, <1>1, <1>2
    <2> QED BY <1>2, <1>4, <2>1
  <1>6. /\ PathTo(r, v, d) = IF d = 1 THEN r ELSE IF d = 2 THEN t2 ELSE IF d = 3 THEN t3 ELSE t4
        /\ PathTo(r, v, d)' =
             IF d = 1 THEN r' ELSE IF d = 2 THEN t2' ELSE IF d = 3 THEN t3' ELSE t4'
    BY DEF PathTo, Walk
  <1>7. r' = r
    OBVIOUS
  <1> HIDE DEF r, t2, t3, t4
  <1> QED BY <1>3, <1>4, <1>5, <1>6, <1>7 DEF r

\* Hence an operation in progress stays on its path over a step that leaves it,
\* its space and the directories alone.
LEMMA OnPathKept ==
  ASSUME IInv, DirectoriesKept, NEW c \in Cpus, NEW h \in Handle,
         op[c].kind # "idle", op'[c] = op[c], op[c].h = h,
         Live(h)', Root(h)' = Root(h)
  PROVE  OnPath(c)'
  <1>1. PICK g \in Handle, v \in Pages, d \in 1 .. 4, t \in Table : StandsOn(c, g, v, d, t)
    BY DEF IInv, OpsOnPath, OnPath
  <1>2. g = h /\ t # NullAddr
    BY <1>1, ConstantsAssumption DEF StandsOn
  <1>3. PathTo(Root(h), v, d)' = t
    BY <1>1, <1>2, PathKept DEF StandsOn
  <1>4. StandsOn(c, h, v, d, t)'
    BY <1>1, <1>2, <1>3 DEF StandsOn
  <1> QED BY <1>4 DEF OnPath

-----------------------------------------------------------------------------
\* The boot loader's tables form a forest apart from the pool, and nothing runs.
LEMMA InitIInv == Premises /\ Init => IInv
  <1> SUFFICES ASSUME Premises, Init PROVE IInv
    OBVIOUS
  <1> USE ConstantsAssumption, BootAssumption
  <1>1. \A t \in BootTables : mem[t] = BootMem[t] /\ level[t] = BootLevel[t]
    BY DEF Init
  <1>2. \A t \in Table : level[t] > 0 => t \in BootTables
    BY DEF Init
  <1>3. \A t \in Directories : t \in BootTables /\ BootLevel[t] > 1 /\ level[t] = BootLevel[t]
    BY <1>1, <1>2 DEF Directories
  <1>4. \A c \in Cpus : op[c] = Idle /\ op[c].kind = "idle"
    BY Zenon DEF Init, Idle
  <1>5. TypeOK
    <2>1. mem \in [Table -> [Idx -> Entry]]
      <3>1. Junk \in [Idx -> Entry]
        BY DEF Junk, Entry, PteBits
      <3> QED BY <3>1 DEF Init
    <2>2. level \in [Table -> 0 .. 4]
      BY DEF Init
    <2>3. (CHOOSE v \in Pages : TRUE) \in Pages
      OBVIOUS
    <2>4. op \in [Cpus -> Operation]
      BY <2>3 DEF Init, Idle, Handle, Operation
    <2> QED BY <2>1, <2>2, <2>4 DEF Init, TypeOK
  <1>6. EntriesLeadDown
    <2> SUFFICES ASSUME NEW t \in Directories, NEW i \in Idx, IsLink(mem[t][i])
                 PROVE  mem[t][i].to \in Table /\ level[mem[t][i].to] = level[t] - 1
      BY DEF EntriesLeadDown
    <2>1. t \in BootTables /\ BootLevel[t] > 1 /\ IsLink(BootMem[t][i]) /\ mem[t][i] = BootMem[t][i]
      BY <1>1, <1>3
    <2>2. BootMem[t][i].to \in BootTables /\ BootLevel[BootMem[t][i].to] = BootLevel[t] - 1
      BY <2>1
    <2> QED BY <1>1, <2>1, <2>2
  <1>7. OneParent
    BY <1>1, <1>3, SMTT(60) DEF OneParent
  <1>8. TablesAreHeld /\ RootsAreOwn
    BY <1>2 DEF Init, TablesAreHeld, RootsAreOwn
  <1>9. BootKept
    BY <1>1 DEF BootKept
  <1>10. HeldBelow
    BY <1>1, <1>3 DEF HeldBelow, FromBoot
  <1>11. KernelLinks
    BY <1>1 DEF KernelLinks, Init
  <1>12. OpsOnPath /\ Exclusive /\ LockHeld
    BY <1>4 DEF OpsOnPath, Exclusive, LockHeld, Init
  <1> QED BY <1>5, <1>6, <1>7, <1>8, <1>9, <1>10, <1>11, <1>12 DEF IInv, TableForest

-----------------------------------------------------------------------------
\* The conjuncts of the invariant that speak of tables and slots only.
TablesInv == Premises /\ TableForest /\ BootKept /\ HeldBelow /\ KernelLinks

\* The conjuncts that speak of the operations in progress.
OpsInv == OpsOnPath /\ Exclusive /\ LockHeld

\* A step that leaves the directories alone keeps the tables' invariant.
LEMMA DirectoriesUnchanged ==
  ASSUME IInv, UNCHANGED <<pool, held, level, slots>>,
         \A t \in Directories : mem'[t] = mem[t]
  PROVE  TablesInv' /\ DirectoriesKept
  <1>1. Directories' = Directories
    BY DEF Directories
  <1>2. TableForest'
    BY <1>1, SMTT(60) DEF IInv, TableForest, EntriesLeadDown, OneParent, TablesAreHeld, RootsAreOwn,
                Directories, IsLink
  <1>3. HeldBelow' /\ BootKept'
    <2>1. \A t \in BootTables : BootLevel[t] > 1 => t \in Directories
      BY BootAssumption DEF IInv, BootKept, Directories
    <2>2. BootKept'
      BY <2>1 DEF IInv, BootKept
    <2> QED BY <1>1, <2>2 DEF IInv, HeldBelow, FromBoot, IsLink
  <1>4. KernelLinks'
    <2>1. BootRoot \in Directories
      BY BootAssumption DEF IInv, BootKept, Directories
    <2>2. \A s \in Slot : slots[s].used => slots[s].pml4_phys \in Directories
      BY DEF IInv, TypeOK, TableForest, RootsAreOwn, Directories
    <2> QED BY <2>1, <2>2 DEF IInv, KernelLinks
  <1>5. DirectoriesKept
    BY DEF DirectoriesKept
  <1>6. Premises'
    BY DEF IInv, Premises, BootTablesOutsidePool, NoPageInLarge, InLargePage
  <1> QED BY <1>2, <1>3, <1>4, <1>5, <1>6 DEF TablesInv, IInv

\* An operation that returns leaves the others where they are.
LEMMA ReturnOps ==
  ASSUME IInv, DirectoriesKept, slots' = slots, NEW c \in Cpus, Return(c)
  PROVE  OpsInv'
  <1> USE ConstantsAssumption
  <1>1. op' = [op EXCEPT ![c] = Idle] /\ op'[c].kind = "idle"
    BY DEF Return, Idle, IInv, TypeOK
  <1>2. \A d \in Cpus \ {c} : op'[d] = op[d]
    BY <1>1 DEF IInv, TypeOK
  <1>3. \A h \in Handle : Live(h)' = Live(h) /\ Root(h)' = Root(h)
    BY DEF Live, Root
  <1>4. OpsOnPath'
    <2> SUFFICES ASSUME NEW d \in Cpus, op'[d].kind # "idle" PROVE OnPath(d)'
      BY DEF OpsOnPath
    <2>1. d # c /\ op'[d] = op[d] /\ op[d].kind # "idle"
      BY <1>1, <1>2
    <2>2. PICK h \in Handle : op[d].h = h /\ Live(h)
      BY <2>1 DEF IInv, OpsOnPath, OnPath, StandsOn
    <2>3. Live(h)' /\ Root(h)' = Root(h)
      BY <1>3, <2>2
    <2> QED BY <2>1, <2>2, <2>3, OnPathKept
  <1>5. Exclusive'
    BY <1>1, <1>2 DEF IInv, Exclusive
  <1>6. LockHeld'
    BY <1>1, <1>2 DEF IInv, LockHeld, Return
  <1> QED BY <1>4, <1>5, <1>6 DEF OpsInv

\* The table an operation in progress stands on has the level it expects.
LEMMA OpTableLevel ==
  ASSUME IInv, NEW c \in Cpus, op[c].kind # "idle"
  PROVE  \E h \in Handle, v \in Pages, d \in 1 .. 4, t \in Table :
           StandsOn(c, h, v, d, t) /\ level[t] = 5 - d
  <1>1. PICK h \in Handle, v \in Pages, d \in 1 .. 4, t \in Table : StandsOn(c, h, v, d, t)
    BY DEF IInv, OpsOnPath, OnPath
  <1>2. Live(h) /\ PathTo(Root(h), v, d) = t /\ t # NullAddr
    BY <1>1, ConstantsAssumption DEF StandsOn
  <1>3. level[t] = 5 - d
    BY <1>2, PathLevel
  <1> QED BY <1>1, <1>3

\* An operation that writes an entry of a page table (or nothing) and returns.
LEMMA LeafStep ==
  ASSUME IInv, NEW c \in Cpus, op[c].kind # "idle", op[c].depth = 4,
         NEW e \in Entry,
         mem' = mem \/ mem' = [mem EXCEPT ![op[c].table][op[c].v[4]] = e],
         Return(c), UNCHANGED <<pool, held, level, slots>>
  PROVE  IInv'
  <1> USE ConstantsAssumption
  <1>1. PICK h \in Handle, v \in Pages, t \in Table :
           /\ op[c].v = v /\ op[c].table = t /\ level[t] = 1
    BY OpTableLevel DEF StandsOn
  <1>2. v[4] \in Idx
    OBVIOUS
  <1>3. mem' \in [Table -> [Idx -> Entry]] /\ \A u \in Directories : mem'[u] = mem[u]
    <2>1. mem \in [Table -> [Idx -> Entry]] /\ t \notin Directories
      BY <1>1 DEF IInv, TypeOK, Directories
    <2>2. CASE mem' = [mem EXCEPT ![t][v[4]] = e]
      BY <1>2, <2>1, <2>2 DEF Directories
    <2> QED BY <1>1, <2>1, <2>2
  <1>4. TablesInv' /\ DirectoriesKept
    BY <1>3, DirectoriesUnchanged
  <1>5. OpsInv'
    BY <1>4, ReturnOps
  <1>6. TypeOK'
    <2>1. Idle.kind = "idle" /\ Idle \in Operation
      BY DEF Idle, Handle, Operation
    <2> QED BY <1>3, <2>1 DEF IInv, TypeOK, Return
  <1> QED BY <1>4, <1>5, <1>6 DEF IInv, TablesInv, OpsInv

\* The writes of map_4k, unmap_4k and protect_4k to a page table keep the invariant.
LEMMA LeafActions ==
  ASSUME IInv, NEW c \in Cpus, MapLeaf(c) \/ UnmapWrite(c) \/ ProtectWrite(c)
  PROVE  IInv'
  <1> USE ConstantsAssumption
  <1>1. op[c].to \in Table \cup PhysPages \cup {NullAddr}
    BY DEF IInv, TypeOK, Operation
  <1>2. \A flags : [p |-> TRUE, to |-> op[c].to, bits |-> flags_to_pte(flags)] \in Entry
    BY <1>1 DEF Entry, flags_to_pte
  <1>3. Zero \in Entry
    BY DEF Zero, Entry
  <1>4. op[c].kind # "idle" /\ op[c].depth = 4
    <2>1. op[c].kind # "idle" /\ (op[c].kind = "map" => op[c].depth = 4)
      BY Zenon DEF MapLeaf, UnmapWrite, ProtectWrite
    <2> QED BY <2>1, OpTableLevel DEF StandsOn
  <1>5. CASE MapLeaf(c)
    BY <1>2, <1>4, <1>5, LeafStep, Zenon DEF MapLeaf
  <1>6. CASE UnmapWrite(c)
    BY <1>3, <1>4, <1>6, LeafStep, Zenon DEF UnmapWrite
  <1>7. CASE ProtectWrite(c)
    BY <1>2, <1>4, <1>7, LeafStep, Zenon DEF ProtectWrite
  <1> QED BY <1>5, <1>6, <1>7

\* An operation that starts or moves on, touching no table.
LEMMA OpMoves ==
  ASSUME IInv, NEW c \in Cpus, NEW h \in Handle, NEW v \in Pages, NEW d \in 1 .. 4,
         NEW t \in Table,
         UNCHANGED <<mem, pool, held, level, slots>>,
         \A b \in Cpus \ {c} : op'[b] = op[b] /\ (op[b].kind # "idle" => op[b].h # h),
         op'[c].kind \in {"map", "unmap", "protect"},
         StandsOn(c, h, v, d, t)',
         (op'[c].kind = "map") <=> (lock' = c),
         lock' = lock \/ (lock = NoCpu /\ lock' = c),
         TypeOK'
  PROVE  IInv'
  <1> USE ConstantsAssumption
  <1>1. TablesInv' /\ DirectoriesKept
    BY DirectoriesUnchanged
  <1>2. \A g \in Handle : Live(g)' = Live(g) /\ Root(g)' = Root(g)
    BY DEF Live, Root
  <1>3. OpsOnPath'
    <2> SUFFICES ASSUME NEW b \in Cpus, op'[b].kind # "idle" PROVE OnPath(b)'
      BY DEF OpsOnPath
    <2>1. CASE b = c
      BY <2>1 DEF OnPath
    <2>2. CASE b # c
      <3>1. op'[b] = op[b] /\ op[b].kind # "idle"
        BY <2>2
      <3>2. PICK g \in Handle : op[b].h = g /\ Live(g)
        BY <3>1, SMTT(60) DEF IInv, OpsOnPath, OnPath, StandsOn
      <3>3. Live(g)' /\ Root(g)' = Root(g)
        BY <1>2, <3>2
      <3> QED BY <1>1, <3>1, <3>2, <3>3, OnPathKept
    <2> QED BY <2>1, <2>2
  <1>4. Exclusive'
    <2>1. op'[c].h = h
      BY DEF StandsOn
    <2> QED BY <2>1, SMTT(60) DEF IInv, Exclusive
  <1>5. LockHeld'
    BY SMTT(60) DEF IInv, LockHeld
  <1> QED BY <1>1, <1>3, <1>4, <1>5 DEF IInv, TablesInv

\* map_4k starts at the root of its space, or fails at once.
LEMMA MapBeginIInv ==
  ASSUME IInv, NEW c \in Cpus, NEW h \in Handle, NEW v \in Pages, NEW to \in PhysPages,
         NEW flags \in FlagSets, MapBegin(c, h, v, to, flags)
  PROVE  IInv'
  <1> USE ConstantsAssumption
  <1> DEFINE o == [kind |-> "map", h |-> h, v |-> v, to |-> to,
                   flags |-> flags, table |-> Root(h), depth |-> 1]
  <1>1. /\ op' = [op EXCEPT ![c] = o] /\ lock = NoCpu /\ lock' = c
        /\ UNCHANGED <<mem, pool, held, level, slots>>
        /\ op[c].kind = "idle" /\ Live(h) /\ ~Borrowed(h)
    BY DEF MapBegin, CanStart
  <1>2. Root(h) \in Table
    BY <1>1, RootLevel
  <1>3. o \in Operation
    BY <1>2 DEF Operation
  <1>4. o.kind = "map" /\ o.h = h /\ o.v = v /\ o.depth = 1 /\ o.table = Root(h)
    OBVIOUS
  <1> HIDE DEF o
  <1>5. TypeOK'
    BY <1>1, <1>3 DEF IInv, TypeOK
  <1>6. op'[c] = o /\ \A b \in Cpus \ {c} : op'[b] = op[b]
    BY <1>1 DEF IInv, TypeOK
  <1>7. \A b \in Cpus \ {c} : op[b].kind # "idle" => op[b].h # h
    BY <1>1 DEF Borrowed
  <1>8. PICK t \in Table : t = Root(h)
    BY <1>2, SMTT(60)
  <1>9. StandsOn(c, h, v, 1, t)'
    <2>1. Live(h)' /\ Root(h)' = Root(h)
      BY <1>1 DEF Live, Root
    <2>2. PathTo(Root(h), v, 1)' = t
      BY <1>8, <2>1 DEF PathTo
    <2> QED BY <1>4, <1>6, <1>8, <2>1, <2>2 DEF StandsOn
  <1> QED BY <1>1, <1>4, <1>5, <1>6, <1>7, <1>9, OpMoves

\* unmap_4k and protect_4k walk to the page table, or fail on the way.
LEMMA WalkBeginIInv ==
  ASSUME IInv, NEW c \in Cpus, NEW kind \in {"unmap", "protect"}, NEW h \in Handle,
         NEW v \in Pages, NEW flags \in SUBSET MapFlags, WalkBegin(c, kind, h, v, flags)
  PROVE  IInv'
  <1> USE ConstantsAssumption
  <1>1. PICK t : t = Walk(Root(h), v)
    BY SMTT(60)
  <1> DEFINE o == [kind |-> kind, h |-> h, v |-> v, to |-> mem[t][v[4]].to,
                   flags |-> flags, table |-> t, depth |-> 4]
  <1>2. /\ op' = [op EXCEPT ![c] = o] /\ t # NullAddr
        /\ UNCHANGED <<mem, pool, held, level, slots, lock>>
        /\ op[c].kind = "idle" /\ Live(h) /\ ~Borrowed(h)
    BY <1>1 DEF WalkBegin, CanStart
  <1>3. PathTo(Root(h), v, 4) = t
    BY <1>1, SMTT(60) DEF PathTo
  <1>4. t \in Table
    <2>1. 4 \in 1 .. 4 /\ PathTo(Root(h), v, 4) # NullAddr /\ Live(h)
      BY <1>2, <1>3, SMTT(60)
    <2>2. PathTo(Root(h), v, 4) \in Table
      BY <2>1, PathLevel, ZenonT(60)
    <2> QED BY <1>3, <2>2, Zenon
  <1>5. mem[t][v[4]].to \in Table \cup PhysPages \cup {NullAddr}
    <2>1. v[4] \in Idx
      OBVIOUS
    <2>2. mem[t][v[4]] \in Entry
      BY <1>4, <2>1 DEF IInv, TypeOK
    <2> QED BY <2>2 DEF Entry
  <1>6. o \in Operation
    BY <1>4, <1>5 DEF Operation
  <1>7. o.kind = kind /\ o.h = h /\ o.v = v /\ o.depth = 4 /\ o.table = t
    OBVIOUS
  <1> HIDE DEF o
  <1>8. TypeOK'
    BY <1>2, <1>6 DEF IInv, TypeOK
  <1>9. op'[c] = o /\ \A b \in Cpus \ {c} : op'[b] = op[b]
    BY <1>2 DEF IInv, TypeOK
  <1>10. \A b \in Cpus \ {c} : op[b].kind # "idle" => op[b].h # h
    BY <1>2, ZenonT(60) DEF Borrowed
  <1>11. StandsOn(c, h, v, 4, t)'
    <2>1. Live(h)' /\ Root(h)' = Root(h)
      BY <1>2 DEF Live, Root
    <2>2. PathTo(Root(h), v, 4)' = t
      BY <1>2, <1>3, <2>1, Zenon DEF PathTo, Walk, Descend, Root
    <2> QED BY <1>2, <1>7, <1>9, <2>1, <2>2 DEF StandsOn
  <1>12. lock' # c
    BY <1>2 DEF IInv, LockHeld
  <1>13. op'[c].kind \in {"map", "unmap", "protect"} /\ ((op'[c].kind = "map") <=> (lock' = c))
    BY <1>7, <1>9, <1>12, Zenon
  <1> QED BY <1>2, <1>4, <1>8, <1>9, <1>10, <1>11, <1>13, OpMoves

\* What ensure_table knows of the place it stands on.
LEMMA EnsurePlace ==
  ASSUME IInv, NEW c \in Cpus, op[c].kind = "map", op[c].depth \in 1 .. 3
  PROVE  \E h \in Handle, v \in Pages, d \in 1 .. 3, t \in Table :
           /\ StandsOn(c, h, v, d, t) /\ level[t] = 5 - d /\ v[d] \in Idx
           /\ op[c].h = h /\ op[c].v = v /\ op[c].depth = d /\ op[c].table = t
           /\ Live(h) /\ PathTo(Root(h), v, d) = t
           /\ \A b \in Cpus \ {c} : op[b].kind # "idle" => op[b].h # h
  <1>1. PICK h \in Handle, v \in Pages, d \in 1 .. 4, t \in Table :
           StandsOn(c, h, v, d, t) /\ level[t] = 5 - d
    BY OpTableLevel, SMTT(60)
  <1>2. d \in 1 .. 3 /\ v[d] \in Idx
    BY <1>1, ConstantsAssumption, SMTT(60) DEF StandsOn
  <1>3. op[c].h = h
    BY <1>1 DEF StandsOn
  <1>4. \A b \in Cpus \ {c} : op[b].kind # "idle" => op[b].h # h
    BY <1>3 DEF IInv, Exclusive
  <1> QED BY <1>1, <1>2, <1>4, SMTT(60) DEF StandsOn

\* The record of an operation that has moved one level down.
LEMMA MapToTyped ==
  ASSUME IInv, NEW c \in Cpus, op[c].depth \in 1 .. 3, NEW u \in Table, MapTo(c, u)
  PROVE  /\ op' \in [Cpus -> Operation]
         /\ op'[c].kind = op[c].kind /\ op'[c].h = op[c].h /\ op'[c].v = op[c].v
         /\ op'[c].table = u /\ op'[c].depth = op[c].depth + 1
         /\ \A b \in Cpus \ {c} : op'[b] = op[b]
  BY DEF IInv, TypeOK, Operation, MapTo

\* One more level of a walk.
LEMMA PathStep ==
  ASSUME NEW r, NEW v, NEW d \in 1 .. 3
  PROVE  PathTo(r, v, d + 1) = Descend(PathTo(r, v, d), v[d])
  <1>1. CASE d = 1
    BY <1>1 DEF PathTo
  <1>2. CASE d = 2
    BY <1>2 DEF PathTo
  <1>3. CASE d = 3
    BY <1>3 DEF PathTo, Walk
  <1> QED BY <1>1, <1>2, <1>3

\* The same of the walk in the next state.
LEMMA PathStepPrimed ==
  ASSUME NEW h \in Handle, NEW v \in Pages, NEW d \in 1 .. 3
  PROVE  PathTo(Root(h), v, d + 1)' = Descend(PathTo(Root(h), v, d), v[d])'
  <1>1. CASE d = 1
    BY <1>1 DEF PathTo
  <1>2. CASE d = 2
    BY <1>2 DEF PathTo
  <1>3. CASE d = 3
    BY <1>3, SMTT(60) DEF PathTo, Walk
  <1> QED BY <1>1, <1>2, <1>3

\* ensure_table, which stands on table t at depth d, finds the next table there.
FoundStep(c, h, v, d, t) ==
  /\ op[c].kind = "map" /\ op[c].h = h /\ op[c].v = v /\ op[c].depth = d /\ op[c].table = t
  /\ Live(h) /\ PathTo(Root(h), v, d) = t
  /\ level[t] = 5 - d /\ v[d] \in Idx /\ mem[t][v[d]].p
  /\ \A b \in Cpus \ {c} : op[b].kind # "idle" => op[b].h # h
  /\ MapTo(c, mem[t][v[d]].to)
  /\ UNCHANGED <<mem, pool, held, level, slots, lock>>

\* Such a step keeps the invariant.
LEMMA EnsureFinds ==
  ASSUME IInv, NEW c \in Cpus, NEW h \in Handle, NEW v \in Pages,
         NEW d \in 1 .. 3, NEW t \in Table, FoundStep(c, h, v, d, t)
  PROVE  IInv'
  <1>1. /\ op[c].kind = "map" /\ op[c].h = h /\ op[c].v = v /\ op[c].depth = d
        /\ Live(h) /\ PathTo(Root(h), v, d) = t /\ t # NullAddr
        /\ \A b \in Cpus \ {c} : op[b].kind # "idle" => op[b].h # h
        /\ UNCHANGED <<mem, pool, held, level, slots, lock>>
    BY ConstantsAssumption, Zenon DEF FoundStep
  <1>2. PICK u \in Table : u = mem[t][v[d]].to /\ MapTo(c, u)
    <2>1. t \in Directories /\ v[d] \in Idx /\ mem[t][v[d]].p /\ MapTo(c, mem[t][v[d]].to)
      <3>1. level[t] = 5 - d /\ v[d] \in Idx /\ mem[t][v[d]].p /\ MapTo(c, mem[t][v[d]].to)
        BY ZenonT(60) DEF FoundStep
      <3>2. t \in Directories
        BY <3>1, SMTT(60) DEF Directories
      <3> QED BY <3>1, <3>2, Zenon
    <2>2. IsLink(mem[t][v[d]])
      <3>1. d \in 1 .. 4 /\ d < 4
        OBVIOUS
      <3>2. Live(h) /\ PathTo(Root(h), v, d) # NullAddr
        BY <1>1, Zenon
      <3>3. d < 4 /\ mem[PathTo(Root(h), v, d)][v[d]].p
              => IsLink(mem[PathTo(Root(h), v, d)][v[d]])
        BY <3>1, <3>2, PathLevel, ZenonT(60)
      <3> QED BY <1>1, <2>1, <3>1, <3>3, Zenon
    <2>3. mem[t][v[d]].to \in Table
      BY <2>1, <2>2 DEF IInv, TableForest, EntriesLeadDown
    <2> QED BY <2>1, <2>3, Zenon
  <1>3. Descend(t, v[d]) = u
    BY <1>1, <1>2, Zenon DEF Descend, FoundStep
  <1>4. PathTo(Root(h), v, d + 1) = u
    BY <1>1, <1>3, PathStep, ZenonT(60)
  <1>5. /\ op'[c].kind = "map" /\ op'[c].h = h /\ op'[c].v = v
        /\ op'[c].table = u /\ op'[c].depth = d + 1
        /\ \A b \in Cpus \ {c} : op'[b] = op[b]
        /\ op' \in [Cpus -> Operation]
    BY <1>1, <1>2, MapToTyped, Zenon
  <1>6. TypeOK'
    BY <1>1, <1>5, Zenon DEF IInv, TypeOK
  <1>7. StandsOn(c, h, v, d + 1, u)'
    <2>1. Live(h)' /\ Root(h)' = Root(h)
      BY <1>1 DEF Live, Root
    <2>2. PathTo(Root(h), v, d + 1)' = u
      BY <1>1, <1>4, <2>1, ZenonT(60) DEF PathTo, Walk, Descend, Root
    <2> QED BY <1>5, <2>1, <2>2, Zenon DEF StandsOn
  <1>8. lock' = c /\ d + 1 \in 1 .. 4
    BY <1>1 DEF IInv, LockHeld
  <1> QED BY <1>1, <1>5, <1>6, <1>7, <1>8, OpMoves, SMTT(60)

\* ensure_table finds the table.
LEMMA EnsurePresent ==
  ASSUME IInv, NEW c \in Cpus, op[c].kind = "map", op[c].depth \in 1 .. 3,
         mem[op[c].table][op[c].v[op[c].depth]].p,
         MapTo(c, mem[op[c].table][op[c].v[op[c].depth]].to),
         UNCHANGED <<mem, pool, held, level, slots, lock>>
  PROVE  IInv'
  <1>1. PICK h \in Handle, v \in Pages, d \in 1 .. 3, t \in Table :
           /\ StandsOn(c, h, v, d, t) /\ level[t] = 5 - d /\ v[d] \in Idx
           /\ op[c].h = h /\ op[c].v = v /\ op[c].depth = d /\ op[c].table = t
           /\ Live(h) /\ PathTo(Root(h), v, d) = t
           /\ \A b \in Cpus \ {c} : op[b].kind # "idle" => op[b].h # h
    BY EnsurePlace, Zenon
  <1>2. FoundStep(c, h, v, d, t)
    BY <1>1, Zenon DEF FoundStep
  <1> QED BY <1>2, EnsureFinds, Zenon

\* ensure_table runs out of frames.
LEMMA EnsureFails ==
  ASSUME IInv, NEW c \in Cpus, Return(c), UNCHANGED <<mem, pool, held, level, slots>>
  PROVE  IInv'
  <1> USE ConstantsAssumption
  <1>1. TablesInv' /\ DirectoriesKept
    BY DirectoriesUnchanged
  <1>2. OpsInv'
    BY <1>1, ReturnOps
  <1>3. TypeOK'
    <2>1. Idle.kind = "idle" /\ Idle \in Operation
      BY DEF Idle, Handle, Operation
    <2> QED BY <2>1 DEF IInv, TypeOK, Return
  <1> QED BY <1>1, <1>2, <1>3 DEF IInv, TablesInv, OpsInv

\* A frame in the pool is no table, and no entry leads to it.
LEMMA FreshFrame ==
  ASSUME IInv, NEW f \in pool
  PROVE  /\ f \in Frames /\ f \in Table /\ f \notin held /\ f \notin BootTables /\ level[f] = 0
         /\ f \notin Directories /\ f # BootRoot
         /\ \A t \in Directories, i \in Idx : IsLink(mem[t][i]) => mem[t][i].to # f
         /\ \A s \in Slot : slots[s].used => slots[s].pml4_phys # f
  <1>1. f \in Frames /\ f \notin held /\ f \notin BootTables
    BY DEF Premises, BootTablesOutsidePool, IInv, TypeOK, TableForest, TablesAreHeld
  <1>2. f \in Table /\ level[f] = 0
    BY <1>1 DEF IInv, TypeOK, TableForest, TablesAreHeld
  <1>3. f # BootRoot /\ f \notin Directories
    BY <1>1, <1>2, BootAssumption DEF Directories
  <1>4. \A t \in Directories, i \in Idx : IsLink(mem[t][i]) => mem[t][i].to # f
    BY <1>2 DEF IInv, TableForest, EntriesLeadDown, Directories
  <1>5. \A s \in Slot : slots[s].used => slots[s].pml4_phys # f
    BY <1>1 DEF IInv, TableForest, RootsAreOwn
  <1> QED BY <1>1, <1>2, <1>3, <1>4, <1>5
=============================================================================
