---------------------------- MODULE AddressSpaces ----------------------------
(***************************************************************************)
(* What the Mmu trait (crates/hal/src/mmu.rs) promises of the user half of *)
(* address spaces, with no page tables in sight: each live space is a      *)
(* function from pages to entries, born empty, and an operation changes    *)
(* one page of one space.                                                  *)
(***************************************************************************)
EXTENDS Integers

CONSTANTS Handle, UserPage,
          Zero           \* the entry of a page that is not mapped

VARIABLES live,          \* the address spaces that exist
          view           \* what each one maps each of its user pages to

vars == <<live, view>>

Init == /\ live \subseteq Handle
        /\ \A h \in Handle : \A v \in UserPage : h \notin live => view[h][v] = Zero

address_space_new(h) == /\ h \notin live
                        /\ live' = live \cup {h}
                        /\ view' = view

address_space_destroy(h) ==
  /\ h \in live
  /\ live' = live \ {h}
  /\ view' = [view EXCEPT ![h] = [v \in UserPage |-> Zero]]

\* The operations on page v of space h, by the entry e the page has afterwards.
map_4k(h, v, e) == ~view[h][v].p /\ e.p
unmap_4k(h, v, e) == view[h][v].p /\ e = Zero
protect_4k(h, v, e) == view[h][v].p /\ e.p /\ e.to = view[h][v].to

Update(h, v) ==
  /\ h \in live
  /\ \/ map_4k(h, v, view'[h][v])
     \/ unmap_4k(h, v, view'[h][v])
     \/ protect_4k(h, v, view'[h][v])
  /\ view' = [view EXCEPT ![h][v] = view'[h][v]]
  /\ live' = live

Next == \E h \in Handle : \/ address_space_new(h)
                          \/ address_space_destroy(h)
                          \/ \E v \in UserPage : Update(h, v)

Spec == Init /\ [][Next]_vars
=============================================================================
