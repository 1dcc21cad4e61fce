----------------------------- MODULE Allocator -----------------------------
(***************************************************************************)
(* What the containers of the order books rely on in their allocators:     *)
(* memory handed out is not handed out a second time before it is given    *)
(* back.  It says nothing of where the memory comes from.                  *)
(***************************************************************************)
EXTENDS Integers

VARIABLES
  held,            \* the pieces of memory the containers own
  owed             \* how often memory was handed out and not yet given back

\* Two pieces share a cell of the same block of memory.
Overlap(r, s) ==
  r.block = s.block /\ r.at < s.at + s.size /\ s.at < r.at + r.size

Init == held = {} /\ owed = 0

Allocate(r) ==
  /\ \A h \in held : ~Overlap(r, h)
  /\ held' = held \cup {r}
  /\ owed' = owed + 1

Deallocate(r) ==
  /\ held' = held \ {r}
  /\ owed' = owed - 1

Next == \/ \E r \in held' : Allocate(r)
        \/ \E r \in held : Deallocate(r)

Spec == Init /\ [][Next]_<<held, owed>>

=============================================================================
