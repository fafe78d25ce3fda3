------------------------------ MODULE AreaQueue ------------------------------
(***************************************************************************)
(* The allocator of variable size memory pools (mempool.c) and of the      *)
(* kernel's own memory (memory.c), as operators on a heap.  An area starts *)
(* with its AreaQue entry, of the size of one unit; its memory is behind   *)
(* the entry and ends where the next area starts.  The first area of a     *)
(* pool has its entry in the control block, that is, at -1.                *)
(*                                                                         *)
(*   heap.areaque  the offsets of the entries, ascending                   *)
(*   heap.freeque  the free ones in the order of their sizes; those of     *)
(*                 one size are the first registered, then the others,     *)
(*                 the latest first                                        *)
(*   heap.size     the size of the memory                                  *)
(***************************************************************************)
EXTENDS Integers, FiniteSets, Sequences, SequencesExt

\* MIN_FRAGMENT and the size of an AreaQue entry, in units of sizeof(QUEUE).
MIN_FRAGMENT == 2
ENTRY        == 1

Empty(first, size) == [areaque |-> {first}, freeque |-> <<first>>, size |-> size]

\* AreaSize(), and the neighbours of an area.
NextOf(h, a) ==
    LET later == {b \in h.areaque : b > a} \cup {h.size}
    IN  CHOOSE b \in later : \A x \in later : b <= x
PrevOf(h, a) == {b \in h.areaque : b < a /\ \A x \in h.areaque : x < a => x <= b}
AreaSize(h, a) == NextOf(h, a) - (a + ENTRY)

Free(h) == Range(h.freeque)

\* knl_searchFreeArea(): the position of the first free area of that size or
\* a larger one; one past the end if there is none.
knl_searchFreeArea(h, size) ==
    LET fit == {i \in DOMAIN h.freeque : AreaSize(h, h.freeque[i]) >= size}
                 \cup {Len(h.freeque) + 1}
    IN  CHOOSE i \in fit : \A j \in fit : i <= j

\* knl_appendFreeArea(), knl_appendFreeAreaBound(): behind the first one of
\* its size, or in the order of the sizes.
knl_appendFreeArea(h, a) ==
    LET i    == knl_searchFreeArea(h, AreaSize(h, a))
        same == i <= Len(h.freeque) /\ AreaSize(h, h.freeque[i]) = AreaSize(h, a)
    IN  [h EXCEPT !.freeque = InsertAt(@, IF same THEN i + 1 ELSE i, a)]

\* knl_removeFreeQue() of a free area, and with the area itself
\* knl_removeAreaQue().
knl_removeFreeQue(h, a) ==
    [h EXCEPT !.freeque = RemoveAt(@, CHOOSE i \in DOMAIN @ : @[i] = a)]
knl_removeAreaQue(h, a) == [h EXCEPT !.areaque = @ \ {a}]
Absorbed(h, a) == knl_removeAreaQue(knl_removeFreeQue(h, a), a)

\* knl_MaxFreeSize().
knl_MaxFreeSize(h) ==
    IF h.freeque = << >> THEN 0 ELSE AreaSize(h, h.freeque[Len(h.freeque)])

\* The area knl_get_blk() and knl_Imalloc() take for a block of that size.
Taken(h, size) == h.freeque[knl_searchFreeArea(h, size)]

\* The rest of them: the area is divided if what remains is large enough to
\* be an area.
knl_get_blk(h, size) ==
    LET a      == Taken(h, size)
        taken  == knl_removeFreeQue(h, a)
        second == a + ENTRY + size
    IN  IF AreaSize(h, a) - size >= MIN_FRAGMENT + ENTRY
        THEN knl_appendFreeArea([taken EXCEPT !.areaque = @ \cup {second}], second)
        ELSE taken

\* Mutant: a free area in front of the block is not merged with it.
knl_rel_blkForward(h, a) ==
    LET next == NextOf(h, a)
        fore == IF next \in Free(h) THEN Absorbed(h, next) ELSE h
    IN  knl_appendFreeArea(fore, a)

\* knl_rel_blk(), knl_Ifree(): merge with the next and the previous area if
\* they are free, then register.
knl_rel_blk(h, a) ==
    LET next == NextOf(h, a)
        fore == IF next \in Free(h) THEN Absorbed(h, next) ELSE h
        prev == PrevOf(h, a) \cap Free(h)
        whole == CHOOSE b \in prev : TRUE
        back == knl_removeAreaQue(knl_removeFreeQue(fore, whole), a)
    IN  IF prev = {} THEN knl_appendFreeArea(fore, a) ELSE knl_appendFreeArea(back, whole)

\* The blocks handed out are the areas in use; areas tile the memory without
\* two free ones in a row and without one too small to be used; the free
\* queue holds the free ones once each, in the order of their sizes.
WellFormed(h, blocks) ==
    /\ Free(h) \cap blocks = {} /\ Free(h) \cup blocks = h.areaque
    /\ \A a \in h.areaque : AreaSize(h, a) >= MIN_FRAGMENT
    /\ \A a \in Free(h) : NextOf(h, a) \notin Free(h)
    /\ \A i, j \in DOMAIN h.freeque : i < j =>
         /\ h.freeque[i] # h.freeque[j]
         /\ AreaSize(h, h.freeque[i]) <= AreaSize(h, h.freeque[j])
=============================================================================
