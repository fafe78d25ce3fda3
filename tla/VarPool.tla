------------------------------- MODULE VarPool -------------------------------
(***************************************************************************)
(* Variable size memory pools (mempool.c) on top of the allocator of       *)
(* module AreaQueue.  Sizes are in units of sizeof(QUEUE).                 *)
(***************************************************************************)
EXTENDS WaitQueue, AreaQueue

CONSTANTS
    MplSz,    \* size of the pool
    BlkSz     \* the sizes asked for

\* tk_cre_mpl() rounds the size up with roundSize(), tk_get_mpl() refuses a
\* size that is not positive.
ASSUME MplAssumption ==
    /\ MplSz \in Nat /\ MplSz >= MIN_FRAGMENT
    /\ BlkSz \subseteq Nat \ {0}

VARIABLES
    heap,
    lent      \* history: the blocks handed out and not returned

mplvars == <<heap, lent>>

\* roundSize() of a size that is a number of units.
roundSize(sz) == IF sz < MIN_FRAGMENT THEN MIN_FRAGMENT ELSE sz

\* init_mempool(): the entry of the first area is in the control block.
init_mempool == Empty(-ENTRY, MplSz)

MplInit == heap = init_mempool /\ lent = {}

\* The memory of the area with entry a.
Block(a) == a + ENTRY
EntryOf(blk) == blk - ENTRY

\* The block that knl_get_blk() returns; what it does to the heap.
Got(sz) == Block(Taken(heap, sz))
knl_get_blk_of(sz) ==
    /\ heap' = knl_get_blk(heap, sz)
    /\ lent' = lent \cup {Got(sz)}

tk_cre_mpl(bypri) ==
    /\ Create(bypri)
    /\ heap' = init_mempool /\ lent' = {}

\* The contents of a control block that is not in use are never read; they
\* are made equal.
tk_del_mpl ==
    /\ Delete
    /\ heap' = init_mempool /\ lent' = {}

tk_get_mpl(t, sz) ==
    LET gets == IsTop("wait", t) /\ roundSize(sz) <= knl_MaxFreeSize(heap) IN
    /\ Calls(t)
    /\ \/ /\ gets
          /\ Completes(t, Got(roundSize(sz)))
          /\ knl_get_blk_of(roundSize(sz))
          /\ UNCHANGED rest
       \/ /\ ~gets
          /\ MakeWait(t, "wait", roundSize(sz), tpri)
          /\ UNCHANGED mplvars

\* A block that some task has been given and has seen is returned.
tk_rel_mpl(blk) ==
    /\ Unlocked /\ exists
    /\ blk \in lent \ {out[t] : t \in Task}
    /\ heap' = knl_rel_blk(heap, EntryOf(blk))
    /\ lent' = lent \ {blk}
    /\ rest' = queue["wait"]
    /\ UNCHANGED <<gcb, tcb>>

\* One turn of the loop of knl_mpl_wakeup().
knl_mpl_wakeup ==
    LET t == Head(rest) IN
    /\ rest # << >>
    /\ \/ /\ winfo[t] > knl_MaxFreeSize(heap)
          /\ rest' = << >>
          /\ UNCHANGED <<gcb, tcb, mplvars>>
       \/ /\ winfo[t] <= knl_MaxFreeSize(heap)
          /\ knl_get_blk_of(winfo[t])
          /\ ReleaseOk(t, "wait", Got(winfo[t]))
          /\ rest' = Tail(rest)

\* mpl_rel_wai().
mpl_rel_wai(t) ==
    /\ Withdrawn(t, "wait")
    /\ rest' = queue'["wait"]
    /\ UNCHANGED mplvars

mpl_chg_pri(t, p) ==
    /\ tpri
    /\ Reordered(t, "wait", p)
    /\ rest' = queue'["wait"]
    /\ UNCHANGED mplvars

MplNext ==
    \/ \E bypri \in BOOLEAN : tk_cre_mpl(bypri)
    \/ tk_del_mpl
    \/ \E blk \in lent : tk_rel_mpl(blk)
    \/ knl_mpl_wakeup
    \/ \E t \in Task :
         \/ \E sz \in BlkSz : tk_get_mpl(t, sz)
         \/ mpl_rel_wai(t)
         \/ \E p \in Pri :
              \/ mpl_chg_pri(t, p)
              \/ ChangePriority(t, p, IF tpri THEN {"wait"} ELSE {}) /\ UNCHANGED mplvars
         \/ Return(t) /\ UNCHANGED mplvars

-----------------------------------------------------------------------------
\* The first task waits only while no free area is large enough for it,
\* whatever returned, split or merged areas and whoever left the queue.
MplNobodyLeft ==
    Unlocked /\ queue["wait"] # << >> =>
        winfo[Head(queue["wait"])] > knl_MaxFreeSize(heap)

\* The blocks lent are the areas in use, and the heap is in order, after any
\* sequence of requests and returns by any tasks.
HeapWellFormed == WellFormed(heap, {EntryOf(blk) : blk \in lent})
=============================================================================
