------------------------------ MODULE FixedPool ------------------------------
(***************************************************************************)
(* Fixed size memory pools (mempfix.c).  These calls hold the lock of the  *)
(* object (klock.c) for most of their length and the kernel lock only for  *)
(* what concerns waiting tasks, so that timeouts, terminations and changes *)
(* of priority come in between.                                            *)
(***************************************************************************)
EXTENDS WaitQueue

CONSTANT BlkCnt    \* number of blocks of the pool

\* tk_cre_mpf() refuses a number of blocks that is not positive.
ASSUME MpfAssumption ==
    /\ BlkCnt \in Nat \ {0}
    /\ None \notin 1 .. BlkCnt

VARIABLES
    holder,      \* the task that holds the object lock
    doing,       \* what each task is about to do: [call, blk]
    freelist,    \* the returned blocks
    unused,      \* the first block that was never handed out
    frbcnt,
    used         \* history: the blocks the program has

mpfvars == <<holder, doing, freelist, unused, frbcnt, used>>

Blocks == 1 .. BlkCnt

Idle == [call |-> "none", blk |-> None]

MpfInit ==
    /\ holder = None /\ doing = [t \in Task |-> Idle]
    /\ freelist = << >> /\ unused = 1 /\ frbcnt = BlkCnt
    /\ used = {}

pool == <<freelist, unused, frbcnt>>

\* knl_LockOBJ() at the beginning of a call, as soon as no other task holds
\* the lock.  A block being returned is no longer the program's; a control
\* block is taken for a new pool by one task at a time.
Enter(t, call, blk) ==
    /\ tstat[t] = "run"
    /\ doing[t] = Idle /\ holder = None
    /\ call = "cre" => ~exists
    /\ call = "rel" => blk \in used \ {out[u] : u \in Task}
    /\ call # "rel" => blk = None
    /\ holder' = t
    /\ doing' = [doing EXCEPT ![t] = [call |-> call, blk |-> blk]]
    /\ used' = used \ {blk}
    /\ UNCHANGED <<wvars, pool>>

\* knl_UnlockOBJ(), and the end of the call.
knl_UnlockOBJ(t) == holder' = None /\ doing' = [doing EXCEPT ![t] = Idle]

At(t, call) == doing[t].call = call

\* The call goes on to its next part.
Proceeds(t, call) ==
    /\ doing' = [doing EXCEPT ![t].call = call]
    /\ UNCHANGED holder

\* The pool does not exist (any more): E_NOEXS.
NoPool(t) ==
    /\ doing[t].call \in {"get", "rel", "del"} /\ ~exists
    /\ knl_UnlockOBJ(t)
    /\ UNCHANGED <<wvars, pool, used>>

tk_cre_mpf(t, bypri) ==
    /\ At(t, "cre")
    /\ Create(bypri)
    /\ freelist' = << >> /\ unused' = 1 /\ frbcnt' = BlkCnt /\ used' = {}
    /\ knl_UnlockOBJ(t)

tk_del_mpf(t) ==
    /\ At(t, "del")
    /\ Delete
    /\ freelist' = << >> /\ unused' = 1 /\ frbcnt' = BlkCnt /\ used' = {}
    /\ knl_UnlockOBJ(t)

\* tk_get_mpf() with a free block.
TakeBlock(t) ==
    LET blk == IF freelist # << >> THEN Head(freelist) ELSE unused IN
    /\ At(t, "get") /\ exists
    /\ frbcnt > 0
    /\ freelist' = IF freelist # << >> THEN Tail(freelist) ELSE freelist
    /\ unused' = IF freelist # << >> THEN unused ELSE unused + 1
    /\ frbcnt' = frbcnt - 1
    /\ used' = used \cup {blk}
    /\ Completes(t, blk)
    /\ knl_UnlockOBJ(t)
    /\ UNCHANGED rest

\* "goto wait_mpf", and the critical section there.
NoBlock(t) ==
    /\ At(t, "get") /\ exists
    /\ frbcnt <= 0
    /\ Proceeds(t, "wait")
    /\ UNCHANGED <<wvars, pool, used>>

WaitForBlock(t) ==
    /\ At(t, "wait")
    /\ MakeWait(t, "wait", None, tpri)
    /\ knl_UnlockOBJ(t)
    /\ UNCHANGED <<pool, used>>

\* tk_rel_mpf(): the test of the wait queue and the release of the first
\* task, under the kernel lock.
HandOver(t) ==
    /\ At(t, "rel") /\ exists
    /\ queue["wait"] # << >>
    /\ ReleaseOk(Head(queue["wait"]), "wait", doing[t].blk)
    /\ used' = used \cup {doing[t].blk}
    /\ holder' = holder
    /\ doing' = [doing EXCEPT ![t] = [call |-> "unlock", blk |-> None]]
    /\ UNCHANGED <<rest, pool>>

NobodyWaits(t) ==
    /\ At(t, "rel") /\ exists
    /\ queue["wait"] = << >>
    /\ Proceeds(t, "put")
    /\ UNCHANGED <<wvars, pool, used>>

\* The rest of tk_rel_mpf(), after the kernel lock has been released.
PutBlock(t) ==
    /\ At(t, "put")
    /\ freelist' = <<doing[t].blk>> \o freelist
    /\ frbcnt' = frbcnt + 1
    /\ knl_UnlockOBJ(t)
    /\ UNCHANGED <<wvars, unused, used>>

Leave(t) ==
    /\ At(t, "unlock")
    /\ knl_UnlockOBJ(t)
    /\ UNCHANGED <<wvars, pool, used>>

\* There is no release hook.
MpfWithdraw(t) == Withdrawn(t, "wait") /\ rest' = << >> /\ UNCHANGED mpfvars

\* knl_mpf_chg_pri().
MpfReorder(t, p) == tpri /\ Reordered(t, "wait", p) /\ UNCHANGED <<rest, mpfvars>>

MpfNext ==
    \E t \in Task :
      \/ \E call \in {"cre", "del", "get", "rel"}, blk \in Blocks \cup {None} :
           Enter(t, call, blk)
      \/ NoPool(t)
      \/ \E bypri \in BOOLEAN : tk_cre_mpf(t, bypri)
      \/ tk_del_mpf(t)
      \/ TakeBlock(t) \/ NoBlock(t) \/ WaitForBlock(t)
      \/ HandOver(t) \/ NobodyWaits(t) \/ PutBlock(t) \/ Leave(t)
      \/ MpfWithdraw(t)
      \/ \E p \in Pri :
           \/ MpfReorder(t, p)
           \/ ChangePriority(t, p, IF tpri THEN {"wait"} ELSE {}) /\ UNCHANGED mpfvars
      \/ Return(t) /\ UNCHANGED mpfvars

-----------------------------------------------------------------------------
\* No task waits while a block is free: although the decision to wait and the
\* decision that nobody waits are taken before the steps that follow them.
MpfNobodyLeft == queue["wait"] # << >> => frbcnt = 0

\* A block is free, being returned or with the program, never two of them; the
\* count is that of the free ones.
BlocksAccounted ==
    LET fresh == {b \in Blocks : b >= unused}
        moving == {doing[t].blk : t \in Task} \ {None}
    IN
    /\ frbcnt = Len(freelist) + Cardinality(fresh)
    /\ Cardinality(Range(freelist)) = Len(freelist)
    /\ Range(freelist) \cap fresh = {}
    /\ exists => Cardinality(used) + frbcnt + Cardinality(moving) = BlkCnt
    /\ (used \cup moving) \cap (Range(freelist) \cup fresh) = {}
=============================================================================
