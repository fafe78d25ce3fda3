------------------------------ MODULE FastMLock ------------------------------
(***************************************************************************)
(* The multi-lock of lib/libtk/fastmlock.c, which device management uses   *)
(* for LockDM() and LockREG(): a word of lock bits, a count of the tasks   *)
(* that are locking, and an event flag on which they wait.  INC, DEC, BTS  *)
(* and BR disable the interrupts of the processor that executes them, and  *)
(* read, change and write their word: the other processor goes on in the   *)
(* meantime.  The event flag is a single step each time, since its calls   *)
(* are under the kernel lock.                                              *)
(***************************************************************************)
EXTENDS Integers, FiniteSets, Tasks

CONSTANTS
    Affinity,  \* the processors each task may run on
    LockNo,    \* the numbers of the locks
    NoCore

ASSUME MLockAssumption ==
    /\ \A t \in Task : Affinity[t] # {} /\ NoCore \notin Affinity[t]

VARIABLES
    flg,     \* FastMLock.flg, the set of its bits
    wai,     \* FastMLock.wai
    flgptn,  \* the pattern of the event flag
    mpc,     \* where each task is
    no,      \* the number of the lock it uses
    reg,     \* the word it has read with interrupts disabled
    ok,      \* ercd of MLockTmo()
    mat      \* the processor it executes on with interrupts disabled

mlockvars == <<flg, wai, flgptn, mpc, no, reg, ok, mat>>

MLockInit ==
    /\ flg = {} /\ wai = 0 /\ flgptn = {}
    /\ mpc = [t \in Task |-> "out"]
    /\ no \in [Task -> LockNo]
    /\ reg = [t \in Task |-> 0]
    /\ ok = [t \in Task |-> TRUE]
    /\ mat = [t \in Task |-> NoCore]

Is(t, p)   == mpc[t] = p
Goes(t, p) == mpc' = [mpc EXCEPT ![t] = p]

\* DI, and the word is read, on a processor whose interrupts are enabled.
Read(t, word, p) ==
    /\ \E c \in Affinity[t] :
         /\ \A u \in Task : mat[u] # c
         /\ mat' = [mat EXCEPT ![t] = c]
    /\ reg' = [reg EXCEPT ![t] = word]
    /\ Goes(t, p)
    /\ UNCHANGED <<flg, wai, flgptn, no, ok>>

\* The word has been written: EI.
Enabled(t, p) ==
    /\ mat' = [mat EXCEPT ![t] = NoCore]
    /\ reg' = [reg EXCEPT ![t] = 0]
    /\ Goes(t, p)

\* MLockTmo(): INC(&lock->wai).
Inc(t) ==
    \/ Is(t, "out") /\ Read(t, wai, "inc")
    \/ /\ Is(t, "inc")
       /\ wai' = reg[t] + 1
       /\ Enabled(t, "bts")
       /\ UNCHANGED <<flg, flgptn, no, ok>>

\* Mutant: the bit is tested, and set only afterwards.
BtsTests(t) ==
    \/ Is(t, "bts") /\ Read(t, flg, "test")
    \/ /\ Is(t, "test")
       /\ Enabled(t, IF no[t] \in reg[t] THEN "wait" ELSE "set")
       /\ UNCHANGED <<flg, wai, flgptn, no, ok>>
    \/ /\ Is(t, "set")
       /\ flg' = flg \cup {no[t]}
       /\ ok' = [ok EXCEPT ![t] = TRUE]
       /\ Goes(t, "dec")
       /\ UNCHANGED <<wai, flgptn, no, reg, mat>>

\* Mutant: the old value of the bit is taken for success.
BtsSucceeds(t) ==
    \/ Is(t, "bts") /\ Read(t, flg, "test")
    \/ /\ Is(t, "test")
       /\ flg' = reg[t] \cup {no[t]}
       /\ ok' = [ok EXCEPT ![t] = TRUE]
       /\ Enabled(t, IF no[t] \in reg[t] THEN "dec" ELSE "wait")
       /\ UNCHANGED <<wai, flgptn, no>>

\* BTS(&lock->flg, no): the lock is taken if its bit was clear.
Bts(t) ==
    \/ Is(t, "bts") /\ Read(t, flg, "test")
    \/ /\ Is(t, "test")
       /\ flg' = reg[t] \cup {no[t]}
       /\ ok' = [ok EXCEPT ![t] = TRUE]
       /\ Enabled(t, IF no[t] \in reg[t] THEN "wait" ELSE "dec")
       /\ UNCHANGED <<wai, flgptn, no>>

\* tk_wai_flg(): the bit is there and is cleared, or the task sleeps.
tk_wai_flg(t) ==
    /\ Is(t, "wait")
    /\ IF no[t] \in flgptn
       THEN flgptn' = flgptn \ {no[t]} /\ Goes(t, "bts")
       ELSE Goes(t, "sleep") /\ UNCHANGED flgptn
    /\ UNCHANGED <<flg, wai, no, reg, ok, mat>>

\* Its time is up, or it is released by tk_rel_wai().
GiveUp(t) ==
    /\ Is(t, "sleep")
    /\ ok' = [ok EXCEPT ![t] = FALSE]
    /\ Goes(t, "dec")
    /\ UNCHANGED <<flg, wai, flgptn, no, reg, mat>>

\* DEC(&lock->wai), and the end of MLockTmo().
Dec(t) ==
    \/ Is(t, "dec") /\ Read(t, wai, "sub")
    \/ /\ Is(t, "sub")
       /\ wai' = reg[t] - 1
       /\ Enabled(t, IF ok[t] THEN "in" ELSE "out")
       /\ UNCHANGED <<flg, flgptn, no, ok>>

\* MUnlock(): BR(&lock->flg, no).
Br(t) ==
    \/ Is(t, "in") /\ Read(t, flg, "clear")
    \/ /\ Is(t, "clear")
       /\ flg' = reg[t] \ {no[t]}
       /\ Enabled(t, "look")
       /\ UNCHANGED <<wai, flgptn, no, ok>>

\* MUnlock(): lock->wai == 0.
Look(t) ==
    /\ Is(t, "look")
    /\ Goes(t, IF wai = 0 THEN "out" ELSE "signal")
    /\ UNCHANGED <<flg, wai, flgptn, no, reg, ok, mat>>

Sleepers(n) == {t \in Task : Is(t, "sleep") /\ no[t] = n}

\* tk_set_flg(): one task that waits for the bit is released, and clears it.
tk_set_flg(t) ==
    /\ Is(t, "signal")
    /\ IF Sleepers(no[t]) = {}
       THEN flgptn' = flgptn \cup {no[t]} /\ Goes(t, "out")
       ELSE /\ \E u \in Sleepers(no[t]) : mpc' = [mpc EXCEPT ![t] = "out", ![u] = "bts"]
            /\ UNCHANGED flgptn
    /\ UNCHANGED <<flg, wai, no, reg, ok, mat>>

MLockNext ==
    \E t \in Task :
        \/ Inc(t) \/ Bts(t) \/ tk_wai_flg(t) \/ GiveUp(t) \/ Dec(t)
        \/ Br(t) \/ Look(t) \/ tk_set_flg(t)

MLockSpec == MLockInit /\ [][MLockNext]_mlockvars

-----------------------------------------------------------------------------
\* A task has the lock from the moment it found the bit clear until it has
\* cleared it again.
Has(t) ==
    \/ mpc[t] \in {"in", "clear"}
    \/ ok[t] /\ mpc[t] \in {"dec", "sub"}

\* "The above must be operated exclusively" (INC, DEC, BTS and BR): no two
\* tasks have the same lock.
MLockExcludes ==
    \A t, u \in Task : Has(t) /\ Has(u) /\ no[t] = no[u] => t = u

\* No task sleeps for a lock with nobody left to wake it: while it does,
\* another task is on its way through MLockTmo() or MUnlock() of that lock.
SleeperIsWoken ==
    \A t \in Task :
        Is(t, "sleep") => \E u \in Task : no[u] = no[t] /\ mpc[u] \notin {"sleep", "out"}
=============================================================================
